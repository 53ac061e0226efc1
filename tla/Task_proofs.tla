----------------------------- MODULE Task_proofs -----------------------------
(***************************************************************************)
(* For any variables and commands: the index of a result or task names the *)
(* object in its storage, every T is destroyed once, and a command has one *)
(* owner until it is cancelled once, through every construction, move and  *)
(* assignment and whichever constructor throws.                            *)
(***************************************************************************)
EXTENDS Task, FiniteSetTheorems, TLAPS

Memory == [index : [Slot -> Kind \cup {"out"}], object : [Slot -> Objects],
           count : Int, cancels : [Cmd -> Nat]]

LiveIn(mem) == {s \in Slot : mem.object[s] \in Live}

(* Between two operations, and between the clearing of a task and what is  *)
(* then built in it: the index names the object, only a result is left     *)
(* without the content that was moved out of it, only a task has no        *)
(* result, and the T that were built and not destroyed are in variables.   *)
Sound(mem) ==
  /\ mem \in Memory
  /\ \A s \in Slot : KindOf(mem.object[s]) = mem.index[s]
  /\ \A t \in Task : mem.object[t] \notin {"moved", "null_exception"}
  /\ \A r \in Slot \ Task : mem.index[r] \in Alternative \cup {"out"}
  /\ IsFiniteSet(LiveIn(mem))
  /\ mem.count = Cardinality(LiveIn(mem))

(* It is sound and has these objects and these counts of cancels. *)
SoundWith(mem, object, cancels) ==
  Sound(mem) /\ mem.object = object /\ mem.cancels = cancels

(* What a slot holds after a construction of x. *)
Arrives(x, throws) == IF x \in Live /\ throws THEN "exception" ELSE x

(* A command is nowhere before it is made; then it is in one task and has  *)
(* not been cancelled, or in none and has been, once.                      *)
NotIn(mem, c) == \A s \in Slot : mem.object[s] # c

Owned(mem, c, known) ==
  \/ c \notin known /\ mem.cancels[c] = 0 /\ NotIn(mem, c)
  \/ c \in known /\ mem.cancels[c] = 1 /\ NotIn(mem, c)
  \/ /\ c \in known /\ mem.cancels[c] = 0
     /\ \E t \in Task : \A s \in Slot : mem.object[s] = c <=> s = t

(* The result that clear() discards is there only while it runs. *)
IInv == /\ Sound(m)
        /\ m.object[Temp] = "none"
        /\ made \subseteq Cmd
        /\ fault \in {"none", "read_destroyed"}
        /\ \A c \in Cmd : Owned(m, c, made)

-----------------------------------------------------------------------------
(* What the index, the object and the kinds have to do with each other.    *)

(* What kind each object is of. *)
LEMMA KindsOfObjects ==
  ASSUME NEW x \in Objects
  PROVE  /\ KindOf(x) = "value" <=> x \in Live
         /\ KindOf(x) = "exception" <=> x \in {"exception", "null_exception"}
         /\ KindOf(x) = "command" <=> x \in Cmd
         /\ KindOf(x) = "out" <=> x = "none"
         /\ KindOf(x) = "nulltask" <=> x = "nulltask"
         /\ KindOf(x) = "error_code" <=> x = "error_code"
         /\ KindOf(x) \in Kind \cup {"out"}
<1> USE SlotAssumption DEF Objects, NotCommands, Live, Kind, Alternative
<1>1. CASE x \in Live
  BY <1>1 DEF KindOf
<1>2. CASE x \in {"exception", "null_exception"}
  BY <1>2 DEF KindOf
<1>3. CASE x \in Cmd
  BY <1>3 DEF KindOf
<1>4. CASE x \in {"none", "error_code", "nulltask"}
  BY <1>4 DEF KindOf
<1> QED
  BY <1>1, <1>2, <1>3, <1>4

(* A T more, or one less, in a variable. *)
LEMMA LiveChanges ==
  ASSUME NEW mem, Sound(mem), NEW n \in Memory, NEW s \in Slot,
         \A t \in Slot \ {s} : n.object[t] \in Live <=> mem.object[t] \in Live,
         n.count = mem.count
                     + (IF n.object[s] \in Live THEN 1 ELSE 0)
                     - (IF mem.object[s] \in Live THEN 1 ELSE 0)
  PROVE  IsFiniteSet(LiveIn(n)) /\ n.count = Cardinality(LiveIn(n))
<1>1. IsFiniteSet(LiveIn(mem)) /\ mem.count = Cardinality(LiveIn(mem))
  BY DEF Sound
<1>2. Cardinality(LiveIn(mem)) \in Nat
  BY <1>1, FS_CardinalityType
<1>3. CASE n.object[s] \in Live /\ mem.object[s] \notin Live
  <2>1. LiveIn(n) = LiveIn(mem) \cup {s} /\ s \notin LiveIn(mem)
    BY <1>3 DEF LiveIn
  <2> QED
    BY <1>1, <1>2, <1>3, <2>1, FS_AddElement
<1>4. CASE n.object[s] \notin Live /\ mem.object[s] \in Live
  <2>1. LiveIn(n) = LiveIn(mem) \ {s} /\ s \in LiveIn(mem)
    BY <1>4 DEF LiveIn
  <2> QED
    <3>1. n.count = mem.count - 1
      BY <1>1, <1>2, <1>4
    <3>2. /\ IsFiniteSet(LiveIn(n))
          /\ Cardinality(LiveIn(n)) = Cardinality(LiveIn(mem)) - 1
      BY <1>1, <2>1, FS_RemoveElement
    <3> QED
      BY <1>1, <3>1, <3>2
<1>5. CASE n.object[s] \in Live <=> mem.object[s] \in Live
  <2>1. LiveIn(n) = LiveIn(mem)
    BY <1>5 DEF LiveIn
  <2> QED
    BY <1>1, <1>2, <1>5, <2>1
<1> QED
  BY <1>3, <1>4, <1>5

(* Whatever is constructed in an empty slot, or the exception in its       *)
(* place, keeps a memory sound if it may be there.                         *)
LEMMA ConstructedSound ==
  ASSUME NEW mem, Sound(mem), NEW s \in Slot, mem.object[s] \in {"none", "nulltask"},
         NEW x \in Objects \ {"none"}, NEW throws \in BOOLEAN,
         s \in Task => x \notin {"moved", "null_exception"},
         s \notin Task => KindOf(x) \in Alternative
  PROVE  SoundWith(Constructed(mem, s, KindOf(x), x, throws),
                   [mem.object EXCEPT ![s] = Arrives(x, throws)], mem.cancels)
<1> DEFINE n == Constructed(mem, s, KindOf(x), x, throws)
           y == Arrives(x, throws)
<1> USE DEF Arrives
<1>1. mem \in Memory
  BY DEF Sound
<1>3. y \in Objects \ {"none"}
  BY DEF Objects, NotCommands
<1>5. /\ KindOf(x) = "value" <=> x \in Live
      /\ KindOf(y) \in Kind \cup {"out"}
      /\ KindOf(y) = "value" <=> y \in Live
      /\ KindOf("exception") = "exception" /\ "exception" \notin Live
  BY <1>3, KindsOfObjects, SlotAssumption DEF Live, KindOf, NotCommands
<1>2. /\ n \in Memory
      /\ n.object = [mem.object EXCEPT ![s] = y]
      /\ n.index = [mem.index EXCEPT ![s] = KindOf(y)]
      /\ n.cancels = mem.cancels
      /\ n.count = mem.count + IF y \in Live THEN 1 ELSE 0
  <2>1. /\ [mem.object EXCEPT ![s] = y] \in [Slot -> Objects]
        /\ [mem.index EXCEPT ![s] = KindOf(y)] \in [Slot -> Kind \cup {"out"}]
        /\ mem.count + 1 \in Int /\ mem.count \in Int
    BY <1>1, <1>3, <1>5 DEF Memory
  <2>2. CASE x \in Live /\ throws
    <3>1. n = [mem EXCEPT !.index[s] = KindOf(y), !.object[s] = y]
      BY <1>5, <2>2 DEF Constructed
    <3>2. y \notin Live
      BY <1>5, <2>2
    <3> HIDE DEF n, y
    <3>3. n \in Memory /\ n.count = mem.count
      BY <1>1, <2>1, <3>1 DEF Memory
    <3>4. n.object = [mem.object EXCEPT ![s] = y]
      BY <1>1, <2>1, <3>1 DEF Memory
    <3>5. n.index = [mem.index EXCEPT ![s] = KindOf(y)] /\ n.cancels = mem.cancels
      BY <1>1, <2>1, <3>1 DEF Memory
    <3> QED
      BY <2>1, <3>2, <3>3, <3>4, <3>5
  <2>3. CASE ~(x \in Live /\ throws)
    <3>1. y = x
      BY <2>3
    <3>2. n = [mem EXCEPT !.index[s] = KindOf(y), !.object[s] = y,
                          !.count = IF y \in Live THEN @ + 1 ELSE @]
      BY <1>5, <2>3, <3>1 DEF Constructed
    <3> HIDE DEF n, y
    <3>3. n \in Memory
      BY <1>1, <2>1, <3>2 DEF Memory
    <3>4. n.count = mem.count + IF y \in Live THEN 1 ELSE 0
      BY <1>1, <2>1, <3>2 DEF Memory
    <3>5. n.object = [mem.object EXCEPT ![s] = y]
      BY <1>1, <2>1, <3>2 DEF Memory
    <3>6. n.index = [mem.index EXCEPT ![s] = KindOf(y)] /\ n.cancels = mem.cancels
      BY <1>1, <2>1, <3>2 DEF Memory
    <3> QED
      BY <3>3, <3>4, <3>5, <3>6
  <2> QED
    BY <2>2, <2>3
<1> HIDE DEF n, y
<1>4. mem.object[s] \notin Live
  BY DEF Live
<1>6. IsFiniteSet(LiveIn(n)) /\ n.count = Cardinality(LiveIn(n))
  <2>1. /\ mem.count \in Int /\ n.object[s] = y
        /\ \A t \in Slot \ {s} : n.object[t] = mem.object[t]
    BY <1>1, <1>2 DEF Memory
  <2> QED
    <3>1. n.count = mem.count
                     + (IF n.object[s] \in Live THEN 1 ELSE 0)
                     - (IF mem.object[s] \in Live THEN 1 ELSE 0)
      BY <1>2, <1>4, <2>1
    <3>2. \A t \in Slot \ {s} : n.object[t] \in Live <=> mem.object[t] \in Live
      BY <2>1
    <3> QED
      BY <1>2, <3>1, <3>2, LiveChanges
<1>7. s \in Task => y \notin {"moved", "null_exception"}
  BY DEF y
<1>8. s \notin Task => KindOf(y) \in Alternative
  BY <1>5 DEF y, Alternative
<1>9. Sound(n)
  BY <1>1, <1>2, <1>6, <1>7, <1>8 DEF Sound, Memory
<1> QED
  BY <1>2, <1>9 DEF n, y, SoundWith

(* What is in a task is destroyed, its content moved out or not, and the   *)
(* task is empty from then on.                                             *)
LEMMA NulledSound ==
  ASSUME NEW mem, Sound(mem), NEW t \in Task, NEW x \in Objects,
         NEW moved, moved = [mem EXCEPT !.object[t] = x]
  PROVE  SoundWith(Nulled(Destroyed(moved, t), t),
                   [mem.object EXCEPT ![t] = "nulltask"], mem.cancels)
<1> DEFINE destroyed == Destroyed(moved, t)
           n == Nulled(destroyed, t)
<1>1. /\ mem \in Memory /\ t \in Slot
      /\ mem.object[t] \in Objects /\ mem.index[t] = KindOf(mem.object[t])
  BY DEF Sound, Memory, Slot
<1>2. /\ mem.index[t] = "value" <=> mem.object[t] \in Live
      /\ KindOf("nulltask") = "nulltask" /\ "nulltask" \notin Live
  BY <1>1, KindsOfObjects, SlotAssumption DEF Live, KindOf, NotCommands
<1>3. /\ "none" \in Objects /\ "nulltask" \in Objects
      /\ "nulltask" \in Kind \cup {"out"}
      /\ mem.count - 1 \in Int /\ mem.count \in Int
  BY <1>1 DEF Memory, Objects, NotCommands, Kind
<1>4. /\ moved \in Memory /\ moved.index = mem.index
      /\ moved.count = mem.count /\ moved.cancels = mem.cancels
      /\ moved.object = [mem.object EXCEPT ![t] = x]
  <2>1. [mem.object EXCEPT ![t] = x] \in [Slot -> Objects]
    BY <1>1 DEF Memory
  <2> QED
    BY <1>1, <2>1 DEF Memory
<1> DEFINE less == IF mem.object[t] \in Live THEN 1 ELSE 0
<1>5. /\ destroyed \in Memory /\ destroyed.index = mem.index
      /\ destroyed.count = mem.count - less
      /\ destroyed.cancels = mem.cancels
      /\ destroyed.object = [moved.object EXCEPT ![t] = "none"]
  <2>1. destroyed = [moved EXCEPT !.object[t] = "none",
                                  !.count = mem.count - less]
    <3>1. less = IF moved.index[t] = "value" THEN 1 ELSE 0
      BY <1>1, <1>2, <1>4
    <3> HIDE DEF less
    <3>2. mem.count - less = IF moved.index[t] = "value" THEN moved.count - 1
                             ELSE moved.count
      BY <1>3, <1>4, <3>1
    <3> QED
      BY <3>2 DEF Destroyed
  <2>2. mem.count - less \in Int
    BY <1>3
  <2> HIDE DEF destroyed, less
  <2>6. [moved.object EXCEPT ![t] = "none"] \in [Slot -> Objects]
    BY <1>3, <1>4 DEF Memory
  <2>3. destroyed \in Memory
    BY <1>4, <2>1, <2>2, <2>6 DEF Memory
  <2>4. destroyed.count = mem.count - less /\ destroyed.index = moved.index
    BY <1>4, <2>1, <2>2, <2>6 DEF Memory
  <2>5. /\ destroyed.object = [moved.object EXCEPT ![t] = "none"]
        /\ destroyed.cancels = moved.cancels
    BY <1>4, <2>1, <2>2, <2>6 DEF Memory
  <2> QED
    BY <1>4, <2>3, <2>4, <2>5
<1>6. /\ n \in Memory /\ n.index = [mem.index EXCEPT ![t] = "nulltask"]
      /\ n.count = mem.count - less
      /\ n.cancels = mem.cancels
      /\ n.object = [destroyed.object EXCEPT ![t] = "nulltask"]
  <2>1. n = [destroyed EXCEPT !.index[t] = "nulltask", !.object[t] = "nulltask"]
    BY DEF Nulled
  <2> HIDE DEF destroyed, less, n
  <2>2. /\ [destroyed.object EXCEPT ![t] = "nulltask"] \in [Slot -> Objects]
        /\ [destroyed.index EXCEPT ![t] = "nulltask"]
             \in [Slot -> Kind \cup {"out"}]
    BY <1>3, <1>5 DEF Memory
  <2>3. n \in Memory
    BY <1>5, <2>1, <2>2 DEF Memory
  <2>4. n.count = destroyed.count /\ n.cancels = destroyed.cancels
    BY <1>5, <2>1, <2>2 DEF Memory
  <2>5. /\ n.object = [destroyed.object EXCEPT ![t] = "nulltask"]
        /\ n.index = [destroyed.index EXCEPT ![t] = "nulltask"]
    BY <1>5, <2>1, <2>2 DEF Memory
  <2> QED
    BY <1>5, <2>3, <2>4, <2>5
<1> HIDE DEF n, destroyed
<1>7. n.object = [mem.object EXCEPT ![t] = "nulltask"]
  BY <1>1, <1>4, <1>5, <1>6 DEF Memory
<1>8. IsFiniteSet(LiveIn(n)) /\ n.count = Cardinality(LiveIn(n))
  <2>1. /\ n.object[t] \notin Live /\ mem.count \in Int
        /\ \A s \in Slot \ {t} : n.object[s] = mem.object[s]
    BY <1>1, <1>2, <1>7 DEF Memory
  <2>2. n.count = mem.count
                     + (IF n.object[t] \in Live THEN 1 ELSE 0)
                     - (IF mem.object[t] \in Live THEN 1 ELSE 0)
    BY <1>6, <2>1
  <2>3. \A s \in Slot \ {t} : n.object[s] \in Live <=> mem.object[s] \in Live
    BY <2>1
  <2> QED
    BY <1>1, <1>6, <2>2, <2>3, LiveChanges
<1>9. Sound(n)
  <2>1. \A s \in Slot \ {t} : n.object[s] = mem.object[s] /\ n.index[s] = mem.index[s]
    BY <1>1, <1>6, <1>7 DEF Memory
  <2>2. n.object[t] = "nulltask" /\ n.index[t] = "nulltask"
    BY <1>1, <1>6, <1>7 DEF Memory
  <2> QED
    <3>1. \A s \in Slot : KindOf(n.object[s]) = n.index[s]
      BY <1>2, <2>1, <2>2 DEF Sound
    <3>2. \A s \in Task : n.object[s] \notin {"moved", "null_exception"}
      BY <2>1, <2>2 DEF Sound, Slot
    <3>3. \A s \in Slot \ Task : n.index[s] \in Alternative \cup {"out"}
      BY <2>1, <2>2 DEF Sound
    <3> QED
      BY <1>6, <1>8, <3>1, <3>2, <3>3 DEF Sound
<1> QED
  BY <1>6, <1>7, <1>9 DEF n, destroyed, SoundWith

(* What is in a slot is destroyed for good. *)
LEMMA EndedSound ==
  ASSUME NEW mem, Sound(mem), NEW s \in Slot
  PROVE  SoundWith(Ended(mem, s), [mem.object EXCEPT ![s] = "none"],
                   mem.cancels)
<1> DEFINE less == IF mem.object[s] \in Live THEN 1 ELSE 0
           n == Ended(mem, s)
<1>1. /\ mem \in Memory
      /\ mem.object[s] \in Objects /\ mem.index[s] = KindOf(mem.object[s])
      /\ mem.count \in Int /\ mem.count - less \in Int
  BY DEF Sound, Memory
<1>2. /\ mem.index[s] = "value" <=> mem.object[s] \in Live
      /\ "none" \in Objects /\ KindOf("none") = "out" /\ "none" \notin Live
  BY <1>1, KindsOfObjects DEF Live, Objects, NotCommands
<1>3. n = [[mem EXCEPT !.object[s] = "none", !.count = mem.count - less]
             EXCEPT !.index[s] = "out"]
  <2>1. mem.count - less = IF mem.index[s] = "value" THEN mem.count - 1
                           ELSE mem.count
    BY <1>1, <1>2
  <2> QED
    BY <2>1 DEF Ended, Destroyed
<1>4. /\ [mem.object EXCEPT ![s] = "none"] \in [Slot -> Objects]
      /\ [mem.index EXCEPT ![s] = "out"] \in [Slot -> Kind \cup {"out"}]
  BY <1>1, <1>2 DEF Memory
<1> HIDE DEF n, less
<1>5. n \in Memory
  BY <1>1, <1>3, <1>4 DEF Memory
<1>6. n.object = [mem.object EXCEPT ![s] = "none"] /\ n.count = mem.count - less
  BY <1>1, <1>3, <1>4 DEF Memory
<1>7. n.index = [mem.index EXCEPT ![s] = "out"] /\ n.cancels = mem.cancels
  BY <1>1, <1>3, <1>4 DEF Memory
<1>8. /\ \A t \in Slot \ {s} : n.object[t] = mem.object[t] /\ n.index[t] = mem.index[t]
      /\ n.object[s] = "none" /\ n.index[s] = "out"
  BY <1>1, <1>6, <1>7 DEF Memory
<1>9. IsFiniteSet(LiveIn(n)) /\ n.count = Cardinality(LiveIn(n))
  <2>1. n.count = mem.count
                     + (IF n.object[s] \in Live THEN 1 ELSE 0)
                     - (IF mem.object[s] \in Live THEN 1 ELSE 0)
    BY <1>1, <1>2, <1>6, <1>8 DEF less
  <2>2. \A t \in Slot \ {s} : n.object[t] \in Live <=> mem.object[t] \in Live
    BY <1>8
  <2> QED
    BY <1>5, <2>1, <2>2, LiveChanges
<1>10. Sound(n)
  <2>1. \A t \in Slot : KindOf(n.object[t]) = n.index[t]
    BY <1>2, <1>8 DEF Sound
  <2>2. \A t \in Task : n.object[t] \notin {"moved", "null_exception"}
    BY <1>8 DEF Sound, Slot
  <2>3. \A t \in Slot \ Task : n.index[t] \in Alternative \cup {"out"}
    BY <1>8 DEF Sound
  <2> QED
    BY <1>5, <1>9, <2>1, <2>2, <2>3 DEF Sound
<1> QED
  BY <1>6, <1>7, <1>10 DEF n, SoundWith

-----------------------------------------------------------------------------
(* The operations of task_impl.h on a sound memory.                        *)

(* What is in task t goes to an empty slot, and t is empty. *)
LEMMA MovedOnSound ==
  ASSUME NEW mem, Sound(mem), NEW t \in Task, mem.object[t] # "none",
         NEW s \in Slot, mem.object[s] \in {"none", "nulltask"},
         s \notin Task => mem.index[t] \in Alternative,
         NEW throws \in BOOLEAN
  PROVE  SoundWith(Nulled(Destroyed(MoveConstructed(mem, s, t, throws), t), t),
                   [mem.object EXCEPT ![s] = Arrives(mem.object[t], throws),
                                      ![t] = "nulltask"],
                   mem.cancels)
<1> DEFINE x == mem.object[t]
           c == Constructed(mem, s, KindOf(x), x, throws)
           n == Nulled(Destroyed(MoveConstructed(mem, s, t, throws), t), t)
<1>1. /\ t \in Slot /\ x \in Objects \ {"none"} /\ KindOf(x) = mem.index[t]
      /\ x \notin {"moved", "null_exception"}
  BY DEF Sound, Memory, Slot
<1> HIDE DEF c, x
<1>2. SoundWith(c, [mem.object EXCEPT ![s] = Arrives(x, throws)], mem.cancels)
  BY <1>1, ConstructedSound DEF c
<1>3. Sound(c) /\ Moved(c.object[t]) \in Objects
  BY <1>1, <1>2 DEF Moved, SoundWith, Sound, Memory, Objects, NotCommands, Live
<1>4. MoveConstructed(mem, s, t, throws) = [c EXCEPT !.object[t] = Moved(c.object[t])]
  BY <1>1 DEF MoveConstructed, c, x
<1>5. SoundWith(n, [c.object EXCEPT ![t] = "nulltask"], c.cancels)
  BY <1>3, <1>4, NulledSound
<1> HIDE DEF n
<1> QED
  BY <1>2, <1>5 DEF x, n, SoundWith

(* The command of a task is cancelled, once, and the task is empty. *)
LEMMA CancelledSound ==
  ASSUME NEW mem, Sound(mem), NEW t \in Task, mem.object[t] \in Cmd,
         NEW v, v = [mem EXCEPT !.cancels[mem.object[t]] = @ + 1]
  PROVE  SoundWith(Nulled(v, t), [mem.object EXCEPT ![t] = "nulltask"],
                   [mem.cancels EXCEPT ![mem.object[t]] = @ + 1])
<1> DEFINE n == Nulled(v, t)
           cancels == [mem.cancels EXCEPT ![mem.object[t]] = @ + 1]
<1>1. mem \in Memory /\ t \in Slot
  BY DEF Sound, Slot
<1>2. /\ cancels \in [Cmd -> Nat]
      /\ [mem.object EXCEPT ![t] = "nulltask"] \in [Slot -> Objects]
      /\ [mem.index EXCEPT ![t] = "nulltask"] \in [Slot -> Kind \cup {"out"}]
  BY <1>1 DEF Memory, Objects, NotCommands, Kind
<1>3. v = [mem EXCEPT !.cancels = cancels]
  BY <1>1 DEF Memory
<1> HIDE DEF cancels
<1>4. v \in Memory
  BY <1>1, <1>2, <1>3 DEF Memory
<1>5. v.object = mem.object /\ v.index = mem.index
  BY <1>1, <1>2, <1>3 DEF Memory
<1>6. v.count = mem.count /\ v.cancels = cancels
  BY <1>1, <1>2, <1>3 DEF Memory
<1>7. n = [v EXCEPT !.index[t] = "nulltask", !.object[t] = "nulltask"]
  BY DEF Nulled
<1> HIDE DEF n
<1>8. n \in Memory
  BY <1>1, <1>2, <1>4, <1>5, <1>7 DEF Memory
<1>9. /\ n.object = [mem.object EXCEPT ![t] = "nulltask"]
      /\ n.index = [mem.index EXCEPT ![t] = "nulltask"]
  BY <1>1, <1>2, <1>4, <1>5, <1>7 DEF Memory
<1>10. n.count = mem.count /\ n.cancels = cancels
  BY <1>1, <1>2, <1>4, <1>6, <1>7 DEF Memory
<1>11. /\ \A s \in Slot \ {t} : n.object[s] = mem.object[s] /\ n.index[s] = mem.index[s]
       /\ n.object[t] = "nulltask" /\ n.index[t] = "nulltask"
  BY <1>1, <1>9 DEF Memory
<1>12. /\ mem.object[t] \notin Live /\ "nulltask" \notin Live
       /\ KindOf("nulltask") = "nulltask"
  BY SlotAssumption, KindsOfObjects DEF Live, NotCommands, Objects
<1>13. IsFiniteSet(LiveIn(n)) /\ n.count = Cardinality(LiveIn(n))
  <2>1. LiveIn(n) = LiveIn(mem)
    BY <1>11, <1>12 DEF LiveIn
  <2> QED
    BY <1>10, <2>1 DEF Sound
<1>14. Sound(n)
  <2>1. \A s \in Slot : KindOf(n.object[s]) = n.index[s]
    BY <1>11, <1>12 DEF Sound
  <2>2. \A s \in Task : n.object[s] \notin {"moved", "null_exception"}
    BY <1>11 DEF Sound, Slot
  <2>3. \A s \in Slot \ Task : n.index[s] \in Alternative \cup {"out"}
    BY <1>11 DEF Sound
  <2> QED
    BY <1>8, <1>13, <2>1, <2>2, <2>3 DEF Sound
<1> QED
  BY <1>9, <1>10, <1>14 DEF n, cancels, SoundWith

(* The task in t comes to a result in s, by itself or by being cancelled:  *)
(* t is empty, s has what is no command, and a command has been cancelled. *)
LEMMA DismissedSound ==
  ASSUME NEW mem, Sound(mem), NEW t \in Task, mem.object[t] \notin {"none", "nulltask"},
         NEW s \in Slot \ Task, mem.object[s] = "none",
         NEW k \in Alternative, NEW throws \in BOOLEAN
  PROVE  \E y \in NotCommands :
           SoundWith(Dismissed(mem, t, s, k, throws),
                     [mem.object EXCEPT ![s] = y, ![t] = "nulltask"],
                     IF mem.object[t] \in Cmd
                     THEN [mem.cancels EXCEPT ![mem.object[t]] = @ + 1]
                     ELSE mem.cancels)
<1> DEFINE n == Dismissed(mem, t, s, k, throws)
<1>1. /\ t \in Slot /\ mem.object[t] \in Objects /\ t # s
      /\ mem.index[t] = KindOf(mem.object[t])
      /\ mem.index[t] = "command" <=> mem.object[t] \in Cmd
      /\ mem.index[t] \in Kind \ {"nulltask"}
  BY KindsOfObjects DEF Sound, Memory, Slot
<1>2. CASE mem.index[t] = "command"
  <2> DEFINE c == Constructed(mem, s, k, k, FALSE)
             v == [c EXCEPT !.cancels[mem.object[t]] = @ + 1]
  <2>1. k \in Objects \ {"none"} /\ KindOf(k) = k /\ k \in NotCommands
    BY KindsOfObjects DEF Alternative, Objects, NotCommands, Live
  <2>2. SoundWith(c, [mem.object EXCEPT ![s] = k], mem.cancels)
    <3>1. c = Constructed(mem, s, KindOf(k), k, FALSE) /\ Arrives(k, FALSE) = k
      BY <2>1 DEF Arrives
    <3> HIDE DEF c
    <3> QED
      BY <2>1, <3>1, ConstructedSound
  <2> HIDE DEF c
  <2>3. Sound(c) /\ c.object[t] = mem.object[t]
    BY <1>1, <2>2 DEF SoundWith, Sound, Memory
  <2>4. SoundWith(Nulled(v, t), [c.object EXCEPT ![t] = "nulltask"],
                  [c.cancels EXCEPT ![c.object[t]] = @ + 1])
    <3>1. v = [c EXCEPT !.cancels[c.object[t]] = @ + 1]
      BY <2>3
    <3> HIDE DEF v
    <3> QED
      BY <1>1, <1>2, <2>3, <3>1, CancelledSound
  <2>5. n = Nulled(v, t)
    BY <1>2 DEF Dismissed, c
  <2> HIDE DEF n, v
  <2>6. n.object = [mem.object EXCEPT ![s] = k, ![t] = "nulltask"]
    BY <2>2, <2>4, <2>5 DEF SoundWith
  <2>7. n.cancels = [mem.cancels EXCEPT ![mem.object[t]] = @ + 1]
    BY <2>2, <2>3, <2>4, <2>5 DEF SoundWith
  <2> QED
    BY <1>1, <1>2, <2>1, <2>4, <2>5, <2>6, <2>7 DEF n, SoundWith
<1>3. CASE mem.index[t] # "command"
  <2>1. n = Nulled(Destroyed(MoveConstructed(mem, s, t, throws), t), t)
    BY <1>3 DEF Dismissed
  <2>2. mem.index[t] \in Alternative
    BY <1>1, <1>3 DEF Kind
  <2> HIDE DEF n
  <2>3. SoundWith(n, [mem.object EXCEPT ![s] = Arrives(mem.object[t], throws),
                                        ![t] = "nulltask"], mem.cancels)
    BY <2>1, <2>2, MovedOnSound
  <2>4. Arrives(mem.object[t], throws) \in NotCommands
    BY <1>1, <1>3 DEF Arrives, Objects, NotCommands
  <2> QED
    BY <1>1, <1>3, <2>3, <2>4 DEF n
<1> QED
  BY <1>2, <1>3

(* clear leaves the task empty. *)
LEMMA ClearedSound ==
  ASSUME NEW mem, Sound(mem), NEW t \in Task, mem.object[t] # "none",
         mem.object[Temp] = "none", NEW k \in Alternative, NEW throws \in BOOLEAN
  PROVE  SoundWith(Cleared(mem, t, k, throws),
                   [mem.object EXCEPT ![t] = "nulltask"],
                   IF mem.object[t] \in Cmd
                   THEN [mem.cancels EXCEPT ![mem.object[t]] = @ + 1]
                   ELSE mem.cancels)
<1> DEFINE cancels == IF mem.object[t] \in Cmd
                      THEN [mem.cancels EXCEPT ![mem.object[t]] = @ + 1]
                      ELSE mem.cancels
           n == Cleared(mem, t, k, throws)
<1>1. /\ t \in Slot /\ Temp \in Slot \ Task /\ mem.object[t] \in Objects
      /\ mem.index[t] = KindOf(mem.object[t])
      /\ mem.object \in [Slot -> Objects]
  BY SlotAssumption DEF Sound, Memory, Slot
<1>2. mem.index[t] = "nulltask" <=> mem.object[t] = "nulltask"
  BY <1>1, KindsOfObjects
<1> HIDE DEF cancels, n
<1>3. CASE mem.index[t] = "nulltask"
  <2>1. n = mem
    BY <1>3 DEF Cleared, n
  <2>2. cancels = mem.cancels
    BY <1>2, <1>3, SlotAssumption DEF NotCommands, cancels
  <2>3. mem.object = [mem.object EXCEPT ![t] = "nulltask"]
    BY <1>1, <1>2, <1>3
  <2> QED
    BY <2>1, <2>2, <2>3 DEF SoundWith, cancels, n
<1>4. CASE mem.index[t] # "nulltask"
  <2> DEFINE d == Dismissed(mem, t, Temp, k, throws)
  <2>1. \E y \in NotCommands :
          SoundWith(d, [mem.object EXCEPT ![Temp] = y, ![t] = "nulltask"], cancels)
    BY <1>1, <1>2, <1>4, DismissedSound DEF cancels
  <2>2. n = Ended(d, Temp)
    BY <1>4 DEF Cleared, n
  <2> HIDE DEF d
  <2>3. SoundWith(n, [d.object EXCEPT ![Temp] = "none"], d.cancels)
    BY <1>1, <2>1, <2>2, EndedSound DEF SoundWith
  <2>4. [d.object EXCEPT ![Temp] = "none"] = [mem.object EXCEPT ![t] = "nulltask"]
    BY <1>1, <2>1 DEF SoundWith
  <2> QED
    BY <2>1, <2>3, <2>4 DEF SoundWith, cancels, n
<1> QED
  BY <1>3, <1>4

-----------------------------------------------------------------------------
(* The operations of result_impl.h on a sound memory.                      *)

(* The content of a result is moved out of it. *)
LEMMA MovedFromSound ==
  ASSUME NEW mem, Sound(mem), NEW q \in Slot \ Task, NEW n,
         n = [mem EXCEPT !.object[q] = Moved(@)]
  PROVE  SoundWith(n, [mem.object EXCEPT ![q] = Moved(@)], mem.cancels)
<1>1. /\ mem \in Memory /\ mem.object[q] \in Objects
      /\ mem.index[q] = KindOf(mem.object[q]) /\ mem.index[q] \in Alternative \cup {"out"}
  BY DEF Sound, Memory
<1>2. mem.object[q] \notin Cmd
  BY <1>1, KindsOfObjects DEF Alternative
<1>3. /\ Moved(mem.object[q]) \in Objects
      /\ KindOf(Moved(mem.object[q])) = KindOf(mem.object[q])
      /\ Moved(mem.object[q]) \in Live <=> mem.object[q] \in Live
  <2>1. CASE mem.object[q] = "value"
    <3>1. Moved(mem.object[q]) = "moved"
      BY <2>1 DEF Moved
    <3> QED
      BY <2>1, <3>1, KindsOfObjects DEF Live, Objects, NotCommands
  <2>2. CASE mem.object[q] = "exception"
    <3>1. Moved(mem.object[q]) = "null_exception"
      BY <2>2 DEF Moved
    <3> QED
      BY <2>2, <3>1, KindsOfObjects DEF Live, Objects, NotCommands
  <2>3. CASE mem.object[q] \notin {"value", "exception"}
    BY <1>1, <2>3 DEF Moved
  <2> QED
    BY <2>1, <2>2, <2>3
<1>4. [mem.object EXCEPT ![q] = Moved(@)] \in [Slot -> Objects]
  BY <1>1, <1>3 DEF Memory
<1>5. n \in Memory
  BY <1>1, <1>4 DEF Memory
<1>6. n.object = [mem.object EXCEPT ![q] = Moved(@)] /\ n.index = mem.index
  BY <1>1, <1>4 DEF Memory
<1>7. n.count = mem.count /\ n.cancels = mem.cancels
  BY <1>1, <1>4 DEF Memory
<1>8. /\ \A s \in Slot \ {q} : n.object[s] = mem.object[s]
      /\ n.object[q] = Moved(mem.object[q])
  BY <1>1, <1>6 DEF Memory
<1>9. LiveIn(n) = LiveIn(mem)
  BY <1>3, <1>8 DEF LiveIn
<1>10. Sound(n)
  <2>1. \A s \in Slot : KindOf(n.object[s]) = n.index[s]
    BY <1>3, <1>6, <1>8 DEF Sound
  <2>2. \A s \in Task : n.object[s] \notin {"moved", "null_exception"}
    BY <1>8 DEF Sound, Slot
  <2>3. \A s \in Slot \ Task : n.index[s] \in Alternative \cup {"out"}
    BY <1>6 DEF Sound
  <2> QED
    BY <1>5, <1>7, <1>9, <2>1, <2>2, <2>3 DEF Sound
<1> QED
  BY <1>6, <1>7, <1>10 DEF SoundWith

(* An index that a constructor is about to overwrite may have any value. *)
LEMMA IndexOverwritten ==
  ASSUME NEW mem \in Memory, NEW s \in Slot, NEW x \in Objects,
         NEW k \in Kind, NEW throws \in BOOLEAN,
         NEW e, e = [mem EXCEPT !.index[s] = "out"]
  PROVE  Constructed(mem, s, k, x, throws) = Constructed(e, s, k, x, throws)
<1>1. /\ [mem.index EXCEPT ![s] = "out"] \in [Slot -> Kind \cup {"out"}]
      /\ [mem.index EXCEPT ![s] = "exception"] \in [Slot -> Kind \cup {"out"}]
      /\ [mem.index EXCEPT ![s] = k] \in [Slot -> Kind \cup {"out"}]
  BY DEF Memory, Kind, Alternative
<1>2. /\ e \in Memory
      /\ e.index = [mem.index EXCEPT ![s] = "out"] /\ e.object = mem.object
      /\ e.count = mem.count /\ e.cancels = mem.cancels
  BY <1>1 DEF Memory
<1>3. /\ [e.index EXCEPT ![s] = "exception"] = [mem.index EXCEPT ![s] = "exception"]
      /\ [e.index EXCEPT ![s] = k] = [mem.index EXCEPT ![s] = k]
  BY <1>2 DEF Memory
<1>4. CASE k = "value" /\ throws
  BY <1>2, <1>3, <1>4 DEF Memory, Constructed
<1>5. CASE ~(k = "value" /\ throws)
  BY <1>2, <1>3, <1>5 DEF Memory, Constructed
<1> QED
  BY <1>4, <1>5

(* What the assignments of a result do: the object that is destroyed and   *)
(* the index that is left behind are both overwritten.                     *)
LEMMA RebuiltSound ==
  ASSUME NEW mem, Sound(mem), NEW r \in Slot \ Task, NEW q \in Slot \ Task,
         q # r, mem.object[q] # "none", NEW throws \in BOOLEAN,
         NEW n, n = CopyConstructed(Destroyed(mem, r), r, q, throws)
  PROVE  SoundWith(n, [mem.object EXCEPT ![r] = Arrives(mem.object[q], throws)],
                   mem.cancels)
<1> DEFINE x == mem.object[q]
           d == Destroyed(mem, r)
           e == Ended(mem, r)
<1>1. /\ x \in Objects \ {"none"} /\ KindOf(x) = mem.index[q]
      /\ KindOf(x) \in Alternative /\ mem \in Memory
  <2>1. /\ x \in Objects \ {"none"} /\ KindOf(x) = mem.index[q]
        /\ mem.index[q] \in Alternative \cup {"out"} /\ mem \in Memory
    BY DEF Sound, Memory
  <2> QED
    BY <2>1, KindsOfObjects
<1>2. SoundWith(e, [mem.object EXCEPT ![r] = "none"], mem.cancels)
  BY EndedSound
<1>3. /\ d \in Memory /\ d.index = mem.index
      /\ d.object = [mem.object EXCEPT ![r] = "none"]
  <2> DEFINE count == IF mem.index[r] = "value" THEN mem.count - 1 ELSE mem.count
  <2>1. /\ [mem.object EXCEPT ![r] = "none"] \in [Slot -> Objects]
        /\ count \in Int
    BY <1>1 DEF Memory, Objects, NotCommands
  <2>2. d = [mem EXCEPT !.object[r] = "none", !.count = count]
    BY DEF Destroyed
  <2> HIDE DEF count, d
  <2> QED
    BY <1>1, <2>1, <2>2 DEF Memory
<1>4. d.index[q] = KindOf(x) /\ d.object[q] = x
  BY <1>1, <1>3 DEF Memory
<1>5. e = [d EXCEPT !.index[r] = "out"]
  BY DEF Ended
<1>6. n = Constructed(d, r, KindOf(x), x, throws)
  BY <1>4 DEF CopyConstructed
<1> HIDE DEF x, d, e
<1>7. n = Constructed(e, r, KindOf(x), x, throws)
  BY <1>1, <1>3, <1>5, <1>6, IndexOverwritten DEF Kind
<1>8. Sound(e) /\ e.object[r] = "none"
  BY <1>1, <1>2 DEF SoundWith, Memory
<1>9. SoundWith(n, [e.object EXCEPT ![r] = Arrives(x, throws)], e.cancels)
  <2>1. r \in Slot /\ r \notin Task
    OBVIOUS
  <2> QED
    BY <1>1, <1>7, <1>8, <2>1, ConstructedSound
<1> QED
  BY <1>2, <1>9 DEF SoundWith, x

(* Moving the content out of q as well, once it has been copied. *)
LEMMA RebuiltByMoveSound ==
  ASSUME NEW mem, Sound(mem), NEW r \in Slot \ Task, NEW q \in Slot \ Task,
         q # r, mem.object[q] # "none", NEW throws \in BOOLEAN,
         NEW n, n = MoveConstructed(Destroyed(mem, r), r, q, throws)
  PROVE  SoundWith(n, [mem.object EXCEPT ![r] = Arrives(mem.object[q], throws),
                                         ![q] = Moved(@)],
                   mem.cancels)
<1> DEFINE copied == CopyConstructed(Destroyed(mem, r), r, q, throws)
<1>1. n = [copied EXCEPT !.object[q] = Moved(@)]
  BY DEF MoveConstructed, CopyConstructed
<1> HIDE DEF copied
<1>2. SoundWith(copied,
                [mem.object EXCEPT ![r] = Arrives(mem.object[q], throws)],
                mem.cancels)
  BY RebuiltSound DEF copied
<1>3. Sound(copied)
  BY <1>2 DEF SoundWith
<1>4. SoundWith(n, [copied.object EXCEPT ![q] = Moved(@)], copied.cancels)
  BY <1>1, <1>3, MovedFromSound
<1> QED
  BY <1>2, <1>4 DEF SoundWith

-----------------------------------------------------------------------------
(* Who owns a command.                                                     *)

(* Where no slot gains or loses a command, the owners are the same. *)
LEMMA OwnersKept ==
  ASSUME NEW mem, NEW n, NEW c \in Cmd, NEW known, NEW next,
         Owned(mem, c, known), c \in known <=> c \in next,
         n.cancels[c] = mem.cancels[c],
         \A s \in Slot : n.object[s] = c <=> mem.object[s] = c
  PROVE  Owned(n, c, next)
<1>1. CASE NotIn(mem, c)
  BY <1>1 DEF Owned, NotIn
<1>2. CASE ~NotIn(mem, c)
  <2>1. PICK t \in Task : \A s \in Slot : mem.object[s] = c <=> s = t
    BY <1>2 DEF Owned
  <2> QED
    BY <1>2, <2>1 DEF Owned
<1> QED
  BY <1>1, <1>2

(* What task t had has gone to task s, which had no command. *)
LEMMA OwnersMoved ==
  ASSUME NEW mem, Sound(mem), NEW c \in Cmd, NEW known, Owned(mem, c, known),
         NEW s \in Task, NEW t \in Task, mem.object[s] \in {"none", "nulltask"},
         NEW throws, NEW n, n.cancels = mem.cancels,
         n.object = [mem.object EXCEPT ![s] = Arrives(mem.object[t], throws),
                                       ![t] = "nulltask"]
  PROVE  Owned(n, c, known)
<1>1. /\ mem.object \in [Slot -> Objects] /\ s \in Slot /\ t \in Slot
      /\ c \notin {"none", "nulltask", "exception"} /\ c \notin Live
  BY SlotAssumption DEF Sound, Memory, Slot, NotCommands
<1>2. CASE mem.object[t] = c
  <2>1. \A x \in Slot : mem.object[x] = c <=> x = t
    BY <1>1, <1>2 DEF Owned, NotIn
  <2>2. \A x \in Slot : n.object[x] = c <=> x = s
    BY <1>1, <1>2, <2>1 DEF Arrives
  <2>3. c \in known /\ n.cancels[c] = 0
    BY <1>1, <1>2 DEF Owned, NotIn
  <2> QED
    BY <2>2, <2>3 DEF Owned
<1>3. CASE mem.object[t] # c
  <2>1. \A x \in Slot : n.object[x] = c <=> mem.object[x] = c
    BY <1>1, <1>3 DEF Arrives
  <2> QED
    BY <2>1, OwnersKept
<1> QED
  BY <1>2, <1>3

(* What task t had has been dropped: a command has been cancelled. *)
LEMMA OwnersCancelled ==
  ASSUME NEW mem, Sound(mem), NEW c \in Cmd, NEW known, Owned(mem, c, known),
         NEW t \in Task, NEW n, n.object[t] \notin Cmd,
         n.cancels = (IF mem.object[t] \in Cmd
                      THEN [mem.cancels EXCEPT ![mem.object[t]] = @ + 1]
                      ELSE mem.cancels),
         \A s \in Slot \ {t} : n.object[s] = c <=> mem.object[s] = c
  PROVE  Owned(n, c, known)
<1>1. mem.cancels \in [Cmd -> Nat] /\ t \in Slot
  BY DEF Sound, Memory, Slot
<1>2. CASE mem.object[t] = c
  <2>1. /\ c \in known /\ mem.cancels[c] = 0
        /\ \A s \in Slot : mem.object[s] = c <=> s = t
    BY <1>1, <1>2 DEF Owned, NotIn
  <2>2. n.cancels[c] = 1
    BY <1>1, <1>2, <2>1
  <2>3. NotIn(n, c)
    BY <2>1 DEF NotIn
  <2> QED
    BY <2>1, <2>2, <2>3 DEF Owned
<1>3. CASE mem.object[t] # c
  <2>1. n.cancels[c] = mem.cancels[c]
    BY <1>1, <1>3
  <2>2. \A s \in Slot : n.object[s] = c <=> mem.object[s] = c
    BY <1>3
  <2> QED
    BY <2>1, <2>2, OwnersKept
<1> QED
  BY <1>2, <1>3

-----------------------------------------------------------------------------
(* The steps.                                                              *)

(* What the index of a variable says about what it holds. *)
LEMMA WhatIsHeld ==
  ASSUME IInv, NEW s \in Slot
  PROVE  /\ m.object[s] \in Objects
         /\ m.index[s] = "out" <=> m.object[s] = "none"
         /\ m.index[s] = "nulltask" <=> m.object[s] = "nulltask"
         /\ s \notin Task => m.object[s] \notin Cmd
<1>1. /\ m.object[s] \in Objects /\ m.index[s] = KindOf(m.object[s])
      /\ s \notin Task => m.index[s] \in Alternative \cup {"out"}
  BY DEF IInv, Sound, Memory
<1> QED
  BY <1>1, KindsOfObjects DEF Alternative

(* Tasks, results and the temporary are different variables. *)
LEMMA Variables ==
  /\ Task \subseteq Slot /\ Result \subseteq Slot \ Task
  /\ Temp \in Slot /\ Temp \notin Task \cup Result
BY SlotAssumption DEF Slot

(* A step that leaves the commands where they are. *)
LEMMA KeepsOwners ==
  ASSUME IInv, Sound(m'), UNCHANGED <<made, fault>>, m'.cancels = m.cancels,
         m'.object[Temp] = "none",
         \A s \in Slot : m'.object[s] # m.object[s] =>
           m'.object[s] \notin Cmd /\ m.object[s] \notin Cmd
  PROVE  IInv'
<1>1. \A c \in Cmd : Owned(m', c, made)
  <2>1. ASSUME NEW c \in Cmd
        PROVE  Owned(m', c, made)
    <3>1. \A s \in Slot : m'.object[s] = c <=> m.object[s] = c
      OBVIOUS
    <3> QED
      BY <3>1, OwnersKept DEF IInv
  <2> QED
    BY <2>1
<1> QED
  BY <1>1 DEF IInv

(* No variable has been constructed. *)
LEMMA InitEstablishes ==
  Init => IInv
<1> SUFFICES ASSUME Init PROVE IInv
  OBVIOUS
<1>1. /\ m \in Memory /\ m.count = 0
      /\ \A s \in Slot : m.index[s] = "out" /\ m.object[s] = "none"
      /\ \A c \in Cmd : m.cancels[c] = 0
  BY DEF Init, Memory, Objects, NotCommands
<1>2. LiveIn(m) = {}
  BY <1>1 DEF LiveIn, Live
<1>3. Sound(m)
  <2>1. KindOf("none") = "out"
    BY KindsOfObjects DEF Objects, NotCommands
  <2> QED
    BY <1>1, <1>2, <2>1, FS_EmptySet, Variables DEF Sound
<1>4. \A c \in Cmd : Owned(m, c, made)
  BY <1>1, SlotAssumption DEF Init, Owned, NotIn, NotCommands
<1> QED
  BY <1>1, <1>3, <1>4, Variables DEF IInv, Init

(* A task is constructed. *)
LEMMA TaskConstructPreserves ==
  ASSUME IInv, NEW t \in Task, NEW throws \in BOOLEAN, TaskConstruct(t, throws)
  PROVE  IInv'
<1>1. /\ t \in Slot /\ t # Temp /\ m.object[t] = "none" /\ Sound(m)
      /\ m.object \in [Slot -> Objects] /\ UNCHANGED fault
  BY Variables, WhatIsHeld DEF TaskConstruct, Out, IInv, Sound, Memory
<1>2. ASSUME NEW k \in Alternative \cup {"nulltask"},
             m' = Constructed(m, t, k, k, throws), UNCHANGED made
      PROVE  IInv'
  <2>1. k \in Objects \ {"none"} /\ KindOf(k) = k /\ k \notin Cmd
    BY KindsOfObjects, SlotAssumption
    DEF Alternative, Objects, NotCommands, Live
  <2>2. SoundWith(m', [m.object EXCEPT ![t] = Arrives(k, throws)], m.cancels)
    <3>1. k \notin {"moved", "null_exception"}
      BY DEF Alternative
    <3> QED
      BY <1>1, <1>2, <2>1, <3>1, ConstructedSound
  <2>3. m.object[t] \notin Cmd /\ Arrives(k, throws) \notin Cmd
    BY <1>1, <2>1, SlotAssumption DEF Arrives, NotCommands
  <2>4. /\ m'.object[Temp] = "none"
        /\ \A s \in Slot : m'.object[s] # m.object[s] =>
          m'.object[s] \notin Cmd /\ m.object[s] \notin Cmd
    BY <1>1, <2>2, <2>3, Variables DEF SoundWith, IInv
  <2> QED
    BY <1>1, <1>2, <2>2, <2>4, KeepsOwners DEF SoundWith
<1>3. ASSUME NEW c \in Cmd \ made,
             m' = Constructed(m, t, "command", c, throws), made' = made \cup {c}
      PROVE  IInv'
  <2>1. /\ c \in Objects \ {"none"} /\ KindOf(c) = "command"
        /\ c \notin NotCommands /\ Arrives(c, throws) = c
    BY KindsOfObjects, SlotAssumption DEF Objects, NotCommands, Live, Arrives
  <2>2. SoundWith(m', [m.object EXCEPT ![t] = c], m.cancels)
    <3>1. c \notin {"moved", "null_exception"}
      BY <2>1 DEF NotCommands, Live
    <3> QED
      BY <1>1, <1>3, <2>1, <3>1, ConstructedSound
  <2>3. m'.object = [m.object EXCEPT ![t] = c] /\ m'.cancels = m.cancels
    BY <2>2 DEF SoundWith
  <2>4. ASSUME NEW d \in Cmd
        PROVE  Owned(m', d, made')
    <3>1. CASE d = c
      <4>1. m.cancels[c] = 0 /\ NotIn(m, c)
        BY <1>3 DEF IInv, Owned
      <4>2. \A s \in Slot : m'.object[s] = c <=> s = t
        BY <1>1, <2>3, <4>1 DEF NotIn
      <4> QED
        BY <1>3, <2>3, <3>1, <4>1, <4>2 DEF Owned
    <3>2. CASE d # c
      <4>1. \A s \in Slot : m'.object[s] = d <=> m.object[s] = d
        BY <1>1, <2>3, <3>2, SlotAssumption DEF NotCommands
      <4>2. Owned(m, d, made) /\ (d \in made <=> d \in made')
        BY <1>3, <3>2 DEF IInv
      <4> QED
        BY <2>3, <4>1, <4>2, OwnersKept
    <3> QED
      BY <3>1, <3>2
  <2>5. m'.object[Temp] = "none"
    BY <1>1, <2>3, Variables DEF IInv
  <2> QED
    BY <1>1, <1>3, <2>2, <2>4, <2>5 DEF SoundWith, IInv
<1> QED
  BY <1>2, <1>3 DEF TaskConstruct

(* A task moved to one that has nothing. *)
LEMMA TaskMovedPreserves ==
  ASSUME NEW mem, Sound(mem), mem.object[Temp] = "none",
         \A c \in Cmd : Owned(mem, c, made),
         made \subseteq Cmd, fault \in {"none", "read_destroyed"},
         NEW s \in Task, NEW t \in Task, mem.object[s] \in {"none", "nulltask"},
         mem.object[t] # "none", NEW throws \in BOOLEAN,
         m' = TaskMoved(mem, s, t, throws), UNCHANGED <<made, fault>>
  PROVE  IInv'
<1>1. /\ s \in Slot /\ s # Temp /\ t # Temp /\ Temp \in Slot
      /\ mem.object \in [Slot -> Objects]
  BY Variables DEF Sound, Memory
<1>2. SoundWith(m', [mem.object EXCEPT ![s] = Arrives(mem.object[t], throws),
                                       ![t] = "nulltask"], mem.cancels)
  BY <1>1, MovedOnSound DEF TaskMoved
<1>3. \A c \in Cmd : Owned(m', c, made)
  BY <1>2, OwnersMoved DEF SoundWith
<1>4. m'.object[Temp] = "none"
  BY <1>1, <1>2 DEF SoundWith
<1> QED
  BY <1>2, <1>3, <1>4 DEF SoundWith, IInv

(* A task is constructed from another one. *)
LEMMA TaskMoveConstructPreserves ==
  ASSUME IInv, NEW s \in Task, NEW t \in Task, NEW throws \in BOOLEAN,
         TaskMoveConstruct(s, t, throws)
  PROVE  IInv'
<1>1. m.object[s] = "none" /\ m.object[t] # "none"
  BY Variables, WhatIsHeld DEF TaskMoveConstruct, Out, Alive
<1> QED
  BY <1>1, TaskMovedPreserves DEF TaskMoveConstruct, IInv

(* What clear() makes of the memory, before the step goes on. *)
LEMMA ClearedKeeps ==
  ASSUME IInv, NEW t \in Task, NEW k \in Alternative, NEW throws \in BOOLEAN,
         Alive(t), NEW mem, mem = Cleared(m, t, k, throws)
  PROVE  /\ Sound(mem) /\ mem.object[Temp] = "none"
         /\ mem.object = [m.object EXCEPT ![t] = "nulltask"]
         /\ \A c \in Cmd : Owned(mem, c, made)
<1>1. /\ t \in Slot /\ t # Temp /\ Temp \in Slot /\ m.object[t] # "none"
      /\ Sound(m) /\ m.object \in [Slot -> Objects] /\ m.object[Temp] = "none"
  BY Variables, WhatIsHeld DEF Alive, IInv, Sound, Memory
<1>2. SoundWith(mem, [m.object EXCEPT ![t] = "nulltask"],
                IF m.object[t] \in Cmd
                THEN [m.cancels EXCEPT ![m.object[t]] = @ + 1]
                ELSE m.cancels)
  BY <1>1, ClearedSound
<1>3. ASSUME NEW c \in Cmd
      PROVE  Owned(mem, c, made)
  <2>1. /\ mem.object[t] \notin Cmd
        /\ \A s \in Slot \ {t} : mem.object[s] = c <=> m.object[s] = c
    BY <1>1, <1>2, SlotAssumption DEF SoundWith, NotCommands
  <2>2. Owned(m, c, made)
    BY DEF IInv
  <2> QED
    BY <1>1, <1>2, <2>1, <2>2, OwnersCancelled DEF SoundWith
<1> QED
  BY <1>1, <1>2, <1>3 DEF SoundWith

(* A task is cleared and takes what another one held. *)
LEMMA TaskMoveAssignPreserves ==
  ASSUME IInv, NEW s \in Task, NEW t \in Task, NEW k \in Alternative,
         NEW throws \in BOOLEAN, TaskMoveAssign(s, t, k, throws)
  PROVE  IInv'
<1> DEFINE mem == Cleared(m, s, k, throws)
<1>1. /\ Sound(mem) /\ mem.object[Temp] = "none"
      /\ mem.object = [m.object EXCEPT ![s] = "nulltask"]
      /\ \A c \in Cmd : Owned(mem, c, made)
  BY ClearedKeeps DEF TaskMoveAssign
<1>2. /\ m' = TaskMoved(mem, s, t, throws) /\ UNCHANGED <<made, fault>>
      /\ m.object[t] # "none" /\ m.object \in [Slot -> Objects]
      /\ s \in Slot /\ t \in Slot
  BY Variables, WhatIsHeld DEF TaskMoveAssign, Alive, IInv, Sound, Memory
<1> HIDE DEF mem
<1>3. mem.object[s] = "nulltask" /\ mem.object[t] # "none"
  BY <1>1, <1>2
<1> QED
  BY <1>1, <1>2, <1>3, TaskMovedPreserves DEF IInv

(* A task is cleared. *)
LEMMA TaskClearPreserves ==
  ASSUME IInv, NEW t \in Task, NEW k \in Alternative, NEW throws \in BOOLEAN,
         TaskClear(t, k, throws)
  PROVE  IInv'
<1>1. /\ Sound(m') /\ m'.object[Temp] = "none"
      /\ \A c \in Cmd : Owned(m', c, made)
  BY ClearedKeeps DEF TaskClear
<1> QED
  BY <1>1 DEF TaskClear, IInv

(* A task is destroyed. *)
LEMMA TaskDestroyPreserves ==
  ASSUME IInv, NEW t \in Task, NEW k \in Alternative, NEW throws \in BOOLEAN,
         TaskDestroy(t, k, throws)
  PROVE  IInv'
<1> DEFINE mem == Cleared(m, t, k, throws)
<1>1. /\ Sound(mem) /\ mem.object[Temp] = "none"
      /\ mem.object = [m.object EXCEPT ![t] = "nulltask"]
      /\ \A c \in Cmd : Owned(mem, c, made)
  BY ClearedKeeps DEF TaskDestroy
<1>2. /\ m' = Ended(mem, t) /\ UNCHANGED <<made, fault>>
      /\ t \in Slot /\ t # Temp /\ Temp \in Slot
  BY Variables DEF TaskDestroy
<1> HIDE DEF mem
<1>3. /\ SoundWith(m', [mem.object EXCEPT ![t] = "none"], mem.cancels)
      /\ mem.object[t] = "nulltask" /\ mem.object \in [Slot -> Objects]
  BY <1>1, <1>2, EndedSound DEF IInv, Sound, Memory
<1>4. ASSUME NEW c \in Cmd
      PROVE  Owned(m', c, made)
  <2>1. \A s \in Slot : m'.object[s] = c <=> mem.object[s] = c
    BY <1>2, <1>3, SlotAssumption DEF SoundWith, NotCommands
  <2> QED
    BY <1>1, <1>3, <2>1, OwnersKept DEF SoundWith
<1>5. m'.object[Temp] = "none"
  BY <1>1, <1>2, <1>3 DEF SoundWith
<1> QED
  BY <1>2, <1>3, <1>4, <1>5 DEF IInv, SoundWith

(* A task is dismissed, and its result is constructed. *)
LEMMA TaskDismissPreserves ==
  ASSUME IInv, NEW t \in Task, NEW r \in Result, NEW k \in Alternative,
         NEW throws \in BOOLEAN, TaskDismiss(t, r, k, throws)
  PROVE  IInv'
<1>1. /\ t \in Slot /\ r \in Slot \ Task /\ Temp \in Slot /\ Temp \notin {t, r}
      /\ m.object[t] \notin {"none", "nulltask"} /\ m.object[r] = "none"
      /\ Sound(m) /\ m.object \in [Slot -> Objects]
      /\ m' = Dismissed(m, t, r, k, throws) /\ UNCHANGED <<made, fault>>
  BY Variables, WhatIsHeld DEF TaskDismiss, Out, Alive, IInv, Sound, Memory
<1>2. PICK y \in NotCommands :
        SoundWith(m', [m.object EXCEPT ![r] = y, ![t] = "nulltask"],
                  IF m.object[t] \in Cmd
                  THEN [m.cancels EXCEPT ![m.object[t]] = @ + 1]
                  ELSE m.cancels)
  BY <1>1, DismissedSound
<1>3. ASSUME NEW c \in Cmd
      PROVE  Owned(m', c, made)
  <2>1. /\ m'.object[t] \notin Cmd
        /\ \A s \in Slot \ {t} : m'.object[s] = c <=> m.object[s] = c
    BY <1>1, <1>2, SlotAssumption DEF SoundWith, NotCommands
  <2>2. Owned(m, c, made)
    BY DEF IInv
  <2> QED
    BY <1>1, <1>2, <2>1, <2>2, OwnersCancelled DEF SoundWith
<1>4. m'.object[Temp] = "none"
  BY <1>1, <1>2 DEF SoundWith, IInv
<1> QED
  BY <1>1, <1>2, <1>3, <1>4 DEF SoundWith, IInv

(* A step that changes what one result has. *)
LEMMA ResultChangedPreserves ==
  ASSUME IInv, UNCHANGED <<made, fault>>,
         NEW r \in Result, NEW y, y \notin Cmd,
         SoundWith(m', [m.object EXCEPT ![r] = y], m.cancels)
  PROVE  IInv'
<1>1. /\ r \in Slot /\ r # Temp /\ Temp \in Slot /\ m.object[r] \notin Cmd
      /\ m.object \in [Slot -> Objects] /\ m.object[Temp] = "none"
  BY Variables, WhatIsHeld DEF IInv, Sound, Memory
<1>2. /\ m'.object[Temp] = "none"
      /\ \A s \in Slot : m'.object[s] # m.object[s] =>
         m'.object[s] \notin Cmd /\ m.object[s] \notin Cmd
  BY <1>1 DEF SoundWith
<1> QED
  BY <1>2, KeepsOwners DEF SoundWith

(* Neither an exception in its place nor what is left of it is a command. *)
LEMMA NoCommandArrives ==
  ASSUME NEW x, x \notin Cmd, NEW throws
  PROVE  Arrives(x, throws) \notin Cmd /\ Moved(x) \notin Cmd
BY SlotAssumption DEF Arrives, Moved, NotCommands, Live

(* A result is constructed. *)
LEMMA ResultConstructPreserves ==
  ASSUME IInv, NEW r \in Result, NEW k \in Alternative, NEW throws \in BOOLEAN,
         ResultConstruct(r, k, throws)
  PROVE  IInv'
<1>1. /\ r \in Slot /\ r \notin Task /\ m.object[r] = "none" /\ Sound(m)
      /\ m' = Constructed(m, r, k, k, throws) /\ UNCHANGED <<made, fault>>
  BY Variables, WhatIsHeld DEF ResultConstruct, Out, IInv
<1>2. k \in Objects \ {"none"} /\ KindOf(k) = k /\ k \notin Cmd
  BY KindsOfObjects, SlotAssumption DEF Alternative, Objects, NotCommands, Live
<1>3. SoundWith(m', [m.object EXCEPT ![r] = Arrives(k, throws)], m.cancels)
  BY <1>1, <1>2, ConstructedSound
<1> QED
  BY <1>1, <1>2, <1>3, NoCommandArrives, ResultChangedPreserves

(* A result is constructed as a copy. *)
LEMMA ResultCopyConstructPreserves ==
  ASSUME IInv, NEW r \in Result, NEW q \in Result, NEW throws \in BOOLEAN,
         ResultCopyConstruct(r, q, throws)
  PROVE  IInv'
<1> DEFINE x == m.object[q]
<1>1. /\ r \in Slot /\ r \notin Task /\ m.object[r] = "none" /\ Sound(m)
      /\ q \in Slot \ Task /\ x \in Objects \ {"none"} /\ x \notin Cmd
      /\ m' = CopyConstructed(m, r, q, throws) /\ UNCHANGED <<made, fault>>
  BY Variables, WhatIsHeld DEF ResultCopyConstruct, Out, Alive, IInv
<1>2. m.index[q] = KindOf(x) /\ KindOf(x) \in Alternative
  <2>1. m.index[q] = KindOf(x) /\ m.index[q] \in Alternative \cup {"out"}
    BY <1>1 DEF Sound
  <2> QED
    BY <1>1, <2>1, KindsOfObjects
<1>3. m' = Constructed(m, r, KindOf(x), x, throws)
  BY <1>1, <1>2 DEF CopyConstructed
<1> HIDE DEF x
<1>4. SoundWith(m', [m.object EXCEPT ![r] = Arrives(x, throws)], m.cancels)
  BY <1>1, <1>2, <1>3, ConstructedSound
<1> QED
  BY <1>1, <1>4, NoCommandArrives, ResultChangedPreserves

(* A result is constructed from one that is moved. *)
LEMMA ResultMoveConstructPreserves ==
  ASSUME IInv, NEW r \in Result, NEW q \in Result, NEW throws \in BOOLEAN,
         ResultMoveConstruct(r, q, throws)
  PROVE  IInv'
<1> DEFINE x == m.object[q]
           copied == CopyConstructed(m, r, q, throws)
<1>1. /\ r \in Slot /\ r \notin Task /\ m.object[r] = "none" /\ Sound(m)
      /\ q \in Slot \ Task /\ x \in Objects \ {"none"} /\ x \notin Cmd
      /\ m' = MoveConstructed(m, r, q, throws) /\ UNCHANGED <<made, fault>>
      /\ m.object \in [Slot -> Objects] /\ q # r
  BY Variables, WhatIsHeld
  DEF ResultMoveConstruct, Out, Alive, IInv, Sound, Memory
<1>2. m.index[q] = KindOf(x) /\ KindOf(x) \in Alternative
  <2>1. m.index[q] = KindOf(x) /\ m.index[q] \in Alternative \cup {"out"}
    BY <1>1 DEF Sound
  <2> QED
    BY <1>1, <2>1, KindsOfObjects
<1>3. copied = Constructed(m, r, KindOf(x), x, throws)
  BY <1>1, <1>2 DEF CopyConstructed
<1>4. m' = [copied EXCEPT !.object[q] = Moved(@)]
  BY <1>1 DEF MoveConstructed, CopyConstructed
<1> HIDE DEF x, copied
<1>5. SoundWith(copied, [m.object EXCEPT ![r] = Arrives(x, throws)], m.cancels)
  BY <1>1, <1>2, <1>3, ConstructedSound
<1>6. Sound(copied)
  BY <1>5 DEF SoundWith
<1>7. SoundWith(m', [copied.object EXCEPT ![q] = Moved(@)], copied.cancels)
  BY <1>1, <1>4, <1>6, MovedFromSound
<1>8. m'.object = [m.object EXCEPT ![r] = Arrives(x, throws), ![q] = Moved(@)]
  BY <1>5, <1>7 DEF SoundWith
<1>9. \A s \in Slot : m'.object[s] # m.object[s] =>
        m'.object[s] \notin Cmd /\ m.object[s] \notin Cmd
  <2>1. m'.object[r] \notin Cmd /\ m.object[r] \notin Cmd
    BY <1>1, <1>8, NoCommandArrives, SlotAssumption DEF NotCommands
  <2>2. m'.object[q] \notin Cmd /\ m.object[q] \notin Cmd
    BY <1>1, <1>8, NoCommandArrives DEF x
  <2>3. \A s \in Slot \ {r, q} : m'.object[s] = m.object[s]
    BY <1>1, <1>8
  <2> QED
    BY <2>1, <2>2, <2>3
<1>10. m'.object[Temp] = "none"
  BY <1>1, <1>8, Variables DEF IInv
<1> QED
  BY <1>1, <1>5, <1>7, <1>9, <1>10, KeepsOwners DEF SoundWith

(* A result becomes a copy, of itself perhaps. *)
LEMMA ResultCopyAssignPreserves ==
  ASSUME IInv, NEW r \in Result, NEW q \in Result, NEW throws \in BOOLEAN,
         ResultCopyAssign(r, q, throws)
  PROVE  IInv'
<1>1. CASE r = q
  BY <1>1 DEF ResultCopyAssign, IInv
<1>2. CASE r # q
  <2>1. /\ r \in Slot \ Task /\ q \in Slot \ Task /\ Sound(m)
        /\ m.object[q] # "none" /\ m.object[q] \notin Cmd
        /\ m' = CopyConstructed(Destroyed(m, r), r, q, throws)
        /\ UNCHANGED <<made, fault>>
    BY <1>2, Variables, WhatIsHeld DEF ResultCopyAssign, Alive, IInv
  <2>2. SoundWith(m', [m.object EXCEPT ![r] = Arrives(m.object[q], throws)],
                  m.cancels)
    BY <1>2, <2>1, RebuiltSound
  <2> QED
    BY <2>1, <2>2, NoCommandArrives, ResultChangedPreserves
<1> QED
  BY <1>1, <1>2

(* A result takes what another one held. *)
LEMMA ResultMoveAssignPreserves ==
  ASSUME IInv, NEW r \in Result, NEW q \in Result, NEW throws \in BOOLEAN,
         ResultMoveAssign(r, q, throws)
  PROVE  IInv'
<1>1. CASE r = q
  BY <1>1 DEF ResultMoveAssign, IInv
<1>2. CASE r # q
  <2>1. /\ r \in Slot \ Task /\ q \in Slot \ Task /\ Sound(m)
        /\ m.object[q] # "none" /\ m.object[q] \notin Cmd
        /\ m.object[r] \notin Cmd /\ m.object \in [Slot -> Objects]
        /\ m' = MoveConstructed(Destroyed(m, r), r, q, throws)
        /\ UNCHANGED <<made, fault>>
    BY <1>2, Variables, WhatIsHeld DEF ResultMoveAssign, Alive, IInv, Sound, Memory
  <2>2. SoundWith(m', [m.object EXCEPT ![r] = Arrives(m.object[q], throws),
                                       ![q] = Moved(@)], m.cancels)
    BY <1>2, <2>1, RebuiltByMoveSound
  <2>3. /\ m'.object[r] \notin Cmd /\ m'.object[q] \notin Cmd
        /\ \A s \in Slot \ {r, q} : m'.object[s] = m.object[s]
    BY <1>2, <2>1, <2>2, NoCommandArrives DEF SoundWith
  <2>4. m'.object[Temp] = "none"
    BY <2>3, Variables DEF IInv
  <2> QED
    BY <2>1, <2>2, <2>3, <2>4, KeepsOwners DEF SoundWith
<1> QED
  BY <1>1, <1>2

(* A result is destroyed. *)
LEMMA ResultDestroyPreserves ==
  ASSUME IInv, NEW r \in Result, ResultDestroy(r)
  PROVE  IInv'
<1>1. /\ r \in Slot /\ Sound(m) /\ m' = Ended(m, r) /\ UNCHANGED <<made, fault>>
  BY Variables DEF ResultDestroy, IInv
<1>2. SoundWith(m', [m.object EXCEPT ![r] = "none"], m.cancels)
  BY <1>1, EndedSound
<1> QED
  BY <1>1, <1>2, ResultChangedPreserves, SlotAssumption DEF NotCommands

(* Every step preserves the invariant. *)
LEMMA StepPreserves ==
  IInv /\ [Next]_vars => IInv'
<1> SUFFICES ASSUME IInv, [Next]_vars PROVE IInv'
  OBVIOUS
<1>1. CASE Terminated \/ UNCHANGED vars
  BY <1>1 DEF Terminated, vars, IInv
<1>2. ASSUME NEW throws \in BOOLEAN, NEW t \in Task, NEW k \in Alternative,
             \/ \E s \in Task : TaskMoveAssign(s, t, k, throws)
             \/ TaskClear(t, k, throws)
             \/ TaskDestroy(t, k, throws)
             \/ \E r \in Result : TaskDismiss(t, r, k, throws)
      PROVE  IInv'
  BY <1>2, TaskMoveAssignPreserves, TaskClearPreserves, TaskDestroyPreserves,
     TaskDismissPreserves
<1>3. ASSUME NEW throws \in BOOLEAN, NEW t \in Task,
             \/ TaskConstruct(t, throws)
             \/ \E s \in Task : TaskMoveConstruct(s, t, throws)
      PROVE  IInv'
  BY <1>3, TaskConstructPreserves, TaskMoveConstructPreserves
<1>4. ASSUME NEW throws \in BOOLEAN, NEW r \in Result,
             \/ \E k \in Alternative : ResultConstruct(r, k, throws)
             \/ \E q \in Result : \/ ResultCopyConstruct(r, q, throws)
                                  \/ ResultMoveConstruct(r, q, throws)
                                  \/ ResultCopyAssign(r, q, throws)
                                  \/ ResultMoveAssign(r, q, throws)
             \/ ResultDestroy(r)
      PROVE  IInv'
  BY <1>4, ResultConstructPreserves, ResultCopyConstructPreserves,
     ResultMoveConstructPreserves, ResultCopyAssignPreserves,
     ResultMoveAssignPreserves, ResultDestroyPreserves
<1> QED
  BY <1>1, <1>2, <1>3, <1>4 DEF Next

(* So it holds always. *)
LEMMA Invariance ==
  Spec => []IInv
<1> QED
  BY InitEstablishes, StepPreserves, PTL DEF Spec

-----------------------------------------------------------------------------
(* The properties.                                                         *)

(* Whatever is constructed, moved, assigned, cleared and destroyed, and    *)
(* whichever constructors throw: index_ names the object that is in        *)
(* storage_ (variant_storage.h), and no task has an object whose content   *)
(* has been moved out of it.                                               *)
THEOREM IndexNames ==
  Spec => []IndexNamesObject
<1>1. IInv => IndexNamesObject
  <2> SUFFICES ASSUME IInv PROVE IndexNamesObject
    OBVIOUS
  <2>1. m \in Memory /\ m.count \in Nat
    BY FS_CardinalityType DEF IInv, Sound
  <2>2. m.index[Temp] = "out"
    BY Variables, WhatIsHeld DEF IInv
  <2>3. \A r \in Result : m.index[r] \in Alternative \cup {"out"}
    BY Variables DEF IInv, Sound
  <2>4. TypeOK
    BY <2>1, <2>2, <2>3 DEF TypeOK, IInv, Memory
  <2> QED
    BY <2>4 DEF IInv, Sound, IndexNamesObject
<1> QED
  BY <1>1, Invariance, PTL

(* Every T that is constructed is destroyed exactly once: as many are      *)
(* alive as there are variables that hold one, so that none is dropped     *)
(* without its destructor, nor destroyed in two variables.                 *)
THEOREM ObjectsAreHeld ==
  Spec => []EveryObjectIsHeld
<1>1. IInv => EveryObjectIsHeld
  BY DEF IInv, Sound, LiveIn, EveryObjectIsHeld
<1> QED
  BY <1>1, Invariance, PTL

(* A command is owned by one task until it is cancelled, and is cancelled  *)
(* once: no construction, move or assignment of a task duplicates it or    *)
(* drops it, even if what is cleared on the way throws.                    *)
THEOREM OneOwner ==
  Spec => []OneOwnerPerCommand
<1>1. IInv => OneOwnerPerCommand
  <2> SUFFICES ASSUME IInv, NEW c \in Cmd
               PROVE  /\ Cardinality({s \in Slot : m.object[s] = c}) + m.cancels[c] =
                            IF c \in made THEN 1 ELSE 0
                      /\ \A s \in Slot \ Task : m.object[s] # c
    BY DEF OneOwnerPerCommand
  <2> DEFINE owners == {s \in Slot : m.object[s] = c}
  <2>1. Owned(m, c, made)
    BY DEF IInv
  <2>2. CASE NotIn(m, c)
    <3>1. owners = {}
      BY <2>2 DEF NotIn
    <3>2. Cardinality(owners) = 0
      BY <3>1, FS_EmptySet
    <3>3. m.cancels[c] = IF c \in made THEN 1 ELSE 0
      BY <2>1, <2>2, Variables DEF Owned, NotIn
    <3> QED
      BY <2>2, <3>2, <3>3 DEF NotIn
  <2>3. CASE ~NotIn(m, c)
    <3>1. /\ c \in made /\ m.cancels[c] = 0
          /\ \E t \in Task : \A s \in Slot : m.object[s] = c <=> s = t
      BY <2>1, <2>3 DEF Owned
    <3>2. PICK t \in Task : \A s \in Slot : m.object[s] = c <=> s = t
      BY <3>1
    <3>3. owners = {t}
      BY <3>2, Variables
    <3>4. Cardinality(owners) = 1
      BY <3>3, FS_Singleton
    <3> QED
      BY <3>1, <3>2, <3>4
  <2> QED
    BY <2>2, <2>3
<1> QED
  BY <1>1, Invariance, PTL
=============================================================================

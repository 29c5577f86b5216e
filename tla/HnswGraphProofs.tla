---------------------------- MODULE HnswGraphProofs ----------------------------
(***************************************************************************)
(* Proofs about a graph that several threads add to, for any capacity,     *)
(* levels, degrees, vectors and number of threads.                         *)
(***************************************************************************)
EXTENDS HnswGraph, FiniteSetTheorems, SequenceTheorems, TLAPS

IsTask(k) ==
  k = [pc |-> k.pc, node |-> k.node, at |-> k.at, seed |-> k.seed, lvl |-> k.lvl,
       cur |-> k.cur, todo |-> k.todo, raises |-> k.raises]

\* A thread is idle, or adds an element the graph counts.
TaskOK(k) ==
  \/ k = Idle
  \/ IsTask(k) /\ k.pc # "idle" /\ k.node \in Elements /\ k.at \in Points

TasksOK == task = [t \in Threads |-> task[t]] /\ \A t \in Threads : TaskOK(task[t])

\* The vectors of the elements there are.
Placed ==
  /\ at = [n \in Nodes |-> at[n]] /\ marked \subseteq Elements
  /\ \A n \in Elements : at[n] \in Points

\* The entry point is an element, once there is one.
EntryMade ==
  \/ entry \in Elements
  \/ count = 0 /\ entry = 0 /\ maxLevel = 0

\* Between its two writes, an addition that raises the level is the entry point, and the only one.
TopHeld ==
  ~raced => /\ maxLevel <= level[entry]
            /\ \A t \in Threads : task[t].pc = "top" =>
                 entry = task[t].node /\ \A u \in Threads : task[u].pc = "top" => u = t

GraphInv == GraphTypeOK /\ Placed /\ TasksOK /\ EntryMade /\ TopHeld

\* How the sets of elements, nodes and levels relate.
LEMMA GraphSizes ==
  ASSUME count \in 0 .. Capacity
  PROVE  /\ count \in Nat /\ Elements \subseteq Nodes /\ Nodes \subseteq Nat
         /\ count \notin Elements /\ count < Capacity => count \in Nodes
         /\ Capacity \in Nat /\ Capacity > 0 /\ 0 \in Nodes /\ 0 \in Levels
         /\ Levels \subseteq Nat /\ Levels = 0 .. Top /\ Elements = 0 .. count - 1
  BY GraphAssumption DEF Elements, Nodes, Levels

\* The empty graph.
LEMMA InitGraphInv == GraphInit => GraphInv
<1> SUFFICES ASSUME GraphInit PROVE GraphInv
  OBVIOUS
<1>1. count = 0 /\ Elements = {} /\ 0 \in Nodes /\ 0 \in Levels
  BY GraphAssumption DEF GraphInit, Elements, Nodes, Levels
<1>2. Cardinality({}) = 0
  BY FS_EmptySet
<1>3. GraphTypeOK
  <2>1. count \in 0 .. Capacity /\ level \in [Nodes -> Levels] /\ maxLevel \in Levels /\ entry \in Nodes
    BY <1>1, GraphAssumption DEF GraphInit
  <2>2. \A n \in Nodes : at[n] \in Points \cup {None}
    BY DEF GraphInit
  <2>3. marked \subseteq Elements /\ deletions = Cardinality(marked)
    BY <1>2 DEF GraphInit
  <2>4. lock \in Threads \cup {None} /\ overlap \in BOOLEAN /\ raced \in BOOLEAN
    BY DEF GraphInit
  <2> QED
    BY <2>1, <2>2, <2>3, <2>4 DEF GraphTypeOK
<1>4. Placed /\ TasksOK
  BY <1>1 DEF GraphInit, Placed, TasksOK, TaskOK
<1>5. EntryMade /\ TopHeld
  BY <1>1 DEF GraphInit, EntryMade, TopHeld, Idle
<1> QED
  BY <1>3, <1>4, <1>5 DEF GraphInv

\* One thread goes on with its task, and only it.
LEMMA TaskMoves ==
  ASSUME TasksOK, NEW t \in Threads, NEW k, task' = [task EXCEPT ![t] = k],
         Elements \subseteq Elements',
         k = Idle \/ (IsTask(k) /\ k.pc # "idle" /\ k.node \in Elements' /\ k.at \in Points)
  PROVE  /\ TasksOK' /\ task'[t] = k
         /\ \A u \in Threads : u # t => task'[u] = task[u]
<1>1. task'[t] = k /\ \A u \in Threads : u # t => task'[u] = task[u]
  BY DEF TasksOK
<1>2. task' = [u \in Threads |-> task'[u]]
  BY DEF TasksOK
<1>3. ASSUME NEW u \in Threads PROVE TaskOK(task[u])'
  BY <1>1 DEF TasksOK, TaskOK, IsTask
<1> QED
  BY <1>1, <1>2, <1>3 DEF TasksOK

\* After(k): the next level, or the end.
LEMMA AfterIs ==
  ASSUME NEW k, IsTask(k), k.pc = "link"
  PROVE  /\ IsTask(After(k)) /\ After(k).node = k.node /\ After(k).at = k.at
         /\ After(k).pc \in {"link", "entry", "done"}
<1>1. CASE k.lvl > 0
  BY <1>1 DEF After, IsTask
<1>2. CASE ~(k.lvl > 0)
  <2>1. After(k) = [k EXCEPT !.pc = IF k.raises THEN "entry" ELSE "done"]
    BY <1>2 DEF After
  <2> DEFINE pc == IF k.raises THEN "entry" ELSE "done"
  <2>2. pc \in {"entry", "done"}
    OBVIOUS
  <2> HIDE DEF pc
  <2>3. After(k) = [k EXCEPT !.pc = pc]
    BY <2>1 DEF pc
  <2> QED
    BY <2>2, <2>3 DEF IsTask
<1> QED
  BY <1>1, <1>2

\* Steps of a task that search and link change no element, mark, entry point or level.
LEMMA LinkSteps ==
  ASSUME GraphInv, NEW t \in Threads, Unlink(t) \/ Seek(t) \/ Link(t) \/ LinkBack(t)
  PROVE  /\ UNCHANGED <<count, level, marks, tops, threads>>
         /\ Placed' /\ TasksOK' /\ task'[t].pc # "top"
         /\ \A u \in Threads : u # t => task'[u] = task[u]
<1> DEFINE k == task[t]
<1>1. TasksOK /\ TaskOK(k) /\ Placed
  BY DEF GraphInv, TasksOK
<1>2. UNCHANGED <<count, level, marks, tops, threads>> /\ Elements' = Elements
  BY DEF Unlink, Seek, Link, LinkBack, elements, Elements
<1>3. k.pc \in {"unlink", "seek", "link"}
  BY DEF Unlink, Seek, Link, LinkBack
<1>4. IsTask(k) /\ k.node \in Elements /\ k.at \in Points
  BY <1>1, <1>3 DEF TaskOK, Idle
<1>5. \E new : /\ task' = [task EXCEPT ![t] = new] /\ IsTask(new)
               /\ new.node = k.node /\ new.at = k.at
               /\ new.pc \in {"unlink", "seek", "link", "entry", "done"}
  <2> HIDE DEF k
  <2>1. CASE Unlink(t)
    <3>1. CASE k.lvl < level[k.node]
      <4>1. task' = [task EXCEPT ![t] = [k EXCEPT !.lvl = k.lvl + 1]]
        BY <2>1, <3>1 DEF Unlink, k
      <4> DEFINE new == [k EXCEPT !.lvl = k.lvl + 1]
      <4>2. IsTask(new) /\ new.node = k.node /\ new.at = k.at /\ new.pc = k.pc
        BY <1>4 DEF IsTask
      <4> QED
        BY <1>3, <4>1, <4>2
    <3>2. CASE ~(k.lvl < level[k.node])
      <4>1. PICK pc \in {"done", "seek"} : task' = [task EXCEPT ![t] = [k EXCEPT !.pc = pc]]
        BY <2>1, <3>2 DEF Unlink, k
      <4> DEFINE new == [k EXCEPT !.pc = pc]
      <4>2. IsTask(new) /\ new.node = k.node /\ new.at = k.at /\ new.pc = pc
        BY <1>4 DEF IsTask
      <4> QED
        BY <4>1, <4>2
    <3> QED
      BY <3>1, <3>2
  <2>2. CASE Seek(t)
    <3>1. PICK lvl, cur, raises :
            task' = [task EXCEPT ![t] =
                       [k EXCEPT !.pc = "link", !.lvl = lvl, !.cur = cur, !.raises = raises]]
      BY <2>2 DEF Seek, k
    <3> DEFINE new == [k EXCEPT !.pc = "link", !.lvl = lvl, !.cur = cur, !.raises = raises]
    <3>2. new = [[[[k EXCEPT !.pc = "link"] EXCEPT !.lvl = lvl] EXCEPT !.cur = cur]
                   EXCEPT !.raises = raises]
      BY <1>4 DEF IsTask
    <3> HIDE DEF new
    <3>3. IsTask(new) /\ new.node = k.node /\ new.at = k.at /\ new.pc = "link"
      <4> DEFINE a == [k EXCEPT !.pc = "link"]
                 b == [a EXCEPT !.lvl = lvl]
                 c == [b EXCEPT !.cur = cur]
      <4>1. IsTask(a) /\ a.node = k.node /\ a.at = k.at /\ a.pc = "link"
        BY <1>4 DEF IsTask
      <4> HIDE DEF a
      <4>2. IsTask(b) /\ b.node = k.node /\ b.at = k.at /\ b.pc = "link"
        BY <4>1 DEF IsTask
      <4> HIDE DEF b
      <4>3. IsTask(c) /\ c.node = k.node /\ c.at = k.at /\ c.pc = "link"
        BY <4>2 DEF IsTask
      <4>4. new = [c EXCEPT !.raises = raises]
        BY <3>2 DEF a, b
      <4> HIDE DEF c
      <4> QED
        BY <4>3, <4>4 DEF IsTask
    <3>4. task' = [task EXCEPT ![t] = new]
      BY <3>1 DEF new
    <3> QED
      BY <3>3, <3>4
  <2>3. CASE Link(t) \/ LinkBack(t)
    <3>1. PICK cur, todo :
            LET next == [k EXCEPT !.cur = cur, !.todo = todo]
            IN  \/ task' = [task EXCEPT ![t] = next]
                \/ task' = [task EXCEPT ![t] = After(next)]
      <4>1. CASE Link(t)
        BY <4>1 DEF Link, k
      <4>2. CASE LinkBack(t)
        <5>1. [k EXCEPT !.todo = Tail(@)] = [k EXCEPT !.cur = k.cur, !.todo = Tail(k.todo)]
          BY <1>4 DEF IsTask
        <5> QED
          BY <4>2, <5>1 DEF LinkBack, k
      <4> QED
        BY <2>3, <4>1, <4>2
    <3> DEFINE next == [k EXCEPT !.cur = cur, !.todo = todo]
    <3>2. k.pc = "link"
      BY <2>3 DEF Link, LinkBack, k
    <3>3. IsTask(next) /\ next.node = k.node /\ next.at = k.at /\ next.pc = "link"
      <4> DEFINE a == [k EXCEPT !.cur = cur]
      <4>1. next = [a EXCEPT !.todo = todo]
        BY <1>4 DEF IsTask
      <4>2. IsTask(a) /\ a.node = k.node /\ a.at = k.at /\ a.pc = "link"
        BY <1>4, <3>2 DEF IsTask
      <4> HIDE DEF next, a
      <4> QED
        BY <4>1, <4>2 DEF IsTask
    <3>4. task' = [task EXCEPT ![t] = next] \/ task' = [task EXCEPT ![t] = After(next)]
      BY <3>1
    <3> HIDE DEF next
    <3>5. /\ IsTask(After(next)) /\ After(next).node = next.node /\ After(next).at = next.at
          /\ After(next).pc \in {"link", "entry", "done"}
      BY <3>3, AfterIs
    <3> QED
      BY <3>3, <3>4, <3>5
  <2> QED
    BY <2>1, <2>2, <2>3
<1>6. PICK new : /\ task' = [task EXCEPT ![t] = new] /\ IsTask(new)
                 /\ new.node = k.node /\ new.at = k.at
                 /\ new.pc \in {"unlink", "seek", "link", "entry", "done"}
  BY <1>5
<1> HIDE DEF k
<1>7. (IsTask(new) /\ new.pc # "idle" /\ new.node \in Elements' /\ new.at \in Points)
  BY <1>2, <1>4, <1>6
<1>8. /\ TasksOK' /\ task'[t] = new
      /\ \A u \in Threads : u # t => task'[u] = task[u]
  BY <1>1, <1>2, <1>6, <1>7, TaskMoves
<1>9. Placed'
  <2>1. at' = at \/ at' = [at EXCEPT ![k.node] = k.at]
    BY DEF Unlink, Seek, Link, LinkBack, elements, k
  <2>2. marked' = marked
    BY <1>2 DEF marks
  <2>3. Elements \subseteq Nodes
    BY GraphSizes DEF GraphInv, GraphTypeOK
  <2>4. at' = [n \in Nodes |-> at'[n]]
    BY <1>1, <2>1 DEF Placed
  <2>5. \A n \in Elements : at'[n] \in Points
    BY <1>1, <1>4, <2>1, <2>3 DEF Placed
  <2> QED
    BY <1>1, <1>2, <2>2, <2>4, <2>5 DEF Placed
<1> QED
  BY <1>2, <1>6, <1>8, <1>9

\* What an addition that raises the level has done, with the steps of others.
LEMMA TopStays ==
  ASSUME EntryMade, TopHeld, UNCHANGED <<entry, maxLevel>>, raced => raced',
         Elements \subseteq Elements', \A n \in Elements : level'[n] = level[n],
         count = 0 => level'[0] \in Nat,
         \A t \in Threads : task'[t].pc = "top" => task[t] = task'[t] /\ task[t].node \in Elements,
         count' # 0 => entry \in Elements', count' = 0 => count = 0
  PROVE  EntryMade' /\ TopHeld'
<1>1. EntryMade'
  BY DEF EntryMade, Elements
<1>2. ASSUME ~raced' PROVE maxLevel <= level'[entry]
  BY <1>2 DEF EntryMade, TopHeld
<1> QED
  BY <1>1, <1>2 DEF TopHeld

\* The set of marked elements and its count.
LEMMA MarkedFinite ==
  ASSUME GraphTypeOK
  PROVE  IsFiniteSet(marked) /\ Cardinality(marked) \in Nat
<1>1. count \in Nat /\ marked \subseteq 0 .. count - 1
  BY GraphSizes DEF GraphTypeOK
<1>2. IsFiniteSet(0 .. count - 1)
  BY <1>1, FS_Interval
<1> QED
  BY <1>1, <1>2, FS_Subset, FS_CardinalityType

\* A new task is one.
LEMMA AddingIs ==
  ASSUME NEW n, NEW p, NEW pc, NEW seed
  PROVE  /\ IsTask(Adding(n, p, pc, seed)) /\ Adding(n, p, pc, seed).node = n
         /\ Adding(n, p, pc, seed).at = p /\ Adding(n, p, pc, seed).pc = pc
  BY DEF Adding, IsTask

\* A new element is counted and placed.
LEMMA AddNewKeepsGraph ==
  ASSUME GraphInv, NEW t \in Threads, NEW p \in Free, NEW l \in Levels, AddNew(t, p, l)
  PROVE  GraphInv'
<1>1. GraphTypeOK /\ Placed /\ TasksOK /\ EntryMade /\ TopHeld
  BY DEF GraphInv
<1>2. /\ count < Capacity /\ count' = count + 1 /\ level' = [level EXCEPT ![count] = l]
      /\ at' = [at EXCEPT ![count] = p] /\ p \in Points
      /\ UNCHANGED <<marked, deletions, entry, maxLevel, lock, raced>>
      /\ overlap' = (overlap \/ Busy # {})
  BY DEF AddNew, marks, tops, Free
<1>3. /\ count \in Nodes /\ count \in Nat /\ Elements \subseteq Nodes /\ count \notin Elements
      /\ Levels \subseteq Nat
  BY <1>1, <1>2, GraphSizes DEF GraphTypeOK
<1>4. Elements' = Elements \cup {count} /\ count' \in 0 .. Capacity
  BY <1>2, <1>3, GraphAssumption DEF Elements, Nodes
<1>5. /\ level' \in [Nodes -> Levels] /\ level'[count] = l
      /\ \A n \in Nodes : n # count => level'[n] = level[n]
  BY <1>1, <1>2, <1>3 DEF GraphTypeOK
<1>6. /\ at' = [n \in Nodes |-> at'[n]] /\ at'[count] = p
      /\ \A n \in Nodes : n # count => at'[n] = at[n]
  BY <1>1, <1>2, <1>3 DEF Placed
<1>7. Placed'
  BY <1>1, <1>2, <1>3, <1>4, <1>6 DEF Placed
<1>8. GraphTypeOK'
  <2>1. \A n \in Nodes : at'[n] \in Points \cup {None}
    BY <1>1, <1>2, <1>6 DEF GraphTypeOK
  <2>2. marked' \subseteq Elements' /\ deletions' = Cardinality(marked')
    BY <1>1, <1>2, <1>4 DEF GraphTypeOK
  <2>3. overlap' \in BOOLEAN
    BY <1>2
  <2>4. /\ entry' \in Nodes /\ maxLevel' \in Levels /\ lock' \in Threads \cup {None}
        /\ raced' \in BOOLEAN
    BY <1>1, <1>2 DEF GraphTypeOK
  <2> QED
    BY <1>4, <1>5, <2>1, <2>2, <2>3, <2>4 DEF GraphTypeOK
<1> DEFINE k == IF count = 0 THEN Idle ELSE Adding(count, p, "seek", None)
<1>9. task' = [task EXCEPT ![t] = k]
  BY DEF AddNew
<1>10. /\ k.pc # "top"
       /\ k = Idle \/ (IsTask(k) /\ k.pc # "idle" /\ k.node \in Elements' /\ k.at \in Points)
  <2>1. CASE count = 0
    BY <2>1 DEF Idle
  <2>2. CASE count # 0
    <3> DEFINE new == Adding(count, p, "seek", None)
    <3>1. IsTask(new) /\ new.node = count /\ new.at = p /\ new.pc = "seek"
      BY AddingIs
    <3>2. k = new
      BY <2>2
    <3> HIDE DEF k, new
    <3> QED
      BY <1>2, <1>4, <3>1, <3>2
  <2> QED
    BY <2>1, <2>2
<1> HIDE DEF k
<1>11. /\ TasksOK' /\ task'[t] = k
       /\ \A u \in Threads : u # t => task'[u] = task[u]
  BY <1>1, <1>4, <1>9, <1>10, TaskMoves
<1>12. \A u \in Threads : task'[u].pc = "top" => task[u] = task'[u] /\ task[u].node \in Elements
  BY <1>1, <1>10, <1>11 DEF TasksOK, TaskOK, Idle
<1>13. EntryMade' /\ TopHeld'
  <2>1. \A n \in Elements : level'[n] = level[n]
    BY <1>3, <1>5
  <2>2. count = 0 => level'[0] \in Nat
    BY <1>3, <1>5
  <2>3. entry \in Elements' /\ count' # 0
    BY <1>1, <1>2, <1>3, <1>4 DEF EntryMade
  <2> QED
    BY <1>1, <1>2, <1>4, <1>12, <2>1, <2>2, <2>3, TopStays
<1> QED
  BY <1>7, <1>8, <1>11, <1>13 DEF GraphInv

\* An element is to be linked again.
LEMMA UpdateKeepsGraph ==
  ASSUME GraphInv, NEW t \in Threads, NEW n \in Elements, NEW p \in Free \cup {at[n]}, Update(t, n, p)
  PROVE  GraphInv'
<1>1. GraphTypeOK /\ Placed /\ TasksOK /\ EntryMade /\ TopHeld
  BY DEF GraphInv
<1>2. /\ UNCHANGED <<count, level, entry, maxLevel, raced>> /\ Elements' = Elements
      /\ marked' = marked \ {n}
      /\ deletions' = IF n \in marked THEN deletions - 1 ELSE deletions
      /\ at' = (IF level[n] = 0 THEN [at EXCEPT ![n] = p] ELSE at)
      /\ lock' = (IF n = entry THEN t ELSE lock) /\ overlap' = (overlap \/ Busy # {})
  BY DEF Update, tops, Elements
<1>3. Elements \subseteq Nodes /\ p \in Points
  BY <1>1, GraphSizes DEF GraphTypeOK, Placed, Free
<1>4. /\ at' = [m \in Nodes |-> at'[m]]
      /\ \A m \in Nodes : at'[m] = at[m] \/ (m = n /\ at'[m] = p)
  BY <1>1, <1>2, <1>3 DEF Placed
<1>5. Placed'
  BY <1>1, <1>2, <1>3, <1>4 DEF Placed
<1>6. deletions' = Cardinality(marked')
  <2>1. IsFiniteSet(marked) /\ deletions = Cardinality(marked)
    BY <1>1, MarkedFinite DEF GraphTypeOK
  <2>2. CASE n \in marked
    BY <1>2, <2>1, <2>2, FS_RemoveElement
  <2>3. CASE n \notin marked
    <3>1. marked' = marked
      BY <1>2, <2>3
    <3> QED
      BY <1>2, <2>1, <2>3, <3>1
  <2> QED
    BY <2>2, <2>3
<1>7. GraphTypeOK'
  <2>1. \A m \in Nodes : at'[m] \in Points \cup {None}
    BY <1>1, <1>3, <1>4 DEF GraphTypeOK
  <2>2. /\ lock' \in Threads \cup {None} /\ overlap' \in BOOLEAN /\ raced' \in BOOLEAN
        /\ marked' \subseteq Elements'
    BY <1>1, <1>2 DEF GraphTypeOK
  <2>3. /\ count' \in 0 .. Capacity /\ level' \in [Nodes -> Levels] /\ entry' \in Nodes
        /\ maxLevel' \in Levels
    BY <1>1, <1>2 DEF GraphTypeOK
  <2> QED
    BY <1>6, <2>1, <2>2, <2>3 DEF GraphTypeOK
<1> DEFINE k == Adding(n, p, "unlink", SeedOf(n))
<1>8. task' = [task EXCEPT ![t] = k]
  BY DEF Update
<1>9. /\ k.pc # "top"
      /\ (IsTask(k) /\ k.pc # "idle" /\ k.node \in Elements' /\ k.at \in Points)
  <2>1. IsTask(k) /\ k.node = n /\ k.at = p /\ k.pc = "unlink"
    BY AddingIs
  <2> HIDE DEF k
  <2> QED
    BY <1>2, <1>3, <2>1
<1> HIDE DEF k
<1>10. /\ TasksOK' /\ task'[t] = k
       /\ \A u \in Threads : u # t => task'[u] = task[u]
  BY <1>1, <1>2, <1>8, <1>9, TaskMoves
<1>11. \A u \in Threads : task'[u].pc = "top" => task[u] = task'[u] /\ task[u].node \in Elements
  BY <1>1, <1>9, <1>10 DEF TasksOK, TaskOK, Idle
<1>12. EntryMade' /\ TopHeld'
  <2>1. EntryMade'
    BY <1>1, <1>2 DEF EntryMade
  <2>2. TopHeld'
    BY <1>1, <1>2, <1>11 DEF TopHeld
  <2> QED
    BY <2>1, <2>2
<1> QED
  BY <1>5, <1>7, <1>10, <1>12 DEF GraphInv

\* The steps of an addition that end it.
LEMMA EndsKeepGraph ==
  ASSUME GraphInv, NEW t \in Threads, SetEntry(t) \/ SetTop(t) \/ Return(t)
  PROVE  GraphInv'
<1> DEFINE k == task[t]
<1>1. GraphTypeOK /\ Placed /\ TasksOK /\ EntryMade /\ TopHeld /\ TaskOK(k)
  BY DEF GraphInv, TasksOK
<1>2. UNCHANGED <<count, level, at, marked, deletions, overlap>> /\ Elements' = Elements
  BY DEF SetEntry, SetTop, Return, elements, marks, Elements, threads
<1>3. Placed'
  BY <1>1, <1>2 DEF Placed
<1>4. IsTask(k) /\ k.node \in Elements /\ k.at \in Points
  BY <1>1 DEF TaskOK, Idle, SetEntry, SetTop, Return
<1>5. k.node \in Nodes /\ Levels \subseteq Nat
  BY <1>1, <1>4, GraphSizes DEF GraphTypeOK
<1>6. CASE SetEntry(t)
  <2>1. /\ k.pc = "entry" /\ entry' = k.node /\ task' = [task EXCEPT ![t] = [k EXCEPT !.pc = "top"]]
        /\ UNCHANGED <<maxLevel, lock>>
        /\ raced' = (raced \/ level[k.node] <= maxLevel \/ \E u \in Threads : task[u].pc = "top")
    BY <1>6 DEF SetEntry
  <2> DEFINE new == [k EXCEPT !.pc = "top"]
  <2>2. IsTask(new) /\ new.pc = "top" /\ new.node = k.node /\ new.at = k.at
    BY <1>4 DEF IsTask
  <2> HIDE DEF new
  <2>3. (IsTask(new) /\ new.pc # "idle" /\ new.node \in Elements' /\ new.at \in Points)
    BY <1>2, <1>4, <2>2
  <2>4. task' = [task EXCEPT ![t] = new]
    BY <2>1 DEF new
  <2>5. TasksOK' /\ task'[t] = new /\ \A u \in Threads : u # t => task'[u] = task[u]
    BY <1>1, <1>2, <2>3, <2>4, TaskMoves
  <2>6. EntryMade'
    BY <1>2, <1>4, <2>1 DEF EntryMade
  <2>7. TopHeld'
    <3> HIDE DEF k
    <3>1. ASSUME ~raced'
          PROVE  ~(level[k.node] <= maxLevel) /\ \A u \in Threads : task[u].pc # "top"
      BY <2>1, <3>1
    <3>2. level[k.node] \in Nat /\ maxLevel \in Nat
      BY <1>1, <1>5 DEF GraphTypeOK
    <3>3. ~(level[k.node] <= maxLevel) => maxLevel <= level[k.node]
      BY <3>2
    <3> QED
      BY <1>2, <2>1, <2>2, <2>5, <3>1, <3>3 DEF TopHeld
  <2>8. GraphTypeOK'
    <3>1. raced' \in BOOLEAN
      BY <2>1
    <3> QED
      BY <1>1, <1>2, <1>5, <2>1, <3>1 DEF GraphTypeOK
  <2> QED
    BY <1>3, <2>5, <2>6, <2>7, <2>8 DEF GraphInv
<1>7. CASE SetTop(t)
  <2>1. /\ k.pc = "top" /\ maxLevel' = level[k.node]
        /\ task' = [task EXCEPT ![t] = [k EXCEPT !.pc = "done"]]
        /\ UNCHANGED <<entry, lock, raced>>
    BY <1>7 DEF SetTop, threads
  <2> DEFINE new == [k EXCEPT !.pc = "done"]
  <2>2. IsTask(new) /\ new.pc = "done" /\ new.node = k.node /\ new.at = k.at
    BY <1>4 DEF IsTask
  <2> HIDE DEF new
  <2>3. (IsTask(new) /\ new.pc # "idle" /\ new.node \in Elements' /\ new.at \in Points)
    BY <1>2, <1>4, <2>2
  <2>4. task' = [task EXCEPT ![t] = new]
    BY <2>1 DEF new
  <2>5. TasksOK' /\ task'[t] = new /\ \A u \in Threads : u # t => task'[u] = task[u]
    BY <1>1, <1>2, <2>3, <2>4, TaskMoves
  <2>6. EntryMade'
    BY <1>1, <1>2, <1>4, <2>1 DEF EntryMade, Elements
  <2>7. TopHeld'
    <3>1. ASSUME ~raced'
          PROVE  entry' = k.node /\ \A u \in Threads : task'[u].pc # "top"
      BY <1>1, <2>1, <2>2, <2>5, <3>1 DEF TopHeld
    <3> HIDE DEF k
    <3>2. level[k.node] \in Nat
      BY <1>1, <1>5 DEF GraphTypeOK
    <3>3. level[k.node] <= level[k.node]
      BY <3>2
    <3> QED
      BY <1>2, <2>1, <3>1, <3>3 DEF TopHeld
  <2>8. GraphTypeOK'
    BY <1>1, <1>2, <1>5, <2>1 DEF GraphTypeOK
  <2> QED
    BY <1>3, <2>5, <2>6, <2>7, <2>8 DEF GraphInv
<1>8. CASE Return(t)
  <2>1. /\ task' = [task EXCEPT ![t] = Idle] /\ UNCHANGED <<entry, maxLevel, raced>>
        /\ lock' = IF lock = t THEN None ELSE lock
    BY <1>8 DEF Return, tops
  <2>3. TasksOK' /\ task'[t] = Idle /\ \A u \in Threads : u # t => task'[u] = task[u]
    BY <1>1, <1>2, <2>1, TaskMoves
  <2>4. EntryMade'
    BY <1>1, <1>2, <2>1 DEF EntryMade
  <2>5. TopHeld'
    BY <1>1, <1>2, <2>1, <2>3 DEF TopHeld, Idle
  <2>6. GraphTypeOK'
    <3>1. lock' \in Threads \cup {None}
      BY <1>1, <2>1 DEF GraphTypeOK
    <3> QED
      BY <1>1, <1>2, <2>1, <3>1 DEF GraphTypeOK
  <2> QED
    BY <1>3, <2>3, <2>4, <2>5, <2>6 DEF GraphInv
<1> QED
  BY <1>6, <1>7, <1>8

\* The steps of a task that search and link.
LEMMA LinksKeepGraph ==
  ASSUME GraphInv, NEW t \in Threads, Unlink(t) \/ Seek(t) \/ Link(t) \/ LinkBack(t)
  PROVE  GraphInv'
<1>1. GraphTypeOK /\ EntryMade /\ TopHeld
  BY DEF GraphInv
<1>2. /\ UNCHANGED <<count, level, marked, deletions, entry, maxLevel, lock, overlap, raced>>
      /\ Placed' /\ TasksOK' /\ task'[t].pc # "top" /\ Elements' = Elements
      /\ \A u \in Threads : u # t => task'[u] = task[u]
  BY LinkSteps DEF marks, tops, threads, Elements
<1>3. GraphTypeOK'
  <2>1. \A n \in Nodes : at'[n] \in Points \cup {None}
    <3>1. at' = at \/ at' = [at EXCEPT ![task[t].node] = task[t].at]
      BY DEF Unlink, Seek, Link, LinkBack, elements
    <3>2. task[t].at \in Points
      BY DEF GraphInv, TasksOK, TaskOK, Idle, Unlink, Seek, Link, LinkBack
    <3>3. at = [n \in Nodes |-> at[n]]
      BY DEF GraphInv, Placed
    <3> QED
      BY <1>1, <3>1, <3>2, <3>3 DEF GraphTypeOK
  <2> QED
    BY <1>1, <1>2, <2>1 DEF GraphTypeOK
<1>4. EntryMade'
  BY <1>1, <1>2 DEF EntryMade
<1>5. TopHeld'
  BY <1>1, <1>2 DEF TopHeld
<1> QED
  BY <1>2, <1>3, <1>4, <1>5 DEF GraphInv

\* An element is deleted.
LEMMA MarkKeepsGraph ==
  ASSUME GraphInv, NEW n \in Elements, MarkDelete(n)
  PROVE  GraphInv'
<1>1. GraphTypeOK /\ Placed /\ TasksOK /\ EntryMade /\ TopHeld
  BY DEF GraphInv
<1>2. /\ UNCHANGED <<count, level, at, entry, maxLevel, task, lock, overlap, raced>>
      /\ Elements' = Elements /\ n \notin marked /\ marked' = marked \cup {n}
      /\ deletions' = deletions + 1
  BY DEF MarkDelete, elements, tops, threads, Elements
<1>3. deletions' = Cardinality(marked')
  <2>1. IsFiniteSet(marked) /\ deletions = Cardinality(marked)
    BY <1>1, MarkedFinite DEF GraphTypeOK
  <2> QED
    BY <1>2, <2>1, FS_AddElement
<1>4. marked' \subseteq Elements'
  BY <1>1, <1>2 DEF GraphTypeOK
<1>5. GraphTypeOK'
  BY <1>1, <1>2, <1>3, <1>4 DEF GraphTypeOK
<1>6. Placed' /\ TasksOK'
  BY <1>1, <1>2, <1>4 DEF Placed, TasksOK, TaskOK, IsTask
<1>7. EntryMade' /\ TopHeld'
  BY <1>1, <1>2 DEF EntryMade, TopHeld
<1> QED
  BY <1>5, <1>6, <1>7 DEF GraphInv

\* Every step keeps the invariant.
LEMMA StepKeepsGraphInv == GraphInv /\ [GraphNext]_vars => GraphInv'
<1> SUFFICES ASSUME GraphInv, [GraphNext]_vars PROVE GraphInv'
  OBVIOUS
<1>1. CASE UNCHANGED vars
  BY <1>1 DEF vars, elements, marks, tops, threads, GraphInv, GraphTypeOK, Placed, TasksOK,
     TaskOK, IsTask, EntryMade, TopHeld, Elements
<1>2. ASSUME NEW t \in Threads, Step(t) PROVE GraphInv'
  BY <1>2, LinksKeepGraph, EndsKeepGraph DEF Step
<1>3. ASSUME NEW t \in Threads, NEW p \in Free, NEW l \in Levels, AddNew(t, p, l) PROVE GraphInv'
  BY <1>3, AddNewKeepsGraph
<1>4. ASSUME NEW t \in Threads, NEW n \in Elements, NEW p \in Free \cup {at[n]}, Update(t, n, p)
      PROVE  GraphInv'
  BY <1>4, UpdateKeepsGraph
<1>5. ASSUME NEW n \in Elements, MarkDelete(n) PROVE GraphInv'
  BY <1>5, MarkKeepsGraph
<1> QED
  BY <1>1, <1>2, <1>3, <1>4, <1>5 DEF GraphNext

\* The inductive invariant of elements, tasks and the entry point holds.
THEOREM GraphInvariant == GraphSpec => []GraphInv
  BY InitGraphInv, StepKeepsGraphInv, PTL DEF GraphSpec

\* The state of a graph keeps its types; among it, the count of deletions is that of the marked
\* elements, whatever is updated and deleted.
THEOREM GraphTypeCorrect == GraphSpec => []GraphTypeOK
<1>1. GraphInv => GraphTypeOK
  BY DEF GraphInv
<1> QED
  BY <1>1, GraphInvariant, PTL

\* However many threads add elements, the entry point has the level a search starts at, unless two
\* additions raised the level at once.
THEOREM EntryAlwaysTop == GraphSpec => []EntryTop
<1>1. GraphInv => EntryTop
  BY DEF GraphInv, TopHeld, EntryTop
<1> QED
  BY <1>1, GraphInvariant, PTL

-------------------------------------------------------------------------------
(***************************************************************************)
(* Recursions over 0..n and folds over sequences stay in the sets their    *)
(* steps do not leave.  What a fold computes is not needed here.           *)
(***************************************************************************)

\* A set of naturals that is not empty has a least element.
LEMMA LeastOf ==
  ASSUME NEW T, T \subseteq Nat, T # {}
  PROVE  \E x \in T : \A y \in T : x <= y
<1>1. IsWellFoundedOn(OpToRel(<, Nat), Nat)
  BY NatLessThanWellFounded
<1>2. PICK x \in T : \A y \in T : ~(<<y, x>> \in OpToRel(<, Nat))
  BY <1>1, WFMin
<1>3. \A y \in T : ~(y < x)
  BY <1>2 DEF OpToRel
<1> QED
  BY <1>3

\* What holds at 0 and is handed on holds up to n.
LEMMA UpTo ==
  ASSUME NEW n \in Nat, NEW T, 0 \in T, \A i \in 1..n : i - 1 \in T => i \in T
  PROVE  n \in T
<1> DEFINE U == {i \in 0..n : i \notin T}
<1>1. SUFFICES ASSUME n \notin T PROVE FALSE
  OBVIOUS
<1>2. U \subseteq Nat /\ U # {}
  BY <1>1
<1>3. PICK m \in U : \A i \in U : m <= i
  BY <1>2, LeastOf
<1>4. m \in 1..n /\ m - 1 \in 0..n /\ ~(m <= m - 1)
  BY <1>3
<1>5. m - 1 \in T
  BY <1>3, <1>4
<1> QED
  BY <1>3, <1>4, <1>5

\* A step applied again and again.
IsOrbit(f, n, base, step) ==
  f = [i \in 0..n |-> IF i = 0 THEN base ELSE step[<<i, f[i - 1]>>]]

\* There is one, for as many steps as wanted.
LEMMA OrbitExists ==
  ASSUME NEW n \in Nat, NEW base, NEW step
  PROVE  \E f : IsOrbit(f, n, base, step)
<1> DEFINE T == {m \in Nat : \E f : IsOrbit(f, m, base, step)}
<1>1. 0 \in T
  <2> DEFINE f == [i \in 0..0 |-> base]
  <2>1. f = [i \in 0..0 |-> IF i = 0 THEN base ELSE step[<<i, f[i - 1]>>]]
    OBVIOUS
  <2> HIDE DEF f
  <2>2. IsOrbit(f, 0, base, step)
    BY <2>1 DEF IsOrbit
  <2> QED
    BY <2>2
<1>2. ASSUME NEW m \in 1..n, m - 1 \in T PROVE m \in T
  <2>1. PICK f : IsOrbit(f, m - 1, base, step)
    BY <1>2
  <2> DEFINE h == [i \in 0..m |-> IF i = m THEN step[<<m, f[m - 1]>>] ELSE f[i]]
  <2>2. m \in Nat /\ m - 1 \in 0..(m - 1)
    OBVIOUS
  <2> HIDE DEF T
  <2>3. ASSUME NEW i \in 0..m
        PROVE  h[i] = IF i = 0 THEN base ELSE step[<<i, h[i - 1]>>]
    <3>1. CASE i = m
      <4>1. m - 1 \in 0..m /\ m - 1 # m /\ i # 0
        BY <3>1
      <4>2. h[i] = step[<<m, f[m - 1]>>] /\ h[m - 1] = f[m - 1]
        BY <3>1, <4>1
      <4> HIDE DEF h
      <4> QED
        BY <3>1, <4>1, <4>2
    <3>2. CASE i # m /\ i = 0
      <4>1. f[0] = base
        BY <2>1, <2>2 DEF IsOrbit
      <4> QED
        BY <3>2, <4>1
    <3>3. CASE i # m /\ i # 0
      <4>1. i \in 0..(m - 1) /\ i - 1 \in 0..m /\ i - 1 # m
        BY <3>3
      <4>2. f[i] = step[<<i, f[i - 1]>>]
        BY <2>1, <3>3, <4>1 DEF IsOrbit
      <4>3. h[i] = f[i] /\ h[i - 1] = f[i - 1]
        BY <3>3, <4>1
      <4> HIDE DEF h
      <4> QED
        BY <3>3, <4>2, <4>3
    <3> QED
      BY <3>1, <3>2, <3>3
  <2>4. h = [i \in 0..m |-> h[i]]
    OBVIOUS
  <2> HIDE DEF h
  <2>5. IsOrbit(h, m, base, step)
    BY <2>3, <2>4 DEF IsOrbit
  <2> QED
    BY <2>2, <2>5 DEF T
<1> HIDE DEF T
<1>3. n \in T
  BY <1>1, <1>2, UpTo
<1> QED
  BY <1>3 DEF T

\* An orbit stays in a set its step does not leave.
LEMMA OrbitIn ==
  ASSUME NEW n \in Nat, NEW A, NEW base \in A, NEW step,
         \A i \in 1..n, a \in A : step[<<i, a>>] \in A, NEW f, IsOrbit(f, n, base, step)
  PROVE  f \in [0..n -> A]
<1> DEFINE T == {i \in Nat : i <= n => f[i] \in A}
<1>1. f[0] = base /\ \A i \in 1..n : f[i] = step[<<i, f[i - 1]>>]
  BY DEF IsOrbit
<1>2. ASSUME NEW m \in 0..n PROVE f[m] \in A
  <2>1. 0 \in T
    BY <1>1
  <2>2. \A i \in 1..m : i - 1 \in T => i \in T
    <3>1. \A i \in 1..m : i \in 1..n /\ i \in Nat /\ i - 1 <= n
      OBVIOUS
    <3>2. \A i \in 1..n : f[i - 1] \in A => f[i] \in A
      BY <1>1
    <3> QED
      BY <3>1, <3>2
  <2> HIDE DEF T
  <2>3. m \in T
    BY <2>1, <2>2, UpTo
  <2> QED
    BY <2>3 DEF T
<1>3. f = [i \in 0..n |-> f[i]]
  BY DEF IsOrbit
<1> QED
  BY <1>2, <1>3

\* What a recursion over 0..n gives.
LEMMA OrbitOf ==
  ASSUME NEW n \in Nat, NEW A, NEW base \in A, NEW step,
         \A i \in 1..n, a \in A : step[<<i, a>>] \in A
  PROVE  \E f \in [0..n -> A] : IsOrbit(f, n, base, step)
  BY OrbitExists, OrbitIn

\* What holds at 0 and is handed on, place by place, holds at the end.
LEMMA Stages ==
  ASSUME NEW n \in Nat, NEW A, NEW h, h[0] \in A[0],
         \A i \in 1..n : h[i - 1] \in A[i - 1] => h[i] \in A[i]
  PROVE  h[n] \in A[n]
<1> DEFINE T == {i \in Nat : i <= n => h[i] \in A[i]}
<1>1. 0 \in T
  OBVIOUS
<1>2. ASSUME NEW i \in 1..n, i - 1 \in T PROVE i \in T
  <2>1. i \in Nat /\ i - 1 <= n
    OBVIOUS
  <2>2. h[i - 1] \in A[i - 1]
    BY <1>2, <2>1
  <2> QED
    BY <2>1, <2>2
<1> HIDE DEF T
<1>3. n \in T
  BY <1>1, <1>2, UpTo
<1> QED
  BY <1>3 DEF T

\* Max of a set with a greatest element.
LEMMA MaxIs ==
  ASSUME NEW s, NEW x \in s, s \subseteq Nat, \A y \in s : y <= x
  PROVE  Max(s) = x
<1>1. \A y \in s : x >= y
  OBVIOUS
<1>2. Max(s) \in s /\ \A y \in s : Max(s) >= y
  BY <1>1 DEF Max
<1>3. Max(s) \in Nat /\ x \in Nat /\ Max(s) >= x /\ Max(s) <= x
  BY <1>2
<1> QED
  BY <1>3

\* The intermediate results of a fold, one for each set of positions that are left.
IsFold(g, n, base, step) ==
  g = [s \in SUBSET (1..n) |-> IF s = {} THEN base ELSE step[<<Max(s), g[s \ {Max(s)}]>>]]

\* There are such results.
LEMMA FoldExists ==
  ASSUME NEW n \in Nat, NEW base, NEW step
  PROVE  \E g : IsFold(g, n, base, step)
<1> DEFINE T == {m \in Nat : \E g : IsFold(g, m, base, step)}
<1>1. 0 \in T
  <2> DEFINE g == [s \in SUBSET (1..0) |-> base]
  <2>1. g = [s \in SUBSET (1..0) |-> IF s = {} THEN base ELSE step[<<Max(s), g[s \ {Max(s)}]>>]]
    <3>1. 1..0 = {}
      OBVIOUS
    <3>2. \A s \in SUBSET (1..0) : s = {}
      BY <3>1
    <3> QED
      BY <3>2
  <2> HIDE DEF g
  <2>2. IsFold(g, 0, base, step)
    BY <2>1 DEF IsFold
  <2> QED
    BY <2>2
<1>2. ASSUME NEW m \in 1..n, m - 1 \in T PROVE m \in T
  <2>1. PICK g : IsFold(g, m - 1, base, step)
    BY <1>2
  <2> DEFINE h == [s \in SUBSET (1..m) |->
                     IF m \in s THEN step[<<m, g[s \ {m}]>>] ELSE g[s]]
  <2> HIDE DEF T
  <2>2. ASSUME NEW s \in SUBSET (1..m)
        PROVE  h[s] = IF s = {} THEN base ELSE step[<<Max(s), h[s \ {Max(s)}]>>]
    <3>1. CASE m \in s
      <4>1. \A y \in s : y \in Nat /\ y <= m
        OBVIOUS
      <4>2. Max(s) = m
        BY <3>1, <4>1, MaxIs
      <4>3. s \ {m} \in SUBSET (1..m) /\ m \notin s \ {m}
        OBVIOUS
      <4>4. h[s] = step[<<m, g[s \ {m}]>>] /\ h[s \ {m}] = g[s \ {m}]
        BY <3>1, <4>3
      <4> HIDE DEF h
      <4> QED
        BY <3>1, <4>2, <4>4
    <3>2. CASE m \notin s
      <4>1. s \in SUBSET (1..(m - 1))
        BY <3>2
      <4>2. g[s] = IF s = {} THEN base ELSE step[<<Max(s), g[s \ {Max(s)}]>>]
        BY <2>1, <4>1 DEF IsFold
      <4>3. m \notin s \ {Max(s)} /\ s \ {Max(s)} \in SUBSET (1..m)
        BY <3>2
      <4>4. h[s] = g[s] /\ h[s \ {Max(s)}] = g[s \ {Max(s)}]
        BY <3>2, <4>3
      <4> HIDE DEF h
      <4> QED
        BY <4>2, <4>4
    <3> QED
      BY <3>1, <3>2
  <2>3. h = [s \in SUBSET (1..m) |-> h[s]]
    OBVIOUS
  <2> HIDE DEF h
  <2>4. h = [s \in SUBSET (1..m) |->
               IF s = {} THEN base ELSE step[<<Max(s), h[s \ {Max(s)}]>>]]
    BY <2>2, <2>3
  <2>5. IsFold(h, m, base, step)
    BY <2>4 DEF IsFold
  <2>6. m \in Nat
    OBVIOUS
  <2> QED
    BY <2>5, <2>6 DEF T
<1> HIDE DEF T
<1>3. n \in T
  BY <1>1, <1>2, UpTo
<1> QED
  BY <1>3 DEF T

\* A set of positions that is not empty has a last one.
LEMMA MaxOf ==
  ASSUME NEW n \in Nat, NEW s \in SUBSET (1..n), s # {}
  PROVE  Max(s) \in s /\ \A y \in s : y <= Max(s)
<1> DEFINE T == {k \in 0..n : n - k \in s}
<1>1. T \subseteq Nat /\ T # {}
  <2>1. PICK q \in s : TRUE
    OBVIOUS
  <2>2. q \in 1..n /\ n - q \in 0..n /\ n - (n - q) = q
    OBVIOUS
  <2>3. n - q \in T
    BY <2>1, <2>2
  <2>4. T \subseteq Nat
    OBVIOUS
  <2> QED
    BY <2>3, <2>4
<1>2. PICK k \in T : \A j \in T : k <= j
  BY <1>1, LeastOf
<1>3. ASSUME NEW y \in s PROVE y <= n - k
  <2>1. y \in 1..n /\ n - y \in 0..n /\ n - (n - y) = y
    OBVIOUS
  <2>2. n - y \in T
    BY <2>1
  <2>3. k <= n - y /\ k \in Nat
    <3>1. k <= n - y
      BY <1>2, <2>2
    <3> QED
      BY <1>1, <1>2, <3>1
  <2> QED
    BY <2>1, <2>3
<1>4. n - k \in s
  BY <1>2
<1>5. Max(s) = n - k
  <2>1. s \subseteq Nat
    OBVIOUS
  <2> HIDE DEF T
  <2> QED
    BY <1>3, <1>4, <2>1, MaxIs
<1> QED
  BY <1>3, <1>4, <1>5

\* The results stay in a set the step does not leave.
LEMMA FoldIn ==
  ASSUME NEW n \in Nat, NEW A, NEW base \in A, NEW step,
         \A i \in 1..n, a \in A : step[<<i, a>>] \in A
  PROVE  \E g \in [SUBSET (1..n) -> A] : IsFold(g, n, base, step)
<1>1. PICK g : IsFold(g, n, base, step)
  BY FoldExists
<1> DEFINE T == {m \in Nat : \A s \in SUBSET (1..n) : s \subseteq 1..m => g[s] \in A}
<1>2. 0 \in T
  <2>1. 1..0 = {}
    OBVIOUS
  <2>2. g[{}] \in A
    BY <1>1 DEF IsFold
  <2> QED
    BY <2>1, <2>2
<1>3. ASSUME NEW m \in 1..n, m - 1 \in T PROVE m \in T
  <2>1. ASSUME NEW s \in SUBSET (1..n), s \subseteq 1..m PROVE g[s] \in A
    <3>1. CASE m \notin s
      <4>1. s \subseteq 1..(m - 1)
        BY <2>1, <3>1
      <4> QED
        BY <1>3, <4>1
    <3>2. CASE m \in s
      <4>1. \A y \in s : y \in Nat /\ y <= m
        BY <2>1
      <4>2. Max(s) = m
        BY <3>2, <4>1, MaxIs
      <4>3. s \ {m} \subseteq 1..(m - 1) /\ s \ {m} \in SUBSET (1..n)
        BY <2>1
      <4>4. g[s \ {m}] \in A
        BY <1>3, <4>3
      <4>5. g[s] = step[<<m, g[s \ {m}]>>]
        BY <1>1, <3>2, <4>2 DEF IsFold
      <4> QED
        BY <4>4, <4>5
    <3> QED
      BY <3>1, <3>2
  <2>2. m \in Nat
    OBVIOUS
  <2> QED
    BY <2>1, <2>2
<1> HIDE DEF T
<1>4. n \in T
  BY <1>2, <1>3, UpTo
<1>5. \A s \in SUBSET (1..n) : g[s] \in A
  BY <1>4 DEF T
<1>6. g = [s \in SUBSET (1..n) |-> g[s]]
  BY <1>1 DEF IsFold
<1>7. g \in [SUBSET (1..n) -> A]
  BY <1>5, <1>6
<1> QED
  BY <1>1, <1>7

\* The positions up to one are those up to the one before, and it.
LEMMA PositionsUpTo ==
  ASSUME NEW n \in Nat, NEW i \in 1..n
  PROVE  /\ 1..i \in SUBSET (1..n) /\ 1..i # {}
         /\ Max(1..i) = i /\ (1..i) \ {Max(1..i)} = 1..(i - 1)
<1>1. i \in 1..i /\ 1..i \subseteq Nat /\ \A y \in 1..i : y <= i
  OBVIOUS
<1>2. Max(1..i) = i
  BY <1>1, MaxIs
<1>3. 1..i \in SUBSET (1..n) /\ (1..i) \ {i} = 1..(i - 1)
  OBVIOUS
<1> QED
  BY <1>1, <1>2, <1>3

\* What a sequence keeps is what of it is in the set.
LEMMA KeptIs ==
  ASSUME NEW X, NEW s \in Seq(X), NEW S
  PROVE  \E h : /\ h[0] = <<>> /\ Kept(s, S) = h[Len(s)]
                /\ \A i \in 1..Len(s) :
                     h[i] = IF s[i] \in S THEN Append(h[i - 1], s[i]) ELSE h[i - 1]
<1> DEFINE n == Len(s)
           A == Seq(S \cap X)
           op(a, e) == IF e \in S THEN Append(a, e) ELSE a
           IsIter(f) == f = [p \in SUBSET DOMAIN s |->
                               IF p = {} THEN <<>> ELSE op(f[p \ {Max(p)}], s[Max(p)])]
           iter == CHOOSE f : IsIter(f)
           step == [x \in (1..n) \X A |-> op(x[2], s[x[1]])]
<1>1. n \in Nat /\ DOMAIN s = 1..n /\ <<>> \in A /\ \A i \in 1..n : s[i] \in X
  OBVIOUS
<1>2. Kept(s, S) = iter[DOMAIN s]
  BY Zenon DEF Kept, FoldLeft, MapThenFoldSet
<1>3. \A i \in 1..n, a \in A : op(a, s[i]) \in A
  BY <1>1
<1>4. \A i \in 1..n, a \in A : step[<<i, a>>] = op(a, s[i])
  OBVIOUS
<1> HIDE DEF n, A, op, step
<1>5. \A i \in 1..n, a \in A : step[<<i, a>>] \in A
  BY <1>3, <1>4
<1>6. PICK g \in [SUBSET (1..n) -> A] : IsFold(g, n, <<>>, step)
  BY <1>1, <1>5, FoldIn
<1>7. IsIter(g)
  <2>1. ASSUME NEW p \in SUBSET (1..n)
        PROVE  g[p] = IF p = {} THEN <<>> ELSE op(g[p \ {Max(p)}], s[Max(p)])
    <3>1. CASE p = {}
      BY <1>6, <3>1 DEF IsFold
    <3>2. CASE p # {}
      <4>1. Max(p) \in 1..n /\ p \ {Max(p)} \in SUBSET (1..n)
        BY <1>1, <3>2, MaxOf
      <4>2. g[p] = step[<<Max(p), g[p \ {Max(p)}]>>]
        BY <1>6, <3>2 DEF IsFold
      <4>3. g[p \ {Max(p)}] \in A
        BY <1>6, <4>1
      <4> QED
        BY <1>4, <3>2, <4>1, <4>2, <4>3
    <3> QED
      BY <3>1, <3>2
  <2> QED
    BY <1>1, <1>6, <2>1
<1> HIDE DEF IsIter
<1>8. IsIter(iter)
  BY <1>7
<1> HIDE DEF iter
<1>9. \A p \in SUBSET (1..n) :
        iter[p] = IF p = {} THEN <<>> ELSE op(iter[p \ {Max(p)}], s[Max(p)])
  BY <1>1, <1>8 DEF IsIter
<1> DEFINE h == [i \in 0..n |-> iter[1..i]]
<1>10. h[0] = <<>>
  <2>1. 1..0 = {} /\ 0 \in 0..n /\ {} \in SUBSET (1..n)
    BY <1>1
  <2> QED
    BY <1>9, <2>1
<1>11. ASSUME NEW i \in 1..n PROVE h[i] = op(h[i - 1], s[i])
  <2>1. /\ 1..i \in SUBSET (1..n) /\ 1..i # {}
        /\ Max(1..i) = i /\ (1..i) \ {Max(1..i)} = 1..(i - 1)
    BY <1>1, PositionsUpTo
  <2>2. iter[1..i] = op(iter[1..(i - 1)], s[i])
    BY <1>9, <2>1
  <2>3. i \in 0..n /\ i - 1 \in 0..n
    BY <1>1
  <2> QED
    BY <2>2, <2>3
<1>12. h[n] = iter[DOMAIN s]
  BY <1>1
<1> HIDE DEF h
<1> QED
  BY <1>2, <1>10, <1>11, <1>12 DEF n, op

\* It keeps no more of them than there are.
LEMMA KeptIn ==
  ASSUME NEW X, NEW s \in Seq(X), NEW S
  PROVE  Kept(s, S) \in Seq(S \cap X) /\ Len(Kept(s, S)) <= Len(s)
<1> DEFINE n == Len(s)
           A == [i \in 0..n |-> {a \in Seq(S \cap X) : Len(a) <= i}]
<1>1. PICK h : /\ h[0] = <<>> /\ Kept(s, S) = h[n]
               /\ \A i \in 1..n : h[i] = IF s[i] \in S THEN Append(h[i - 1], s[i]) ELSE h[i - 1]
  BY KeptIs
<1>2. n \in Nat /\ n \in 0..n /\ \A i \in 1..n : s[i] \in X
  OBVIOUS
<1> HIDE DEF n
<1>3. h[0] \in A[0]
  BY <1>1, <1>2
<1>4. ASSUME NEW i \in 1..n, h[i - 1] \in A[i - 1] PROVE h[i] \in A[i]
  <2> DEFINE a == h[i - 1]
  <2>1. i \in 0..n /\ i - 1 \in 0..n
    BY <1>2
  <2>2. a \in Seq(S \cap X) /\ Len(a) <= i - 1
    BY <1>4, <2>1
  <2>3. h[i] = IF s[i] \in S THEN Append(a, s[i]) ELSE a
    BY <1>1
  <2> HIDE DEF a
  <2>4. h[i] \in Seq(S \cap X) /\ Len(h[i]) <= i
    BY <1>2, <2>1, <2>2, <2>3
  <2> QED
    BY <2>1, <2>4
<1>5. h[n] \in A[n]
  <2> HIDE DEF A
  <2> QED
    BY <1>2, <1>3, <1>4, Stages
<1> QED
  BY <1>1, <1>2, <1>5 DEF n

\* It keeps all of them.
LEMMA KeptSet ==
  ASSUME NEW X, NEW s \in Seq(X), NEW S
  PROVE  ToSet(Kept(s, S)) = ToSet(s) \cap S
<1> DEFINE n == Len(s)
           upto(i) == {s[j] : j \in 1..i}
<1>1. PICK h : /\ h[0] = <<>> /\ Kept(s, S) = h[n]
               /\ \A i \in 1..n : h[i] = IF s[i] \in S THEN Append(h[i - 1], s[i]) ELSE h[i - 1]
  BY KeptIs
<1>2. n \in Nat /\ DOMAIN s = 1..n /\ \A i \in 1..n : s[i] \in X
  OBVIOUS
<1> HIDE DEF n
<1> DEFINE A == [i \in 0..n |-> {a \in Seq(S \cap X) : ToSet(a) = upto(i) \cap S}]
<1>3. h[0] \in A[0]
  <2>1. ToSet(<<>>) = {} /\ upto(0) = {} /\ 0 \in 0..n /\ <<>> \in Seq(S \cap X)
    BY <1>2 DEF ToSet
  <2> QED
    BY <1>1, <2>1
<1>4. ASSUME NEW i \in 1..n, h[i - 1] \in A[i - 1] PROVE h[i] \in A[i]
  <2>1. i \in 0..n /\ i - 1 \in 0..n
    BY <1>2
  <2>2. h[i - 1] \in Seq(S \cap X) /\ ToSet(h[i - 1]) = upto(i - 1) \cap S
    BY <1>4, <2>1
  <2>3. upto(i) = upto(i - 1) \cup {s[i]}
    <3>1. 1..i = (1..(i - 1)) \cup {i}
      BY <1>2
    <3> QED
      BY <3>1
  <2> HIDE DEF upto, A
  <2>4. CASE s[i] \in S
    <3>1. h[i] = Append(h[i - 1], s[i]) /\ s[i] \in S \cap X
      BY <1>1, <1>2, <2>4
    <3>2. h[i] \in Seq(S \cap X) /\ ToSet(h[i]) = ToSet(h[i - 1]) \cup {s[i]}
      <4> DEFINE a == h[i - 1]
                 e == s[i]
      <4>1. a \in Seq(S \cap X) /\ e \in S \cap X /\ h[i] = Append(a, e)
        BY <2>2, <3>1
      <4> HIDE DEF a, e
      <4>2. /\ Append(a, e) \in Seq(S \cap X) /\ Len(Append(a, e)) = Len(a) + 1 /\ Len(a) \in Nat
            /\ \A j \in 1..Len(a) : Append(a, e)[j] = a[j]
            /\ Append(a, e)[Len(a) + 1] = e
        BY <4>1
      <4>3. DOMAIN Append(a, e) = (1..Len(a)) \cup {Len(a) + 1} /\ DOMAIN a = 1..Len(a)
        BY <4>1, <4>2
      <4>4. ToSet(Append(a, e)) = ToSet(a) \cup {e}
        BY <4>2, <4>3 DEF ToSet
      <4> QED
        BY <4>1, <4>2, <4>4 DEF a, e
    <3> QED
      BY <2>1, <2>2, <2>3, <2>4, <3>2 DEF A
  <2>5. CASE s[i] \notin S
    <3>1. h[i] = h[i - 1]
      BY <1>1, <2>5
    <3> QED
      BY <2>1, <2>2, <2>3, <2>5, <3>1 DEF A
  <2> QED
    BY <2>4, <2>5
<1>5. h[n] \in A[n]
  <2> HIDE DEF A
  <2> QED
    BY <1>2, <1>3, <1>4, Stages
<1>6. n \in 0..n /\ upto(n) = ToSet(s)
  BY <1>2 DEF ToSet
<1> QED
  BY <1>1, <1>5, <1>6

\* A list joined from two has the elements of both.
LEMMA JoinedSet ==
  ASSUME NEW X, NEW a \in Seq(X), NEW b \in Seq(X)
  PROVE  ToSet(a \o b) = ToSet(a) \cup ToSet(b)
<1>1. /\ a \o b \in Seq(X) /\ Len(a \o b) = Len(a) + Len(b)
      /\ \A i \in 1..(Len(a) + Len(b)) : (a \o b)[i] = IF i <= Len(a) THEN a[i] ELSE b[i - Len(a)]
  BY ConcatProperties
<1>2. /\ DOMAIN a = 1..Len(a) /\ DOMAIN b = 1..Len(b) /\ Len(a) \in Nat /\ Len(b) \in Nat
      /\ DOMAIN (a \o b) = 1..(Len(a) + Len(b))
  BY <1>1, LenProperties
<1> DEFINE c == a \o b
<1> HIDE DEF c
<1>3. ASSUME NEW i \in DOMAIN c PROVE c[i] \in ToSet(a) \cup ToSet(b)
  <2>1. CASE i <= Len(a)
    BY <1>1, <1>2, <1>3, <2>1 DEF c, ToSet
  <2>2. CASE ~(i <= Len(a))
    <3>1. i - Len(a) \in 1..Len(b) /\ c[i] = b[i - Len(a)]
      BY <1>1, <1>2, <1>3, <2>2 DEF c
    <3> QED
      BY <1>2, <3>1 DEF ToSet
  <2> QED
    BY <2>1, <2>2
<1>4. ASSUME NEW i \in DOMAIN a PROVE a[i] \in ToSet(c)
  <2>1. i \in DOMAIN c /\ c[i] = a[i]
    BY <1>1, <1>2 DEF c
  <2> QED
    BY <2>1 DEF ToSet
<1>5. ASSUME NEW i \in DOMAIN b PROVE b[i] \in ToSet(c)
  <2>1. Len(a) + i \in DOMAIN c /\ c[Len(a) + i] = b[i]
    BY <1>1, <1>2 DEF c
  <2> QED
    BY <2>1 DEF ToSet
<1>6. ToSet(c) = ToSet(a) \cup ToSet(b)
  BY <1>3, <1>4, <1>5 DEF ToSet
<1> QED
  BY <1>6 DEF c

\* What a fold keeps true holds of its result.
LEMMA FoldEnds ==
  ASSUME NEW n \in Nat, NEW A, NEW it, it[{}] \in A,
         \A p \in SUBSET (1..n) : p # {} /\ it[p \ {Max(p)}] \in A => it[p] \in A
  PROVE  it[1..n] \in A
<1> DEFINE T == {i \in Nat : i <= n => it[1..i] \in A}
<1>1. 0 \in T
  <2>1. 1..0 = {}
    OBVIOUS
  <2> QED
    BY <2>1
<1>2. ASSUME NEW i \in 1..n, i - 1 \in T PROVE i \in T
  <2>1. /\ 1..i \in SUBSET (1..n) /\ 1..i # {}
        /\ Max(1..i) = i /\ (1..i) \ {Max(1..i)} = 1..(i - 1)
    BY PositionsUpTo
  <2>2. it[1..(i - 1)] \in A
    BY <1>2
  <2>3. it[1..i] \in A
    BY <2>1, <2>2
  <2> QED
    BY <2>3
<1> HIDE DEF T
<1>3. n \in T
  BY <1>1, <1>2, UpTo
<1> QED
  BY <1>3 DEF T

-------------------------------------------------------------------------------
(***************************************************************************)
(* Sets put in order: each place is taken.                                 *)
(***************************************************************************)

\* Each place of a finite set in a strict order is somebody's.
IsOrder(R, S) ==
  /\ \A a \in S : <<a, a>> \notin R
  /\ \A a, b \in S : a # b => <<a, b>> \in R \/ <<b, a>> \in R
  /\ \A a, b, c \in S : <<a, b>> \in R /\ <<b, c>> \in R => <<a, c>> \in R

Below(R, S, a) == {b \in S : <<b, a>> \in R}

\* Some element has exactly i - 1 below it.
LEMMA RankTaken ==
  ASSUME NEW S, IsFiniteSet(S), NEW R, IsOrder(R, S), NEW i \in 1..Cardinality(S)
  PROVE  \E a \in S : Cardinality(Below(R, S, a)) = i - 1
<1> DEFINE n == Cardinality(S)
           lower(a) == Below(R, S, a)
           rank == [a \in S |-> Cardinality(lower(a))]
<1>1. n \in Nat
  BY FS_CardinalityType
<1>2. ASSUME NEW a \in S
      PROVE  IsFiniteSet(lower(a)) /\ Cardinality(lower(a)) \in 0..(n - 1)
  <2>1. lower(a) \in SUBSET (S \ {a})
    BY DEF Below, IsOrder
  <2>2. IsFiniteSet(S \ {a}) /\ Cardinality(S \ {a}) = n - 1
    BY FS_RemoveElement
  <2> HIDE DEF lower, n
  <2>3. IsFiniteSet(lower(a)) /\ Cardinality(lower(a)) <= n - 1
    BY <2>1, <2>2, FS_Subset
  <2>4. Cardinality(lower(a)) \in Nat
    BY <2>3, FS_CardinalityType
  <2> QED
    BY <1>1, <2>3, <2>4
<1>3. ASSUME NEW a \in S, NEW b \in S, <<a, b>> \in R PROVE rank[a] # rank[b]
  <2>1. lower(a) \in SUBSET lower(b) /\ a \in lower(b) /\ a \notin lower(a)
    BY <1>3 DEF Below, IsOrder
  <2>2. IsFiniteSet(lower(b))
    BY <1>2
  <2> HIDE DEF lower
  <2>3. Cardinality(lower(a)) # Cardinality(lower(b))
    BY <2>1, <2>2, FS_Subset
  <2> QED
    BY <2>3
<1>4. rank \in [S -> 0..(n - 1)]
  BY <1>2
<1>5. rank \in Injection(S, 0..(n - 1))
  <2>1. \A a, b \in S : rank[a] = rank[b] => a = b
    BY <1>3 DEF IsOrder
  <2> HIDE DEF rank
  <2> QED
    BY <1>4, <2>1 DEF Injection, IsInjective
<1>6. IsFiniteSet(0..(n - 1)) /\ Cardinality(0..(n - 1)) = n
  <2>1. IsFiniteSet(0..(n - 1)) /\ Cardinality(0..(n - 1)) = IF 0 > n - 1 THEN 0 ELSE n - 1 - 0 + 1
    <3>1. 0 \in Int /\ n - 1 \in Int
      BY <1>1
    <3> HIDE DEF n
    <3> QED
      BY <3>1, FS_Interval
  <2> QED
    BY <1>1, <2>1
<1> HIDE DEF rank, lower
<1>7. rank \in Surjection(S, 0..(n - 1))
  BY <1>5, <1>6, FS_Injection
<1>8. i - 1 \in 0..(n - 1)
  BY <1>1
<1>9. PICK a \in S : rank[a] = i - 1
  BY <1>7, <1>8 DEF Surjection
<1> QED
  BY <1>9 DEF rank, lower

\* Distances are naturals.
LEMMA DistIsNat ==
  ASSUME NEW p \in Int, NEW q \in Int
  PROVE  Dist(p, q) \in Nat
  BY DEF Dist

\* The nearest of a set of vectors is one of them, and as near as any.
LEMMA NearestIs ==
  ASSUME NEW S, S # {}, \A n \in S : at[n] \in Points, NEW p \in Points
  PROVE  NearestOf(S, p) \in S
<1> DEFINE T == {Dist(at[n], p) : n \in S}
<1>1. Points \subseteq Int
  BY GraphAssumption
<1>2. \A n \in S : Dist(at[n], p) \in Nat
  BY <1>1, DistIsNat
<1>3. T \subseteq Nat /\ T # {}
  BY <1>2
<1>4. PICK d \in T : \A e \in T : d <= e
  BY <1>3, LeastOf
<1>5. PICK n \in S : d = Dist(at[n], p)
  BY <1>4
<1>6. \A m \in S : Dist(at[n], p) <= Dist(at[m], p)
  BY <1>4, <1>5
<1> QED
  BY <1>5, <1>6 DEF NearestOf

\* The farthest of a set of vectors is one of them.
LEMMA FarthestIs ==
  ASSUME NEW S \in SUBSET Nat, IsFiniteSet(S), S # {}, \A n \in S : at[n] \in Points, NEW p \in Points
  PROVE  FarthestOf(S, p) \in S
<1> DEFINE d == [n \in S |-> Dist(at[n], p)]
           R == {x \in S \X S : d[x[1]] > d[x[2]] \/ (d[x[1]] = d[x[2]] /\ x[1] < x[2])}
<1>1. d \in [S -> Nat]
  <2>1. \A n \in S : Dist(at[n], p) \in Nat
    BY GraphAssumption, DistIsNat
  <2> QED
    BY <2>1
<1>2. IsOrder(R, S)
  <2> HIDE DEF d
  <2> QED
    BY <1>1 DEF IsOrder
<1>3. 1 \in 1..Cardinality(S)
  <2>1. Cardinality(S) \in Nat /\ Cardinality(S) # 0
    BY FS_CardinalityType, FS_EmptySet
  <2> QED
    BY <2>1
<1>4. PICK a \in S : Cardinality(Below(R, S, a)) = 0
  <2> HIDE DEF R
  <2>1. \E a \in S : Cardinality(Below(R, S, a)) = 1 - 1
    BY <1>2, <1>3, RankTaken
  <2>2. 1 - 1 = 0
    OBVIOUS
  <2> QED
    BY <2>1, <2>2
<1>5. Below(R, S, a) = {}
  <2>1. IsFiniteSet(Below(R, S, a))
    BY FS_Subset DEF Below
  <2> HIDE DEF R
  <2> QED
    BY <1>4, <2>1, FS_EmptySet
<1>6. \A m \in S : d[a] >= d[m]
  <2>1. ASSUME NEW m \in S, ~(d[a] >= d[m]) PROVE FALSE
    <3> HIDE DEF d
    <3>1. d[m] > d[a]
      BY <1>1, <2>1
    <3>2. m \in Below(R, S, a)
      BY <3>1 DEF Below
    <3> QED
      BY <1>5, <3>2
  <2> QED
    BY <2>1
<1>7. \A m \in S : Dist(at[a], p) >= Dist(at[m], p)
  BY <1>6
<1> QED
  BY <1>7 DEF FarthestOf

\* Elements in the order of ids.
LEMMA InOrderOfIds ==
  ASSUME NEW S \in SUBSET Nat, IsFiniteSet(S)
  PROVE  LET ids == InOrder(S, LAMBDA a, b : a < b)
         IN  /\ ids \in Seq(S) /\ Len(ids) = Cardinality(S)
             /\ \A i, j \in 1..Len(ids) : ids[i] = ids[j] => i = j
<1> DEFINE R == {x \in S \X S : x[1] < x[2]}
           size(a) == Cardinality({b \in S : b < a})
           place(i) == CHOOSE a \in S : size(a) = i - 1
           ids == [i \in 1..Cardinality(S) |-> place(i)]
<1>1. InOrder(S, LAMBDA a, b : a < b) = ids
  BY DEF InOrder
<1>2. ASSUME NEW i \in 1..Cardinality(S) PROVE place(i) \in S /\ size(place(i)) = i - 1
  <2>1. IsOrder(R, S)
    BY DEF IsOrder
  <2>2. \A a \in S : Below(R, S, a) = {b \in S : b < a}
    BY DEF Below
  <2> HIDE DEF R
  <2>3. PICK a \in S : Cardinality(Below(R, S, a)) = i - 1
    BY <2>1, RankTaken
  <2>4. size(a) = i - 1
    BY <2>2, <2>3
  <2> HIDE DEF size
  <2> QED
    BY <2>4
<1>3. Cardinality(S) \in Nat
  BY FS_CardinalityType
<1> HIDE DEF place, size
<1>4. ids \in Seq(S) /\ Len(ids) = Cardinality(S)
  BY <1>2, <1>3
<1>5. ASSUME NEW i \in 1..Len(ids), NEW j \in 1..Len(ids), ids[i] = ids[j] PROVE i = j
  <2>1. i \in 1..Cardinality(S) /\ j \in 1..Cardinality(S) /\ ids[i] = place(i) /\ ids[j] = place(j)
    BY <1>3, <1>4
  <2>2. i - 1 = j - 1
    BY <1>2, <1>5, <2>1
  <2> QED
    BY <1>3, <2>1, <2>2
<1> QED
  BY <1>1, <1>4, <1>5

\* Elements by nearness.
LEMMA ByNearnessIs ==
  ASSUME NEW S \in SUBSET Nat, IsFiniteSet(S), \A n \in S : at[n] \in Points, NEW p \in Points
  PROVE  /\ ByNearness(S, p) \in Seq(S) /\ Len(ByNearness(S, p)) = Cardinality(S)
         /\ \A i, j \in 1..Cardinality(S) : ByNearness(S, p)[i] = ByNearness(S, p)[j] => i = j
<1> DEFINE d == [n \in S |-> Dist(at[n], p)]
           R == {x \in S \X S : d[x[1]] < d[x[2]] \/ (d[x[1]] = d[x[2]] /\ x[1] < x[2])}
           near(a, b) == Dist(at[a], p) < Dist(at[b], p) \/ (Dist(at[a], p) = Dist(at[b], p) /\ a < b)
           size(a) == Cardinality({b \in S : near(b, a)})
           place(i) == CHOOSE a \in S : size(a) = i - 1
           ids == [i \in 1..Cardinality(S) |-> place(i)]
<1>1. ByNearness(S, p) = ids
  BY DEF ByNearness, InOrder
<1>2. d \in [S -> Nat]
  <2>1. \A n \in S : Dist(at[n], p) \in Nat
    BY GraphAssumption, DistIsNat
  <2> QED
    BY <2>1
<1>3. ASSUME NEW i \in 1..Cardinality(S) PROVE place(i) \in S /\ size(place(i)) = i - 1
  <2>2. \A a \in S : Below(R, S, a) = {b \in S : near(b, a)}
    BY DEF Below
  <2> HIDE DEF d, near
  <2>1. IsOrder(R, S)
    BY <1>2 DEF IsOrder
  <2> HIDE DEF R
  <2>3. PICK a \in S : Cardinality(Below(R, S, a)) = i - 1
    BY <2>1, RankTaken
  <2>4. size(a) = i - 1
    BY <2>2, <2>3
  <2> HIDE DEF size
  <2> QED
    BY <2>4
<1>4. Cardinality(S) \in Nat
  BY FS_CardinalityType
<1> HIDE DEF place, size
<1>5. ids \in Seq(S) /\ Len(ids) = Cardinality(S)
  BY <1>3, <1>4
<1>6. ASSUME NEW i \in 1..Cardinality(S), NEW j \in 1..Cardinality(S), ids[i] = ids[j] PROVE i = j
  <2>1. ids[i] = place(i) /\ ids[j] = place(j)
    BY <1>4
  <2>2. i - 1 = j - 1
    BY <1>3, <1>6, <2>1
  <2> QED
    BY <1>4, <2>2
<1> HIDE DEF ids
<1> QED
  BY <1>1, <1>5, <1>6

-------------------------------------------------------------------------------
(***************************************************************************)
(* The searches of a graph whose lists are in order find elements of the   *)
(* level they search.                                                      *)
(***************************************************************************)

\* The elements that have a list at level l.
Having(l) == {n \in Elements : level[n] >= l}

\* Lists in a graph hold their degree at most, and elements of their level.
Linked(g) ==
  /\ g = [n \in Nodes |-> g[n]]
  /\ \A n \in Nodes : g[n] = [l \in Levels |-> g[n][l]]
  /\ \A n \in Nodes, l \in Levels :
       /\ g[n][l] \in Seq(Having(l)) /\ Len(g[n][l]) <= Degree(l)
       /\ g[n][l] # <<>> => n \in Having(l)

\* What the search of a graph relies on.
Sound ==
  /\ Elements \subseteq Nodes /\ Linked(links) /\ level \in [Nodes -> Levels]
  /\ \A n \in Elements : at[n] \in Points

\* Nodes and levels are naturals, and sets of nodes finite.
LEMMA NodesAre ==
  /\ Nodes \subseteq Nat /\ Levels \subseteq Nat /\ 0 \in Levels /\ Capacity \in Nat /\ Top \in Nat
  /\ \A l : Having(l) \subseteq Elements
  /\ \A S \in SUBSET Nodes : IsFiniteSet(S)
<1>1. IsFiniteSet(0..(Capacity - 1))
  <2>1. 0 \in Int /\ Capacity - 1 \in Int
    BY GraphAssumption
  <2> QED
    BY <2>1, FS_Interval
<1>2. \A S \in SUBSET Nodes : IsFiniteSet(S)
  BY <1>1, FS_Subset DEF Nodes
<1> QED
  BY <1>2, GraphAssumption DEF Nodes, Levels, Having

\* Sets of elements are finite, and what is in such a set counts.
LEMMA CountsAre ==
  ASSUME NEW S \in SUBSET Nodes
  PROVE  /\ IsFiniteSet(S) /\ Cardinality(S) \in Nat
         /\ \A T \in SUBSET S : /\ IsFiniteSet(T) /\ Cardinality(T) \in Nat
                                /\ Cardinality(T) <= Cardinality(S)
                                /\ Cardinality(T) = Cardinality(S) => T = S
         /\ \A c \in S : Cardinality(S \ {c}) = Cardinality(S) - 1
         /\ \A c \in Nodes \ S : Cardinality(S \cup {c}) = Cardinality(S) + 1
<1>1. IsFiniteSet(S)
  BY NodesAre
<1> QED
  BY <1>1, FS_CardinalityType, FS_Subset, FS_RemoveElement, FS_AddElement

\* There are as many nodes as the graph has room for.
LEMMA NodesCount ==
  /\ Nodes \in SUBSET Nodes /\ Cardinality(Nodes) = Capacity
  /\ \A S \in SUBSET Nodes : Cardinality(S) <= Capacity /\ (Cardinality(S) >= Capacity => S = Nodes)
<1>1. Cardinality(Nodes) = Capacity
  <2>1. 0 \in Int /\ Capacity - 1 \in Int /\ Capacity \in Nat /\ Capacity > 0
    BY GraphAssumption
  <2>2. Cardinality(0..(Capacity - 1)) = IF 0 > Capacity - 1 THEN 0 ELSE Capacity - 1 - 0 + 1
    BY <2>1, FS_Interval
  <2>3. Capacity - 1 - 0 + 1 = Capacity /\ ~(0 > Capacity - 1)
    BY <2>1
  <2> QED
    BY <2>2, <2>3 DEF Nodes
<1>2. \A S \in SUBSET Nodes :
        /\ Cardinality(S) \in Nat /\ Cardinality(S) <= Cardinality(Nodes)
        /\ Cardinality(S) = Cardinality(Nodes) => S = Nodes
  <2>1. Nodes \in SUBSET Nodes
    OBVIOUS
  <2> QED
    BY <2>1, CountsAre
<1>3. Capacity \in Nat
  BY NodesAre
<1> QED
  BY <1>1, <1>2, <1>3

\* The elements of a list.
LEMMA TargetsHave ==
  ASSUME Sound, NEW n \in Nodes, NEW l \in Levels
  PROVE  Targets(n, l) \subseteq Having(l)
<1>1. links[n][l] \in Seq(Having(l))
  BY DEF Sound, Linked
<1> QED
  BY <1>1 DEF Targets, ToSet

\* One level of the descent ends at an element of that level.
LEMMA GreedyHas ==
  ASSUME Sound, NEW l \in Levels, NEW start \in Having(l), NEW p \in Points
  PROVE  Greedy(start, p, l) \in Having(l)
<1> DEFINE next(c) == NearestOf({c} \cup {n \in Targets(c, l) : Readable(n, l)}, p)
           IsWalk(f) == f = [i \in 0..Capacity |-> IF i = 0 THEN start ELSE next(f[i - 1])]
           walk == CHOOSE f : IsWalk(f)
           step == [x \in (1..Capacity) \X Having(l) |-> next(x[2])]
<1>1. Greedy(start, p, l) = walk[Capacity]
  BY Zenon DEF Greedy
<1>2. ASSUME NEW c \in Having(l) PROVE next(c) \in Having(l)
  <2> DEFINE S == {c} \cup {n \in Targets(c, l) : Readable(n, l)}
  <2>1. c \in Nodes
    BY DEF Having, Sound
  <2>2. S \subseteq Having(l)
    BY <2>1, TargetsHave
  <2>3. S # {} /\ \A n \in S : at[n] \in Points
    BY <2>2 DEF Having, Sound
  <2> HIDE DEF S
  <2>4. NearestOf(S, p) \in S
    BY <2>3, NearestIs
  <2> QED
    BY <2>2, <2>4 DEF S
<1>3. \A i \in 1..Capacity, c \in Having(l) : step[<<i, c>>] = next(c)
  OBVIOUS
<1>4. Capacity \in Nat
  BY NodesAre
<1> HIDE DEF next, step
<1>5. PICK f \in [0..Capacity -> Having(l)] : IsOrbit(f, Capacity, start, step)
  <2>1. \A i \in 1..Capacity, c \in Having(l) : step[<<i, c>>] \in Having(l)
    BY <1>2, <1>3
  <2> QED
    BY <1>4, <2>1, OrbitOf
<1>6. IsWalk(f)
  <2>1. ASSUME NEW i \in 0..Capacity PROVE f[i] = IF i = 0 THEN start ELSE next(f[i - 1])
    <3>1. CASE i = 0
      BY <1>5, <3>1 DEF IsOrbit
    <3>2. CASE i # 0
      <4>1. i \in 1..Capacity /\ i - 1 \in 0..Capacity
        BY <1>4, <3>2
      <4>2. f[i - 1] \in Having(l)
        BY <1>5, <4>1
      <4>3. f[i] = step[<<i, f[i - 1]>>]
        BY <1>5, <3>2 DEF IsOrbit
      <4> QED
        BY <1>3, <3>2, <4>1, <4>2, <4>3
    <3> QED
      BY <3>1, <3>2
  <2> QED
    BY <1>5, <2>1
<1>7. IsWalk(walk)
  <2> HIDE DEF IsWalk
  <2> QED
    BY <1>6
<1> HIDE DEF walk
<1>8. Capacity \in {i \in Nat : i <= Capacity => walk[i] \in Having(l)}
  <2> DEFINE T == {i \in Nat : i <= Capacity => walk[i] \in Having(l)}
  <2>1. 0 \in T
    BY <1>4, <1>7
  <2>2. ASSUME NEW i \in 1..Capacity, i - 1 \in T PROVE i \in T
    <3>1. i \in 0..Capacity /\ i # 0 /\ walk[i - 1] \in Having(l)
      BY <1>4, <2>2
    <3> DEFINE c == walk[i - 1]
    <3>2. walk[i] = next(c) /\ c \in Having(l)
      BY <1>7, <3>1
    <3> HIDE DEF c
    <3>3. walk[i] \in Having(l)
      BY <1>2, <3>2
    <3> QED
      BY <3>1, <3>3
  <2> HIDE DEF T
  <2>3. Capacity \in T
    BY <1>4, <2>1, <2>2, UpTo
  <2> QED
    BY <2>3 DEF T
<1> QED
  BY <1>1, <1>4, <1>8

\* The descent ends at an element of the level it descends to: the one it starts at, if it has no level
\* to descend.
LEMMA DescendHas ==
  ASSUME Sound, NEW from \in Levels, NEW to \in 0..from, NEW start \in Having(from), NEW p \in Points
  PROVE  /\ Descend(start, p, from, to) \in Having(to)
         /\ to = from => Descend(start, p, from, to) = start
<1> DEFINE next(c, l) == IF l >= from THEN start ELSE Greedy(c, p, l + 1)
           IsDown(f) == f = [l \in Levels |-> IF l >= from THEN start ELSE Greedy(f[l + 1], p, l + 1)]
           down == CHOOSE f : IsDown(f)
           step == [x \in (1..Top) \X Elements |-> next(x[2], Top - x[1])]
<1>1. Descend(start, p, from, to) = down[to]
  BY Zenon DEF Descend
<1>2. Top \in Nat /\ from \in Nat /\ from <= Top /\ Levels = 0..Top /\ start \in Elements
  BY GraphAssumption DEF Levels, Having
<1>3. ASSUME NEW l \in Levels, l < from, NEW c \in Having(l + 1)
      PROVE  Greedy(c, p, l + 1) \in Having(l)
  <2>1. l + 1 \in Levels
    BY <1>2, <1>3
  <2>2. Greedy(c, p, l + 1) \in Having(l + 1)
    BY <1>3, <2>1, GreedyHas
  <2>3. \A n \in Elements : level[n] \in Nat
    BY <1>2 DEF Sound
  <2>4. Having(l + 1) \subseteq Having(l)
    BY <1>2, <2>3 DEF Having
  <2> QED
    BY <2>2, <2>4
<1>4. \A i \in 1..Top, c \in Elements : step[<<i, c>>] = next(c, Top - i)
  OBVIOUS
<1> HIDE DEF step
<1> DEFINE Fits(c, l) == c \in Elements /\ (IF l >= from THEN c = start ELSE c \in Having(l))
<1>5. ASSUME NEW l \in Levels, l # Top, NEW c, Fits(c, l + 1) PROVE Fits(next(c, l), l)
  <2>1. CASE l >= from
    BY <1>2, <2>1
  <2>2. CASE ~(l >= from)
    <3>1. l < from /\ l + 1 <= from /\ l + 1 \in Nat
      BY <1>2, <2>2
    <3>2. c \in Having(l + 1)
      <4>1. CASE l + 1 >= from
        <5>1. c = start /\ l + 1 = from
          BY <1>2, <1>5, <3>1, <4>1
        <5> QED
          BY <5>1
      <4>2. CASE ~(l + 1 >= from)
        BY <1>5, <4>2
      <4> QED
        BY <4>1, <4>2
    <3>3. Greedy(c, p, l + 1) \in Having(l)
      BY <1>3, <3>1, <3>2
    <3> QED
      BY <2>2, <3>3 DEF Having
  <2> QED
    BY <2>1, <2>2
<1>6. Fits(start, Top)
  BY <1>2
<1>7. PICK g : IsOrbit(g, Top, start, step)
  BY <1>2, OrbitExists
<1>8. g[0] = start /\ \A i \in 1..Top : g[i] = step[<<i, g[i - 1]>>]
  BY <1>2, <1>7 DEF IsOrbit
<1> HIDE DEF next, Fits
<1>9. ASSUME NEW i \in 0..Top PROVE Fits(g[i], Top - i)
  <2> DEFINE T == {j \in Nat : j <= Top => Fits(g[j], Top - j)}
  <2>1. 0 \in T
    BY <1>2, <1>6, <1>8
  <2>2. ASSUME NEW j \in 1..i, j - 1 \in T PROVE j \in T
    <3>1. j \in 1..Top /\ j - 1 \in Nat /\ j - 1 <= Top
      BY <1>2
    <3>2. Fits(g[j - 1], Top - (j - 1))
      BY <2>2, <3>1
    <3> DEFINE l == Top - j
               c == g[j - 1]
    <3>3. l \in Levels /\ l # Top /\ Top - (j - 1) = l + 1
      BY <1>2, <3>1
    <3>4. c \in Elements /\ Fits(c, l + 1)
      BY <3>2, <3>3 DEF Fits
    <3>5. g[j] = next(c, l)
      BY <1>4, <1>8, <3>1, <3>4
    <3> HIDE DEF l, c
    <3>6. Fits(g[j], l)
      BY <1>5, <3>3, <3>4, <3>5
    <3> QED
      BY <3>1, <3>6 DEF l
  <2> HIDE DEF T
  <2>3. i \in T
    BY <1>2, <2>1, <2>2, UpTo
  <2> QED
    BY <2>3 DEF T
<1> DEFINE h == [l \in Levels |-> g[Top - l]]
<1>10. IsDown(h)
  <2>1. ASSUME NEW l \in Levels
        PROVE  h[l] = IF l >= from THEN start ELSE Greedy(h[l + 1], p, l + 1)
    <3>1. l \in 0..Top /\ Top - l \in 0..Top
      BY <1>2
    <3>2. CASE Top - l = 0
      <4>1. l >= from
        BY <1>2, <3>1, <3>2
      <4> QED
        BY <1>8, <3>2, <4>1
    <3>3. CASE Top - l # 0
      <4>1. Top - l \in 1..Top /\ l + 1 \in Levels /\ Top - l - 1 = Top - (l + 1) /\ Top - (Top - l) = l
            /\ Top - (l + 1) \in 0..Top
        BY <1>2, <3>1, <3>3
      <4>2. g[Top - (l + 1)] \in Elements
        BY <1>9, <4>1 DEF Fits
      <4>3. g[Top - l] = step[<<Top - l, g[Top - (l + 1)]>>]
        BY <1>8, <4>1
      <4>4. h[l] = g[Top - l] /\ h[l + 1] = g[Top - (l + 1)]
        BY <4>1
      <4> HIDE DEF h
      <4>5. h[l] = next(h[l + 1], l)
        BY <1>4, <4>1, <4>2, <4>3, <4>4
      <4> QED
        BY <4>5 DEF next
    <3> QED
      BY <3>2, <3>3
  <2>2. h = [l \in Levels |-> h[l]]
    OBVIOUS
  <2> HIDE DEF h
  <2> QED
    BY <2>1, <2>2
<1> HIDE DEF h
<1>11. IsDown(down)
  <2> HIDE DEF IsDown
  <2> QED
    BY <1>10
<1> HIDE DEF down
<1>12. ASSUME NEW l \in Levels PROVE Fits(down[l], l)
  <2> DEFINE T == {j \in Nat : j <= Top => Fits(down[Top - j], Top - j)}
  <2>1. 0 \in T
    <3>1. Top \in Levels /\ Top >= from /\ Top - 0 = Top
      BY <1>2
    <3>2. down[Top] = start
      BY <1>11, <3>1
    <3> QED
      BY <1>6, <3>1, <3>2
  <2>2. ASSUME NEW j \in 1..(Top - l), j - 1 \in T PROVE j \in T
    <3>1. j \in 1..Top /\ j - 1 \in Nat /\ j - 1 <= Top
      BY <1>2
    <3>2. Fits(down[Top - (j - 1)], Top - (j - 1))
      BY <2>2, <3>1
    <3> DEFINE q == Top - j
    <3>3. q \in Levels /\ q # Top /\ Top - (j - 1) = q + 1
      BY <1>2, <3>1
    <3> HIDE DEF q
    <3>4. Fits(down[q + 1], q + 1)
      BY <3>2, <3>3
    <3>5. down[q] = next(down[q + 1], q)
      BY <1>11, <3>3 DEF next
    <3>6. Fits(down[q], q)
      BY <1>5, <3>3, <3>4, <3>5
    <3> QED
      BY <3>1, <3>6 DEF q
  <2> HIDE DEF T
  <2>3. Top - l \in Nat /\ Top - l <= Top /\ Top - (Top - l) = l
    BY <1>2
  <2>4. Top - l \in T
    BY <2>1, <2>2, <2>3, UpTo
  <2> QED
    BY <2>3, <2>4 DEF T
<1>13. to \in Levels /\ to <= from /\ to \in Nat
  BY <1>2
<1>14. Fits(down[to], to)
  BY <1>12, <1>13
<1>15. CASE to >= from
  <2>1. to = from
    BY <1>2, <1>13, <1>15
  <2> QED
    BY <1>1, <1>14, <1>15, <2>1 DEF Fits
<1>16. CASE ~(to >= from)
  <2>1. to # from
    BY <1>2, <1>16
  <2> QED
    BY <1>1, <1>14, <1>16, <2>1 DEF Fits
<1> QED
  BY <1>15, <1>16

\* The visits of level l that find elements of that level only.
Visits(l) ==
  {v \in [cand : SUBSET Elements, low : SUBSET Elements, best : SUBSET Having(l),
          seen : SUBSET Nodes, below : Nat, done : BOOLEAN] : v.low \subseteq v.cand}

\* A neighbour is considered.
LEMMA ConsiderIs ==
  ASSUME NEW l \in Levels, NEW v \in Visits(l), NEW n \in Having(l), NEW p, NEW ef, NEW ok
  PROVE  Consider(v, n, p, ef, ok) \in Visits(l)
<1> DEFINE best == IF n \in ok THEN v.best \cup {n} ELSE v.best
           kept == IF Cardinality(best) > ef THEN best \ {FarthestOf(best, p)} ELSE best
           full == Cardinality(v.best) >= ef /\ Dist(at[n], p) >= Dist(at[FarthestOf(v.best, p)], p)
<1>1. Consider(v, n, p, ef, ok) =
        IF full THEN v ELSE [v EXCEPT !.cand = v.cand \cup {n}, !.best = kept]
  BY DEF Consider
<1>2. best \in SUBSET Having(l)
  BY DEF Visits
<1> HIDE DEF best, full
<1>3. kept \in SUBSET Having(l)
  BY <1>2
<1> HIDE DEF kept
<1>4. n \in Elements
  BY DEF Having
<1>5. [v EXCEPT !.cand = v.cand \cup {n}] \in Visits(l)
  BY <1>4 DEF Visits
<1>6. \A w \in Visits(l) : [w EXCEPT !.best = kept] \in Visits(l)
  BY <1>3 DEF Visits
<1>7. [v EXCEPT !.cand = v.cand \cup {n}, !.best = kept] = [[v EXCEPT !.cand = v.cand \cup {n}] EXCEPT !.best = kept]
  BY DEF Visits
<1> QED
  BY <1>1, <1>5, <1>6, <1>7

\* Candidates folded into a visit.
Considered(v, s, p, ef, ok) ==
  LET take(w, c) == Consider(w, c, p, ef, ok) IN FoldLeft(take, v, s)

\* What folding a list of neighbours into a visit goes through.
LEMMA ConsideredIs ==
  ASSUME NEW l \in Levels, NEW v \in Visits(l), NEW s \in Seq(Having(l)), NEW p, NEW ef, NEW ok
  PROVE  \E h \in [0..Len(s) -> Visits(l)] :
           /\ h[0] = v /\ Considered(v, s, p, ef, ok) = h[Len(s)]
           /\ \A i \in 1..Len(s) : h[i] = Consider(h[i - 1], s[i], p, ef, ok)
<1> DEFINE n == Len(s)
           A == Visits(l)
           take(w, c) == Consider(w, c, p, ef, ok)
           IsIter(f) == f = [q \in SUBSET DOMAIN s |->
                               IF q = {} THEN v ELSE take(f[q \ {Max(q)}], s[Max(q)])]
           iter == CHOOSE f : IsIter(f)
           step == [x \in (1..n) \X A |-> take(x[2], s[x[1]])]
<1>1. n \in Nat /\ DOMAIN s = 1..n /\ \A i \in 1..n : s[i] \in Having(l)
  OBVIOUS
<1>2. Considered(v, s, p, ef, ok) = iter[DOMAIN s]
  BY Zenon DEF Considered, FoldLeft, MapThenFoldSet
<1>3. \A a \in A, c \in Having(l) : take(a, c) \in A
  BY ConsiderIs
<1>4. \A i \in 1..n, a \in A : step[<<i, a>>] = take(a, s[i])
  OBVIOUS
<1>5. v \in A
  OBVIOUS
<1> HIDE DEF n, A, step, take
<1>6. PICK g \in [SUBSET (1..n) -> A] : IsFold(g, n, v, step)
  <2>1. \A i \in 1..n, a \in A : step[<<i, a>>] \in A
    BY <1>1, <1>3, <1>4
  <2> QED
    BY <1>1, <1>5, <2>1, FoldIn
<1>7. IsIter(g)
  <2>1. ASSUME NEW q \in SUBSET (1..n)
        PROVE  g[q] = IF q = {} THEN v ELSE take(g[q \ {Max(q)}], s[Max(q)])
    <3>1. CASE q = {}
      BY <1>6, <3>1 DEF IsFold
    <3>2. CASE q # {}
      <4>1. Max(q) \in 1..n /\ q \ {Max(q)} \in SUBSET (1..n)
        BY <1>1, <3>2, MaxOf
      <4>2. g[q] = step[<<Max(q), g[q \ {Max(q)}]>>]
        BY <1>6, <3>2 DEF IsFold
      <4>3. g[q \ {Max(q)}] \in A
        BY <1>6, <4>1
      <4> QED
        BY <1>4, <3>2, <4>1, <4>2, <4>3
    <3> QED
      BY <3>1, <3>2
  <2> QED
    BY <1>1, <1>6, <2>1
<1>8. IsIter(iter)
  <2> HIDE DEF IsIter
  <2> QED
    BY <1>7
<1> HIDE DEF iter
<1> DEFINE h == [i \in 0..n |-> iter[1..i]]
<1>9. iter[{}] = v
  <2>1. {} \in SUBSET (1..n)
    OBVIOUS
  <2> QED
    BY <1>1, <1>8, <2>1
<1>10. ASSUME NEW i \in 1..n PROVE iter[1..i] = take(iter[1..(i - 1)], s[i])
  <2>1. /\ 1..i \in SUBSET (1..n) /\ 1..i # {}
        /\ Max(1..i) = i /\ (1..i) \ {Max(1..i)} = 1..(i - 1)
    BY <1>1, PositionsUpTo
  <2>2. iter[1..i] = take(iter[(1..i) \ {Max(1..i)}], s[Max(1..i)])
    BY <1>1, <1>8, <2>1
  <2> QED
    BY <2>1, <2>2
<1>11. h[0] = v
  <2>1. 1..0 = {} /\ 0 \in 0..n
    BY <1>1
  <2> QED
    BY <1>9, <2>1
<1>12. \A i \in 1..n : h[i] = take(h[i - 1], s[i])
  <2>1. \A i \in 1..n : i \in 0..n /\ i - 1 \in 0..n
    BY <1>1
  <2> QED
    BY <1>10, <2>1
<1>13. h[n] = iter[DOMAIN s] /\ h = [i \in 0..n |-> h[i]]
  BY <1>1
<1> HIDE DEF h
<1>14. ASSUME NEW m \in 0..n PROVE h[m] \in A
  <2> DEFINE B == [i \in 0..n |-> A]
  <2>1. h[0] \in B[0]
    BY <1>1, <1>5, <1>11
  <2>2. \A i \in 1..m : h[i - 1] \in B[i - 1] => h[i] \in B[i]
    <3>1. \A i \in 1..m : i \in 1..n /\ i \in 0..n /\ i - 1 \in 0..n
      BY <1>1
    <3> QED
      BY <1>1, <1>3, <1>12, <3>1
  <2>3. m \in Nat /\ B[m] = A
    BY <1>1
  <2> HIDE DEF B
  <2>4. h[m] \in B[m]
    BY <2>1, <2>2, <2>3, Stages
  <2> QED
    BY <2>3, <2>4
<1>15. h \in [0..n -> A]
  BY <1>13, <1>14
<1> QED
  BY <1>2, <1>11, <1>12, <1>13, <1>15 DEF n, A, take

\* Neighbours of a level keep a visit one of that level.
LEMMA ConsiderAll ==
  ASSUME NEW l \in Levels, NEW v \in Visits(l), NEW s \in Seq(Having(l)), NEW p, NEW ef, NEW ok
  PROVE  Considered(v, s, p, ef, ok) \in Visits(l)
<1>1. PICK h \in [0..Len(s) -> Visits(l)] : Considered(v, s, p, ef, ok) = h[Len(s)]
  BY ConsideredIs
<1> QED
  BY <1>1

\* A candidate is visited.
LEMMA VisitIs ==
  ASSUME Sound, NEW l \in Levels, NEW v \in Visits(l), v.cand # {},
         NEW p \in Points, NEW ef, NEW ok, NEW patience
  PROVE  Visit(v, p, l, ef, ok, patience) \in Visits(l)
<1> DEFINE n     == IF v.cand = v.low THEN CHOOSE c \in v.low : TRUE ELSE NearestOf(v.cand \ v.low, p)
           worse == /\ Cardinality(v.best) >= ef
                    /\ n \in v.low \/ Dist(at[n], p) > Dist(at[FarthestOf(v.best, p)], p)
           below == IF worse THEN v.below + 1 ELSE 0
           new   == IF Readable(n, l) THEN Targets(n, l) \ v.seen ELSE {}
           valid == {c \in new \ Hidden : Readable(c, l)}
           next  == [v EXCEPT !.cand = @ \ {n}, !.low = @ \ {n}, !.seen = @ \cup new, !.below = below]
           list  == Kept(links[n][l], valid \ ok) \o Kept(links[n][l], valid \cap ok)
<1>1. Visit(v, p, l, ef, ok, patience) =
        IF below > patience THEN [v EXCEPT !.done = TRUE] ELSE Considered(next, list, p, ef, ok)
  BY Zenon DEF Visit, Considered
<1>2. n \in Elements
  <2>1. CASE v.cand = v.low
    BY <2>1 DEF Visits
  <2>2. CASE v.cand # v.low
    <3> DEFINE S == v.cand \ v.low
    <3>1. S # {} /\ S \subseteq Elements /\ \A c \in S : at[c] \in Points
      BY <2>2 DEF Visits, Sound
    <3> HIDE DEF S
    <3>2. NearestOf(S, p) \in S
      BY <3>1, NearestIs
    <3> QED
      BY <2>2, <3>1, <3>2 DEF S
  <2> QED
    BY <2>1, <2>2
<1> HIDE DEF n
<1>3. n \in Nodes /\ Targets(n, l) \subseteq Having(l) /\ links[n][l] \in Seq(Having(l))
  <2>1. n \in Nodes
    BY <1>2 DEF Sound
  <2> QED
    BY <2>1, TargetsHave DEF Sound, Linked
<1>4. new \subseteq Having(l) /\ new \subseteq Nodes
  BY <1>3 DEF Having, Sound
<1>5. below \in Nat
  BY DEF Visits
<1> HIDE DEF below, new
<1>6. next \in Visits(l)
  <2> DEFINE a == [v EXCEPT !.cand = v.cand \ {n}]
             b == [a EXCEPT !.low = v.low \ {n}]
             c == [b EXCEPT !.seen = v.seen \cup new]
             d == [c EXCEPT !.below = below]
             T == [cand : SUBSET Elements, low : SUBSET Elements, best : SUBSET Having(l),
                   seen : SUBSET Nodes, below : Nat, done : BOOLEAN]
  <2>1. v \in T /\ v.low \subseteq v.cand
    BY DEF Visits
  <2>2. a \in T /\ a.low = v.low /\ a.cand = v.cand \ {n} /\ a.seen = v.seen
    BY <2>1
  <2> HIDE DEF a
  <2>3. b \in T /\ b.low = v.low \ {n} /\ b.cand = v.cand \ {n} /\ b.seen = v.seen
    BY <2>1, <2>2
  <2> HIDE DEF b
  <2>4. c \in T /\ c.low = v.low \ {n} /\ c.cand = v.cand \ {n}
    BY <1>4, <2>1, <2>3
  <2> HIDE DEF c
  <2>5. d \in T /\ d.low = v.low \ {n} /\ d.cand = v.cand \ {n}
    BY <1>5, <2>4
  <2>6. next = d
    BY <2>1 DEF a, b, c
  <2> HIDE DEF d
  <2>7. d \in Visits(l)
    BY <2>1, <2>5 DEF Visits
  <2> QED
    BY <2>6, <2>7
<1>7. list \in Seq(Having(l))
  <2>1. \A S : Kept(links[n][l], S) \in Seq(Having(l))
    <3>1. ASSUME NEW S PROVE Kept(links[n][l], S) \in Seq(S \cap Having(l))
      BY <1>3, KeptIn
    <3>2. \A S : Seq(S \cap Having(l)) \subseteq Seq(Having(l))
      OBVIOUS
    <3> QED
      BY <3>1, <3>2
  <2> QED
    BY <2>1
<1> HIDE DEF next, list
<1>8. Considered(next, list, p, ef, ok) \in Visits(l)
  BY <1>6, <1>7, ConsiderAll
<1>9. [v EXCEPT !.done = TRUE] \in Visits(l)
  BY DEF Visits
<1> QED
  BY <1>1, <1>8, <1>9

\* A search goes through visits of one level.
IsSearch(run, ep, p, l, ef, ok, patience) ==
  /\ run[0] = StartVisit(ep, l, ok)
  /\ \A i \in 1..Capacity :
       run[i] = IF run[i - 1].done \/ run[i - 1].cand = {} THEN run[i - 1]
                ELSE Visit(run[i - 1], p, l, ef, ok, patience)
  /\ SearchLayer(ep, p, l, ef, ok, patience) = ByNearness(run[Capacity].best, p)

\* It does if it starts at an element with a list there.
LEMMA RunIs ==
  ASSUME Sound, NEW l \in Levels, NEW ep \in Elements, Readable(ep, l) => ep \in Having(l),
         NEW p \in Points, NEW ef, NEW ok, NEW patience
  PROVE  \E run \in [0..Capacity -> Visits(l)] : IsSearch(run, ep, p, l, ef, ok, patience)
<1> DEFINE next(v) == IF v.done \/ v.cand = {} THEN v ELSE Visit(v, p, l, ef, ok, patience)
           start == StartVisit(ep, l, ok)
           IsRun(f) == f = [i \in 0..Capacity |-> IF i = 0 THEN start ELSE next(f[i - 1])]
           run == CHOOSE f : IsRun(f)
           A == Visits(l)
           step == [x \in (1..Capacity) \X A |-> next(x[2])]
<1>1. SearchLayer(ep, p, l, ef, ok, patience) = ByNearness(run[Capacity].best, p)
  BY Zenon DEF SearchLayer
<1>2. start \in A
  <2> DEFINE seen == ep \notin Hidden /\ Readable(ep, l)
             low == IF seen THEN {} ELSE {ep}
             best == IF seen /\ ep \in ok THEN {ep} ELSE {}
  <2>1. start = [cand |-> {ep}, low |-> low, best |-> best, seen |-> {ep}, below |-> 0, done |-> FALSE]
    BY DEF StartVisit
  <2>2. low \subseteq {ep} /\ best \in SUBSET Having(l)
    OBVIOUS
  <2>3. ep \in Nodes
    BY DEF Sound
  <2> HIDE DEF low, best, start
  <2> QED
    BY <2>1, <2>2, <2>3 DEF Visits
<1>3. ASSUME NEW v \in A PROVE next(v) \in A
  <2>1. CASE v.done \/ v.cand = {}
    BY <2>1
  <2>2. CASE ~(v.done \/ v.cand = {})
    BY <2>2, VisitIs
  <2> QED
    BY <2>1, <2>2
<1>4. \A i \in 1..Capacity, c \in A : step[<<i, c>>] = next(c)
  OBVIOUS
<1>5. Capacity \in Nat
  BY NodesAre
<1> HIDE DEF next, step, A, start
<1>6. PICK f \in [0..Capacity -> A] : IsOrbit(f, Capacity, start, step)
  <2>1. \A i \in 1..Capacity, c \in A : step[<<i, c>>] \in A
    BY <1>3, <1>4
  <2> QED
    BY <1>2, <1>5, <2>1, OrbitOf
<1>7. IsRun(f)
  <2>1. ASSUME NEW i \in 0..Capacity PROVE f[i] = IF i = 0 THEN start ELSE next(f[i - 1])
    <3>1. CASE i = 0
      BY <1>6, <3>1 DEF IsOrbit
    <3>2. CASE i # 0
      <4>1. i \in 1..Capacity /\ i - 1 \in 0..Capacity
        BY <1>5, <3>2
      <4>2. f[i - 1] \in A
        BY <1>6, <4>1
      <4>3. f[i] = step[<<i, f[i - 1]>>]
        BY <1>6, <3>2 DEF IsOrbit
      <4> QED
        BY <1>4, <3>2, <4>1, <4>2, <4>3
    <3> QED
      BY <3>1, <3>2
  <2> QED
    BY <1>6, <2>1
<1>8. IsRun(run)
  <2> HIDE DEF IsRun
  <2> QED
    BY <1>7
<1> HIDE DEF run
<1>9. run[0] = start /\ run = [i \in 0..Capacity |-> run[i]]
  BY <1>5, <1>8
<1>10. \A i \in 1..Capacity : run[i] = next(run[i - 1])
  <2>1. \A i \in 1..Capacity : i \in 0..Capacity /\ i # 0
    BY <1>5
  <2> QED
    BY <1>8, <2>1
<1>11. ASSUME NEW m \in 0..Capacity PROVE run[m] \in A
  <2> DEFINE B == [i \in 0..Capacity |-> A]
  <2>1. run[0] \in B[0]
    BY <1>2, <1>5, <1>9
  <2>2. \A i \in 1..m : run[i - 1] \in B[i - 1] => run[i] \in B[i]
    <3>1. \A i \in 1..m : i \in 1..Capacity /\ i \in 0..Capacity /\ i - 1 \in 0..Capacity
      BY <1>5
    <3>2. ASSUME NEW i \in 1..m, run[i - 1] \in A PROVE run[i] \in A
      <4>1. i \in 1..Capacity
        BY <3>1
      <4> DEFINE c == run[i - 1]
      <4>2. run[i] = next(c) /\ c \in A
        BY <1>10, <3>2, <4>1
      <4> HIDE DEF c
      <4> QED
        BY <1>3, <4>2
    <3> QED
      BY <3>1, <3>2
  <2>3. m \in Nat /\ B[m] = A
    BY <1>5
  <2> HIDE DEF B
  <2>4. run[m] \in B[m]
    BY <2>1, <2>2, <2>3, Stages
  <2> QED
    BY <2>3, <2>4
<1>12. run \in [0..Capacity -> A]
  BY <1>9, <1>11
<1> QED
  BY <1>1, <1>9, <1>10, <1>12 DEF A, next, start, IsSearch

\* So it finds elements of that level only.
LEMMA SearchLayerHas ==
  ASSUME Sound, NEW l \in Levels, NEW ep \in Elements, Readable(ep, l) => ep \in Having(l),
         NEW p \in Points, NEW ef, NEW ok, NEW patience
  PROVE  SearchLayer(ep, p, l, ef, ok, patience) \in Seq(Having(l))
<1>1. PICK run \in [0..Capacity -> Visits(l)] : IsSearch(run, ep, p, l, ef, ok, patience)
  BY RunIs
<1> DEFINE S == run[Capacity].best
<1>2. S \in SUBSET Having(l)
  BY NodesAre DEF Visits
<1>3. SearchLayer(ep, p, l, ef, ok, patience) = ByNearness(S, p)
  BY <1>1 DEF IsSearch
<1> HIDE DEF S
<1>4. S \in SUBSET Nat /\ IsFiniteSet(S) /\ \A n \in S : at[n] \in Points
  BY <1>2, NodesAre DEF Sound, Having
<1>5. ByNearness(S, p) \in Seq(S)
  BY <1>4, ByNearnessIs
<1>6. Seq(S) \subseteq Seq(Having(l))
  BY <1>2
<1> QED
  BY <1>3, <1>5, <1>6

-------------------------------------------------------------------------------
(***************************************************************************)
(* The lists that additions write.                                         *)
(***************************************************************************)

\* The choice of neighbours.
LEMMA DiverseIn ==
  ASSUME NEW X, NEW cands \in Seq(X), NEW p, NEW m \in Nat, NEW l
  PROVE  Diverse(cands, p, m, l) \in Seq(X) /\ Len(Diverse(cands, p, m, l)) <= m
<1> DEFINE good(chosen, c) ==
             \A i \in DOMAIN chosen : Dist(at[chosen[i]], at[c]) >= Dist(p, at[c])
           take(s, c) == IF Len(s.in) = m THEN s
                         ELSE IF good(s.in, c) THEN [s EXCEPT !.in = Append(@, c)]
                         ELSE [s EXCEPT !.out = Append(@, c)]
           start == [in |-> <<>>, out |-> <<>>]
           n == Len(cands)
           A == {s \in [in : Seq(X), out : Seq(X)] : Len(s.in) <= m}
           IsIter(f) == f = [q \in SUBSET DOMAIN cands |->
                               IF q = {} THEN start ELSE take(f[q \ {Max(q)}], cands[Max(q)])]
           iter == CHOOSE f : IsIter(f)
           step == [x \in (1..n) \X A |-> take(x[2], cands[x[1]])]
           picked == FoldLeft(take, start, cands)
<1>1. n \in Nat /\ DOMAIN cands = 1..n /\ \A i \in 1..n : cands[i] \in X
  OBVIOUS
<1>2. start \in A
  OBVIOUS
<1>3. picked = iter[DOMAIN cands]
  BY Zenon DEF FoldLeft, MapThenFoldSet
<1> HIDE DEF good
<1>4. ASSUME NEW a \in A, NEW c \in X PROVE take(a, c) \in A
  <2>1. a.in \in Seq(X) /\ a.out \in Seq(X) /\ Len(a.in) <= m /\ Len(a.in) \in Nat
    OBVIOUS
  <2>2. CASE Len(a.in) = m
    BY <2>2
  <2>3. CASE Len(a.in) # m
    <3>1. Append(a.in, c) \in Seq(X) /\ Len(Append(a.in, c)) <= m /\ Append(a.out, c) \in Seq(X)
      BY <2>1, <2>3
    <3>2. [a EXCEPT !.in = Append(@, c)] \in A
      BY <3>1
    <3>3. [a EXCEPT !.out = Append(@, c)] \in A
      BY <2>1, <3>1
    <3> QED
      BY <2>3, <3>2, <3>3
  <2> QED
    BY <2>2, <2>3
<1>5. \A i \in 1..n, a \in A : step[<<i, a>>] = take(a, cands[i])
  OBVIOUS
<1> HIDE DEF A, take, step, start, n
<1>6. PICK g \in [SUBSET (1..n) -> A] : IsFold(g, n, start, step)
  <2>1. \A i \in 1..n, a \in A : step[<<i, a>>] \in A
    BY <1>1, <1>4, <1>5
  <2> QED
    BY <1>1, <1>2, <2>1, FoldIn
<1>7. IsIter(g)
  <2>1. ASSUME NEW q \in SUBSET (1..n)
        PROVE  g[q] = IF q = {} THEN start ELSE take(g[q \ {Max(q)}], cands[Max(q)])
    <3>1. CASE q = {}
      BY <1>6, <3>1 DEF IsFold
    <3>2. CASE q # {}
      <4>1. Max(q) \in 1..n /\ q \ {Max(q)} \in SUBSET (1..n)
        BY <1>1, <3>2, MaxOf
      <4>2. g[q] = step[<<Max(q), g[q \ {Max(q)}]>>]
        BY <1>6, <3>2 DEF IsFold
      <4>3. g[q \ {Max(q)}] \in A
        BY <1>6, <4>1
      <4> QED
        BY <1>5, <3>2, <4>1, <4>2, <4>3
    <3> QED
      BY <3>1, <3>2
  <2> QED
    BY <1>1, <1>6, <2>1
<1>8. IsIter(iter)
  <2> HIDE DEF IsIter
  <2> QED
    BY <1>7
<1> HIDE DEF iter
<1>9. iter[1..n] \in A
  <2>1. \A q \in SUBSET (1..n) :
          iter[q] = IF q = {} THEN start ELSE take(iter[q \ {Max(q)}], cands[Max(q)])
    BY <1>1, <1>8
  <2>2. {} \in SUBSET (1..n)
    OBVIOUS
  <2>3. iter[{}] \in A
    BY <1>2, <2>1, <2>2
  <2>4. ASSUME NEW q \in SUBSET (1..n), q # {}, iter[q \ {Max(q)}] \in A PROVE iter[q] \in A
    <3> DEFINE a == iter[q \ {Max(q)}]
               c == cands[Max(q)]
    <3>1. c \in X
      BY <1>1, <2>4, MaxOf
    <3>2. a \in A
      BY <2>4
    <3>3. iter[q] = take(a, c)
      BY <2>1, <2>4
    <3> HIDE DEF a, c
    <3> QED
      BY <1>4, <3>1, <3>2, <3>3
  <2> QED
    BY <1>1, <2>3, <2>4, FoldEnds
<1>10. picked \in A
  BY <1>1, <1>3, <1>9
<1> HIDE DEF picked
<1>11. picked.in \in Seq(X) /\ picked.out \in Seq(X) /\ Len(picked.in) <= m
  BY <1>10 DEF A
<1> DEFINE buffer == IF l = 0 THEN 2 * Backfill ELSE Backfill
           want == IF m > buffer THEN m - buffer ELSE 0
           room == IF want > Len(picked.in) THEN want - Len(picked.in) ELSE 0
           fill == SubSeq(picked.out, 1, IF room < Len(picked.out) THEN room ELSE Len(picked.out))
<1>12. Diverse(cands, p, m, l) = IF Len(cands) <= m THEN cands ELSE picked.in \o fill
  BY Zenon DEF Diverse, picked, take, good, start
<1>13. want \in Nat /\ want <= m
  BY GraphAssumption
<1> HIDE DEF want
<1>14. room \in Nat /\ Len(picked.in) + room <= m /\ Len(picked.in) \in Nat /\ Len(picked.out) \in Nat
  <2> DEFINE len == Len(picked.in)
  <2>1. len \in Nat /\ len <= m /\ Len(picked.out) \in Nat
    BY <1>11
  <2> HIDE DEF len
  <2>2. (IF want > len THEN want - len ELSE 0) \in Nat
    BY <1>13, <2>1
  <2>3. len + (IF want > len THEN want - len ELSE 0) <= m
    <3>1. CASE want > len
      BY <1>13, <2>1, <3>1
    <3>2. CASE ~(want > len)
      BY <2>1, <3>2
    <3> QED
      BY <3>1, <3>2
  <2> QED
    BY <2>1, <2>2, <2>3 DEF len
<1> HIDE DEF room
<1>15. fill \in Seq(X) /\ Len(fill) <= room /\ Len(fill) \in Nat
  <2> DEFINE k == IF room < Len(picked.out) THEN room ELSE Len(picked.out)
  <2>1. k \in Nat /\ k <= room /\ k <= Len(picked.out)
    BY <1>14
  <2> HIDE DEF k
  <2>2. \A i \in 1..k : picked.out[i] \in X
    BY <1>11, <1>14, <2>1
  <2>3. SubSeq(picked.out, 1, k) \in Seq(X) /\ Len(SubSeq(picked.out, 1, k)) = IF 1 <= k THEN k - 1 + 1 ELSE 0
    BY <2>1, <2>2, SubSeqProperties
  <2> QED
    BY <1>14, <2>1, <2>3 DEF k
<1> HIDE DEF fill
<1>16. picked.in \o fill \in Seq(X) /\ Len(picked.in \o fill) <= m
  BY <1>11, <1>14, <1>15
<1> QED
  BY <1>1, <1>12, <1>16

\* The degree of a level.
LEMMA DegreeIs ==
  ASSUME NEW l \in Levels
  PROVE  Degree(l) \in Nat
  BY GraphAssumption DEF Degree

\* The places of a list by nearness.
LEMMA RelinkedHas ==
  ASSUME Sound, NEW l \in Levels, NEW b \in Having(l), NEW n \in Having(l)
  PROVE  Relinked(b, n, l) \in Seq(Having(l)) /\ Len(Relinked(b, n, l)) <= Degree(l)
<1> DEFINE list == links[b][l]
           open == <<n>> \o list
           m == Len(open)
           far(i) == Dist(at[open[i]], at[b])
           near(i, j) == far(i) < far(j) \/ (far(i) = far(j) /\ i < j)
           rank == InOrder(DOMAIN open, near)
           all == [i \in DOMAIN open |-> open[rank[i]]]
<1>1. Relinked(b, n, l) = IF Len(list) < Degree(l) THEN Append(list, n) ELSE Diverse(all, at[b], Degree(l), l)
  BY Zenon DEF Relinked
<1>2. list \in Seq(Having(l)) /\ b \in Nodes /\ at[b] \in Points
  BY DEF Sound, Linked, Having
<1> HIDE DEF list
<1>3. open \in Seq(Having(l)) /\ m \in Nat /\ DOMAIN open = 1..m /\ \A i \in 1..m : open[i] \in Having(l)
  BY <1>2
<1> HIDE DEF open, m
<1>4. \A i \in 1..m : far(i) \in Nat
  <2>1. \A i \in 1..m : at[open[i]] \in Points
    BY <1>3 DEF Sound, Having
  <2> QED
    BY <1>2, <2>1, GraphAssumption, DistIsNat
<1> DEFINE P == 1..m
<1>5. IsFiniteSet(P) /\ Cardinality(P) = m /\ P \subseteq Nat
  <2>1. 1 \in Int /\ m \in Int
    BY <1>3
  <2>2. IsFiniteSet(1..m) /\ Cardinality(1..m) = IF 1 > m THEN 0 ELSE m - 1 + 1
    BY <2>1, FS_Interval
  <2> QED
    BY <1>3, <2>2
<1> HIDE DEF far
<1> DEFINE place(i) == CHOOSE a \in P : Cardinality({c \in P : near(c, a)}) = i - 1
           d == [i \in P |-> far(i)]
           R == {x \in P \X P : d[x[1]] < d[x[2]] \/ (d[x[1]] = d[x[2]] /\ x[1] < x[2])}
<1>6. rank = [i \in 1..m |-> place(i)]
  BY <1>3, <1>5 DEF InOrder
<1>7. ASSUME NEW i \in 1..m PROVE place(i) \in 1..m
  <2>1. d \in [P -> Nat]
    BY <1>4
  <2>2. \A a \in P : Below(R, P, a) = {c \in P : near(c, a)}
    BY DEF Below
  <2> HIDE DEF d, near
  <2>3. i \in 1..Cardinality(P)
    BY <1>5, <1>7
  <2> HIDE DEF P
  <2>4. IsOrder(R, P)
    BY <1>5, <2>1 DEF IsOrder
  <2> HIDE DEF R
  <2>5. PICK a \in P : Cardinality(Below(R, P, a)) = i - 1
    BY <1>5, <2>3, <2>4, RankTaken
  <2>6. Cardinality({c \in P : near(c, a)}) = i - 1
    BY <2>2, <2>5
  <2>7. place(i) \in P
    BY <2>6
  <2> QED
    BY <2>7 DEF P
<1> HIDE DEF rank, place
<1>8. all \in Seq(Having(l))
  BY <1>3, <1>6, <1>7
<1> HIDE DEF all
<1>9. Diverse(all, at[b], Degree(l), l) \in Seq(Having(l)) /\ Len(Diverse(all, at[b], Degree(l), l)) <= Degree(l)
  BY <1>8, DegreeIs, DiverseIn
<1>10. ASSUME Len(list) < Degree(l)
       PROVE  Append(list, n) \in Seq(Having(l)) /\ Len(Append(list, n)) <= Degree(l)
  BY <1>2, <1>10, DegreeIs
<1> QED
  BY <1>1, <1>9, <1>10

\* The graphs whose lists are in order.
Graphs == {g \in [Nodes -> [Levels -> Seq(Elements)]] : Linked(g)}

\* They are the graphs that are linked.
LEMMA GraphsAre ==
  ASSUME NEW g
  PROVE  g \in Graphs <=> Linked(g)
<1> SUFFICES ASSUME Linked(g) PROVE g \in [Nodes -> [Levels -> Seq(Elements)]]
  BY DEF Graphs
<1>1. \A n \in Nodes, l \in Levels : g[n][l] \in Seq(Elements)
  <2>1. \A l : Seq(Having(l)) \subseteq Seq(Elements)
    BY DEF Having
  <2> QED
    BY <2>1 DEF Linked
<1>2. \A n \in Nodes : g[n] \in [Levels -> Seq(Elements)]
  BY <1>1 DEF Linked
<1> QED
  BY <1>2 DEF Linked

\* One list is replaced.
LEMMA SetLinked ==
  ASSUME NEW g \in Graphs, NEW l \in Levels, NEW n \in Nodes, NEW s \in Seq(Having(l)),
         Len(s) <= Degree(l), n \in Having(l) \/ s = <<>>
  PROVE  [g EXCEPT ![n] = [@ EXCEPT ![l] = s]] \in Graphs
<1> DEFINE h == [g EXCEPT ![n] = [g[n] EXCEPT ![l] = s]]
<1>1. Linked(g)
  BY DEF Graphs
<1>2. /\ h = [m \in Nodes |-> h[m]]
      /\ \A m \in Nodes : h[m] = IF m = n THEN [g[n] EXCEPT ![l] = s] ELSE g[m]
  BY <1>1 DEF Linked
<1> HIDE DEF h
<1>3. g[n] = [k \in Levels |-> g[n][k]]
  BY <1>1 DEF Linked
<1>4. \A m \in Nodes : h[m] = [k \in Levels |-> h[m][k]]
  BY <1>1, <1>2, <1>3 DEF Linked
<1>5. \A m \in Nodes, k \in Levels : h[m][k] = IF m = n /\ k = l THEN s ELSE g[m][k]
  BY <1>2, <1>3
<1>6. \A m \in Nodes, k \in Levels :
        /\ h[m][k] \in Seq(Having(k)) /\ Len(h[m][k]) <= Degree(k)
        /\ h[m][k] # <<>> => m \in Having(k)
  BY <1>1, <1>5 DEF Linked
<1>7. Linked(h)
  BY <1>2, <1>4, <1>6 DEF Linked
<1> QED
  BY <1>7, GraphsAre DEF h

\* Two elements are linked to each other if they have room.
LEMMA PairedHas ==
  ASSUME Elements \subseteq Nodes, NEW g \in Graphs, NEW l \in Levels, NEW a \in Having(l), NEW b \in Having(l), a # b
  PROVE  Paired(g, a, b, l) \in Graphs
<1> DEFINE x == Append(g[a][l], b)
           y == Append(g[b][l], a)
           one == [g EXCEPT ![a] = [g[a] EXCEPT ![l] = x]]
           two == [one EXCEPT ![b] = [one[b] EXCEPT ![l] = y]]
           both == [g EXCEPT ![a] = [g[a] EXCEPT ![l] = x], ![b] = [g[b] EXCEPT ![l] = y]]
           skip == \/ b \in ToSet(g[a][l]) \/ a \in ToSet(g[b][l])
                   \/ Len(g[a][l]) >= Degree(l) \/ Len(g[b][l]) >= Degree(l)
<1>1. a \in Nodes /\ b \in Nodes
  BY DEF Having
<1>2. g \in [Nodes -> [Levels -> Seq(Elements)]] /\ Linked(g)
  BY DEF Graphs
<1>3. Paired(g, a, b, l) = IF skip THEN g ELSE both
  BY DEF Paired
<1>4. CASE skip
  BY <1>3, <1>4
<1>5. CASE ~skip
  <2>1. /\ g[a][l] \in Seq(Having(l)) /\ g[b][l] \in Seq(Having(l))
        /\ Len(g[a][l]) < Degree(l) /\ Len(g[b][l]) < Degree(l)
    BY <1>1, <1>2, <1>5, DegreeIs DEF Linked
  <2>2. x \in Seq(Having(l)) /\ y \in Seq(Having(l)) /\ Len(x) <= Degree(l) /\ Len(y) <= Degree(l)
    BY <2>1, DegreeIs
  <2> HIDE DEF x, y, skip
  <2>3. one \in Graphs
    BY <1>1, <2>2, SetLinked
  <2>4. both = two
    BY <1>1, <1>2
  <2> HIDE DEF one, both
  <2>5. two \in Graphs
    BY <1>1, <2>2, <2>3, SetLinked
  <2> HIDE DEF two
  <2> QED
    BY <1>3, <1>5, <2>4, <2>5
<1> QED
  BY <1>4, <1>5

\* Neighbours paired from both ends.
PairedAll(g, ids, l) ==
  LET pair(h, i) == Paired(h, ids[i], ids[Len(ids) + 1 - i], l)
  IN  FoldLeft(pair, g, [i \in 1 .. Len(ids) \div 2 |-> i])

\* So are those of a list, from both ends.
LEMMA PairedAllHas ==
  ASSUME Elements \subseteq Nodes, NEW g \in Graphs, NEW l \in Levels, NEW ids \in Seq(Having(l)),
         \A i, j \in 1..Len(ids) : ids[i] = ids[j] => i = j
  PROVE  PairedAll(g, ids, l) \in Graphs
<1> DEFINE n == Len(ids) \div 2
           s == [i \in 1..n |-> i]
           A == Graphs
           pair(h, i) == Paired(h, ids[i], ids[Len(ids) + 1 - i], l)
           IsIter(f) == f = [q \in SUBSET DOMAIN s |->
                               IF q = {} THEN g ELSE pair(f[q \ {Max(q)}], s[Max(q)])]
           iter == CHOOSE f : IsIter(f)
           step == [x \in (1..n) \X A |-> pair(x[2], x[1])]
<1>1. n \in Nat /\ DOMAIN s = 1..n /\ \A i \in 1..n : s[i] = i
  OBVIOUS
<1>2. PairedAll(g, ids, l) = iter[DOMAIN s]
  BY Zenon DEF PairedAll, FoldLeft, MapThenFoldSet
<1>3. ASSUME NEW a \in A, NEW i \in 1..n PROVE pair(a, i) \in A
  <2> DEFINE j == Len(ids) + 1 - i
  <2>1. i \in 1..Len(ids) /\ j \in 1..Len(ids) /\ i # j
    OBVIOUS
  <2> HIDE DEF j
  <2>2. ids[i] \in Having(l) /\ ids[j] \in Having(l) /\ ids[i] # ids[j]
    BY <2>1
  <2>3. Paired(a, ids[i], ids[j], l) \in Graphs
    BY <2>2, PairedHas
  <2> QED
    BY <2>3 DEF j
<1>4. \A i \in 1..n, a \in A : step[<<i, a>>] = pair(a, i)
  OBVIOUS
<1>5. g \in A
  OBVIOUS
<1> HIDE DEF n, A, step, pair, s
<1>6. PICK f \in [SUBSET (1..n) -> A] : IsFold(f, n, g, step)
  <2>1. ASSUME NEW i \in 1..n, NEW a \in A PROVE step[<<i, a>>] \in A
    <3>1. step[<<i, a>>] = pair(a, i)
      BY <1>4
    <3> QED
      BY <1>3, <3>1
  <2> QED
    BY <1>1, <1>5, <2>1, FoldIn
<1>7. IsIter(f)
  <2>1. ASSUME NEW q \in SUBSET (1..n)
        PROVE  f[q] = IF q = {} THEN g ELSE pair(f[q \ {Max(q)}], s[Max(q)])
    <3>1. CASE q = {}
      BY <1>6, <3>1 DEF IsFold
    <3>2. CASE q # {}
      <4>1. Max(q) \in 1..n /\ q \ {Max(q)} \in SUBSET (1..n)
        BY <1>1, <3>2, MaxOf
      <4>2. f[q] = step[<<Max(q), f[q \ {Max(q)}]>>]
        BY <1>6, <3>2 DEF IsFold
      <4>3. f[q \ {Max(q)}] \in A /\ s[Max(q)] = Max(q)
        BY <1>1, <1>6, <4>1
      <4> QED
        BY <1>4, <3>2, <4>1, <4>2, <4>3
    <3> QED
      BY <3>1, <3>2
  <2> QED
    BY <1>1, <1>6, <2>1
<1>8. IsIter(iter)
  <2> HIDE DEF IsIter
  <2> QED
    BY <1>7
<1> HIDE DEF iter
<1>9. iter[1..n] \in A
  <2>1. \A q \in SUBSET (1..n) :
          iter[q] = IF q = {} THEN g ELSE pair(iter[q \ {Max(q)}], s[Max(q)])
    BY <1>1, <1>8
  <2>2. {} \in SUBSET (1..n)
    OBVIOUS
  <2>3. iter[{}] \in A
    BY <1>5, <2>1, <2>2
  <2>4. ASSUME NEW q \in SUBSET (1..n), q # {}, iter[q \ {Max(q)}] \in A PROVE iter[q] \in A
    <3> DEFINE a == iter[q \ {Max(q)}]
               c == s[Max(q)]
    <3>1. c \in 1..n
      BY <1>1, <2>4, MaxOf
    <3>2. a \in A
      BY <2>4
    <3>3. iter[q] = pair(a, c)
      BY <2>1, <2>4
    <3> HIDE DEF a, c
    <3> QED
      BY <1>3, <3>1, <3>2, <3>3
  <2> QED
    BY <1>1, <2>3, <2>4, FoldEnds
<1> QED
  BY <1>1, <1>2, <1>9 DEF A

\* An element is unlinked at one level.
LEMMA WithoutHas ==
  ASSUME Sound, NEW n \in Elements, NEW l \in Levels
  PROVE  Linked(Without(n, l))
<1> DEFINE near == {c \in Targets(n, l) : c < count /\ c # n}
           cut  == [c \in Nodes |->
                      [links[c] EXCEPT ![l] = IF c = n THEN <<>>
                                              ELSE IF c \in near THEN Kept(links[c][l], Nodes \ {n})
                                              ELSE links[c][l]]]
           ids  == InOrder(near, LAMBDA a, b : a < b)
<1>1. Without(n, l) = PairedAll(cut, ids, l)
  BY Zenon DEF Without, PairedAll
<1>2. Linked(links) /\ n \in Nodes /\ Elements \subseteq Nodes
  BY DEF Sound
<1>3. near \subseteq Having(l) /\ near \subseteq Nodes
  BY <1>2, TargetsHave DEF Having
<1>4. cut \in Graphs
  <2> HIDE DEF near
  <2> DEFINE list(c) == IF c = n THEN <<>>
                        ELSE IF c \in near THEN Kept(links[c][l], Nodes \ {n}) ELSE links[c][l]
  <2>1. ASSUME NEW c \in Nodes
        PROVE  /\ list(c) \in Seq(Having(l)) /\ Len(list(c)) <= Degree(l)
               /\ c \in Having(l) \/ list(c) = <<>>
    <3>1. /\ links[c][l] \in Seq(Having(l)) /\ Len(links[c][l]) <= Degree(l)
          /\ links[c][l] # <<>> => c \in Having(l)
      BY <1>2 DEF Linked
    <3>2. CASE c = n
      BY <3>2, DegreeIs
    <3>3. CASE c # n /\ c \in near
      <4> DEFINE S == Nodes \ {n}
                 k == Kept(links[c][l], S)
      <4>1. k \in Seq(S \cap Having(l)) /\ Len(k) <= Len(links[c][l])
        BY <3>1, KeptIn
      <4>2. Seq(S \cap Having(l)) \subseteq Seq(Having(l))
        OBVIOUS
      <4>3. k \in Seq(Having(l)) /\ Len(k) <= Len(links[c][l]) /\ list(c) = k
        BY <3>3, <4>1, <4>2
      <4> HIDE DEF k, list
      <4>4. Len(k) <= Degree(l)
        BY <3>1, <4>3, DegreeIs
      <4> QED
        BY <1>3, <3>3, <4>3, <4>4
    <3>4. CASE c # n /\ c \notin near
      BY <3>1, <3>4
    <3> QED
      BY <3>2, <3>3, <3>4
  <2>2. cut = [c \in Nodes |-> [links[c] EXCEPT ![l] = list(c)]]
    OBVIOUS
  <2> HIDE DEF list, cut
  <2>3. ASSUME NEW c \in Nodes
        PROVE  /\ cut[c] = [k \in Levels |-> cut[c][k]]
               /\ \A k \in Levels : cut[c][k] = IF k = l THEN list(c) ELSE links[c][k]
    <3>1. links[c] = [k \in Levels |-> links[c][k]]
      BY <1>2 DEF Linked
    <3>2. cut[c] = [links[c] EXCEPT ![l] = list(c)]
      BY <2>2
    <3> QED
      BY <3>1, <3>2
  <2>4. \A c \in Nodes, k \in Levels :
          /\ cut[c][k] \in Seq(Having(k)) /\ Len(cut[c][k]) <= Degree(k)
          /\ cut[c][k] # <<>> => c \in Having(k)
    BY <1>2, <2>1, <2>3 DEF Linked
  <2>5. cut = [c \in Nodes |-> cut[c]]
    BY <2>2
  <2>6. Linked(cut)
    BY <2>3, <2>4, <2>5 DEF Linked
  <2> QED
    BY <2>6, GraphsAre
<1>5. near \in SUBSET Nat /\ IsFiniteSet(near)
  BY <1>3, NodesAre
<1> HIDE DEF near
<1>6. ids \in Seq(near) /\ \A i, j \in 1..Len(ids) : ids[i] = ids[j] => i = j
  BY <1>5, InOrderOfIds
<1> HIDE DEF ids, cut
<1>7. ids \in Seq(Having(l))
  BY <1>3, <1>6
<1>8. PairedAll(cut, ids, l) \in Graphs
  BY <1>2, <1>4, <1>6, <1>7, PairedAllHas
<1> QED
  BY <1>1, <1>8, GraphsAre

-------------------------------------------------------------------------------
(***************************************************************************)
(* However additions relink each other's neighbours, a list holds its degree *)
(* at most, and elements of its level.                                     *)
(***************************************************************************)

\* What a task has yet to do is about elements that have a list at its level.
TaskLinks(k) ==
  k # Idle =>
    /\ k.seed \in Elements \cup {None} /\ k.lvl \in Levels
    /\ k.pc \in {"unlink", "seek"} => k.todo = <<>>
    /\ k.pc = "link" => /\ k.lvl <= level[k.node] /\ k.todo \in Seq(Having(k.lvl))
                        /\ k.cur = 0 \/ k.cur \in Having(k.lvl)

TasksLinked == \A t \in Threads : TaskLinks(task[t])

LinkInv == GraphInv /\ Linked(links) /\ TasksLinked

\* A set of naturals with a bound has a greatest element.
LEMMA GreatestOf ==
  ASSUME NEW n \in Nat, NEW s, s \subseteq 0..n, s # {}
  PROVE  \E x \in s : \A y \in s : y <= x
<1> DEFINE T == {k \in 0..n : n - k \in s}
<1>1. PICK q \in s : TRUE
  OBVIOUS
<1>2. n - q \in T
  <2>1. q \in 0..n /\ n - q \in 0..n /\ n - (n - q) = q
    BY <1>1
  <2> QED
    BY <1>1, <2>1
<1>3. PICK k \in T : \A j \in T : k <= j
  <2>1. T \subseteq Nat
    OBVIOUS
  <2>2. T # {}
    BY <1>2
  <2> HIDE DEF T
  <2> QED
    BY <2>1, <2>2, LeastOf
<1>4. ASSUME NEW y \in s PROVE y <= n - k
  <2>1. y \in 0..n /\ n - y \in 0..n /\ n - (n - y) = y
    OBVIOUS
  <2>2. n - y \in T
    BY <2>1
  <2>3. k <= n - y /\ k \in 0..n
    BY <1>3, <2>2
  <2> QED
    BY <2>1, <2>3
<1> QED
  BY <1>3, <1>4

\* The invariant gives what searches rely on.
LEMMA SoundIs ==
  ASSUME LinkInv
  PROVE  Sound /\ Elements \subseteq Nodes /\ level \in [Nodes -> Levels] /\ GraphInv
  BY GraphSizes DEF LinkInv, GraphInv, Placed, GraphTypeOK, Sound

\* The elements of a level stay so.
LEMMA HavingGrows ==
  ASSUME Elements \subseteq Elements', \A n \in Elements : level'[n] = level[n], NEW l
  PROVE  Having(l) \subseteq Having(l)' /\ Seq(Having(l)) \subseteq Seq(Having(l)')
<1>1. Having(l) \subseteq Having(l)'
  BY DEF Having
<1> QED
  BY <1>1

\* A graph that is linked stays so as elements are added.
LEMMA LinkedStays ==
  ASSUME Elements \subseteq Elements', \A n \in Elements : level'[n] = level[n],
         NEW g, g = links', Linked(g)
  PROVE  Linked(links)'
<1>1. \A l : Having(l) \subseteq Having(l)' /\ Seq(Having(l)) \subseteq Seq(Having(l)')
  BY HavingGrows
<1>2. \A n \in Nodes, l \in Levels :
        /\ links'[n][l] \in Seq(Having(l)') /\ Len(links'[n][l]) <= Degree(l)
        /\ links'[n][l] # <<>> => n \in Having(l)'
  BY <1>1 DEF Linked
<1>3. links' = [n \in Nodes |-> links'[n]] /\ \A n \in Nodes : links'[n] = [l \in Levels |-> links'[n][l]]
  BY DEF Linked
<1> QED
  BY <1>2, <1>3 DEF Linked

\* So does what a task has yet to do.
LEMMA TaskLinksStays ==
  ASSUME Elements \subseteq Elements', \A n \in Elements : level'[n] = level[n],
         NEW k, TaskLinks(k), k = Idle \/ k.node \in Elements
  PROVE  TaskLinks(k)'
<1>1. \A l : Having(l) \subseteq Having(l)' /\ Seq(Having(l)) \subseteq Seq(Having(l)')
  BY HavingGrows
<1> QED
  BY <1>1 DEF TaskLinks

\* One thread goes on, and the elements stay.
LEMMA LinksMove ==
  ASSUME GraphInv, TasksLinked, Elements \subseteq Elements', \A n \in Elements : level'[n] = level[n],
         NEW t \in Threads, NEW k, task' = [task EXCEPT ![t] = k],
         TaskLinks(k)'
  PROVE  TasksLinked'
<1>1. task'[t] = k /\ \A u \in Threads : u # t => task'[u] = task[u]
  BY DEF GraphInv, TasksOK
<1>2. ASSUME NEW u \in Threads PROVE TaskLinks(task[u])'
  <2>1. CASE u = t
    BY <1>1, <2>1 DEF TaskLinks
  <2>2. CASE u # t
    <3>1. PICK v : v = task[u]
      OBVIOUS
    <3>2. TaskLinks(v) /\ (v = Idle \/ v.node \in Elements)
      BY <3>1 DEF TasksLinked, GraphInv, TasksOK, TaskOK
    <3>3. TaskLinks(v)'
      BY <3>2, TaskLinksStays
    <3>4. task'[u] = v
      BY <1>1, <2>2, <3>1
    <3> QED
      BY <3>3, <3>4 DEF TaskLinks
  <2> QED
    BY <2>1, <2>2
<1> QED
  BY <1>2 DEF TasksLinked

\* A task goes on to the next level down.
LEMMA AfterLinks ==
  ASSUME LinkInv, NEW k, IsTask(k), k.pc = "link", k.todo = <<>>, k.node \in Elements, TaskLinks(k)
  PROVE  TaskLinks(After(k))
<1>1. /\ k.seed \in Elements \cup {None} /\ k.lvl \in Levels /\ k.lvl <= level[k.node]
      /\ k.cur = 0 \/ k.cur \in Having(k.lvl)
  BY DEF TaskLinks, Idle, IsTask
<1>2. Levels = 0..Top /\ Top \in Nat /\ level[k.node] \in Nat /\ \A n \in Elements : level[n] \in Nat
  BY SoundIs, GraphAssumption DEF Levels
<1>3. CASE k.lvl > 0
  <2> DEFINE low == k.lvl - 1
  <2>1. low \in Levels /\ low <= level[k.node] /\ Having(k.lvl) \subseteq Having(low)
    BY <1>1, <1>2, <1>3 DEF Having
  <2>2. After(k) = [k EXCEPT !.lvl = low]
    BY <1>3 DEF After
  <2> HIDE DEF low
  <2> DEFINE new == [k EXCEPT !.lvl = low]
  <2>3. /\ new.lvl = low /\ new.todo = <<>> /\ new.seed = k.seed /\ new.node = k.node /\ new.cur = k.cur
        /\ new.pc = "link"
    BY DEF IsTask
  <2> HIDE DEF new
  <2>4. TaskLinks(new)
    BY <1>1, <2>1, <2>3 DEF TaskLinks
  <2> QED
    BY <2>2, <2>4 DEF new
<1>4. CASE ~(k.lvl > 0)
  <2> DEFINE pc == IF k.raises THEN "entry" ELSE "done"
             new == [k EXCEPT !.pc = pc]
  <2>1. After(k) = new
    BY <1>4 DEF After
  <2>2. pc \in {"entry", "done"}
    OBVIOUS
  <2> HIDE DEF pc
  <2>3. new.lvl = k.lvl /\ new.seed = k.seed /\ new.pc = pc
    BY DEF IsTask
  <2> HIDE DEF new
  <2>4. TaskLinks(new)
    BY <1>1, <2>2, <2>3 DEF TaskLinks
  <2> QED
    BY <2>1, <2>4
<1> QED
  BY <1>3, <1>4

\* A busy thread's task.
LEMMA BusyTask ==
  ASSUME LinkInv, NEW t \in Threads, NEW k, k = task[t],
         k.pc \in {"unlink", "seek", "link", "entry", "top", "done"}
  PROVE  /\ IsTask(k) /\ k # Idle /\ k.node \in Elements /\ k.node \in Nodes /\ k.at \in Points
         /\ k.seed \in Elements \cup {None} /\ k.lvl \in Levels
         /\ k.pc \in {"unlink", "seek"} => k.todo = <<>>
         /\ k.pc = "link" => /\ k.lvl <= level[k.node] /\ k.todo \in Seq(Having(k.lvl))
                             /\ k.cur = 0 \/ k.cur \in Having(k.lvl)
         /\ TaskLinks(k)
<1>1. TaskOK(k) /\ TaskLinks(k) /\ k # Idle
  BY DEF LinkInv, GraphInv, TasksOK, TasksLinked, Idle
<1> QED
  BY <1>1, SoundIs DEF TaskOK, TaskLinks

\* A level is searched and the element's own list written.
LEMMA LinkKeepsLinks ==
  ASSUME LinkInv, ~Undefined, NEW t \in Threads, Link(t)
  PROVE  Linked(links)' /\ TasksLinked'
<1>1. PICK k : k = task[t]
  OBVIOUS
<1> DEFINE l == k.lvl
           found  == SearchLayer(k.cur, k.at, l, EfConstruct, Nodes, PatienceIn)
           chosen == Diverse(found, k.at, Degree(l), l)
           rest   == Kept(chosen, Nodes \ {k.node})
           cur    == IF chosen = <<>> THEN 0 ELSE Head(chosen)
           next   == [k EXCEPT !.cur = cur, !.todo = rest]
<1>2. /\ k.pc = "link" /\ k.todo = <<>>
      /\ links' = (IF chosen = <<>> THEN links ELSE SetLinks(k.node, l, chosen))
      /\ task' = [task EXCEPT ![t] = IF rest = <<>> THEN After(next) ELSE next]
      /\ UNCHANGED <<count, level>>
  BY <1>1 DEF Link, elements
<1>3. /\ IsTask(k) /\ k # Idle /\ k.node \in Elements /\ k.node \in Nodes /\ k.at \in Points
      /\ k.seed \in Elements \cup {None} /\ l \in Levels /\ l <= level[k.node]
      /\ k.cur = 0 \/ k.cur \in Having(l)
  BY <1>1, <1>2, BusyTask
<1>4. Sound /\ Elements \subseteq Nodes /\ level \in [Nodes -> Levels] /\ GraphInv
  BY SoundIs
<1>5. Elements' = Elements /\ level' = level
  BY <1>2 DEF Elements
<1>6. k.cur \in Elements /\ (Readable(k.cur, l) => k.cur \in Having(l))
  <2>1. CASE k.cur \in Having(l)
    BY <2>1 DEF Having
  <2>2. CASE k.cur = 0
    <3>1. 0 \in Elements
      <4>1. k.node \in 0..(count - 1) /\ count \in Nat
        BY <1>3, <1>4, GraphSizes DEF Elements, GraphInv, GraphTypeOK
      <4> QED
        BY <4>1 DEF Elements
    <3>2. ~(Readable(k.cur, l) /\ level[k.cur] < l)
      BY <1>1, <1>2, <1>3 DEF Undefined, Busy
    <3>3. level[0] \in Nat /\ l \in Nat
      BY <1>3, <1>4, <3>1, NodesAre
    <3> QED
      BY <2>2, <3>1, <3>2, <3>3 DEF Having
  <2> QED
    BY <1>3, <2>1, <2>2
<1>7. found \in Seq(Having(l))
  BY <1>3, <1>4, <1>6, SearchLayerHas
<1> HIDE DEF found
<1>8. chosen \in Seq(Having(l)) /\ Len(chosen) <= Degree(l)
  BY <1>3, <1>7, DegreeIs, DiverseIn
<1> HIDE DEF chosen
<1>9. rest \in Seq(Having(l))
  <2>1. rest \in Seq((Nodes \ {k.node}) \cap Having(l))
    BY <1>8, KeptIn
  <2>2. Seq((Nodes \ {k.node}) \cap Having(l)) \subseteq Seq(Having(l))
    OBVIOUS
  <2> QED
    BY <2>1, <2>2
<1> HIDE DEF rest
<1>10. cur = 0 \/ cur \in Having(l)
  BY <1>8
<1> HIDE DEF cur
<1>11. k.node \in Having(l)
  BY <1>3, <1>4, NodesAre DEF Having
<1>12. Linked(links)'
  <2>1. links \in Graphs
    BY <1>4, GraphsAre DEF Sound
  <2> DEFINE g == IF chosen = <<>> THEN links ELSE [links EXCEPT ![k.node] = [@ EXCEPT ![l] = chosen]]
  <2>2. g \in Graphs
    BY <1>3, <1>8, <1>11, <2>1, SetLinked
  <2>3. links' = g
    BY <1>2 DEF SetLinks
  <2> HIDE DEF g
  <2>4. PICK h : h = g
    OBVIOUS
  <2>5. Linked(h)
    BY <2>2, <2>4, GraphsAre
  <2> QED
    BY <1>5, <2>3, <2>4, <2>5, LinkedStays
<1>13. /\ IsTask(next) /\ next.node = k.node /\ next.pc = "link" /\ next.todo = rest
       /\ next.seed = k.seed /\ next.lvl = l /\ next.cur = cur
  <2> DEFINE a == [k EXCEPT !.cur = cur]
  <2>1. next = [a EXCEPT !.todo = rest]
    BY <1>3 DEF IsTask
  <2>2. /\ IsTask(a) /\ a.node = k.node /\ a.pc = "link" /\ a.cur = cur /\ a.seed = k.seed /\ a.lvl = l
    BY <1>2, <1>3 DEF IsTask
  <2> HIDE DEF a, next, l
  <2> QED
    BY <2>1, <2>2 DEF IsTask
<1> HIDE DEF next
<1>14. TaskLinks(next)
  BY <1>3, <1>9, <1>10, <1>13 DEF TaskLinks
<1>15. PICK new : new = (IF rest = <<>> THEN After(next) ELSE next)
  OBVIOUS
<1>16. TaskLinks(new) /\ (new = Idle \/ new.node \in Elements)
  <2>1. CASE rest = <<>>
    <3>1. PICK m : m = next
      OBVIOUS
    <3>2. IsTask(m) /\ m.pc = "link" /\ m.todo = <<>> /\ m.node \in Elements /\ TaskLinks(m)
      BY <1>3, <1>13, <1>14, <2>1, <3>1
    <3>3. TaskLinks(After(m)) /\ After(m).node = m.node
      BY <3>2, AfterLinks, AfterIs
    <3> QED
      BY <1>15, <2>1, <3>1, <3>2, <3>3
  <2>2. CASE rest # <<>>
    BY <1>3, <1>13, <1>14, <1>15, <2>2
  <2> QED
    BY <2>1, <2>2
<1>17. TaskLinks(new)'
  BY <1>5, <1>16, TaskLinksStays
<1>18. task' = [task EXCEPT ![t] = new]
  BY <1>2, <1>15
<1>19. TasksLinked'
  BY <1>4, <1>5, <1>17, <1>18, LinksMove DEF LinkInv
<1> QED
  BY <1>12, <1>19

\* A neighbour is relinked.
LEMMA LinkBackKeepsLinks ==
  ASSUME LinkInv, NEW t \in Threads, LinkBack(t)
  PROVE  Linked(links)' /\ TasksLinked'
<1>1. PICK k : k = task[t]
  OBVIOUS
<1> DEFINE l == k.lvl
           b == Head(k.todo)
           list == Relinked(b, k.node, l)
           todo == Tail(k.todo)
           next == [k EXCEPT !.todo = todo]
<1>2. /\ k.pc = "link" /\ k.todo # <<>>
      /\ links' = SetLinks(b, l, list)
      /\ task' = [task EXCEPT ![t] = IF next.todo = <<>> THEN After(next) ELSE next]
      /\ UNCHANGED <<count, level>>
  BY <1>1 DEF LinkBack, elements
<1>3. /\ IsTask(k) /\ k # Idle /\ k.node \in Elements /\ k.node \in Nodes
      /\ k.seed \in Elements \cup {None} /\ l \in Levels /\ l <= level[k.node]
      /\ k.todo \in Seq(Having(l))
      /\ k.cur = 0 \/ k.cur \in Having(l)
  BY <1>1, <1>2, BusyTask
<1>4. Sound /\ Elements \subseteq Nodes /\ level \in [Nodes -> Levels] /\ GraphInv
  BY SoundIs
<1>5. Elements' = Elements /\ level' = level
  BY <1>2 DEF Elements
<1>6. b \in Having(l) /\ todo \in Seq(Having(l))
  <2>1. \A X : \A s \in Seq(X) : s # <<>> => Head(s) \in X /\ Tail(s) \in Seq(X)
    OBVIOUS
  <2> QED
    BY <1>2, <1>3, <2>1
<1> HIDE DEF b, todo
<1>7. b \in Nodes /\ k.node \in Having(l)
  BY <1>3, <1>4, <1>6, NodesAre DEF Having
<1>8. list \in Seq(Having(l)) /\ Len(list) <= Degree(l)
  BY <1>3, <1>4, <1>6, <1>7, RelinkedHas
<1> HIDE DEF list
<1>9. Linked(links)'
  <2>1. links \in Graphs
    BY <1>4, GraphsAre DEF Sound
  <2> DEFINE g == [links EXCEPT ![b] = [@ EXCEPT ![l] = list]]
  <2>2. g \in Graphs
    BY <1>3, <1>6, <1>7, <1>8, <2>1, SetLinked
  <2>3. links' = g
    BY <1>2 DEF SetLinks
  <2> HIDE DEF g
  <2>4. PICK h : h = g
    OBVIOUS
  <2>5. Linked(h)
    BY <2>2, <2>4, GraphsAre
  <2> QED
    BY <1>5, <2>3, <2>4, <2>5, LinkedStays
<1>10. /\ IsTask(next) /\ next.node = k.node /\ next.pc = "link" /\ next.todo = todo
       /\ next.seed = k.seed /\ next.lvl = l /\ next.cur = k.cur
  <2> HIDE DEF l
  <2>1. next.lvl = k.lvl
    BY <1>3 DEF IsTask
  <2> QED
    BY <1>2, <1>3, <2>1 DEF IsTask, l
<1> HIDE DEF next
<1>11. TaskLinks(next)
  BY <1>3, <1>6, <1>10 DEF TaskLinks
<1>12. PICK new : new = (IF next.todo = <<>> THEN After(next) ELSE next)
  OBVIOUS
<1>13. TaskLinks(new) /\ (new = Idle \/ new.node \in Elements)
  <2>1. CASE next.todo = <<>>
    <3>1. PICK m : m = next
      OBVIOUS
    <3>2. IsTask(m) /\ m.pc = "link" /\ m.todo = <<>> /\ m.node \in Elements /\ TaskLinks(m)
      BY <1>3, <1>10, <1>11, <2>1, <3>1
    <3>3. TaskLinks(After(m)) /\ After(m).node = m.node
      BY <3>2, AfterLinks, AfterIs
    <3> QED
      BY <1>12, <2>1, <3>1, <3>2, <3>3
  <2>2. CASE next.todo # <<>>
    BY <1>3, <1>10, <1>11, <1>12, <2>2
  <2> QED
    BY <2>1, <2>2
<1>14. TaskLinks(new)'
  BY <1>5, <1>13, TaskLinksStays
<1>15. task' = [task EXCEPT ![t] = new]
  BY <1>2, <1>12
<1>16. TasksLinked'
  BY <1>4, <1>5, <1>14, <1>15, LinksMove DEF LinkInv
<1> QED
  BY <1>9, <1>16

\* The levels above an element's are descended.
LEMMA SeekKeepsLinks ==
  ASSUME LinkInv, NEW t \in Threads, Seek(t)
  PROVE  Linked(links)' /\ TasksLinked'
<1>1. PICK k : k = task[t]
  OBVIOUS
<1> DEFINE from == IF k.seed # None THEN k.seed ELSE entry
           first == Lower(maxLevel, level[from])
           to == Lower(level[k.node], first)
           cur == Descend(from, k.at, first, to)
           raises == level[k.node] > maxLevel
           next == [k EXCEPT !.pc = "link", !.lvl = to, !.cur = cur, !.raises = raises]
<1>2. /\ k.pc = "seek" /\ task' = [task EXCEPT ![t] = next]
      /\ UNCHANGED <<count, level, links>>
  BY <1>1 DEF Seek, elements
<1>3. /\ IsTask(k) /\ k # Idle /\ k.node \in Elements /\ k.node \in Nodes /\ k.at \in Points
      /\ k.seed \in Elements \cup {None} /\ k.todo = <<>>
  BY <1>1, <1>2, BusyTask
<1>4. /\ Sound /\ Elements \subseteq Nodes /\ level \in [Nodes -> Levels] /\ GraphInv
      /\ Levels \subseteq Nat /\ Levels = 0..Top
  BY SoundIs, NodesAre DEF Levels
<1>5. Elements' = Elements /\ level' = level
  BY <1>2 DEF Elements
<1>6. entry \in Elements /\ maxLevel \in Levels
  <2>1. count # 0
    BY <1>3 DEF Elements
  <2> QED
    BY <1>4, <2>1 DEF GraphInv, GraphTypeOK, EntryMade
<1>7. from \in Elements
  BY <1>3, <1>6
<1> HIDE DEF from
<1>8. level[from] \in Levels /\ level[k.node] \in Levels
  BY <1>3, <1>4, <1>7
<1>9. first \in Levels /\ from \in Having(first)
  BY <1>4, <1>6, <1>7, <1>8 DEF Lower, Having
<1> HIDE DEF first
<1>10. to \in 0..first /\ to \in Levels /\ to <= level[k.node]
  BY <1>4, <1>8, <1>9 DEF Lower
<1> HIDE DEF to
<1>11. cur \in Having(to)
  BY <1>3, <1>4, <1>9, <1>10, DescendHas
<1> HIDE DEF cur, raises
<1>12. /\ next.node = k.node /\ next.pc = "link" /\ next.todo = <<>>
       /\ next.seed = k.seed /\ next.lvl = to /\ next.cur = cur
  <2> DEFINE a == [k EXCEPT !.pc = "link"]
             b == [a EXCEPT !.lvl = to]
             c == [b EXCEPT !.cur = cur]
             d == [c EXCEPT !.raises = raises]
  <2>1. next = d
    BY <1>3 DEF IsTask
  <2>2. IsTask(a) /\ a.node = k.node /\ a.pc = "link" /\ a.seed = k.seed /\ a.todo = k.todo
    BY <1>3 DEF IsTask
  <2> HIDE DEF a, next
  <2>3. IsTask(b) /\ b.node = k.node /\ b.pc = "link" /\ b.seed = k.seed /\ b.todo = k.todo /\ b.lvl = to
    BY <2>2 DEF IsTask
  <2> HIDE DEF b
  <2>4. /\ IsTask(c) /\ c.node = k.node /\ c.pc = "link" /\ c.seed = k.seed /\ c.todo = k.todo
        /\ c.lvl = to /\ c.cur = cur
    BY <2>3 DEF IsTask
  <2> HIDE DEF c
  <2>5. /\ d.node = k.node /\ d.pc = "link" /\ d.seed = k.seed /\ d.todo = k.todo
        /\ d.lvl = to /\ d.cur = cur
    BY <2>4 DEF IsTask
  <2> QED
    BY <1>3, <2>1, <2>5
<1> HIDE DEF next
<1>13. PICK new : new = next
  OBVIOUS
<1>14. TaskLinks(new) /\ new.node \in Elements
  <2>1. new.todo \in Seq(Having(to))
    <3>1. new.todo = <<>>
      BY <1>12, <1>13
    <3>2. <<>> \in Seq(Having(to))
      OBVIOUS
    <3> QED
      BY <3>1, <3>2
  <2> QED
    BY <1>3, <1>10, <1>11, <1>12, <1>13, <2>1 DEF TaskLinks
<1>15. TaskLinks(new)'
  BY <1>5, <1>14, TaskLinksStays
<1>16. TasksLinked'
  BY <1>2, <1>4, <1>5, <1>13, <1>15, LinksMove DEF LinkInv
<1>17. Linked(links)'
  <2>1. PICK h : h = links
    OBVIOUS
  <2>2. Linked(h) /\ links' = h
    BY <1>2, <1>4, <2>1 DEF Sound
  <2> QED
    BY <1>5, <2>2, LinkedStays
<1> QED
  BY <1>16, <1>17

\* An element is unlinked at one level, whatever other additions have linked to it meanwhile.
LEMMA UnlinkKeepsLinks ==
  ASSUME LinkInv, NEW t \in Threads, Unlink(t)
  PROVE  Linked(links)' /\ TasksLinked'
<1>1. PICK k : k = task[t]
  OBVIOUS
<1>2. /\ k.pc = "unlink" /\ links' = Without(k.node, k.lvl)
      /\ UNCHANGED <<count, level>>
      /\ IF k.lvl < level[k.node]
           THEN task' = [task EXCEPT ![t] = [k EXCEPT !.lvl = k.lvl + 1]]
           ELSE task' = [task EXCEPT ![t] = [k EXCEPT !.pc = IF k.node = 0 THEN "done" ELSE "seek"]]
  BY <1>1 DEF Unlink
<1>3. /\ IsTask(k) /\ k # Idle /\ k.node \in Elements /\ k.node \in Nodes
      /\ k.seed \in Elements \cup {None} /\ k.lvl \in Levels /\ k.todo = <<>>
  BY <1>1, <1>2, BusyTask
<1>4. /\ Sound /\ Elements \subseteq Nodes /\ level \in [Nodes -> Levels] /\ GraphInv
      /\ Top \in Nat /\ Levels = 0..Top
  BY SoundIs, NodesAre DEF Levels
<1>5. Elements' = Elements /\ level' = level
  BY <1>2 DEF Elements
<1>6. Linked(links)'
  <2>1. PICK h : h = Without(k.node, k.lvl)
    OBVIOUS
  <2>2. Linked(h)
    BY <1>3, <1>4, <2>1, WithoutHas
  <2> QED
    BY <1>2, <1>5, <2>1, <2>2, LinkedStays
<1>7. \E new : /\ task' = [task EXCEPT ![t] = new] /\ TaskLinks(new) /\ new.node \in Elements
  <2>1. CASE k.lvl < level[k.node]
    <3> DEFINE high == k.lvl + 1
               new == [k EXCEPT !.lvl = high]
    <3>1. high \in Levels
      BY <1>3, <1>4, <2>1
    <3> HIDE DEF high
    <3>2. new.lvl = high /\ new.todo = <<>> /\ new.seed = k.seed /\ new.node = k.node /\ new.pc = "unlink"
      BY <1>2, <1>3 DEF IsTask
    <3>3. task' = [task EXCEPT ![t] = new]
      BY <1>2, <2>1 DEF high
    <3> HIDE DEF new
    <3>4. TaskLinks(new) /\ new.node \in Elements
      BY <1>3, <3>1, <3>2 DEF TaskLinks
    <3> QED
      BY <3>3, <3>4
  <2>2. CASE ~(k.lvl < level[k.node])
    <3> DEFINE pc == IF k.node = 0 THEN "done" ELSE "seek"
               new == [k EXCEPT !.pc = pc]
    <3>1. pc \in {"done", "seek"} /\ task' = [task EXCEPT ![t] = new]
      BY <1>2, <2>2
    <3> HIDE DEF pc
    <3>2. new.lvl = k.lvl /\ new.todo = <<>> /\ new.seed = k.seed /\ new.node = k.node /\ new.pc = pc
      BY <1>3 DEF IsTask
    <3> HIDE DEF new
    <3>3. TaskLinks(new) /\ new.node \in Elements
      BY <1>3, <3>1, <3>2 DEF TaskLinks
    <3> QED
      BY <3>1, <3>3
  <2> QED
    BY <2>1, <2>2
<1>8. PICK new : /\ task' = [task EXCEPT ![t] = new] /\ TaskLinks(new) /\ new.node \in Elements
  BY <1>7
<1>9. TaskLinks(new)'
  BY <1>5, <1>8, TaskLinksStays
<1>10. TasksLinked'
  BY <1>4, <1>5, <1>8, <1>9, LinksMove DEF LinkInv
<1> QED
  BY <1>6, <1>10

\* The seed of an update, if there is one, is another element, unmarked, and what is updated the
\* entry point.
LEMMA SeedIs ==
  ASSUME LinkInv, NEW n \in Elements
  PROVE  SeedOf(n) = None \/ (n = entry /\ SeedOf(n) \in Elements \ (marked \cup {n}))
<1> DEFINE live(l) == Kept(links[n][l], Elements \ (marked \cup {n}))
           ls == {l \in 0..level[n] : live(l) # <<>>}
           top == CHOOSE l \in ls : \A j \in ls : j <= l
<1>1. SeedOf(n) = IF n # entry \/ ls = {} THEN None ELSE Head(live(top))
  BY Zenon DEF SeedOf
<1>2. Sound /\ n \in Nodes /\ level[n] \in Levels /\ Levels = 0..Top /\ Top \in Nat
  BY SoundIs, NodesAre DEF Levels
<1> DEFINE S == Elements \ (marked \cup {n})
<1>3. ASSUME NEW l \in Levels PROVE live(l) \in Seq(S)
  <2>1. links[n][l] \in Seq(Having(l))
    BY <1>2 DEF Sound, Linked
  <2>2. Kept(links[n][l], S) \in Seq(S \cap Having(l))
    BY <2>1, KeptIn
  <2>3. Seq(S \cap Having(l)) \subseteq Seq(S)
    OBVIOUS
  <2> QED
    BY <2>2, <2>3
<1>4. CASE n # entry \/ ls = {}
  BY <1>1, <1>4
<1>5. CASE ~(n # entry \/ ls = {})
  <2>1. ls \subseteq 0..level[n] /\ ls # {} /\ level[n] \in Nat /\ ls \subseteq Levels
    <3>1. level[n] \in Nat /\ level[n] <= Top /\ 0..level[n] \subseteq Levels
      BY <1>2
    <3>2. ls \subseteq 0..level[n]
      OBVIOUS
    <3> HIDE DEF ls
    <3> QED
      BY <1>5, <3>1, <3>2
  <2> HIDE DEF live
  <2>2. \A l \in ls : live(l) # <<>>
    OBVIOUS
  <2> HIDE DEF ls
  <2>3. \E l \in ls : \A j \in ls : j <= l
    <3>1. PICK m \in Nat : m = level[n]
      BY <2>1
    <3> QED
      BY <2>1, <3>1, GreatestOf
  <2>4. top \in ls
    BY <2>3
  <2> HIDE DEF top
  <2>5. live(top) \in Seq(S) /\ live(top) # <<>>
    BY <1>3, <2>1, <2>2, <2>4
  <2>6. \A X : \A s \in Seq(X) : s # <<>> => Head(s) \in X
    OBVIOUS
  <2> QED
    BY <1>1, <1>5, <2>5, <2>6
<1> QED
  BY <1>4, <1>5

\* A task at its start.
LEMMA AddingLinks ==
  ASSUME NEW n, NEW p, NEW pc \in {"seek", "unlink"}, NEW seed \in Elements \cup {None}
  PROVE  TaskLinks(Adding(n, p, pc, seed))
<1> DEFINE k == Adding(n, p, pc, seed)
<1>1. k.seed = seed /\ k.lvl = 0 /\ k.todo = <<>> /\ k.pc = pc
  BY DEF Adding
<1>2. 0 \in Levels /\ pc # "link"
  BY NodesAre
<1> HIDE DEF k
<1> QED
  BY <1>1, <1>2 DEF TaskLinks, k

\* Steps that leave the links as they are.
LEMMA SameLinks ==
  ASSUME LinkInv, UNCHANGED links, Elements \subseteq Elements', \A n \in Elements : level'[n] = level[n]
  PROVE  Linked(links)'
<1>1. PICK h : h = links
  OBVIOUS
<1>2. Linked(h) /\ h = links'
  BY <1>1 DEF LinkInv
<1> QED
  BY <1>2, LinkedStays

\* A new element has no links yet.
LEMMA AddNewKeepsLinks ==
  ASSUME LinkInv, NEW t \in Threads, NEW p \in Free, NEW l \in Levels, AddNew(t, p, l)
  PROVE  Linked(links)' /\ TasksLinked'
<1>1. /\ count < Capacity /\ count' = count + 1 /\ level' = [level EXCEPT ![count] = l]
      /\ UNCHANGED links
  BY DEF AddNew
<1>2. level \in [Nodes -> Levels] /\ GraphInv /\ count \in Nat /\ count \notin Elements /\ Elements \subseteq Nodes
  BY <1>1, SoundIs, GraphSizes DEF GraphInv, GraphTypeOK
<1>3. Elements \subseteq Elements' /\ \A n \in Elements : level'[n] = level[n]
  BY <1>1, <1>2 DEF Elements
<1>4. Linked(links)'
  BY <1>1, <1>3, SameLinks
<1>5. PICK k : k = IF count = 0 THEN Idle ELSE Adding(count, p, "seek", None)
  OBVIOUS
<1>6. task' = [task EXCEPT ![t] = k]
  BY <1>5 DEF AddNew
<1>7. TaskLinks(k)'
  <2>1. CASE count = 0
    BY <1>5, <2>1 DEF TaskLinks
  <2>2. CASE count # 0
    <3>1. k.seed = None /\ k.lvl = 0 /\ k.todo = <<>> /\ k.pc = "seek"
      BY <1>5, <2>2 DEF Adding
    <3> QED
      BY <3>1, NodesAre DEF TaskLinks
  <2> QED
    BY <2>1, <2>2
<1>8. TasksLinked'
  BY <1>2, <1>3, <1>6, <1>7, LinksMove DEF LinkInv
<1> QED
  BY <1>4, <1>8

\* An update starts.
LEMMA UpdateKeepsLinks ==
  ASSUME LinkInv, NEW t \in Threads, NEW n \in Elements, NEW p, Update(t, n, p)
  PROVE  Linked(links)' /\ TasksLinked'
<1>1. UNCHANGED <<count, level, links>> /\ task' = [task EXCEPT ![t] = Adding(n, p, "unlink", SeedOf(n))]
  BY DEF Update
<1>2. Elements' = Elements /\ level' = level /\ GraphInv
  BY <1>1, SoundIs DEF Elements
<1>3. Linked(links)'
  BY <1>1, <1>2, SameLinks
<1>4. PICK seed : seed = SeedOf(n)
  OBVIOUS
<1>5. PICK k : k = Adding(n, p, "unlink", seed)
  OBVIOUS
<1>6. TaskLinks(k) /\ k.node \in Elements
  <2>1. seed \in Elements \cup {None}
    BY <1>4, SeedIs
  <2>2. TaskLinks(Adding(n, p, "unlink", seed))
    BY <2>1, AddingLinks
  <2>3. k.node = n
    BY <1>5, AddingIs
  <2> QED
    BY <1>5, <2>2, <2>3
<1>7. TaskLinks(k)'
  BY <1>2, <1>6, TaskLinksStays
<1>8. task' = [task EXCEPT ![t] = k]
  BY <1>1, <1>4, <1>5
<1>9. TasksLinked'
  BY <1>2, <1>7, <1>8, LinksMove DEF LinkInv
<1> QED
  BY <1>3, <1>9

\* The steps of a task that end it.
LEMMA EndsKeepLinks ==
  ASSUME LinkInv, NEW t \in Threads, SetEntry(t) \/ SetTop(t) \/ Return(t)
  PROVE  Linked(links)' /\ TasksLinked'
<1>1. UNCHANGED <<count, level, links>>
  BY DEF SetEntry, SetTop, Return, elements
<1>2. Elements' = Elements /\ level' = level /\ GraphInv
  BY <1>1, SoundIs DEF Elements
<1>3. Linked(links)'
  BY <1>1, <1>2, SameLinks
<1>4. PICK k : k = task[t]
  OBVIOUS
<1>5. /\ IsTask(k) /\ k # Idle /\ k.node \in Elements
      /\ k.seed \in Elements \cup {None} /\ k.lvl \in Levels
  <2>1. k.pc \in {"entry", "top", "done"}
    BY <1>4 DEF SetEntry, SetTop, Return
  <2> QED
    BY <1>4, <2>1, BusyTask
<1>6. PICK new : /\ task' = [task EXCEPT ![t] = new]
                 /\ new = Idle \/ \E pc \in {"top", "done"} : new = [k EXCEPT !.pc = pc]
  BY <1>4 DEF SetEntry, SetTop, Return
<1>7. TaskLinks(new) /\ (new = Idle \/ new.node \in Elements)
  <2>1. CASE new = Idle
    BY <2>1 DEF TaskLinks
  <2>2. ASSUME NEW pc \in {"top", "done"}, new = [k EXCEPT !.pc = pc]
        PROVE  TaskLinks(new) /\ new.node \in Elements
    <3>1. new.pc = pc /\ new.seed = k.seed /\ new.lvl = k.lvl /\ new.node = k.node
      BY <1>5, <2>2 DEF IsTask
    <3> QED
      BY <1>5, <3>1 DEF TaskLinks
  <2> QED
    BY <1>6, <2>1, <2>2
<1>8. TaskLinks(new)'
  BY <1>2, <1>7, TaskLinksStays
<1>9. TasksLinked'
  BY <1>2, <1>6, <1>8, LinksMove DEF LinkInv
<1> QED
  BY <1>3, <1>9

\* Steps that change neither links nor tasks.
LEMMA StillLinks ==
  ASSUME LinkInv, UNCHANGED <<count, level, links, task>>
  PROVE  Linked(links)' /\ TasksLinked'
<1>1. Elements' = Elements /\ level' = level /\ GraphInv
  BY SoundIs DEF Elements
<1>2. Linked(links)'
  BY <1>1, SameLinks
<1>3. ASSUME NEW u \in Threads PROVE TaskLinks(task[u])'
  <2>1. PICK v : v = task[u]
    OBVIOUS
  <2>2. TaskLinks(v) /\ (v = Idle \/ v.node \in Elements) /\ task'[u] = v
    BY <2>1 DEF LinkInv, TasksLinked, GraphInv, TasksOK, TaskOK
  <2>3. TaskLinks(v)'
    BY <1>1, <2>2, TaskLinksStays
  <2> QED
    BY <2>2, <2>3 DEF TaskLinks
<1> QED
  BY <1>2, <1>3 DEF TasksLinked

\* The empty graph has empty lists.
LEMMA InitLinkInv == GraphInit => LinkInv
<1> SUFFICES ASSUME GraphInit PROVE LinkInv
  OBVIOUS
<1>1. GraphInv
  BY InitGraphInv
<1>2. links = [n \in Nodes |-> [l \in Levels |-> <<>>]] /\ task = [t \in Threads |-> Idle]
  BY DEF GraphInit
<1>3. Linked(links)
  <2>1. \A l \in Levels : <<>> \in Seq(Having(l)) /\ Len(<<>>) <= Degree(l)
    BY DegreeIs
  <2>2. \A n \in Nodes, l \in Levels : links[n][l] = <<>>
    BY <1>2
  <2>3. links = [n \in Nodes |-> links[n]] /\ \A n \in Nodes : links[n] = [l \in Levels |-> links[n][l]]
    BY <1>2
  <2> QED
    BY <2>1, <2>2, <2>3 DEF Linked
<1>4. TasksLinked
  BY <1>2 DEF TasksLinked, TaskLinks
<1> QED
  BY <1>1, <1>3, <1>4 DEF LinkInv

\* Every step keeps the lists in order.
LEMMA StepKeepsLinkInv == LinkInv /\ [GraphNext]_vars => LinkInv'
<1> SUFFICES ASSUME LinkInv, [GraphNext]_vars PROVE LinkInv'
  OBVIOUS
<1>1. GraphInv'
  BY StepKeepsGraphInv DEF LinkInv
<1>2. CASE UNCHANGED vars
  BY <1>1, <1>2, StillLinks DEF vars, elements, LinkInv
<1>3. ASSUME ~Undefined, NEW t \in Threads, Step(t) PROVE LinkInv'
  BY <1>1, <1>3, UnlinkKeepsLinks, SeekKeepsLinks, LinkKeepsLinks, LinkBackKeepsLinks, EndsKeepLinks
     DEF Step, LinkInv
<1>4. ASSUME NEW t \in Threads, NEW p \in Free, NEW l \in Levels, AddNew(t, p, l) PROVE LinkInv'
  BY <1>1, <1>4, AddNewKeepsLinks DEF LinkInv
<1>5. ASSUME NEW t \in Threads, NEW n \in Elements, NEW p \in Free \cup {at[n]}, Update(t, n, p)
      PROVE  LinkInv'
  BY <1>1, <1>5, UpdateKeepsLinks DEF LinkInv
<1>6. ASSUME NEW n \in Elements, MarkDelete(n) PROVE LinkInv'
  <2>1. UNCHANGED <<count, level, links, task>>
    BY <1>6 DEF MarkDelete, elements
  <2> QED
    BY <1>1, <2>1, StillLinks DEF LinkInv
<1> QED
  BY <1>2, <1>3, <1>4, <1>5, <1>6 DEF GraphNext

\* The inductive invariant of links holds.
THEOREM LinkInvariant == GraphSpec => []LinkInv
  BY InitLinkInv, StepKeepsLinkInv, PTL DEF GraphSpec

\* A list of links holds its degree at most and, at each level, elements of that level only,
\* however many threads add and update elements and relink each other's neighbours.
THEOREM WellLinkedAlways == GraphSpec => []WellLinked
<1>1. LinkInv => WellLinked
  <2> SUFFICES ASSUME LinkInv PROVE WellLinked
    OBVIOUS
  <2>1. GraphTypeOK /\ Linked(links)
    BY DEF LinkInv, GraphInv
  <2>2. ASSUME NEW n \in Nodes, NEW l \in Levels
        PROVE  /\ Len(links[n][l]) <= Degree(l)
               /\ links[n][l] # <<>> => n < count /\ level[n] >= l
               /\ \A m \in Targets(n, l) : m < count /\ level[m] >= l
    <3>1. \A m \in Having(l) : m < count /\ level[m] >= l
      BY <2>1 DEF Having, Elements, GraphTypeOK
    <3>2. /\ Len(links[n][l]) <= Degree(l)
          /\ links[n][l] # <<>> => n \in Having(l)
      BY <2>1 DEF Linked
    <3>3. Targets(n, l) \subseteq Having(l)
      BY SoundIs, TargetsHave
    <3> QED
      BY <3>1, <3>2, <3>3
  <2> QED
    BY <2>1, <2>2 DEF WellLinked
<1> QED
  BY <1>1, LinkInvariant, PTL

-------------------------------------------------------------------------------
(***************************************************************************)
(* What a search finds: all it can reach, or as much as it was asked for.  *)
(***************************************************************************)

\* A visit has grown by neighbours: they are candidates and, if they are allowed, results, as
\* long as there is room for results, of which there are no more than there is room for.
Grown(v, w, C, ef, ok) ==
  /\ w \in Visits(0) /\ w.seen = v.seen /\ w.done = v.done
  /\ w.best \subseteq v.best \cup (C \cap ok) /\ w.cand \subseteq v.cand \cup C
  /\ Cardinality(w.best) <= ef
  /\ Cardinality(w.best) < ef =>
       /\ Cardinality(v.best) < ef /\ w.cand = v.cand \cup C
       /\ w.best = v.best \cup (C \cap ok)

\* It grows by a neighbour that is considered.
LEMMA ConsiderOne ==
  ASSUME Sound, NEW v \in Visits(0), NEW c \in Having(0), NEW p \in Points,
         NEW ef \in Nat \ {0}, NEW ok, Cardinality(v.best) <= ef
  PROVE  Grown(v, Consider(v, c, p, ef, ok), {c}, ef, ok)
<1> DEFINE w == Consider(v, c, p, ef, ok)
           best == IF c \in ok THEN v.best \cup {c} ELSE v.best
           kept == IF Cardinality(best) > ef THEN best \ {FarthestOf(best, p)} ELSE best
           full == Cardinality(v.best) >= ef /\ Dist(at[c], p) >= Dist(at[FarthestOf(v.best, p)], p)
<1>1. 0 \in Levels /\ ef \in Nat /\ ef > 0 /\ Having(0) \subseteq Nodes /\ Nodes \subseteq Nat
      /\ \A n \in Having(0) : at[n] \in Points
  <2>1. 0 \in Levels /\ Having(0) \subseteq Elements /\ Nodes \subseteq Nat
    BY NodesAre
  <2>2. Elements \subseteq Nodes /\ \A n \in Elements : at[n] \in Points
    BY DEF Sound
  <2>3. Having(0) \subseteq Nodes /\ \A n \in Having(0) : at[n] \in Points
    BY <2>1, <2>2
  <2>4. ef \in Nat /\ ef > 0
    OBVIOUS
  <2> QED
    BY <2>1, <2>3, <2>4
<1>2. w \in Visits(0)
  BY <1>1, ConsiderIs
<1>3. w = IF full THEN v ELSE [v EXCEPT !.cand = v.cand \cup {c}, !.best = kept]
  BY DEF Consider
<1>4. /\ v = [cand |-> v.cand, low |-> v.low, best |-> v.best, seen |-> v.seen,
               below |-> v.below, done |-> v.done]
      /\ v.best \in SUBSET Having(0)
  BY DEF Visits
<1>5. best = v.best \cup ({c} \cap ok) /\ best \in SUBSET Having(0) /\ best \in SUBSET Nodes
  BY <1>1, <1>4
<1> HIDE DEF best
<1>6. /\ Cardinality(v.best) \in Nat /\ Cardinality(best) \in Nat
      /\ best = v.best \/ Cardinality(best) = Cardinality(v.best) + 1
  <2>1. v.best \in SUBSET Nodes
    BY <1>1, <1>4
  <2>2. best = v.best \/ (c \notin v.best /\ best = v.best \cup {c})
    BY <1>5
  <2>3. c \in Nodes
    BY <1>1
  <2> QED
    BY <1>5, <2>1, <2>2, <2>3, CountsAre
<1>7. /\ kept \subseteq best /\ Cardinality(kept) <= ef
      /\ Cardinality(kept) < ef => Cardinality(v.best) < ef /\ kept = best
  <2>1. CASE Cardinality(best) > ef
    <3>1. Cardinality(best) = ef + 1 /\ best # {}
      BY <1>1, <1>6, <2>1, FS_EmptySet
    <3>2. FarthestOf(best, p) \in best
      <4>1. best \in SUBSET Nat /\ IsFiniteSet(best) /\ \A n \in best : at[n] \in Points
        BY <1>1, <1>5, CountsAre
      <4> QED
        BY <3>1, <4>1, FarthestIs
    <3>3. kept = best \ {FarthestOf(best, p)}
      BY <2>1
    <3>4. Cardinality(kept) = ef
      BY <1>1, <1>5, <3>1, <3>2, <3>3, CountsAre
    <3> QED
      BY <1>1, <3>3, <3>4
  <2>2. CASE ~(Cardinality(best) > ef)
    <3>1. kept = best
      BY <2>2
    <3> QED
      BY <1>1, <1>6, <2>2, <3>1
  <2> QED
    BY <2>1, <2>2
<1> HIDE DEF kept
<1>8. CASE full
  <2>1. w = v /\ ~(Cardinality(v.best) < ef)
    BY <1>1, <1>3, <1>6, <1>8
  <2> HIDE DEF w, full
  <2>2. Grown(v, w, {c}, ef, ok)
    BY <1>2, <2>1 DEF Grown
  <2> QED
    BY <2>2 DEF w
<1>9. CASE ~full
  <2>1. w = [cand |-> v.cand \cup {c}, low |-> v.low, best |-> kept, seen |-> v.seen,
             below |-> v.below, done |-> v.done]
    BY <1>3, <1>4, <1>9
  <2> HIDE DEF w, full
  <2>2. w.cand = v.cand \cup {c} /\ w.best = kept /\ w.seen = v.seen /\ w.done = v.done
    BY <2>1
  <2>3. Grown(v, w, {c}, ef, ok)
    BY <1>2, <1>5, <1>7, <2>2 DEF Grown
  <2> QED
    BY <2>3 DEF w
<1> QED
  BY <1>8, <1>9

\* And by the neighbours of a list.
LEMMA ConsideredGrow ==
  ASSUME Sound, NEW v \in Visits(0), NEW s \in Seq(Having(0)), NEW p \in Points,
         NEW ef \in Nat \ {0}, NEW ok, Cardinality(v.best) <= ef
  PROVE  Grown(v, Considered(v, s, p, ef, ok), ToSet(s), ef, ok)
<1> DEFINE n == Len(s)
           upto(i) == {s[j] : j \in 1..i}
           A == [i \in 0..n |-> {w \in Visits(0) : Grown(v, w, upto(i), ef, ok)}]
<1>1. PICK h \in [0..n -> Visits(0)] :
        /\ h[0] = v /\ Considered(v, s, p, ef, ok) = h[n]
        /\ \A i \in 1..n : h[i] = Consider(h[i - 1], s[i], p, ef, ok)
  <2>1. 0 \in Levels
    BY NodesAre
  <2> QED
    BY <2>1, ConsideredIs
<1>2. n \in Nat /\ DOMAIN s = 1..n /\ (\A i \in 1..n : s[i] \in Having(0)) /\ upto(n) = ToSet(s)
  BY DEF ToSet
<1> HIDE DEF n
<1>3. h[0] \in A[0]
  <2>1. upto(0) = {} /\ 0 \in 0..n
    BY <1>2
  <2> HIDE DEF upto
  <2>2. Grown(v, v, {}, ef, ok)
    BY DEF Grown
  <2> QED
    BY <1>1, <2>1, <2>2
<1>4. ASSUME NEW i \in 1..n, h[i - 1] \in A[i - 1] PROVE h[i] \in A[i]
  <2>1. i \in 0..n /\ i - 1 \in 0..n
    BY <1>2
  <2> DEFINE w == h[i - 1]
             x == h[i]
             c == s[i]
             C == upto(i - 1)
  <2>2. w \in Visits(0) /\ Grown(v, w, C, ef, ok)
    BY <1>4, <2>1
  <2>3. upto(i) = C \cup {c}
    <3>1. 1..i = (1..(i - 1)) \cup {i}
      BY <1>2
    <3> QED
      BY <3>1
  <2>4. x = Consider(w, c, p, ef, ok) /\ c \in Having(0)
    BY <1>1, <1>2
  <2> HIDE DEF upto, w, x, c, C
  <2>5. Grown(w, x, {c}, ef, ok)
    <3>1. Cardinality(w.best) <= ef
      BY <2>2 DEF Grown
    <3> QED
      BY <2>2, <2>4, <3>1, ConsiderOne
  <2>6. Grown(v, x, C \cup {c}, ef, ok)
    BY <2>2, <2>5 DEF Grown
  <2>7. x \in Visits(0)
    BY <2>5 DEF Grown
  <2>8. Grown(v, x, upto(i), ef, ok)
    BY <2>3, <2>6
  <2> QED
    BY <2>1, <2>7, <2>8 DEF x
<1>5. h[n] \in A[n]
  <2> HIDE DEF A
  <2> QED
    BY <1>2, <1>3, <1>4, Stages
<1>6. n \in 0..n
  BY <1>2
<1> HIDE DEF upto
<1> QED
  BY <1>1, <1>2, <1>5, <1>6

\* A set of elements that holds those its elements link to, but for the hidden.
Closed(C) == \A n \in C : Targets(n, 0) \ Hidden \subseteq C

\* What can be reached from an element is the least such set that holds it.
LEMMA ReachableIs ==
  ASSUME Sound, NEW ep \in Elements
  PROVE  /\ Reachable(ep) \in SUBSET Elements /\ ep \in Reachable(ep) /\ Closed(Reachable(ep))
         /\ \A C : ep \in C /\ Closed(C) => Reachable(ep) \subseteq C
<1> DEFINE next(r) == r \cup ((UNION {Targets(n, 0) : n \in r}) \ Hidden)
           IsReach(f) == f = [i \in 0..Capacity |-> IF i = 0 THEN {ep} ELSE next(f[i - 1])]
           reach == CHOOSE f : IsReach(f)
           A == SUBSET Elements
           step == [x \in (1..Capacity) \X A |-> next(x[2])]
<1>1. Reachable(ep) = reach[Capacity]
  BY Zenon DEF Reachable
<1>2. ASSUME NEW r \in A PROVE next(r) \in A
  <2>1. ASSUME NEW n \in r PROVE Targets(n, 0) \subseteq Elements
    BY TargetsHave, NodesAre DEF Sound
  <2> QED
    BY <2>1
<1>3. ASSUME NEW r, NEW x
      PROVE  x \in next(r) <=> x \in r \/ \E n \in r : x \in Targets(n, 0) \ Hidden
  <2> DEFINE T == UNION {Targets(n, 0) : n \in r}
  <2>1. x \in T <=> \E n \in r : x \in Targets(n, 0)
    BY Zenon
  <2>2. next(r) = r \cup (T \ Hidden)
    BY Zenon
  <2> HIDE DEF next, T
  <2> QED
    BY <2>1, <2>2
<1>4. ASSUME NEW r \in A
      PROVE  r \subseteq next(r) /\ (Closed(r) => next(r) = r) /\ (next(r) = r => Closed(r))
  <2> HIDE DEF next
  <2>1. r \subseteq next(r)
    BY <1>3
  <2>2. ASSUME Closed(r) PROVE next(r) \subseteq r
    BY <1>3, <2>2 DEF Closed
  <2>3. ASSUME next(r) = r PROVE Closed(r)
    BY <1>3, <2>3 DEF Closed
  <2> QED
    BY <2>1, <2>2, <2>3
<1>5. ASSUME NEW C, NEW r, Closed(C), r \subseteq C PROVE next(r) \subseteq C
  <2> HIDE DEF next
  <2> QED
    BY <1>3, <1>5 DEF Closed
<1>6. \A i \in 1..Capacity, r \in A : step[<<i, r>>] = next(r)
  OBVIOUS
<1>7. Capacity \in Nat /\ {ep} \in A /\ \A r \in A : r \in SUBSET Nodes
  BY NodesAre DEF Sound
<1> HIDE DEF next, step, A
<1>8. PICK f \in [0..Capacity -> A] : IsOrbit(f, Capacity, {ep}, step)
  <2>1. \A i \in 1..Capacity, r \in A : step[<<i, r>>] \in A
    BY <1>2, <1>6
  <2> QED
    BY <1>7, <2>1, OrbitOf
<1>9. IsReach(f)
  <2>1. ASSUME NEW i \in 0..Capacity PROVE f[i] = IF i = 0 THEN {ep} ELSE next(f[i - 1])
    <3>1. CASE i = 0
      BY <1>8, <3>1 DEF IsOrbit
    <3>2. CASE i # 0
      <4>1. i \in 1..Capacity /\ i - 1 \in 0..Capacity
        BY <1>7, <3>2
      <4>2. f[i - 1] \in A
        BY <1>8, <4>1
      <4>3. f[i] = step[<<i, f[i - 1]>>]
        BY <1>8, <3>2 DEF IsOrbit
      <4> QED
        BY <1>6, <3>2, <4>1, <4>2, <4>3
    <3> QED
      BY <3>1, <3>2
  <2> QED
    BY <1>8, <2>1
<1>10. IsReach(reach)
  <2> HIDE DEF IsReach
  <2> QED
    BY <1>9
<1> HIDE DEF reach
<1>11. reach[0] = {ep} /\ \A i \in 1..Capacity : reach[i] = next(reach[i - 1])
  <2>1. 0 \in 0..Capacity /\ \A i \in 1..Capacity : i \in 0..Capacity /\ i # 0
    BY <1>7
  <2> QED
    BY <1>10, <2>1
<1> DEFINE grown(i) == {r \in A : ep \in r /\ (Closed(r) \/ Cardinality(r) >= i + 1)}
<1>12. reach[Capacity] \in grown(Capacity)
  <2> DEFINE B == [i \in 0..Capacity |-> grown(i)]
  <2>1. reach[0] \in B[0]
    <3>1. Cardinality({ep}) = 1
      BY FS_Singleton
    <3>2. {ep} \in grown(0)
      BY <1>7, <3>1
    <3> QED
      BY <1>7, <1>11, <3>2
  <2>2. ASSUME NEW i \in 1..Capacity, reach[i - 1] \in B[i - 1] PROVE reach[i] \in B[i]
    <3> DEFINE r == reach[i - 1]
    <3>1. i \in Nat /\ i \in 0..Capacity /\ i - 1 \in 0..Capacity /\ i - 1 + 1 = i
      BY <1>7
    <3>2. r \in A /\ ep \in r /\ (Closed(r) \/ Cardinality(r) >= i)
      <4>1. r \in grown(i - 1)
        BY <2>2, <3>1
      <4> QED
        BY <3>1, <4>1
    <3>3. reach[i] = next(r)
      BY <1>11
    <3> HIDE DEF r
    <3>4. next(r) \in A /\ ep \in next(r) /\ r \subseteq next(r)
      BY <1>2, <1>4, <3>2
    <3>5. Closed(next(r)) \/ Cardinality(next(r)) >= i + 1
      <4>1. CASE Closed(r)
        <5>1. next(r) = r
          BY <1>4, <3>2, <4>1
        <5> QED
          BY <4>1, <5>1
      <4>2. CASE ~Closed(r)
        <5>1. next(r) # r /\ Cardinality(r) >= i
          BY <1>4, <3>2, <4>2
        <5>2. next(r) \in SUBSET Nodes /\ r \in SUBSET next(r)
          BY <1>7, <3>4
        <5>3. /\ Cardinality(next(r)) \in Nat /\ Cardinality(r) \in Nat
              /\ Cardinality(r) <= Cardinality(next(r))
              /\ Cardinality(r) = Cardinality(next(r)) => r = next(r)
          BY <5>2, CountsAre
        <5>4. Cardinality(next(r)) >= i + 1
          BY <3>1, <5>1, <5>3
        <5> QED
          BY <5>4
      <4> QED
        BY <4>1, <4>2
    <3>6. next(r) \in grown(i)
      BY <3>4, <3>5
    <3> QED
      BY <3>1, <3>3, <3>6
  <2>3. Capacity \in 0..Capacity
    BY <1>7
  <2> HIDE DEF grown
  <2>4. B[Capacity] = grown(Capacity)
    BY <2>3
  <2> HIDE DEF B
  <2>5. reach[Capacity] \in B[Capacity]
    BY <1>7, <2>1, <2>2, Stages
  <2> QED
    BY <2>4, <2>5
<1>13. Closed(reach[Capacity])
  <2>1. Closed(reach[Capacity]) \/ Cardinality(reach[Capacity]) >= Capacity + 1
    BY <1>12
  <2>2. reach[Capacity] \in SUBSET Nodes
    BY <1>7, <1>12
  <2>3. Cardinality(reach[Capacity]) <= Capacity /\ Cardinality(reach[Capacity]) \in Nat
    BY <2>2, NodesCount, CountsAre
  <2> QED
    BY <1>7, <2>1, <2>3
<1>14. ASSUME NEW C, ep \in C, Closed(C) PROVE reach[Capacity] \subseteq C
  <2> DEFINE B == [i \in 0..Capacity |-> SUBSET C]
  <2>1. reach[0] \in B[0]
    BY <1>7, <1>11, <1>14
  <2>2. ASSUME NEW i \in 1..Capacity, reach[i - 1] \in B[i - 1] PROVE reach[i] \in B[i]
    <3>1. i \in 0..Capacity /\ i - 1 \in 0..Capacity
      BY <1>7
    <3>2. reach[i - 1] \subseteq C
      BY <2>2, <3>1
    <3>3. reach[i] \subseteq C
      BY <1>5, <1>11, <1>14, <3>2
    <3> QED
      BY <3>1, <3>3
  <2>3. B[Capacity] = SUBSET C
    BY <1>7
  <2> HIDE DEF B
  <2>4. reach[Capacity] \in B[Capacity]
    BY <1>7, <2>1, <2>2, Stages
  <2> QED
    BY <2>3, <2>4
<1>15. reach[Capacity] \in SUBSET Elements /\ ep \in reach[Capacity]
  BY <1>12 DEF A
<1> QED
  BY <1>1, <1>13, <1>14, <1>15

\* As long as there is room for results, a search has followed the links of what is no candidate
\* any more, and has for results what it has seen.
Finds(v, ep, R, ef, ok) ==
  /\ v.best \subseteq (R \ Hidden) \cap ok /\ Cardinality(v.best) <= ef
  /\ v.cand \subseteq v.seen \cap R /\ ep \in v.seen
  /\ Cardinality(v.best) < ef =>
       /\ ~v.done /\ (v.seen \ Hidden) \cap ok \subseteq v.best
       /\ \A n \in ((v.seen \ Hidden) \cup {ep}) \ v.cand : Targets(n, 0) \subseteq v.seen

\* A visit takes one candidate for good.
LEMMA VisitFinds ==
  ASSUME Sound, NEW v \in Visits(0), v.cand # {}, ~v.done, NEW ep, NEW p \in Points,
         NEW R, Closed(R), NEW ef \in Nat \ {0}, NEW ok, NEW patience \in Nat,
         Finds(v, ep, R, ef, ok), NEW i \in Nat,
         Cardinality(v.best) < ef => Cardinality(v.seen \ v.cand) >= i,
         NEW w, w = Visit(v, p, 0, ef, ok, patience)
  PROVE  /\ w \in Visits(0) /\ Finds(w, ep, R, ef, ok)
         /\ Cardinality(w.best) < ef => Cardinality(w.seen \ w.cand) >= i + 1
<1> DEFINE n     == IF v.cand = v.low THEN CHOOSE c \in v.low : TRUE ELSE NearestOf(v.cand \ v.low, p)
           worse == /\ Cardinality(v.best) >= ef
                    /\ n \in v.low \/ Dist(at[n], p) > Dist(at[FarthestOf(v.best, p)], p)
           below == IF worse THEN v.below + 1 ELSE 0
           new   == IF Readable(n, 0) THEN Targets(n, 0) \ v.seen ELSE {}
           valid == {c \in new \ Hidden : Readable(c, 0)}
           next  == [v EXCEPT !.cand = @ \ {n}, !.low = @ \ {n}, !.seen = @ \cup new, !.below = below]
           list  == Kept(links[n][0], valid \ ok) \o Kept(links[n][0], valid \cap ok)
<1>1. w = IF below > patience THEN [v EXCEPT !.done = TRUE] ELSE Considered(next, list, p, ef, ok)
  BY Zenon DEF Visit, Considered
<1>2. n \in v.cand
  <2>1. CASE v.cand = v.low
    BY <2>1 DEF Visits
  <2>2. CASE v.cand # v.low
    <3> DEFINE S == v.cand \ v.low
    <3>1. S # {} /\ S \subseteq v.cand /\ \A c \in S : at[c] \in Points
      BY <2>2 DEF Visits, Sound
    <3> HIDE DEF S
    <3>2. NearestOf(S, p) \in S
      BY <3>1, NearestIs
    <3> QED
      BY <2>2, <3>1, <3>2 DEF S
  <2> QED
    BY <2>1, <2>2
<1> HIDE DEF n
<1>3. n \in Nodes /\ 0 \in Levels
  BY <1>2, NodesAre DEF Visits, Sound
<1>4. Targets(n, 0) \subseteq Having(0) /\ links[n][0] \in Seq(Having(0)) /\ Targets(n, 0) \subseteq Nodes
  <2>1. Having(0) \subseteq Nodes
    BY NodesAre DEF Sound
  <2> QED
    BY <1>3, <2>1, TargetsHave DEF Sound, Linked
<1>5. new = Targets(n, 0) \ v.seen /\ valid = new \ Hidden
  BY DEF Readable
<1>6. below \in Nat /\ (Cardinality(v.best) < ef => below = 0)
  <2>1. v.below \in Nat /\ Cardinality(v.best) \in Nat
    <3>1. v.best \in SUBSET Nodes
      BY NodesAre DEF Visits, Sound
    <3> QED
      BY <3>1, CountsAre DEF Visits
  <2> QED
    BY <2>1
<1> HIDE DEF below, new, valid
<1>7. /\ next \in Visits(0) /\ next.cand = v.cand \ {n} /\ next.seen = v.seen \cup new
      /\ next.best = v.best /\ next.done = v.done
  <2> DEFINE a == [v EXCEPT !.cand = v.cand \ {n}]
             b == [a EXCEPT !.low = v.low \ {n}]
             c == [b EXCEPT !.seen = v.seen \cup new]
             d == [c EXCEPT !.below = below]
             T == [cand : SUBSET Elements, low : SUBSET Elements, best : SUBSET Having(0),
                   seen : SUBSET Nodes, below : Nat, done : BOOLEAN]
  <2>1. v \in T /\ v.low \subseteq v.cand /\ v.seen \cup new \subseteq Nodes
    BY <1>4, <1>5 DEF Visits
  <2>2. /\ a \in T /\ a.low = v.low /\ a.cand = v.cand \ {n} /\ a.seen = v.seen
        /\ a.best = v.best /\ a.done = v.done
    BY <2>1
  <2> HIDE DEF a
  <2>3. /\ b \in T /\ b.low = v.low \ {n} /\ b.cand = v.cand \ {n} /\ b.seen = v.seen
        /\ b.best = v.best /\ b.done = v.done
    BY <2>1, <2>2
  <2> HIDE DEF b
  <2>4. /\ c \in T /\ c.low = v.low \ {n} /\ c.cand = v.cand \ {n} /\ c.seen = v.seen \cup new
        /\ c.best = v.best /\ c.done = v.done
    BY <2>1, <2>3
  <2> HIDE DEF c
  <2>5. /\ d \in T /\ d.low = v.low \ {n} /\ d.cand = v.cand \ {n} /\ d.seen = v.seen \cup new
        /\ d.best = v.best /\ d.done = v.done
    BY <1>6, <2>4
  <2>6. next = d
    BY <2>1 DEF a, b, c
  <2> HIDE DEF d, next
  <2>7. d \in Visits(0)
    BY <2>1, <2>5 DEF Visits
  <2> QED
    BY <2>5, <2>6, <2>7
<1>8. list \in Seq(Having(0)) /\ ToSet(list) = valid
  <2> DEFINE a == Kept(links[n][0], valid \ ok)
             b == Kept(links[n][0], valid \cap ok)
  <2>1. \A S : Kept(links[n][0], S) \in Seq(Having(0))
    <3>1. ASSUME NEW S PROVE Kept(links[n][0], S) \in Seq(S \cap Having(0))
      BY <1>4, KeptIn
    <3>2. \A S : Seq(S \cap Having(0)) \subseteq Seq(Having(0))
      OBVIOUS
    <3> QED
      BY <3>1, <3>2
  <2>2. a \in Seq(Having(0)) /\ b \in Seq(Having(0))
    BY <2>1
  <2>3. ToSet(a) = Targets(n, 0) \cap (valid \ ok) /\ ToSet(b) = Targets(n, 0) \cap (valid \cap ok)
    BY <1>4, KeptSet DEF Targets
  <2>4. valid \subseteq Targets(n, 0)
    BY <1>5
  <2> HIDE DEF a, b
  <2>5. a \o b \in Seq(Having(0)) /\ ToSet(a \o b) = ToSet(a) \cup ToSet(b)
    BY <2>2, JoinedSet, ConcatProperties
  <2>6. ToSet(a) \cup ToSet(b) = valid
    BY <2>3, <2>4
  <2> QED
    BY <2>5, <2>6 DEF a, b
<1> HIDE DEF next, list
<1>9. CASE below > patience
  <2>1. w = [v EXCEPT !.done = TRUE]
    BY <1>1, <1>9
  <2>2. /\ w \in Visits(0) /\ w.best = v.best /\ w.cand = v.cand /\ w.seen = v.seen
    BY <2>1 DEF Visits
  <2>3. ~(Cardinality(v.best) < ef)
    BY <1>6, <1>9
  <2> QED
    BY <2>2, <2>3 DEF Finds
<1>10. CASE ~(below > patience)
  <2>1. Grown(next, w, valid, ef, ok)
    <3>1. Cardinality(next.best) <= ef
      BY <1>7 DEF Finds
    <3>2. Grown(next, Considered(next, list, p, ef, ok), ToSet(list), ef, ok)
      BY <1>7, <1>8, <3>1, ConsideredGrow
    <3> QED
      BY <1>1, <1>8, <1>10, <3>2
  <2>2. /\ w \in Visits(0) /\ w.seen = v.seen \cup new /\ w.done = v.done
        /\ w.best \subseteq v.best \cup (valid \cap ok) /\ w.cand \subseteq (v.cand \ {n}) \cup valid
        /\ Cardinality(w.best) <= ef
        /\ Cardinality(w.best) < ef =>
             /\ Cardinality(v.best) < ef /\ w.cand = (v.cand \ {n}) \cup valid
             /\ w.best = v.best \cup (valid \cap ok)
    BY <1>7, <2>1 DEF Grown
  <2>3. valid \subseteq R \ Hidden /\ valid \subseteq new /\ n \in R /\ n \in v.seen
    BY <1>2, <1>5 DEF Finds, Closed
  <2>4. w.best \subseteq (R \ Hidden) \cap ok /\ w.cand \subseteq w.seen \cap R /\ ep \in w.seen
    BY <2>2, <2>3 DEF Finds
  <2>5. ASSUME Cardinality(w.best) < ef
        PROVE  /\ ~w.done /\ (w.seen \ Hidden) \cap ok \subseteq w.best
               /\ \A m \in ((w.seen \ Hidden) \cup {ep}) \ w.cand : Targets(m, 0) \subseteq w.seen
               /\ Cardinality(w.seen \ w.cand) >= i + 1
    <3>1. /\ Cardinality(v.best) < ef /\ w.cand = (v.cand \ {n}) \cup valid
          /\ w.best = v.best \cup (valid \cap ok)
      BY <2>2, <2>5
    <3>2. /\ (v.seen \ Hidden) \cap ok \subseteq v.best /\ ep \in v.seen
          /\ \A m \in ((v.seen \ Hidden) \cup {ep}) \ v.cand : Targets(m, 0) \subseteq v.seen
      BY <3>1 DEF Finds
    <3>3. (w.seen \ Hidden) \cap ok \subseteq w.best
      BY <1>5, <2>2, <3>1, <3>2
    <3>4. ASSUME NEW m \in ((w.seen \ Hidden) \cup {ep}) \ w.cand PROVE Targets(m, 0) \subseteq w.seen
      <4>1. m \in v.seen /\ (m \in (v.seen \ Hidden) \cup {ep})
        BY <1>5, <2>2, <3>1, <3>2
      <4>2. CASE m = n
        BY <1>5, <2>2, <4>2
      <4>3. CASE m # n
        <5>1. m \notin v.cand
          BY <3>1, <4>3
        <5> QED
          BY <2>2, <3>2, <4>1, <5>1
      <4> QED
        BY <4>2, <4>3
    <3>5. Cardinality(w.seen \ w.cand) >= i + 1
      <4> DEFINE S == v.seen \ v.cand
                 T == w.seen \ w.cand
      <4>1. n \in Nodes \ S /\ S \cup {n} \subseteq T /\ T \in SUBSET Nodes /\ S \in SUBSET Nodes
        BY <1>2, <1>3, <1>5, <2>2, <2>3, <3>1 DEF Visits
      <4>2. Cardinality(S) >= i
        BY <3>1
      <4> HIDE DEF S, T
      <4>3. Cardinality(S \cup {n}) = Cardinality(S) + 1 /\ Cardinality(S) \in Nat
        BY <4>1, CountsAre
      <4>4. Cardinality(S \cup {n}) <= Cardinality(T) /\ Cardinality(T) \in Nat
        <5>1. S \cup {n} \in SUBSET T
          BY <4>1
        <5> QED
          BY <4>1, <5>1, CountsAre
      <4>5. Cardinality(T) >= i + 1
        BY <4>2, <4>3, <4>4
      <4> QED
        BY <4>5 DEF T
    <3> QED
      BY <2>2, <3>1, <3>3, <3>4, <3>5
  <2>6. Finds(w, ep, R, ef, ok)
    BY <2>2, <2>4, <2>5 DEF Finds
  <2> QED
    BY <2>2, <2>5, <2>6
<1> QED
  BY <1>9, <1>10

\* A search of the base layer finds what can be reached and is allowed, or as much as it was asked
\* for.
LEMMA SearchFinds ==
  ASSUME Sound, NEW ep \in Elements, NEW p \in Points, NEW ef \in Nat \ {0}, NEW ok,
         NEW patience \in Nat,
         NEW good, good = (Reachable(ep) \ Hidden) \cap ok
  PROVE  \E B \in SUBSET good :
           /\ SearchLayer(ep, p, 0, ef, ok, patience) = ByNearness(B, p)
           /\ Cardinality(B) <= ef /\ (Cardinality(B) < ef => B = good)
<1> DEFINE R == Reachable(ep)
<1>1. R \in SUBSET Elements /\ ep \in R /\ Closed(R) /\ \A C : ep \in C /\ Closed(C) => R \subseteq C
  BY ReachableIs
<1>2. 0 \in Levels /\ Readable(ep, 0) /\ ep \in Having(0) /\ Capacity \in Nat /\ ep \in Nodes
  <2>1. ep \in Nodes /\ level \in [Nodes -> Levels]
    BY DEF Sound
  <2>2. level[ep] \in Nat
    BY <2>1, NodesAre
  <2> QED
    BY <2>1, <2>2, NodesAre DEF Readable, Having
<1>3. PICK run \in [0..Capacity -> Visits(0)] : IsSearch(run, ep, p, 0, ef, ok, patience)
  <2>1. Readable(ep, 0) => ep \in Having(0)
    BY <1>2
  <2>2. 0 \in Levels
    BY <1>2
  <2> QED
    BY <2>1, <2>2, RunIs
<1>4. /\ run[0] = StartVisit(ep, 0, ok)
      /\ \A i \in 1..Capacity :
           run[i] = IF run[i - 1].done \/ run[i - 1].cand = {} THEN run[i - 1]
                    ELSE Visit(run[i - 1], p, 0, ef, ok, patience)
      /\ SearchLayer(ep, p, 0, ef, ok, patience) = ByNearness(run[Capacity].best, p)
  BY <1>3 DEF IsSearch
<1> HIDE DEF R
<1> DEFINE far(v, i) == Cardinality(v.best) < ef => v.cand = {} \/ Cardinality(v.seen \ v.cand) >= i
           A == [i \in 0..Capacity |-> {v \in Visits(0) : Finds(v, ep, R, ef, ok) /\ far(v, i)}]
<1>5. run[0] \in A[0]
  <2> DEFINE v == run[0]
             best == IF ep \notin Hidden /\ ep \in ok THEN {ep} ELSE {}
  <2>1. v \in Visits(0)
    BY <1>2, <1>3
  <2>2. v.cand = {ep} /\ v.seen = {ep} /\ v.done = FALSE /\ v.best = best
    <3>1. v = StartVisit(ep, 0, ok)
      BY <1>4
    <3> HIDE DEF v
    <3> QED
      BY <1>2, <3>1 DEF StartVisit
  <2>3. Cardinality(best) <= ef
    <3>1. Cardinality({ep}) = 1 /\ Cardinality({}) = 0 /\ ef >= 1
      BY FS_Singleton, FS_EmptySet
    <3>2. best = {ep} \/ best = {}
      OBVIOUS
    <3>3. ef \in Nat
      OBVIOUS
    <3> HIDE DEF best
    <3>4. CASE best = {ep}
      BY <3>1, <3>4
    <3>5. CASE best = {}
      BY <3>1, <3>3, <3>5
    <3> QED
      BY <3>2, <3>4, <3>5
  <2> HIDE DEF v
  <2>4. Finds(v, ep, R, ef, ok)
    BY <1>1, <2>2, <2>3 DEF Finds
  <2>5. Cardinality(v.seen \ v.cand) >= 0
    <3>1. v.seen \ v.cand = {}
      BY <2>2
    <3> QED
      BY <3>1, FS_EmptySet
  <2>6. v \in A[0]
    BY <1>2, <2>1, <2>4, <2>5
  <2> QED
    BY <2>6 DEF v
<1>6. ASSUME NEW i \in 1..Capacity, run[i - 1] \in A[i - 1] PROVE run[i] \in A[i]
  <2> DEFINE v == run[i - 1]
             w == run[i]
             m == i - 1
  <2>1. i \in 0..Capacity /\ m \in 0..Capacity /\ m \in Nat /\ m + 1 = i
    BY <1>2
  <2>2. v \in Visits(0) /\ Finds(v, ep, R, ef, ok) /\ far(v, m)
    BY <1>6, <2>1
  <2>3. w = IF v.done \/ v.cand = {} THEN v ELSE Visit(v, p, 0, ef, ok, patience)
    BY <1>4
  <2> HIDE DEF v, w, m
  <2>4. CASE v.done \/ v.cand = {}
    <3>1. w = v /\ (Cardinality(v.best) < ef => v.cand = {})
      BY <2>2, <2>3, <2>4 DEF Finds
    <3>2. w \in A[i]
      BY <2>1, <2>2, <3>1
    <3> QED
      BY <3>2 DEF w
  <2>5. CASE ~(v.done \/ v.cand = {})
    <3>1. w = Visit(v, p, 0, ef, ok, patience)
      BY <2>3, <2>5
    <3>2. Cardinality(v.best) < ef => Cardinality(v.seen \ v.cand) >= m
      BY <2>2, <2>5
    <3>3. /\ w \in Visits(0) /\ Finds(w, ep, R, ef, ok)
          /\ Cardinality(w.best) < ef => Cardinality(w.seen \ w.cand) >= m + 1
      <4>1. v.cand # {} /\ ~v.done /\ Closed(R) /\ m \in Nat /\ patience \in Nat
        BY <1>1, <2>1, <2>5
      <4>2. Sound /\ v \in Visits(0) /\ ef \in Nat \ {0} /\ Finds(v, ep, R, ef, ok)
        BY <2>2
      <4> HIDE DEF far, A
      <4> QED
        BY <3>1, <3>2, <4>1, <4>2, VisitFinds, ZenonT(60)
    <3>4. w \in A[i]
      BY <2>1, <3>3
    <3> QED
      BY <3>4 DEF w
  <2> QED
    BY <2>4, <2>5
<1>7. run[Capacity] \in A[Capacity]
  <2> HIDE DEF A
  <2> QED
    BY <1>2, <1>5, <1>6, Stages
<1> DEFINE v == run[Capacity]
           B == v.best
<1>8. v \in Visits(0) /\ Finds(v, ep, R, ef, ok) /\ far(v, Capacity)
  BY <1>2, <1>7
<1> HIDE DEF v, A
<1>9. B \in SUBSET good /\ Cardinality(B) <= ef
  BY <1>8 DEF Finds, R
<1>10. ASSUME Cardinality(B) < ef PROVE B = good
  <2>1. /\ v.cand \subseteq v.seen /\ v.seen \in SUBSET Nodes /\ ep \in v.seen
        /\ (v.seen \ Hidden) \cap ok \subseteq B
        /\ \A n \in ((v.seen \ Hidden) \cup {ep}) \ v.cand : Targets(n, 0) \subseteq v.seen
    BY <1>8, <1>10 DEF Finds, Visits
  <2>2. v.cand = {}
    <3>1. CASE Cardinality(v.seen \ v.cand) >= Capacity
      <4>1. v.seen \ v.cand = Nodes
        BY <2>1, <3>1, NodesCount
      <4> QED
        BY <2>1, <4>1
    <3> QED
      BY <1>8, <1>10, <3>1
  <2> DEFINE C == (v.seen \ Hidden) \cup {ep}
  <2>3. ep \in C /\ Closed(C)
    BY <2>1, <2>2 DEF Closed
  <2>4. R \subseteq C
    BY <1>1, <2>3
  <2>5. good \subseteq (v.seen \ Hidden) \cap ok
    BY <2>1, <2>4 DEF R
  <2> QED
    BY <1>9, <2>1, <2>5
<1>11. SearchLayer(ep, p, 0, ef, ok, patience) = ByNearness(B, p)
  BY <1>4 DEF v
<1> HIDE DEF B
<1> QED
  BY <1>9, <1>10, <1>11

\* A sequence that repeats nothing has as many elements as places.
LEMMA CountOnce ==
  ASSUME NEW S, NEW s \in Seq(S), \A i, j \in 1..Len(s) : s[i] = s[j] => i = j
  PROVE  Cardinality(ToSet(s)) = Len(s)
<1> DEFINE n == Len(s)
           T == ToSet(s)
<1>1. n \in Nat /\ DOMAIN s = 1..n /\ T = {s[i] : i \in 1..n} /\ s = [i \in 1..n |-> s[i]]
  BY DEF ToSet
<1>2. IsFiniteSet(1..n) /\ Cardinality(1..n) = n
  <2>1. 1 \in Int /\ n \in Int
    BY <1>1
  <2> HIDE DEF n
  <2>2. IsFiniteSet(1..n) /\ Cardinality(1..n) = IF 1 > n THEN 0 ELSE n - 1 + 1
    BY <2>1, FS_Interval
  <2> QED
    BY <1>1, <2>2
<1>3. \A i, j \in 1..n : s[i] = s[j] => i = j
  OBVIOUS
<1> HIDE DEF n, T
<1>4. s \in Surjection(1..n, T) /\ s \in Injection(1..n, T)
  <2>1. s \in [1..n -> T]
    BY <1>1
  <2>2. \A t \in T : \E i \in 1..n : s[i] = t
    BY <1>1
  <2> QED
    BY <1>3, <2>1, <2>2 DEF Surjection, Injection, IsInjective
<1>5. Cardinality(T) = n
  BY <1>2, <1>4, FS_Surjection
<1> QED
  BY <1>5 DEF n, T

\* The first k of a sequence that repeats nothing.
LEMMA FirstOf ==
  ASSUME NEW S, NEW s \in Seq(S), \A i, j \in 1..Len(s) : s[i] = s[j] => i = j, NEW k \in Nat
  PROVE  LET n == IF Len(s) < k THEN Len(s) ELSE k
             f == SubSeq(s, 1, n)
         IN  Len(f) = n /\ ToSet(f) \subseteq S /\ Cardinality(ToSet(f)) = n
<1> DEFINE n == IF Len(s) < k THEN Len(s) ELSE k
           f == SubSeq(s, 1, n)
<1>1. n \in Nat /\ n <= Len(s) /\ Len(s) \in Nat
  OBVIOUS
<1>2. 1 \in Int /\ n \in Int /\ \A i \in 1..n : s[i] \in S
  BY <1>1
<1> HIDE DEF n
<1>3. /\ f \in Seq(S) /\ Len(f) = IF 1 <= n THEN n - 1 + 1 ELSE 0
      /\ \A i \in 1..(n - 1 + 1) : f[i] = s[1 + i - 1]
  BY <1>2, SubSeqProperties
<1> HIDE DEF f
<1>4. Len(f) = n /\ \A i \in 1..n : f[i] = s[i] /\ i \in 1..Len(s)
  BY <1>1, <1>3
<1>5. \A i, j \in 1..Len(f) : f[i] = f[j] => i = j
  BY <1>4
<1>6. Cardinality(ToSet(f)) = n
  BY <1>3, <1>4, <1>5, CountOnce
<1>7. ToSet(f) \subseteq S
  BY <1>3 DEF ToSet
<1> QED
  BY <1>4, <1>6, <1>7 DEF f, n

\* The invariant gives what a search promises.
LEMMA LinkInvSearches == LinkInv => SearchComplete
<1> SUFFICES ASSUME LinkInv, Busy = {}, count > 0, maxLevel <= level[entry]
             PROVE  \A p \in Points, ok \in {Nodes, Nodes \ {0}}, k \in {1, 2} :
                      LET reach == Reachable(Descend(entry, p, maxLevel, 0))
                          good  == (reach \ Hidden) \cap ok
                          size  == Lower(k, Cardinality(good))
                          brief == SearchKnn(p, k, k, ok)
                      IN  /\ Len(brief) = size /\ ToSet(brief) \subseteq good
                          /\ Cardinality(ToSet(brief)) = size
                          /\ SearchKnn(p, k, count, ok) = SubSeq(ByNearness(good, p), 1, size)
  BY ZenonT(60) DEF SearchComplete
<1> TAKE p \in Points, ok \in {Nodes, Nodes \ {0}}, k \in {1, 2}
<1> DEFINE ep == Descend(entry, p, maxLevel, 0)
           good == (Reachable(ep) \ Hidden) \cap ok
           size == Lower(k, Cardinality(good))
<1>1. Sound /\ Elements \subseteq Nodes /\ count \in Nat /\ count # 0 /\ Elements = 0 .. count - 1
      /\ maxLevel \in Levels /\ PatienceOut \in Nat /\ k \in Nat \ {0} /\ k \in Nat
  <2>1. Sound /\ Elements \subseteq Nodes /\ GraphInv
    BY SoundIs
  <2>2. count \in 0 .. Capacity /\ maxLevel \in Levels
    BY <2>1 DEF GraphInv, GraphTypeOK
  <2>3. count \in Nat /\ PatienceOut \in Nat
    BY <2>2, GraphAssumption
  <2> QED
    BY <2>1, <2>2, <2>3 DEF Elements
<1>2. ep \in Elements
  <2>1. entry \in Elements
    BY <1>1 DEF LinkInv, GraphInv, EntryMade
  <2>2. entry \in Having(maxLevel) /\ 0 \in 0..maxLevel
    BY <1>1, <2>1, NodesAre DEF Having
  <2>3. ep \in Having(0)
    BY <1>1, <2>2, DescendHas
  <2> QED
    BY <2>3 DEF Having
<1> HIDE DEF ep
<1>3. good \in SUBSET Elements /\ good \in SUBSET Nodes
  BY <1>1, <1>2, ReachableIs
<1> HIDE DEF good
<1>4. Cardinality(good) \in Nat /\ Cardinality(good) <= count
  <2>1. IsFiniteSet(Elements) /\ Cardinality(Elements) = count
    <3>1. 0 \in Int /\ count - 1 \in Int
      BY <1>1
    <3>2. /\ IsFiniteSet(0 .. count - 1)
          /\ Cardinality(0 .. count - 1) = IF 0 > count - 1 THEN 0 ELSE count - 1 - 0 + 1
      BY <3>1, FS_Interval
    <3> QED
      BY <1>1, <3>2
  <2> QED
    BY <1>3, <2>1, FS_Subset, FS_CardinalityType
<1>5. ASSUME NEW ef \in Nat \ {0}
      PROVE  \E B \in SUBSET good :
               /\ SearchLayer(ep, p, 0, ef, ok, PatienceOut) = ByNearness(B, p)
               /\ Cardinality(B) <= ef /\ (Cardinality(B) < ef => B = good)
  <2>1. good = (Reachable(ep) \ Hidden) \cap ok
    BY DEF good
  <2>2. Sound /\ PatienceOut \in Nat
    BY <1>1
  <2> QED
    BY <1>2, <2>1, <2>2, SearchFinds
<1>6. ASSUME NEW B \in SUBSET good
      PROVE  LET s == ByNearness(B, p) IN
             /\ s \in Seq(B) /\ Len(s) = Cardinality(B) /\ Cardinality(B) \in Nat
             /\ Cardinality(B) <= Cardinality(good) /\ (Cardinality(B) = Cardinality(good) => B = good)
             /\ \A i, j \in 1..Len(s) : s[i] = s[j] => i = j
  <2>1. B \in SUBSET Nat /\ IsFiniteSet(B) /\ \A n \in B : at[n] \in Points
    BY <1>1, <1>3, NodesAre DEF Sound
  <2> QED
    BY <1>3, <2>1, ByNearnessIs, CountsAre
<1>7. ASSUME NEW ef \in Nat \ {0}
      PROVE  \E B \in SUBSET good :
               LET s == ByNearness(B, p)
                   wide == IF ef > k THEN ef ELSE k
               IN  /\ SearchKnn(p, k, ef, ok) = SubSeq(s, 1, IF Len(s) < k THEN Len(s) ELSE k)
                   /\ Cardinality(B) <= wide /\ (Cardinality(B) < wide => B = good)
  <2> DEFINE wide == IF ef > k THEN ef ELSE k
  <2>1. wide \in Nat \ {0}
    BY <1>1
  <2>2. SearchKnn(p, k, ef, ok) =
          LET found == SearchLayer(ep, p, 0, wide, ok, PatienceOut)
          IN  SubSeq(found, 1, IF Len(found) < k THEN Len(found) ELSE k)
    BY <1>1 DEF SearchKnn, ep
  <2> HIDE DEF wide
  <2>3. PICK B \in SUBSET good :
          /\ SearchLayer(ep, p, 0, wide, ok, PatienceOut) = ByNearness(B, p)
          /\ Cardinality(B) <= wide /\ (Cardinality(B) < wide => B = good)
    BY <1>5, <2>1
  <2> QED
    BY <2>2, <2>3 DEF wide
<1>8. LET brief == SearchKnn(p, k, k, ok)
      IN  Len(brief) = size /\ ToSet(brief) \subseteq good /\ Cardinality(ToSet(brief)) = size
  <2>1. PICK B \in SUBSET good :
          LET s == ByNearness(B, p)
              wide == IF k > k THEN k ELSE k
          IN  /\ SearchKnn(p, k, k, ok) = SubSeq(s, 1, IF Len(s) < k THEN Len(s) ELSE k)
              /\ Cardinality(B) <= wide /\ (Cardinality(B) < wide => B = good)
    BY <1>1, <1>7
  <2> DEFINE s == ByNearness(B, p)
             n == IF Len(s) < k THEN Len(s) ELSE k
  <2>2. /\ s \in Seq(B) /\ Len(s) = Cardinality(B) /\ Cardinality(B) \in Nat
        /\ Cardinality(B) <= Cardinality(good) /\ (Cardinality(B) = Cardinality(good) => B = good)
        /\ \A i, j \in 1..Len(s) : s[i] = s[j] => i = j
    BY <1>6
  <2>3. /\ SearchKnn(p, k, k, ok) = SubSeq(s, 1, n)
        /\ Cardinality(B) <= k /\ (Cardinality(B) < k => B = good)
    BY <1>1, <2>1
  <2> HIDE DEF s
  <2>4. Len(SubSeq(s, 1, n)) = n /\ ToSet(SubSeq(s, 1, n)) \subseteq B
        /\ Cardinality(ToSet(SubSeq(s, 1, n))) = n
    BY <1>1, <2>2, FirstOf
  <2>5. n = size
    BY <1>1, <1>4, <2>2, <2>3 DEF Lower
  <2> QED
    BY <2>3, <2>4, <2>5
<1>9. SearchKnn(p, k, count, ok) = SubSeq(ByNearness(good, p), 1, size)
  <2>1. PICK B \in SUBSET good :
          LET s == ByNearness(B, p)
              wide == IF count > k THEN count ELSE k
          IN  /\ SearchKnn(p, k, count, ok) = SubSeq(s, 1, IF Len(s) < k THEN Len(s) ELSE k)
              /\ Cardinality(B) <= wide /\ (Cardinality(B) < wide => B = good)
    BY <1>1, <1>7
  <2> DEFINE s == ByNearness(B, p)
             wide == IF count > k THEN count ELSE k
  <2>2. /\ Len(s) = Cardinality(B) /\ Cardinality(B) \in Nat
        /\ Cardinality(B) <= Cardinality(good) /\ (Cardinality(B) = Cardinality(good) => B = good)
    BY <1>6
  <2>3. wide >= count /\ wide \in Nat
    BY <1>1
  <2>4. B = good
    BY <1>1, <1>4, <2>1, <2>2, <2>3
  <2>5. (IF Len(s) < k THEN Len(s) ELSE k) = size
    BY <1>1, <1>4, <2>2, <2>4 DEF Lower
  <2> QED
    BY <2>1, <2>4, <2>5
<1> QED
  BY <1>8, <1>9 DEF good, ep

\* A search finds what it can reach, or as much as it was asked for, however the graph it searches
\* came about (SearchComplete).
THEOREM SearchesComplete == GraphSpec => []SearchComplete
  BY LinkInvariant, LinkInvSearches, PTL

-------------------------------------------------------------------------------
(***************************************************************************)
(* The update of an entry point, which its own search links again.         *)
(***************************************************************************)

\* Another element lists one.
Listed(n, l) == \E c \in Elements \ {n} : n \in Targets(c, l)

\* What a search for the place of n has found: unmarked elements, one at least that is not n, and n
\* itself only if another lists it.
Spots(v, n, l) ==
  /\ \A c \in v.best : c \notin Hidden /\ Readable(c, l)
  /\ v.best \ {n} # {}
  /\ n \in v.cand \cup v.best => Listed(n, l)

\* It stays so if a neighbour is considered, as there is room for two results.
LEMMA ConsiderSpots ==
  ASSUME Sound, NEW l \in Levels, NEW v \in Visits(l), NEW c \in Having(l), NEW n, NEW p \in Points,
         NEW ef \in Nat, ef > 1, Spots(v, n, l),
         c \notin Hidden, Readable(c, l), c = n => Listed(n, l)
  PROVE  Spots(Consider(v, c, p, ef, Nodes), n, l)
<1> DEFINE w == Consider(v, c, p, ef, Nodes)
           best == v.best \cup {c}
           kept == IF Cardinality(best) > ef THEN best \ {FarthestOf(best, p)} ELSE best
           full == Cardinality(v.best) >= ef /\ Dist(at[c], p) >= Dist(at[FarthestOf(v.best, p)], p)
<1>1. /\ Having(l) \subseteq Nodes /\ Nodes \subseteq Nat /\ c \in Nodes
      /\ \A m \in Having(l) : at[m] \in Points
  BY NodesAre DEF Sound
<1>2. w = IF full THEN v ELSE [v EXCEPT !.cand = v.cand \cup {c}, !.best = kept]
  BY <1>1 DEF Consider
<1>3. /\ v = [cand |-> v.cand, low |-> v.low, best |-> v.best, seen |-> v.seen,
               below |-> v.below, done |-> v.done]
      /\ v.best \in SUBSET Having(l)
  BY DEF Visits
<1>4. best \in SUBSET Nodes /\ best \in SUBSET Having(l) /\ v.best \subseteq best
  BY <1>1, <1>3
<1> HIDE DEF full
<1>5. kept \subseteq best /\ kept \ {n} # {}
  <2>1. CASE Cardinality(best) > ef
    <3> DEFINE far == FarthestOf(best, p)
    <3>1. kept = best \ {far} /\ Cardinality(best) \in Nat
      BY <1>4, <2>1, CountsAre
    <3>2. best # {}
      OBVIOUS
    <3>3. far \in best
      <4>1. best \in SUBSET Nat /\ IsFiniteSet(best) /\ \A m \in best : at[m] \in Points
        BY <1>1, <1>4, CountsAre
      <4> QED
        BY <3>2, <4>1, FarthestIs
    <3> HIDE DEF far
    <3>4. Cardinality(kept) = Cardinality(best) - 1 /\ kept \in SUBSET Nodes
      BY <1>4, <3>1, <3>3, CountsAre
    <3>5. Cardinality(kept) > 1
      BY <2>1, <3>1, <3>4
    <3>6. ~(kept \subseteq {n})
      <4>1. ASSUME kept \subseteq {n} PROVE FALSE
        <5>1. kept = {} \/ kept = {n}
          BY <4>1
        <5>2. Cardinality({}) = 0 /\ Cardinality({n}) = 1
          BY FS_EmptySet, FS_Singleton
        <5> HIDE DEF kept
        <5>3. Cardinality(kept) = 0 \/ Cardinality(kept) = 1
          BY <5>1, <5>2
        <5> QED
          BY <3>5, <5>3
      <4> QED
        BY <4>1
    <3> QED
      BY <3>1, <3>6
  <2>2. CASE ~(Cardinality(best) > ef)
    BY <2>2 DEF Spots
  <2> QED
    BY <2>1, <2>2
<1> HIDE DEF kept
<1>6. CASE full
  <2>1. w = v
    BY <1>2, <1>6
  <2> QED
    BY <2>1
<1>7. CASE ~full
  <2>1. w.cand = v.cand \cup {c} /\ w.best = kept
    <3>1. w = [v EXCEPT !.cand = v.cand \cup {c}, !.best = kept]
      BY <1>2, <1>7
    <3> HIDE DEF w
    <3> QED
      BY <1>3, <3>1
  <2> HIDE DEF w
  <2>2. Spots(w, n, l)
    BY <1>5, <2>1 DEF Spots
  <2> QED
    BY <2>2 DEF w
<1> QED
  BY <1>6, <1>7

\* A visit goes from neighbour to neighbour of a list.
Considers(h, v, s, l, p, ef, ok) ==
  /\ h \in [0..Len(s) -> Visits(l)] /\ h[0] = v /\ Considered(v, s, p, ef, ok) = h[Len(s)]
  /\ \A i \in 1..Len(s) : h[i] = Consider(h[i - 1], s[i], p, ef, ok)

\* There is such a way.
LEMMA ConsidersIs ==
  ASSUME NEW l \in Levels, NEW v \in Visits(l), NEW s \in Seq(Having(l)), NEW p, NEW ef, NEW ok
  PROVE  \E h : Considers(h, v, s, l, p, ef, ok)
  BY ConsideredIs DEF Considers

\* And if the neighbours of a list are.
LEMMA ConsideredSpots ==
  ASSUME Sound, NEW l \in Levels, NEW v \in Visits(l), NEW s \in Seq(Having(l)), NEW n, NEW p \in Points,
         NEW ef \in Nat, ef > 1, Spots(v, n, l),
         \A c \in ToSet(s) : c \notin Hidden /\ Readable(c, l) /\ (c = n => Listed(n, l))
  PROVE  Spots(Considered(v, s, p, ef, Nodes), n, l)
<1> DEFINE m == Len(s)
           A == [i \in 0..m |-> {w \in Visits(l) : Spots(w, n, l)}]
<1>1. PICK h : Considers(h, v, s, l, p, ef, Nodes)
  BY ConsidersIs
<1>2. /\ h \in [0..m -> Visits(l)] /\ h[0] = v /\ Considered(v, s, p, ef, Nodes) = h[m]
      /\ \A i \in 1..m : h[i] = Consider(h[i - 1], s[i], p, ef, Nodes)
  BY <1>1 DEF Considers
<1>3. /\ m \in Nat /\ \A i \in 1..m : s[i] \in Having(l) /\ s[i] \in ToSet(s)
  <2>1. \A X : \A q \in Seq(X) : Len(q) \in Nat /\ \A i \in 1..Len(q) : q[i] \in X
    OBVIOUS
  <2>2. \A X : \A q \in Seq(X) : \A i \in 1..Len(q) : q[i] \in ToSet(q)
    BY DEF ToSet
  <2> QED
    BY <2>1, <2>2
<1> HIDE DEF m
<1>4. h[0] \in A[0]
  BY <1>2, <1>3
<1>5. ASSUME NEW i \in 1..m, h[i - 1] \in A[i - 1] PROVE h[i] \in A[i]
  <2>1. i \in 0..m /\ i - 1 \in 0..m
    BY <1>3
  <2> DEFINE w == h[i - 1]
             c == s[i]
  <2>2. w \in Visits(l) /\ Spots(w, n, l)
    BY <1>5, <2>1
  <2>3. h[i] = Consider(w, c, p, ef, Nodes) /\ h[i] \in Visits(l) /\ c \in Having(l) /\ c \in ToSet(s)
    BY <1>2, <1>3, <2>1
  <2> HIDE DEF w, c
  <2>4. Spots(Consider(w, c, p, ef, Nodes), n, l)
    BY <2>2, <2>3, ConsiderSpots
  <2> QED
    BY <2>1, <2>3, <2>4
<1>6. h[m] \in A[m]
  <2> HIDE DEF A
  <2> QED
    BY <1>3, <1>4, <1>5, Stages
<1>7. m \in 0..m
  BY <1>3
<1> QED
  BY <1>2, <1>6, <1>7

\* And if a candidate is visited.
LEMMA VisitSpots ==
  ASSUME Sound, NEW l \in Levels, NEW v \in Visits(l), v.cand # {}, NEW n, NEW p \in Points,
         NEW ef \in Nat, ef > 1, Spots(v, n, l), NEW patience,
         NEW w, w = Visit(v, p, l, ef, Nodes, patience)
  PROVE  Spots(w, n, l)
<1> DEFINE ok    == Nodes
           a     == IF v.cand = v.low THEN CHOOSE c \in v.low : TRUE ELSE NearestOf(v.cand \ v.low, p)
           worse == /\ Cardinality(v.best) >= ef
                    /\ a \in v.low \/ Dist(at[a], p) > Dist(at[FarthestOf(v.best, p)], p)
           below == IF worse THEN v.below + 1 ELSE 0
           new   == IF Readable(a, l) THEN Targets(a, l) \ v.seen ELSE {}
           valid == {c \in new \ Hidden : Readable(c, l)}
           next  == [v EXCEPT !.cand = @ \ {a}, !.low = @ \ {a}, !.seen = @ \cup new, !.below = below]
           list  == Kept(links[a][l], valid \ ok) \o Kept(links[a][l], valid \cap ok)
<1>1. w = IF below > patience THEN [v EXCEPT !.done = TRUE] ELSE Considered(next, list, p, ef, ok)
  BY Zenon DEF Visit, Considered
<1>2. a \in v.cand
  <2>1. CASE v.cand = v.low
    BY <2>1 DEF Visits
  <2>2. CASE v.cand # v.low
    <3> DEFINE S == v.cand \ v.low
    <3>1. S # {} /\ S \subseteq v.cand /\ \A c \in S : at[c] \in Points
      BY <2>2 DEF Visits, Sound
    <3> HIDE DEF S
    <3>2. NearestOf(S, p) \in S
      BY <3>1, NearestIs
    <3> QED
      BY <2>2, <3>1, <3>2 DEF S
  <2> QED
    BY <2>1, <2>2
<1> HIDE DEF a
<1>3. a \in Elements /\ a \in Nodes
  BY <1>2 DEF Visits, Sound
<1>4. Targets(a, l) \subseteq Having(l) /\ links[a][l] \in Seq(Having(l)) /\ Targets(a, l) \subseteq Nodes
  <2>1. Having(l) \subseteq Nodes
    BY NodesAre DEF Sound
  <2> QED
    BY <1>3, <2>1, TargetsHave DEF Sound, Linked
<1>5. /\ new \subseteq Targets(a, l) /\ valid \subseteq new
      /\ \A c \in valid : c \notin Hidden /\ Readable(c, l)
  OBVIOUS
<1>6. below \in Nat
  BY DEF Visits
<1> HIDE DEF below, new, valid
<1>7. /\ next \in Visits(l) /\ next.cand = v.cand \ {a} /\ next.best = v.best
  <2> DEFINE b == [v EXCEPT !.cand = v.cand \ {a}]
             c == [b EXCEPT !.low = v.low \ {a}]
             d == [c EXCEPT !.seen = v.seen \cup new]
             e == [d EXCEPT !.below = below]
             T == [cand : SUBSET Elements, low : SUBSET Elements, best : SUBSET Having(l),
                   seen : SUBSET Nodes, below : Nat, done : BOOLEAN]
  <2>1. v \in T /\ v.low \subseteq v.cand /\ v.seen \cup new \subseteq Nodes
    BY <1>4, <1>5 DEF Visits
  <2>2. b \in T /\ b.low = v.low /\ b.cand = v.cand \ {a} /\ b.seen = v.seen /\ b.best = v.best
    BY <2>1
  <2> HIDE DEF b
  <2>3. c \in T /\ c.low = v.low \ {a} /\ c.cand = v.cand \ {a} /\ c.seen = v.seen /\ c.best = v.best
    BY <2>1, <2>2
  <2> HIDE DEF c
  <2>4. d \in T /\ d.low = v.low \ {a} /\ d.cand = v.cand \ {a} /\ d.best = v.best
    BY <2>1, <2>3
  <2> HIDE DEF d
  <2>5. e \in T /\ e.low = v.low \ {a} /\ e.cand = v.cand \ {a} /\ e.best = v.best
    BY <1>6, <2>4
  <2>6. next = e
    BY <2>1 DEF b, c, d
  <2> HIDE DEF e, next
  <2>7. e \in Visits(l)
    BY <2>1, <2>5 DEF Visits
  <2> QED
    BY <2>5, <2>6, <2>7
<1>8. list \in Seq(Having(l)) /\ ToSet(list) \subseteq valid
  <2> DEFINE x == Kept(links[a][l], valid \ ok)
             y == Kept(links[a][l], valid \cap ok)
  <2>1. \A S : Kept(links[a][l], S) \in Seq(Having(l))
    <3>1. ASSUME NEW S PROVE Kept(links[a][l], S) \in Seq(S \cap Having(l))
      BY <1>4, KeptIn
    <3>2. \A S : Seq(S \cap Having(l)) \subseteq Seq(Having(l))
      OBVIOUS
    <3> QED
      BY <3>1, <3>2
  <2>2. x \in Seq(Having(l)) /\ y \in Seq(Having(l))
    BY <2>1
  <2>3. ToSet(x) \subseteq valid /\ ToSet(y) \subseteq valid
    BY <1>4, KeptSet DEF Targets
  <2> HIDE DEF x, y
  <2>4. x \o y \in Seq(Having(l)) /\ ToSet(x \o y) = ToSet(x) \cup ToSet(y)
    BY <2>2, JoinedSet, ConcatProperties
  <2> QED
    BY <2>3, <2>4 DEF x, y
<1> HIDE DEF list
<1>9. CASE below > patience
  <2>1. w.best = v.best /\ w.cand = v.cand
    BY <1>1, <1>9 DEF Visits
  <2> QED
    BY <2>1 DEF Spots
<1>10. CASE ~(below > patience)
  <2>1. Spots(next, n, l)
    BY <1>7 DEF Spots
  <2>2. ASSUME NEW c \in ToSet(list)
        PROVE  c \notin Hidden /\ Readable(c, l) /\ (c = n => Listed(n, l))
    <3>1. c \in Targets(a, l) /\ c \notin Hidden /\ Readable(c, l)
      BY <1>5, <1>8
    <3>2. CASE a = n
      BY <1>2, <3>1, <3>2 DEF Spots
    <3>3. CASE a # n
      BY <1>3, <3>1, <3>3 DEF Listed
    <3> QED
      BY <3>1, <3>2, <3>3
  <2> HIDE DEF next
  <2>3. Spots(Considered(next, list, p, ef, Nodes), n, l)
    BY <1>7, <1>8, <2>1, <2>2, ConsideredSpots
  <2> QED
    BY <1>1, <1>10, <2>3
<1> QED
  BY <1>9, <1>10

\* So a search that starts at an element other than n finds one other than n, first or second.
LEMMA SearchSpots ==
  ASSUME Sound, NEW l \in Levels, NEW ep \in Having(l), NEW n, ep # n, ep \notin Hidden, Readable(ep, l),
         NEW p \in Points, NEW ef \in Nat, ef > 1, NEW patience,
         NEW found, found = SearchLayer(ep, p, l, ef, Nodes, patience)
  PROVE  /\ found \in Seq(Having(l)) /\ Len(found) >= 1
         /\ found[1] # n \/ (Len(found) >= 2 /\ found[2] # n)
         /\ \A i \in 1..Len(found) : found[i] \notin Hidden /\ Readable(found[i], l)
         /\ (\E i \in 1..Len(found) : found[i] = n) => Listed(n, l)
<1>1. ep \in Elements /\ Capacity \in Nat /\ ep \in Nodes
  BY NodesAre DEF Sound, Having
<1>2. PICK run \in [0..Capacity -> Visits(l)] : IsSearch(run, ep, p, l, ef, Nodes, patience)
  BY <1>1, RunIs
<1>3. /\ run[0] = StartVisit(ep, l, Nodes)
      /\ \A i \in 1..Capacity :
           run[i] = IF run[i - 1].done \/ run[i - 1].cand = {} THEN run[i - 1]
                    ELSE Visit(run[i - 1], p, l, ef, Nodes, patience)
      /\ found = ByNearness(run[Capacity].best, p)
  BY <1>2 DEF IsSearch
<1> DEFINE A == [i \in 0..Capacity |-> {v \in Visits(l) : Spots(v, n, l)}]
<1>4. run[0] \in A[0]
  <2> DEFINE v == run[0]
  <2>1. v \in Visits(l) /\ 0 \in 0..Capacity
    BY <1>1, <1>2
  <2>2. v.cand = {ep} /\ v.best = {ep}
    <3>1. v = StartVisit(ep, l, Nodes)
      BY <1>3
    <3> HIDE DEF v
    <3> QED
      BY <1>1, <3>1 DEF StartVisit
  <2> HIDE DEF v
  <2>3. Spots(v, n, l)
    BY <2>2 DEF Spots
  <2> QED
    BY <2>1, <2>3 DEF v
<1>5. ASSUME NEW i \in 1..Capacity, run[i - 1] \in A[i - 1] PROVE run[i] \in A[i]
  <2> DEFINE v == run[i - 1]
             w == run[i]
  <2>1. i \in 0..Capacity /\ i - 1 \in 0..Capacity
    BY <1>1
  <2>2. v \in Visits(l) /\ Spots(v, n, l) /\ w \in Visits(l)
    BY <1>2, <1>5, <2>1
  <2>3. w = IF v.done \/ v.cand = {} THEN v ELSE Visit(v, p, l, ef, Nodes, patience)
    BY <1>3
  <2> HIDE DEF v, w
  <2>4. Spots(w, n, l)
    <3>1. CASE v.done \/ v.cand = {}
      BY <2>2, <2>3, <3>1
    <3>2. CASE ~(v.done \/ v.cand = {})
      BY <2>2, <2>3, <3>2, VisitSpots
    <3> QED
      BY <3>1, <3>2
  <2> QED
    BY <2>1, <2>2, <2>4 DEF w
<1>6. run[Capacity] \in A[Capacity]
  <2> HIDE DEF A
  <2> QED
    BY <1>1, <1>4, <1>5, Stages
<1> DEFINE v == run[Capacity]
           S == v.best
<1>7. v \in Visits(l) /\ Spots(v, n, l)
  BY <1>1, <1>6
<1> HIDE DEF v, A
<1>8. S \in SUBSET Having(l) /\ S \ {n} # {} /\ \A c \in S : c \notin Hidden /\ Readable(c, l)
  BY <1>7 DEF Visits, Spots
<1>9. n \in S => Listed(n, l)
  BY <1>7 DEF Spots
<1>10. found = ByNearness(S, p)
  BY <1>3 DEF v
<1> HIDE DEF S
<1>11. /\ S \in SUBSET Nat /\ IsFiniteSet(S) /\ (\A m \in S : at[m] \in Points) /\ S \in SUBSET Nodes
  BY <1>8, NodesAre DEF Sound, Having
<1>12. /\ found \in Seq(S) /\ Len(found) = Cardinality(S) /\ Cardinality(S) \in Nat
       /\ \A i, j \in 1..Cardinality(S) : found[i] = found[j] => i = j
  BY <1>10, <1>11, ByNearnessIs, CountsAre
<1>13. Cardinality(S) >= 1
  <2>1. PICK c \in S : c # n
    BY <1>8
  <2>2. Cardinality({c}) = 1 /\ {c} \in SUBSET S
    BY <2>1, FS_Singleton
  <2> QED
    BY <1>11, <1>12, <2>2, CountsAre
<1>14. \A i \in 1..Len(found) : found[i] \in S
  BY <1>12
<1>15. found[1] # n \/ (Len(found) >= 2 /\ found[2] # n)
  <2>1. CASE Cardinality(S) = 1
    <3>1. PICK c \in S : c # n
      BY <1>8
    <3>2. PICK x : S = {x}
      BY <1>11, <2>1, FS_Singleton
    <3>3. found[1] \in S
      BY <1>12, <1>14, <2>1
    <3> QED
      BY <3>1, <3>2, <3>3
  <2>2. CASE Cardinality(S) # 1
    <3>1. 1 \in 1..Cardinality(S) /\ 2 \in 1..Cardinality(S)
      BY <1>12, <1>13, <2>2
    <3> QED
      BY <1>12, <3>1
  <2> QED
    BY <2>1, <2>2
<1>16. found \in Seq(Having(l))
  BY <1>8, <1>12
<1> QED
  BY <1>8, <1>9, <1>12, <1>13, <1>14, <1>15, <1>16

\* One step of the choice of neighbours, and all of them.
Pick(s, c, p, m) ==
  IF Len(s.in) = m THEN s
  ELSE IF \A i \in DOMAIN s.in : Dist(at[s.in[i]], at[c]) >= Dist(p, at[c])
    THEN [s EXCEPT !.in = Append(@, c)]
  ELSE [s EXCEPT !.out = Append(@, c)]

Picked(cands, p, m) ==
  LET take(s, c) == Pick(s, c, p, m) IN FoldLeft(take, [in |-> <<>>, out |-> <<>>], cands)

Picks(X, m) == {s \in [in : Seq(X), out : Seq(X)] : Len(s.in) <= m}

\* A candidate is taken or put aside; the first is taken.
LEMMA PickIs ==
  ASSUME NEW X, NEW m \in Nat, NEW s \in Picks(X, m), NEW c \in X, NEW p
  PROVE  /\ Pick(s, c, p, m) \in Picks(X, m)
         /\ Len(Pick(s, c, p, m).in) >= Len(s.in)
         /\ \A i \in 1..Len(s.in) : Pick(s, c, p, m).in[i] = s.in[i]
         /\ Len(s.in) < m /\ (\A i \in 1..Len(s.in) : Dist(at[s.in[i]], at[c]) >= Dist(p, at[c])) =>
              Pick(s, c, p, m).in = Append(s.in, c)
<1> DEFINE good == \A i \in DOMAIN s.in : Dist(at[s.in[i]], at[c]) >= Dist(p, at[c])
           w == Pick(s, c, p, m)
<1>1. /\ s = [in |-> s.in, out |-> s.out] /\ s.in \in Seq(X) /\ s.out \in Seq(X)
      /\ Len(s.in) \in Nat /\ Len(s.in) <= m /\ DOMAIN s.in = 1..Len(s.in)
  BY DEF Picks
<1>2. w = IF Len(s.in) = m THEN s ELSE IF good THEN [s EXCEPT !.in = Append(s.in, c)]
          ELSE [s EXCEPT !.out = Append(s.out, c)]
  BY DEF Pick
<1>3. good <=> \A i \in 1..Len(s.in) : Dist(at[s.in[i]], at[c]) >= Dist(p, at[c])
  BY <1>1
<1> HIDE DEF good
<1>4. /\ Append(s.in, c) \in Seq(X) /\ Append(s.out, c) \in Seq(X) /\ Len(Append(s.in, c)) = Len(s.in) + 1
      /\ \A i \in 1..Len(s.in) : Append(s.in, c)[i] = s.in[i]
  BY <1>1
<1>5. CASE Len(s.in) = m
  <2>1. w = s
    BY <1>2, <1>5
  <2> QED
    BY <1>1, <1>5, <2>1
<1>6. CASE Len(s.in) # m /\ good
  <2>1. w = [in |-> Append(s.in, c), out |-> s.out]
    BY <1>1, <1>2, <1>6
  <2> HIDE DEF w
  <2>2. w.in = Append(s.in, c) /\ Len(w.in) = Len(s.in) + 1
    BY <1>4, <2>1
  <2>3. w \in Picks(X, m)
    BY <1>1, <1>4, <1>6, <2>1, <2>2 DEF Picks
  <2>4. Len(w.in) >= Len(s.in) /\ \A i \in 1..Len(s.in) : w.in[i] = s.in[i]
    BY <1>1, <1>4, <2>2
  <2> QED
    BY <2>2, <2>3, <2>4 DEF w
<1>7. CASE Len(s.in) # m /\ ~good
  <2>1. w = [in |-> s.in, out |-> Append(s.out, c)]
    BY <1>1, <1>2, <1>7
  <2> HIDE DEF w
  <2>2. w.in = s.in
    BY <2>1
  <2>3. w \in Picks(X, m)
    BY <1>1, <1>4, <2>1 DEF Picks
  <2> QED
    BY <1>1, <1>3, <1>7, <2>2, <2>3 DEF w
<1> QED
  BY <1>5, <1>6, <1>7

\* What the choice of neighbours goes through.
IsPicking(h, X, cands, p, m) ==
  /\ h \in [0..Len(cands) -> Picks(X, m)]
  /\ h[0] = [in |-> <<>>, out |-> <<>>] /\ Picked(cands, p, m) = h[Len(cands)]
  /\ \A i \in 1..Len(cands) : h[i] = Pick(h[i - 1], cands[i], p, m)

\* There is such a sequence of choices.
LEMMA PickedIs ==
  ASSUME NEW X, NEW cands \in Seq(X), NEW p, NEW m \in Nat
  PROVE  \E h : IsPicking(h, X, cands, p, m)
<1> DEFINE n == Len(cands)
           A == Picks(X, m)
           v == [in |-> <<>>, out |-> <<>>]
           take(w, c) == Pick(w, c, p, m)
           IsIter(f) == f = [q \in SUBSET DOMAIN cands |->
                               IF q = {} THEN v ELSE take(f[q \ {Max(q)}], cands[Max(q)])]
           iter == CHOOSE f : IsIter(f)
           step == [x \in (1..n) \X A |-> take(x[2], cands[x[1]])]
<1>1. n \in Nat /\ DOMAIN cands = 1..n /\ \A i \in 1..n : cands[i] \in X
  OBVIOUS
<1>2. Picked(cands, p, m) = iter[DOMAIN cands]
  BY Zenon DEF Picked, FoldLeft, MapThenFoldSet
<1>3. \A a \in A, c \in X : take(a, c) \in A
  BY PickIs
<1>4. \A i \in 1..n, a \in A : step[<<i, a>>] = take(a, cands[i])
  OBVIOUS
<1>5. v \in A
  BY DEF Picks
<1> HIDE DEF n, A, step, take, v
<1>6. PICK g \in [SUBSET (1..n) -> A] : IsFold(g, n, v, step)
  <2>1. \A i \in 1..n, a \in A : step[<<i, a>>] \in A
    BY <1>1, <1>3, <1>4
  <2> QED
    BY <1>1, <1>5, <2>1, FoldIn
<1>7. IsIter(g)
  <2>1. ASSUME NEW q \in SUBSET (1..n)
        PROVE  g[q] = IF q = {} THEN v ELSE take(g[q \ {Max(q)}], cands[Max(q)])
    <3>1. CASE q = {}
      BY <1>6, <3>1 DEF IsFold
    <3>2. CASE q # {}
      <4>1. Max(q) \in 1..n /\ q \ {Max(q)} \in SUBSET (1..n)
        BY <1>1, <3>2, MaxOf
      <4>2. g[q] = step[<<Max(q), g[q \ {Max(q)}]>>]
        BY <1>6, <3>2 DEF IsFold
      <4>3. g[q \ {Max(q)}] \in A
        BY <1>6, <4>1
      <4> QED
        BY <1>4, <3>2, <4>1, <4>2, <4>3
    <3> QED
      BY <3>1, <3>2
  <2> QED
    BY <1>1, <1>6, <2>1
<1>8. IsIter(iter)
  <2> HIDE DEF IsIter
  <2> QED
    BY <1>7
<1> HIDE DEF iter
<1> DEFINE h == [i \in 0..n |-> iter[1..i]]
<1>9. iter[{}] = v
  <2>1. {} \in SUBSET (1..n)
    OBVIOUS
  <2> QED
    BY <1>1, <1>8, <2>1
<1>10. ASSUME NEW i \in 1..n PROVE iter[1..i] = take(iter[1..(i - 1)], cands[i])
  <2>1. /\ 1..i \in SUBSET (1..n) /\ 1..i # {}
        /\ Max(1..i) = i /\ (1..i) \ {Max(1..i)} = 1..(i - 1)
    BY <1>1, PositionsUpTo
  <2>2. iter[1..i] = take(iter[(1..i) \ {Max(1..i)}], cands[Max(1..i)])
    BY <1>1, <1>8, <2>1
  <2> QED
    BY <2>1, <2>2
<1>11. h[0] = v
  <2>1. 1..0 = {} /\ 0 \in 0..n
    BY <1>1
  <2> QED
    BY <1>9, <2>1
<1>12. \A i \in 1..n : h[i] = take(h[i - 1], cands[i])
  <2>1. \A i \in 1..n : i \in 0..n /\ i - 1 \in 0..n
    BY <1>1
  <2> QED
    BY <1>10, <2>1
<1>13. h[n] = iter[DOMAIN cands] /\ h = [i \in 0..n |-> h[i]]
  BY <1>1
<1> HIDE DEF h
<1>14. ASSUME NEW k \in 0..n PROVE h[k] \in A
  <2> DEFINE B == [i \in 0..n |-> A]
  <2>1. h[0] \in B[0]
    BY <1>1, <1>5, <1>11
  <2>2. \A i \in 1..k : h[i - 1] \in B[i - 1] => h[i] \in B[i]
    <3>1. \A i \in 1..k : i \in 1..n /\ i \in 0..n /\ i - 1 \in 0..n
      BY <1>1
    <3> QED
      BY <1>1, <1>3, <1>12, <3>1
  <2>3. k \in Nat /\ B[k] = A
    BY <1>1
  <2> HIDE DEF B
  <2>4. h[k] \in B[k]
    BY <2>1, <2>2, <2>3, Stages
  <2> QED
    BY <2>3, <2>4
<1>15. h \in [0..n -> A]
  BY <1>13, <1>14
<1>16. IsPicking(h, X, cands, p, m)
  BY <1>2, <1>11, <1>12, <1>13, <1>15 DEF n, A, take, v, IsPicking
<1> QED
  BY <1>16

\* What is appended is at the end.
LEMMA AppendEnd ==
  ASSUME NEW X, NEW s \in Seq(X), NEW c \in X
  PROVE  Len(Append(s, c)) = Len(s) + 1 /\ Append(s, c)[Len(s) + 1] = c
  BY AppendProperties

\* The nearest candidate is chosen; so is the second, if the first is no nearer to it than the
\* element whose neighbours are chosen.
LEMMA DiverseStarts ==
  ASSUME NEW X, NEW cands \in Seq(X), Len(cands) >= 1, NEW p, NEW m \in Nat, m >= 1, NEW l,
         NEW d, d = Diverse(cands, p, m, l)
  PROVE  /\ d \in Seq(X) /\ Len(d) >= 1 /\ d[1] = cands[1]
         /\ m >= 2 /\ Len(cands) >= 2 /\ Dist(at[cands[1]], at[cands[2]]) >= Dist(p, at[cands[2]]) =>
              Len(d) >= 2 /\ d[2] = cands[2]
<1> DEFINE n == Len(cands)
           twice == m >= 2 /\ n >= 2 /\ Dist(at[cands[1]], at[cands[2]]) >= Dist(p, at[cands[2]])
           picked == Picked(cands, p, m)
           buffer == IF l = 0 THEN 2 * Backfill ELSE Backfill
           want == IF m > buffer THEN m - buffer ELSE 0
           room == IF want > Len(picked.in) THEN want - Len(picked.in) ELSE 0
           fill == SubSeq(picked.out, 1, IF room < Len(picked.out) THEN room ELSE Len(picked.out))
<1>1. d = IF Len(cands) <= m THEN cands ELSE picked.in \o fill
  BY Zenon DEF Diverse, Picked, Pick
<1>2. d \in Seq(X)
  BY DiverseIn
<1>3. n \in Nat /\ n >= 1 /\ \A i \in 1..n : cands[i] \in X
  OBVIOUS
<1> HIDE DEF picked
<1>4. PICK h : IsPicking(h, X, cands, p, m)
  BY PickedIs
<1>5. /\ h \in [0..n -> Picks(X, m)] /\ h[0] = [in |-> <<>>, out |-> <<>>] /\ picked = h[n]
      /\ \A i \in 1..n : h[i] = Pick(h[i - 1], cands[i], p, m)
  BY <1>4 DEF IsPicking, picked
<1> HIDE DEF n
<1> DEFINE Starts1(s) == Len(s.in) >= 1 /\ s.in[1] = cands[1]
           Starts2(s) == Len(s.in) >= 2 /\ s.in[2] = cands[2]
<1>6. h[1].in = <<cands[1]>>
  <2>1. h[0] \in Picks(X, m) /\ h[1] = Pick(h[0], cands[1], p, m) /\ cands[1] \in X /\ h[0].in = <<>>
    BY <1>3, <1>5
  <2>2. Len(h[0].in) = 0
    BY <2>1
  <2>3. h[1].in = Append(h[0].in, cands[1])
    BY <2>1, <2>2, PickIs
  <2> QED
    BY <2>1, <2>3
<1>7. ASSUME twice PROVE Len(h[2].in) = 2 /\ h[2].in[2] = cands[2]
  <2>1. h[1] \in Picks(X, m) /\ h[2] = Pick(h[1], cands[2], p, m) /\ cands[2] \in X
    BY <1>3, <1>5, <1>7
  <2>2. Len(h[1].in) = 1 /\ h[1].in[1] = cands[1]
    BY <1>6
  <2>3. \A i \in 1..Len(h[1].in) : Dist(at[h[1].in[i]], at[cands[2]]) >= Dist(p, at[cands[2]])
    BY <1>7, <2>2
  <2>4. h[2].in = Append(h[1].in, cands[2])
    <3>1. Len(h[1].in) < m
      BY <1>7, <2>2
    <3> HIDE DEF twice
    <3> QED
      <4> DEFINE s == h[1]
                 c == cands[2]
      <4>1. s \in Picks(X, m) /\ c \in X /\ Len(s.in) < m
        BY <2>1, <3>1
      <4>2. \A i \in 1..Len(s.in) : Dist(at[s.in[i]], at[c]) >= Dist(p, at[c])
        BY <2>3
      <4>3. h[2] = Pick(s, c, p, m)
        BY <2>1
      <4> HIDE DEF s, c
      <4>4. Pick(s, c, p, m).in = Append(s.in, c)
        BY <4>1, <4>2, PickIs
      <4> QED
        BY <4>3, <4>4 DEF s, c
  <2>5. Len(Append(h[1].in, cands[2])) = 2 /\ Append(h[1].in, cands[2])[2] = cands[2]
    <3> DEFINE s == h[1].in
    <3>1. s \in Seq(X) /\ Len(s) = 1 /\ cands[2] \in X
      BY <2>1, <2>2 DEF Picks
    <3> HIDE DEF s
    <3>2. Len(Append(s, cands[2])) = Len(s) + 1 /\ Append(s, cands[2])[Len(s) + 1] = cands[2]
      BY <3>1, AppendEnd
    <3> QED
      BY <3>1, <3>2 DEF s
  <2> HIDE DEF twice
  <2> QED
    BY <2>4, <2>5
<1> HIDE DEF twice
<1> DEFINE A == [i \in 0..n |-> {s \in Picks(X, m) : (i >= 1 => Starts1(s)) /\ (twice /\ i >= 2 => Starts2(s))}]
<1>8. h[0] \in A[0]
  BY <1>3, <1>5
<1>9. ASSUME NEW i \in 1..n, h[i - 1] \in A[i - 1] PROVE h[i] \in A[i]
  <2>1. i \in 0..n /\ i - 1 \in 0..n
    BY <1>3
  <2> DEFINE v == h[i - 1]
             w == h[i]
             c == cands[i]
  <2>2. v \in Picks(X, m) /\ (i - 1 >= 1 => Starts1(v)) /\ (twice /\ i - 1 >= 2 => Starts2(v))
    BY <1>9, <2>1
  <2>3. w = Pick(v, c, p, m) /\ w \in Picks(X, m) /\ c \in X
    BY <1>3, <1>5, <2>1
  <2>4. i = 1 => w.in = <<cands[1]>>
    BY <1>6
  <2>5. twice /\ i = 2 => Len(w.in) = 2 /\ w.in[2] = cands[2]
    BY <1>7
  <2> HIDE DEF v, w, c
  <2>6. Len(w.in) >= Len(v.in) /\ \A j \in 1..Len(v.in) : w.in[j] = v.in[j]
    BY <2>2, <2>3, PickIs
  <2>7. Len(v.in) \in Nat /\ Len(w.in) \in Nat
    BY <2>2, <2>3 DEF Picks
  <2>8. Starts1(w)
    <3>1. CASE i = 1
      BY <2>4, <3>1
    <3>2. CASE i # 1
      <4>1. i - 1 >= 1
        BY <1>3, <3>2
      <4> QED
        BY <2>2, <2>6, <2>7, <4>1
    <3> QED
      BY <3>1, <3>2
  <2>9. ASSUME twice, i >= 2 PROVE Starts2(w)
    <3>1. CASE i = 2
      BY <2>5, <2>9, <3>1
    <3>2. CASE i # 2
      <4>1. i - 1 >= 2
        BY <1>3, <2>9, <3>2
      <4> QED
        BY <2>2, <2>6, <2>7, <2>9, <4>1
    <3> QED
      BY <3>1, <3>2
  <2> HIDE DEF Starts1, Starts2
  <2>10. w \in A[i]
    BY <2>1, <2>3, <2>8, <2>9
  <2> QED
    BY <2>10 DEF w
<1>10. h[n] \in A[n]
  <2> HIDE DEF A
  <2> QED
    BY <1>3, <1>8, <1>9, Stages
<1>11. picked \in Picks(X, m) /\ Starts1(picked) /\ (twice => Starts2(picked))
  <2>1. n \in 0..n /\ (twice => n >= 2)
    BY <1>3 DEF twice, n
  <2> HIDE DEF Starts1, Starts2
  <2> QED
    BY <1>3, <1>5, <1>10, <2>1
<1> HIDE DEF A, fill
<1>12. CASE Len(cands) <= m
  BY <1>1, <1>2, <1>3, <1>12 DEF n, twice
<1>13. CASE ~(Len(cands) <= m)
  <2>1. d = picked.in \o fill
    BY <1>1, <1>13
  <2>2. picked.in \in Seq(X) /\ picked.out \in Seq(X)
    BY <1>11 DEF Picks
  <2>3. fill \in Seq(X)
    <3> DEFINE k == IF room < Len(picked.out) THEN room ELSE Len(picked.out)
    <3>1. Len(picked.out) \in Nat /\ Len(picked.in) \in Nat
      BY <2>2
    <3>2. want \in Nat
      BY GraphAssumption
    <3> HIDE DEF want
    <3>3. room \in Nat
      BY <3>1, <3>2
    <3> HIDE DEF room
    <3>4. k \in Nat /\ k <= Len(picked.out)
      BY <3>1, <3>3
    <3> HIDE DEF k
    <3>5. \A i \in 1..k : picked.out[i] \in X
      BY <2>2, <3>1, <3>4
    <3>6. SubSeq(picked.out, 1, k) \in Seq(X)
      BY <3>4, <3>5, SubSeqProperties
    <3> QED
      BY <3>6 DEF fill, k
  <2>4. /\ Len(d) = Len(picked.in) + Len(fill) /\ Len(fill) \in Nat /\ Len(picked.in) \in Nat
        /\ \A i \in 1..Len(picked.in) : d[i] = picked.in[i]
    BY <2>1, <2>2, <2>3
  <2> QED
    BY <1>2, <1>11, <2>4 DEF twice, n
<1> QED
  BY <1>12, <1>13

\* Its list at level l names the element itself, which has another neighbour there.
FoundAt(n, l) ==
  n \in Targets(n, l) /\ \E c \in Elements \ {n} : c \in Targets(n, l) \/ n \in Targets(c, l)

\* So it is at a level that the task has linked.
FoundAbove(k) ==
  \E l \in 1 .. level[k.node] : (l > k.lvl \/ (l = k.lvl /\ k.todo # <<>>)) /\ FoundAt(k.node, l)

\* What an update with a seed has to go on: the seed; then an unmarked element to search from, or
\* what it has linked; and at last the links.
Resumes(k) ==
  /\ k.pc \in {"unlink", "seek"} => k.node = entry /\ k.seed \in Elements \ marked /\ k.seed # k.node
  /\ k.pc \in {"seek", "link"} => at[k.node] = k.at
  /\ k.pc = "link" =>
       /\ \A b \in ToSet(k.todo) : b \in Targets(k.node, k.lvl) /\ b # k.node
       /\ \/ k.lvl = 0 /\ k.todo # <<>>
          \/ FoundAbove(k)
          \/ k.cur \in Elements \ marked /\ k.cur # k.node /\ Readable(k.cur, k.lvl)
  /\ k.pc \in {"entry", "top", "done"} => ~Alone(k.node) \/ FoundItself(k.node)

\* An addition that raises the level, and an update with a seed.
Goes(k) ==
  /\ k.pc = "entry" \/ (k.pc = "link" /\ k.raises) => maxLevel < level[k.node]
  /\ k.pc = "top" => entry = k.node
  /\ k.seed # None /\ k.node # 0 => Resumes(k)

\* As long as no two additions were under way at once, the only one goes on so.
Quiet ==
  ~overlap => /\ maxLevel <= level[entry]
              /\ \A t \in Threads : task[t] # Idle => Goes(task[t])
              /\ \A t, u \in Threads : task[t] # Idle /\ task[u] # Idle => t = u

QuietInv == LinkInv /\ Quiet

\* What the search or the relinking of a level leaves, whether or not more is to be relinked there.
Half(k) ==
  /\ at[k.node] = k.at
  /\ \A b \in ToSet(k.todo) : b \in Targets(k.node, k.lvl) /\ b # k.node
  /\ \/ k.lvl = 0 /\ ~Alone(k.node)
     \/ \E l \in 1 .. level[k.node] : l >= k.lvl /\ FoundAt(k.node, l)
     \/ k.lvl > 0 /\ k.cur \in Elements \ marked /\ k.cur # k.node /\ Readable(k.cur, k.lvl)

\* The fields of a task that goes on to the next level.
LEMMA AfterFields ==
  ASSUME NEW k, IsTask(k), k.pc = "link", NEW w, w = After(k)
  PROVE  /\ IsTask(w) /\ w.node = k.node /\ w.at = k.at /\ w.seed = k.seed /\ w.cur = k.cur /\ w.todo = k.todo
         /\ w.raises = k.raises
         /\ k.lvl > 0 => w.pc = "link" /\ w.lvl = k.lvl - 1
         /\ ~(k.lvl > 0) => w.pc = (IF k.raises THEN "entry" ELSE "done")
<1>1. CASE k.lvl > 0
  <2> DEFINE low == k.lvl - 1
  <2>1. w = [k EXCEPT !.lvl = low]
    BY <1>1 DEF After
  <2> HIDE DEF low
  <2>2. IsTask(w) /\ w.pc = "link" /\ w.lvl = low /\ w.node = k.node /\ w.at = k.at
    BY <2>1 DEF IsTask
  <2>3. w.seed = k.seed /\ w.cur = k.cur /\ w.todo = k.todo /\ w.raises = k.raises
    BY <2>1 DEF IsTask
  <2> QED
    BY <1>1, <2>2, <2>3 DEF low
<1>2. CASE ~(k.lvl > 0)
  <2> DEFINE pc == IF k.raises THEN "entry" ELSE "done"
  <2>1. w = [k EXCEPT !.pc = pc]
    BY <1>2 DEF After
  <2> HIDE DEF pc
  <2>2. IsTask(w) /\ w.pc = pc /\ w.lvl = k.lvl /\ w.node = k.node /\ w.at = k.at
    BY <2>1 DEF IsTask
  <2>3. w.seed = k.seed /\ w.cur = k.cur /\ w.todo = k.todo /\ w.raises = k.raises
    BY <2>1 DEF IsTask
  <2> QED
    BY <1>2, <2>2, <2>3 DEF pc
<1> QED
  BY <1>1, <1>2

\* From there the task goes on, at this level or the next.
LEMMA HalfGoes ==
  ASSUME NEW k, IsTask(k), k.pc = "link", k.lvl \in Nat, (level' = level), level[k.node] \in Nat,
         k.raises => maxLevel' < level'[k.node],
         k.seed # None /\ k.node # 0 => Half(k)',
         NEW w, w = IF k.todo = <<>> THEN After(k) ELSE k
  PROVE  Goes(w)'
<1>1. CASE k.todo # <<>>
  <2>1. w = k
    BY <1>1
  <2>2. ASSUME k.seed # None /\ k.node # 0 PROVE Resumes(k)'
    <3>1. Half(k)'
      BY <2>2
    <3>2. k.lvl = 0 \/ FoundAbove(k)' \/ (k.cur \in Elements \ marked /\ k.cur # k.node /\ Readable(k.cur, k.lvl))'
      BY <1>1, <3>1 DEF Half, FoundAbove
    <3> QED
      BY <1>1, <3>1, <3>2 DEF Half, Resumes
  <2> QED
    BY <2>1, <2>2 DEF Goes
<1>2. CASE k.todo = <<>>
  <2>1. w = After(k)
    BY <1>2
  <2>2. /\ w.node = k.node /\ w.at = k.at /\ w.seed = k.seed /\ w.cur = k.cur /\ w.todo = <<>>
        /\ w.raises = k.raises
        /\ k.lvl > 0 => w.pc = "link" /\ w.lvl = k.lvl - 1
        /\ ~(k.lvl > 0) => w.pc = (IF k.raises THEN "entry" ELSE "done")
    BY <1>2, <2>1, AfterFields
  <2>3. ASSUME k.seed # None /\ k.node # 0 PROVE Resumes(w)'
    <3>1. Half(k)'
      BY <2>3
    <3>2. CASE k.lvl > 0
      <4>1. w.pc = "link" /\ w.lvl = k.lvl - 1
        BY <2>2, <3>2
      <4>2. at'[w.node] = w.at /\ ToSet(w.todo) = {}
        BY <2>2, <3>1 DEF Half, ToSet
      <4>3. FoundAbove(w)' \/ (w.cur \in Elements \ marked /\ w.cur # w.node /\ Readable(w.cur, w.lvl))'
        <5>1. CASE (\E l \in 1 .. level[k.node] : l >= k.lvl /\ FoundAt(k.node, l))'
          <6>1. PICK l \in 1 .. level'[k.node] : l >= k.lvl /\ FoundAt(k.node, l)'
            BY <5>1
          <6>2. l > w.lvl /\ l \in 1 .. level'[w.node]
            BY <2>2, <4>1, <6>1
          <6>3. FoundAt(w.node, l)'
            BY <2>2, <6>1
          <6> QED
            BY <6>2, <6>3 DEF FoundAbove
        <5>2. CASE (k.cur \in Elements \ marked /\ k.cur # k.node /\ Readable(k.cur, k.lvl))'
          BY <2>2, <3>2, <4>1, <5>2 DEF Readable
        <5> QED
          BY <3>1, <3>2, <5>1, <5>2 DEF Half
      <4> QED
        BY <4>1, <4>2, <4>3 DEF Resumes
    <3>3. CASE ~(k.lvl > 0)
      <4>1. w.pc \in {"entry", "done"}
        BY <2>2, <3>3
      <4>2. (~Alone(w.node) \/ FoundItself(w.node))'
        BY <2>2, <3>1, <3>3 DEF Half, FoundItself, FoundAt
      <4> QED
        BY <4>1, <4>2 DEF Resumes
    <3> QED
      BY <3>2, <3>3
  <2>4. /\ w.pc = "entry" \/ (w.pc = "link" /\ w.raises) => k.raises
        /\ w.pc # "top"
    BY <2>2
  <2> QED
    BY <2>2, <2>3, <2>4 DEF Goes
<1> QED
  BY <1>1, <1>2

\* One list is written.
LEMMA SetTargets ==
  ASSUME Linked(links), NEW a \in Nodes, NEW l \in Levels, NEW list, links' = SetLinks(a, l, list)
  PROVE  \A m \in Nodes, j \in Levels :
           Targets(m, j)' = IF m = a /\ j = l THEN ToSet(list) ELSE Targets(m, j)
<1>1. links' = [links EXCEPT ![a] = [@ EXCEPT ![l] = list]]
  BY DEF SetLinks
<1>2. links = [m \in Nodes |-> links[m]] /\ \A m \in Nodes : links[m] = [j \in Levels |-> links[m][j]]
  BY DEF Linked
<1>3. \A m \in Nodes, j \in Levels : links'[m][j] = IF m = a /\ j = l THEN list ELSE links[m][j]
  BY <1>1, <1>2
<1> QED
  BY <1>3 DEF Targets

\* The element a level is searched from has a list there, or none that is read.
LEMMA CurHas ==
  ASSUME LinkInv, ~Undefined, NEW t \in Threads, NEW k, k = task[t], k.pc = "link", k.todo = <<>>
  PROVE  k.cur \in Elements /\ (Readable(k.cur, k.lvl) => k.cur \in Having(k.lvl))
<1>1. /\ k # Idle /\ k.node \in Elements /\ k.lvl \in Levels
      /\ k.cur = 0 \/ k.cur \in Having(k.lvl)
  BY BusyTask
<1>2. Elements \subseteq Nodes /\ level \in [Nodes -> Levels] /\ GraphInv
  BY SoundIs
<1>3. CASE k.cur \in Having(k.lvl)
  BY <1>3 DEF Having
<1>4. CASE k.cur = 0
  <2>1. 0 \in Elements
    <3>1. k.node \in 0..(count - 1) /\ count \in Nat
      BY <1>1, <1>2, GraphSizes DEF Elements, GraphInv, GraphTypeOK
    <3> QED
      BY <3>1 DEF Elements
  <2>2. ~(Readable(k.cur, k.lvl) /\ level[k.cur] < k.lvl)
    BY <1>1 DEF Undefined, Busy
  <2>3. level[0] \in Nat /\ k.lvl \in Nat
    BY <1>1, <1>2, <2>1, NodesAre
  <2> QED
    BY <1>4, <2>1, <2>2, <2>3 DEF Having
<1> QED
  BY <1>1, <1>3, <1>4

\* The unmarked elements are those that are not hidden.
LEMMA HiddenIs == LinkInv => Hidden = marked
<1> SUFFICES ASSUME LinkInv PROVE Hidden = marked
  OBVIOUS
<1>1. marked \subseteq Elements /\ deletions = Cardinality(marked) /\ Elements \subseteq Nodes
  BY SoundIs DEF GraphInv, GraphTypeOK
<1>2. IsFiniteSet(marked)
  BY <1>1, NodesAre
<1>3. deletions = 0 => marked = {}
  BY <1>1, <1>2, FS_EmptySet
<1> QED
  BY <1>3 DEF Hidden

\* What is chosen from a search that starts at an unmarked element other than n, whose place is
\* searched: an element other than n first, or n that another element lists; at the base, one
\* other than n.
LEMMA ChosenSpots ==
  ASSUME LinkInv, EfConstruct > 1, NEW l \in Levels, NEW ep \in Having(l), NEW n \in Elements, ep # n,
         ep \notin marked, Readable(ep, l), NEW found,
         found = SearchLayer(ep, at[n], l, EfConstruct, Nodes, PatienceIn),
         NEW chosen, chosen = Diverse(found, at[n], Degree(l), l)
  PROVE  /\ chosen \in Seq(Having(l)) /\ chosen # <<>> /\ chosen[1] \notin marked /\ Readable(chosen[1], l)
         /\ chosen[1] = n => Listed(n, l)
         /\ l = 0 => \E i \in 1..Len(chosen) : chosen[i] # n
<1> DEFINE p == at[n]
           m == Degree(l)
<1>1. Sound /\ p \in Points /\ EfConstruct \in Nat /\ Hidden = marked
  BY SoundIs, HiddenIs, GraphAssumption DEF Sound
<1> HIDE DEF p
<1>2. found = SearchLayer(ep, p, l, EfConstruct, Nodes, PatienceIn) /\ chosen = Diverse(found, p, m, l)
  BY DEF p
<1>3. m \in Nat /\ m >= 1 /\ (l = 0 => m >= 2)
  BY GraphAssumption DEF Degree
<1> HIDE DEF m
<1>4. /\ found \in Seq(Having(l)) /\ Len(found) >= 1
      /\ found[1] # n \/ (Len(found) >= 2 /\ found[2] # n)
      /\ \A i \in 1..Len(found) : found[i] \notin Hidden /\ Readable(found[i], l)
      /\ (\E i \in 1..Len(found) : found[i] = n) => Listed(n, l)
  BY <1>1, <1>2, SearchSpots
<1>5. /\ chosen \in Seq(Having(l)) /\ Len(chosen) >= 1 /\ chosen[1] = found[1]
      /\ m >= 2 /\ Len(found) >= 2 /\ Dist(at[found[1]], at[found[2]]) >= Dist(p, at[found[2]]) =>
           Len(chosen) >= 2 /\ chosen[2] = found[2]
  BY <1>2, <1>3, <1>4, DiverseStarts
<1>6. 1 \in 1..Len(found) /\ 1 \in 1..Len(chosen) /\ chosen # <<>>
  BY <1>4, <1>5
<1>7. chosen[1] \notin marked /\ Readable(chosen[1], l) /\ (chosen[1] = n => Listed(n, l))
  BY <1>1, <1>4, <1>5, <1>6
<1>8. ASSUME l = 0 PROVE \E i \in 1..Len(chosen) : chosen[i] # n
  <2>1. CASE found[1] # n
    BY <1>5, <1>6, <2>1
  <2>2. CASE found[1] = n
    <3>1. Len(found) >= 2 /\ found[2] # n /\ 2 \in 1..Len(found)
      BY <1>4, <2>2
    <3>2. at[found[1]] = p /\ at[found[2]] \in Points
      BY <1>1, <1>4, <2>2, <3>1 DEF p, Sound, Having
    <3>3. Dist(at[found[1]], at[found[2]]) >= Dist(p, at[found[2]])
      <4>1. Dist(p, at[found[2]]) \in Nat
        BY <1>1, <3>2, DistIsNat, GraphAssumption
      <4> QED
        BY <3>2, <4>1
    <3>4. Len(chosen) >= 2 /\ chosen[2] = found[2]
      BY <1>3, <1>5, <1>8, <3>1, <3>3
    <3>5. 2 \in 1..Len(chosen)
      BY <1>5, <3>4
    <3> QED
      BY <3>1, <3>4, <3>5
  <2> QED
    BY <2>1, <2>2
<1> QED
  BY <1>5, <1>6, <1>7, <1>8

\* A level is searched: what it leaves.
LEMMA LinkHalf ==
  ASSUME LinkInv, EfConstruct > 1, ~Undefined, NEW t \in Threads, Link(t), NEW k, k = task[t],
         k.seed # None, k.node # 0, Resumes(k),
         NEW next, next.node = k.node, next.at = k.at, next.lvl = k.lvl,
         NEW chosen,
         chosen = Diverse(SearchLayer(k.cur, k.at, k.lvl, EfConstruct, Nodes, PatienceIn), k.at,
                          Degree(k.lvl), k.lvl),
         chosen # <<>> => next.cur = Head(chosen),
         next.todo = Kept(chosen, Nodes \ {k.node})
  PROVE  Half(next)'
<1> DEFINE l == k.lvl
           n == k.node
           list == IF chosen = <<>> THEN links[n][l] ELSE chosen
           found == SearchLayer(k.cur, k.at, l, EfConstruct, Nodes, PatienceIn)
<1>1. /\ k.pc = "link" /\ k.todo = <<>>
      /\ links' = (IF chosen = <<>> THEN links ELSE SetLinks(k.node, k.lvl, chosen))
      /\ UNCHANGED <<count, level, at, marked>>
  BY DEF Link, elements, marks
<1>2. /\ n \in Elements /\ n \in Nodes /\ k.at \in Points /\ l \in Levels /\ l <= level[n]
  BY <1>1, BusyTask
<1>3. Sound /\ Elements \subseteq Nodes /\ level \in [Nodes -> Levels]
  BY SoundIs
<1>4. l \in Nat /\ level[n] \in Nat /\ \A j \in 1..level[n] : j \in Levels /\ j \in Nat
  <2>1. l \in Levels /\ level[n] \in Levels
    BY <1>2, <1>3
  <2>2. \A x \in Levels : x \in Nat /\ \A j \in 1..x : j \in Levels /\ j \in Nat
    BY NodesAre DEF Levels
  <2> QED
    BY <2>1, <2>2
<1>5. Elements' = Elements
  BY <1>1 DEF Elements
<1>6. at[n] = k.at /\ (FoundAbove(k) \/ (k.cur \in Elements \ marked /\ k.cur # n /\ Readable(k.cur, l)))
  BY <1>1 DEF Resumes
<1>7. k.cur \in Elements /\ (Readable(k.cur, l) => k.cur \in Having(l))
  BY <1>1, CurHas
<1>8. chosen \in Seq(Having(l))
  <2>1. found \in Seq(Having(l))
    BY <1>2, <1>3, <1>7, SearchLayerHas
  <2> HIDE DEF found
  <2>2. chosen = Diverse(found, k.at, Degree(l), l)
    BY DEF found
  <2> QED
    BY <1>2, <2>1, <2>2, DegreeIs, DiverseIn
<1>9. \A m \in Nodes, j \in Levels :
        Targets(m, j)' = IF m = n /\ j = l /\ chosen # <<>> THEN ToSet(chosen) ELSE Targets(m, j)
  <2>1. CASE chosen = <<>>
    BY <1>1, <2>1 DEF Targets
  <2>2. CASE chosen # <<>>
    <3>1. links' = SetLinks(n, l, chosen)
      BY <1>1, <2>2
    <3> QED
      BY <1>2, <1>3, <2>2, <3>1, SetTargets DEF Sound
  <2> QED
    BY <2>1, <2>2
<1>10. ToSet(next.todo) = (Nodes \ {n}) \cap ToSet(chosen)
  BY <1>8, KeptSet
<1>11. at'[next.node] = next.at
  BY <1>1, <1>6
<1>12. ASSUME NEW b \in ToSet(next.todo) PROVE b \in Targets(next.node, next.lvl)' /\ b # next.node
  <2>1. b \in ToSet(chosen) /\ b # n
    BY <1>10
  <2>2. chosen # <<>>
    BY <2>1 DEF ToSet
  <2> QED
    BY <1>2, <1>9, <2>1, <2>2
<1>13. \/ next.lvl = 0 /\ ~Alone(next.node)'
       \/ (\E j \in 1 .. level[next.node] : j >= next.lvl /\ FoundAt(next.node, j))'
       \/ next.lvl > 0 /\ (next.cur \in Elements \ marked /\ next.cur # next.node /\ Readable(next.cur, next.lvl))'
  <2>1. CASE FoundAbove(k)
    <3>1. PICK j \in 1..level[n] : j > l /\ FoundAt(n, j)
      BY <1>1, <2>1 DEF FoundAbove
    <3>2. j \in Levels /\ j # l
      BY <1>4, <3>1
    <3>3. \A m \in Nodes : Targets(m, j)' = Targets(m, j)
      BY <1>9, <3>2
    <3>4. FoundAt(n, j)'
      BY <1>2, <1>3, <1>5, <3>1, <3>3 DEF FoundAt
    <3>5. j >= l /\ j \in 1..level'[n]
      BY <1>1, <1>4, <3>1
    <3> QED
      BY <3>4, <3>5
  <2>2. CASE k.cur \in Elements \ marked /\ k.cur # n /\ Readable(k.cur, l)
    <3>1. /\ chosen # <<>> /\ chosen[1] \notin marked /\ Readable(chosen[1], l)
          /\ chosen[1] = n => Listed(n, l)
          /\ l = 0 => \E i \in 1..Len(chosen) : chosen[i] # n
      <4>1. k.cur \in Having(l) /\ k.cur # n /\ k.cur \notin marked /\ Readable(k.cur, l)
        BY <1>7, <2>2
      <4>2. found = SearchLayer(k.cur, at[n], l, EfConstruct, Nodes, PatienceIn)
        BY <1>6
      <4>3. chosen = Diverse(found, at[n], Degree(l), l)
        BY <1>6
      <4> HIDE DEF found, l, n
      <4> QED
        BY <1>2, <4>1, <4>2, <4>3, ChosenSpots
    <3>2. 1 \in 1..Len(chosen) /\ chosen[1] \in Having(l) /\ next.cur = chosen[1]
      <4>1. \A X : \A s \in Seq(X) : s # <<>> => 1 \in 1..Len(s) /\ Head(s) = s[1] /\ s[1] \in X
        OBVIOUS
      <4> QED
        BY <1>8, <3>1, <4>1
    <3>3. Targets(n, l)' = ToSet(chosen) /\ \A i \in 1..Len(chosen) : chosen[i] \in ToSet(chosen)
      <4>1. \A X : \A q \in Seq(X) : \A i \in 1..Len(q) : q[i] \in ToSet(q)
        BY DEF ToSet
      <4>2. Targets(n, l)' = ToSet(chosen)
        BY <1>2, <1>9, <3>1
      <4> QED
        BY <1>8, <4>1, <4>2
    <3>4. CASE l = 0
      BY <3>1, <3>3, <3>4 DEF Alone
    <3>5. CASE l # 0 /\ chosen[1] = n
      <4>1. PICK c \in Elements \ {n} : n \in Targets(c, l)
        BY <3>1, <3>5 DEF Listed
      <4>2. n \in Targets(n, l)' /\ n \in Targets(c, l)'
        BY <1>2, <1>3, <1>9, <3>2, <3>3, <3>5, <4>1
      <4>3. FoundAt(n, l)'
        BY <1>5, <4>1, <4>2 DEF FoundAt
      <4>4. l \in 1..level'[n] /\ l >= l
        BY <1>1, <1>2, <1>4, <3>5
      <4> QED
        BY <4>3, <4>4
    <3>6. CASE l # 0 /\ chosen[1] # n
      <4>1. l > 0
        BY <1>4, <3>6
      <4>2. next.cur \in Elements /\ next.cur \notin marked /\ next.cur # n /\ Readable(next.cur, l)
        BY <3>1, <3>2, <3>6 DEF Having
      <4>3. Readable(next.cur, l)'
        BY <1>1, <4>2 DEF Readable
      <4> QED
        BY <1>1, <1>5, <4>1, <4>2, <4>3
    <3> QED
      BY <3>4, <3>5, <3>6
  <2> QED
    BY <1>6, <2>1, <2>2
<1> QED
  BY <1>11, <1>12, <1>13 DEF Half

\* A neighbour is relinked: what it leaves.
LEMMA LinkBackHalf ==
  ASSUME LinkInv, NEW t \in Threads, LinkBack(t), NEW k, k = task[t],
         k.seed # None, k.node # 0, Resumes(k),
         NEW next, next.node = k.node, next.at = k.at, next.lvl = k.lvl, next.cur = k.cur,
         next.todo = Tail(k.todo)
  PROVE  Half(next)'
<1> DEFINE l == k.lvl
           n == k.node
           b == Head(k.todo)
           list == Relinked(b, n, l)
<1>1. /\ k.pc = "link" /\ k.todo # <<>>
      /\ links' = SetLinks(b, l, list)
      /\ UNCHANGED <<count, level, at, marked>>
  BY DEF LinkBack, elements, marks
<1>2. /\ n \in Elements /\ n \in Nodes /\ l \in Levels /\ l <= level[n] /\ k.todo \in Seq(Having(l))
  BY <1>1, BusyTask
<1>3. Sound /\ Elements \subseteq Nodes /\ level \in [Nodes -> Levels]
  BY SoundIs
<1>4. l \in Nat /\ level[n] \in Nat /\ \A j \in 1..level[n] : j \in Levels /\ j \in Nat
  <2>1. l \in Levels /\ level[n] \in Levels
    BY <1>2, <1>3
  <2>2. \A x \in Levels : x \in Nat /\ \A j \in 1..x : j \in Levels /\ j \in Nat
    BY NodesAre DEF Levels
  <2> QED
    BY <2>1, <2>2
<1>5. Elements' = Elements
  BY <1>1 DEF Elements
<1>6. b \in ToSet(k.todo) /\ b \in Having(l) /\ \A c \in ToSet(Tail(k.todo)) : c \in ToSet(k.todo)
  <2>1. \A X : \A s \in Seq(X) : s # <<>> =>
          /\ Head(s) \in X /\ Head(s) = s[1] /\ 1 \in 1..Len(s)
          /\ \A i \in 1..Len(Tail(s)) : Tail(s)[i] = s[i + 1] /\ i + 1 \in 1..Len(s)
          /\ Tail(s) \in Seq(X)
    OBVIOUS
  <2> QED
    BY <1>1, <1>2, <2>1 DEF ToSet
<1> HIDE DEF b, list
<1>7. /\ at[n] = k.at
      /\ \A c \in ToSet(k.todo) : c \in Targets(n, l) /\ c # n
      /\ l = 0 \/ FoundAbove(k) \/ (k.cur \in Elements \ marked /\ k.cur # n /\ Readable(k.cur, l))
  BY <1>1 DEF Resumes
<1>8. b \in Nodes /\ b \in Elements /\ b \in Targets(n, l) /\ b # n
  BY <1>3, <1>6, <1>7 DEF Having
<1>9. \A m \in Nodes, j \in Levels :
        Targets(m, j)' = IF m = b /\ j = l THEN ToSet(list) ELSE Targets(m, j)
  BY <1>1, <1>2, <1>3, <1>8, SetTargets DEF Sound
<1>10. at'[next.node] = next.at
  BY <1>1, <1>7
<1>11. \A j \in Levels : Targets(n, j)' = Targets(n, j)
  BY <1>2, <1>8, <1>9
<1>12. ASSUME NEW c \in ToSet(next.todo) PROVE c \in Targets(next.node, next.lvl)' /\ c # next.node
  BY <1>2, <1>6, <1>7, <1>11
<1>13. \/ next.lvl = 0 /\ ~Alone(next.node)'
       \/ (\E j \in 1 .. level[next.node] : j >= next.lvl /\ FoundAt(next.node, j))'
       \/ next.lvl > 0 /\ (next.cur \in Elements \ marked /\ next.cur # next.node /\ Readable(next.cur, next.lvl))'
  <2>1. CASE l = 0
    <3>1. b \in Targets(n, 0)'
      BY <1>2, <1>8, <1>11, <2>1
    <3> QED
      BY <1>8, <2>1, <3>1 DEF Alone
  <2>2. CASE FoundAbove(k)
    <3>1. PICK j \in 1..level[n] : j >= l /\ FoundAt(n, j)
      BY <1>4, <2>2 DEF FoundAbove
    <3>2. j \in Levels
      BY <1>4, <3>1
    <3>3. n \in Targets(n, j)' /\ Targets(n, j)' = Targets(n, j)
      BY <1>11, <3>1, <3>2 DEF FoundAt
    <3>4. \E c \in Elements \ {n} : c \in Targets(n, j)' \/ n \in Targets(c, j)'
      <4>1. CASE j = l
        BY <1>8, <3>3, <4>1
      <4>2. CASE j # l
        <5>1. \A m \in Nodes : Targets(m, j)' = Targets(m, j)
          BY <1>9, <3>2, <4>2
        <5> QED
          BY <1>3, <3>1, <3>3, <5>1 DEF FoundAt
      <4> QED
        BY <4>1, <4>2
    <3>5. FoundAt(n, j)'
      BY <1>5, <3>3, <3>4 DEF FoundAt
    <3>6. j >= l /\ j \in 1..level'[n]
      BY <1>1, <3>1
    <3> QED
      BY <3>5, <3>6
  <2>3. CASE l # 0 /\ k.cur \in Elements \ marked /\ k.cur # n /\ Readable(k.cur, l)
    <3>1. l > 0
      BY <1>4, <2>3
    <3>2. Readable(k.cur, l)'
      BY <1>1, <2>3 DEF Readable
    <3> QED
      BY <1>1, <1>5, <2>3, <3>1, <3>2
  <2> QED
    BY <1>7, <2>1, <2>2, <2>3
<1> QED
  BY <1>10, <1>12, <1>13 DEF Half

\* A thread that goes on is the only one.
LEMMA QuietMoves ==
  ASSUME QuietInv, overlap' = overlap, NEW t \in Threads, task[t] # Idle,
         NEW k, task' = [task EXCEPT ![t] = k],
         ~overlap => (maxLevel <= level[entry])' /\ (k # Idle => Goes(k)')
  PROVE  Quiet'
<1> SUFFICES ASSUME ~overlap
             PROVE  /\ (maxLevel <= level[entry])'
                    /\ \A u \in Threads : task'[u] # Idle => Goes(task[u])'
                    /\ \A u, v \in Threads : task'[u] # Idle /\ task'[v] # Idle => u = v
  BY DEF Quiet
<1>1. task'[t] = k /\ \A u \in Threads : u # t => task'[u] = task[u]
  BY DEF QuietInv, LinkInv, GraphInv, TasksOK
<1>2. \A u \in Threads : task[u] # Idle => u = t
  BY DEF QuietInv, Quiet
<1>3. \A u \in Threads : task'[u] # Idle => u = t
  BY <1>1, <1>2
<1>4. ASSUME NEW u \in Threads, task'[u] # Idle PROVE Goes(task[u])'
  <2>1. task'[u] = k /\ k # Idle
    BY <1>1, <1>3, <1>4
  <2> QED
    BY <2>1
<1> QED
  BY <1>3, <1>4

\* So is one that starts when none is busy.
LEMMA QuietStarts ==
  ASSUME QuietInv, overlap' = (overlap \/ Busy # {}), NEW t \in Threads,
         NEW k, task' = [task EXCEPT ![t] = k],
         ~overlap => (maxLevel <= level[entry])' /\ (k # Idle => Goes(k)')
  PROVE  Quiet'
<1> SUFFICES ASSUME ~overlap, Busy = {}
             PROVE  /\ (maxLevel <= level[entry])'
                    /\ \A u \in Threads : task'[u] # Idle => Goes(task[u])'
                    /\ \A u, v \in Threads : task'[u] # Idle /\ task'[v] # Idle => u = v
  BY DEF Quiet
<1>1. task'[t] = k /\ \A u \in Threads : u # t => task'[u] = task[u]
  BY DEF QuietInv, LinkInv, GraphInv, TasksOK
<1>2. \A u \in Threads : task'[u] # Idle => u = t
  BY <1>1 DEF Busy
<1>3. ASSUME NEW u \in Threads, task'[u] # Idle PROVE Goes(task[u])'
  <2>1. task'[u] = k /\ k # Idle
    BY <1>1, <1>2, <1>3
  <2> QED
    BY <2>1
<1> QED
  BY <1>2, <1>3

\* What a task of the only busy thread has to go on.
LEMMA QuietTask ==
  ASSUME QuietInv, ~overlap, NEW t \in Threads, NEW k, k = task[t],
         k.pc \in {"unlink", "seek", "link", "entry", "top", "done"}
  PROVE  k # Idle /\ Goes(k) /\ maxLevel <= level[entry]
<1>1. k # Idle
  BY DEF Idle
<1> QED
  BY <1>1 DEF QuietInv, Quiet

\* A level is unlinked.
LEMMA UnlinkKeepsQuiet ==
  ASSUME QuietInv, NEW t \in Threads, Unlink(t)
  PROVE  Quiet'
<1>1. PICK k : k = task[t]
  OBVIOUS
<1>2. /\ k.pc = "unlink" /\ UNCHANGED <<count, level, marked, entry, maxLevel, overlap>>
      /\ IF k.lvl < level[k.node]
           THEN task' = [task EXCEPT ![t] = [k EXCEPT !.lvl = k.lvl + 1]]
           ELSE /\ at' = [at EXCEPT ![k.node] = k.at]
                /\ task' = [task EXCEPT ![t] = [k EXCEPT !.pc = IF k.node = 0 THEN "done" ELSE "seek"]]
  BY <1>1 DEF Unlink, marks, tops, threads
<1>3. LinkInv /\ IsTask(k) /\ k # Idle /\ k.node \in Elements
  BY <1>1, <1>2, BusyTask DEF QuietInv
<1>4. k.node \in Nodes /\ at = [n \in Nodes |-> at[n]] /\ Elements' = Elements
  BY <1>2, <1>3, SoundIs DEF GraphInv, Placed, Elements
<1>5. PICK new : /\ task' = [task EXCEPT ![t] = new] /\ new.node = k.node /\ new.seed = k.seed
                 /\ \/ new.pc = "unlink"
                    \/ new.pc = "seek" /\ at'[k.node] = new.at
                    \/ new.pc = "done" /\ k.node = 0
  <2>1. CASE k.lvl < level[k.node]
    <3> DEFINE high == k.lvl + 1
               new == [k EXCEPT !.lvl = high]
    <3> HIDE DEF high
    <3>1. new.node = k.node /\ new.seed = k.seed /\ new.pc = "unlink"
      BY <1>2, <1>3 DEF IsTask
    <3>2. task' = [task EXCEPT ![t] = new]
      BY <1>2, <2>1 DEF high
    <3> HIDE DEF new
    <3> QED
      BY <3>1, <3>2
  <2>2. CASE ~(k.lvl < level[k.node])
    <3> DEFINE pc == IF k.node = 0 THEN "done" ELSE "seek"
               new == [k EXCEPT !.pc = pc]
    <3>1. pc = "seek" \/ (pc = "done" /\ k.node = 0)
      OBVIOUS
    <3>2. at'[k.node] = k.at /\ task' = [task EXCEPT ![t] = new]
      BY <1>2, <1>4, <2>2
    <3> HIDE DEF pc
    <3>3. new.node = k.node /\ new.seed = k.seed /\ new.pc = pc /\ new.at = k.at
      BY <1>3 DEF IsTask
    <3> HIDE DEF new
    <3> QED
      BY <3>1, <3>2, <3>3
  <2> QED
    BY <2>1, <2>2
<1>6. ASSUME ~overlap PROVE (maxLevel <= level[entry])' /\ Goes(new)'
  <2>1. Goes(k) /\ maxLevel <= level[entry]
    BY <1>1, <1>2, <1>6, QuietTask
  <2>2. ASSUME new.seed # None, new.node # 0 PROVE Resumes(new)'
    <3>1. Resumes(k)
      BY <1>5, <2>1, <2>2 DEF Goes
    <3>2. k.node = entry /\ k.seed \in Elements \ marked /\ k.seed # k.node
      BY <1>2, <3>1 DEF Resumes
    <3>3. new.pc = "unlink" \/ (new.pc = "seek" /\ at'[new.node] = new.at)
      BY <1>5, <2>2
    <3>4. (new.node = entry /\ new.seed \in Elements \ marked /\ new.seed # new.node)'
      BY <1>2, <1>4, <1>5, <3>2
    <3> QED
      BY <3>3, <3>4 DEF Resumes
  <2> QED
    BY <1>2, <1>5, <2>1, <2>2 DEF Goes
<1> QED
  BY <1>1, <1>2, <1>3, <1>5, <1>6, QuietMoves

\* The levels above are descended: an update with a seed starts at its top level, from the seed.
LEMMA SeekKeepsQuiet ==
  ASSUME QuietInv, NEW t \in Threads, Seek(t)
  PROVE  Quiet'
<1>1. PICK k : k = task[t]
  OBVIOUS
<1> DEFINE from == IF k.seed # None THEN k.seed ELSE entry
           first == Lower(maxLevel, level[from])
           to == Lower(level[k.node], first)
           cur == Descend(from, k.at, first, to)
           raises == level[k.node] > maxLevel
           next == [k EXCEPT !.pc = "link", !.lvl = to, !.cur = cur, !.raises = raises]
<1>2. /\ k.pc = "seek" /\ task' = [task EXCEPT ![t] = next]
      /\ UNCHANGED <<count, level, at, links, marked, entry, maxLevel, overlap>>
  BY <1>1 DEF Seek, elements, marks, tops, threads
<1>3. /\ LinkInv /\ IsTask(k) /\ k # Idle /\ k.node \in Elements /\ k.node \in Nodes /\ k.at \in Points
      /\ k.todo = <<>>
  BY <1>1, <1>2, BusyTask DEF QuietInv
<1>4. /\ Sound /\ Elements \subseteq Nodes /\ level \in [Nodes -> Levels] /\ GraphInv /\ Levels \subseteq Nat
  BY <1>3, SoundIs, NodesAre
<1>5. Elements' = Elements
  BY <1>2 DEF Elements
<1>6. maxLevel \in Levels
  BY <1>4 DEF GraphInv, GraphTypeOK
<1>7. ASSUME ~overlap, k.seed # None, k.node # 0
      PROVE  cur \in Elements \ marked /\ cur # k.node /\ Readable(cur, to) /\ at[k.node] = k.at
  <2>1. Resumes(k) /\ maxLevel <= level[entry]
    BY <1>1, <1>2, <1>7, QuietTask DEF Goes
  <2>2. k.node = entry /\ k.seed \in Elements \ marked /\ k.seed # k.node /\ at[k.node] = k.at
    BY <1>2, <2>1 DEF Resumes
  <2>3. from = k.seed
    BY <1>7
  <2> HIDE DEF from
  <2>4. level[from] \in Levels /\ level[k.node] \in Levels
    BY <1>4, <1>3, <2>2, <2>3
  <2>5. first \in Levels /\ from \in Having(first) /\ first <= level[k.node]
    <3>1. maxLevel \in Nat /\ level[from] \in Nat /\ level[k.node] \in Nat /\ maxLevel <= level[k.node]
      BY <1>4, <1>6, <2>1, <2>2, <2>4
    <3>2. (first = maxLevel \/ first = level[from]) /\ first <= maxLevel /\ first <= level[from]
      BY <3>1 DEF Lower
    <3>3. first \in Levels /\ from \in Elements
      BY <1>6, <2>2, <2>3, <2>4, <3>2
    <3> HIDE DEF first
    <3>4. first \in Nat /\ first <= level[k.node] /\ level[from] >= first
      BY <1>4, <3>1, <3>2, <3>3
    <3> QED
      BY <3>3, <3>4 DEF Having
  <2> HIDE DEF first
  <2>6. to = first /\ to \in 0..first
    <3>1. first \in Nat /\ level[k.node] \in Nat /\ first <= level[k.node]
      BY <1>4, <2>4, <2>5
    <3> QED
      BY <3>1 DEF Lower
  <2> HIDE DEF to
  <2>7. cur = from
    BY <1>3, <1>4, <2>5, <2>6, DescendHas
  <2> HIDE DEF cur
  <2>8. Readable(cur, to)
    <3>1. level[from] >= to /\ level[from] \in Nat /\ to \in Nat
      BY <1>4, <2>4, <2>5, <2>6 DEF Having
    <3> QED
      BY <2>7, <3>1 DEF Readable
  <2> QED
    BY <2>2, <2>3, <2>7, <2>8
<1> HIDE DEF from, first, to, cur
<1>8. raises => maxLevel < level[k.node]
  BY <1>3, <1>4, <1>6
<1> HIDE DEF raises
<1>9. /\ next.node = k.node /\ next.pc = "link" /\ next.todo = <<>> /\ next.at = k.at
      /\ next.seed = k.seed /\ next.lvl = to /\ next.cur = cur /\ next.raises = raises
  <2> DEFINE a == [k EXCEPT !.pc = "link"]
             b == [a EXCEPT !.lvl = to]
             c == [b EXCEPT !.cur = cur]
             d == [c EXCEPT !.raises = raises]
  <2>1. next = d
    BY <1>3 DEF IsTask
  <2>2. IsTask(a) /\ a.node = k.node /\ a.pc = "link" /\ a.seed = k.seed /\ a.todo = k.todo /\ a.at = k.at
    BY <1>3 DEF IsTask
  <2> HIDE DEF a, next
  <2>3. /\ IsTask(b) /\ b.node = k.node /\ b.pc = "link" /\ b.seed = k.seed /\ b.todo = k.todo /\ b.at = k.at
        /\ b.lvl = to
    BY <2>2 DEF IsTask
  <2> HIDE DEF b
  <2>4. /\ IsTask(c) /\ c.node = k.node /\ c.pc = "link" /\ c.seed = k.seed /\ c.todo = k.todo /\ c.at = k.at
        /\ c.lvl = to /\ c.cur = cur
    BY <2>3 DEF IsTask
  <2> HIDE DEF c
  <2>5. /\ d.node = k.node /\ d.pc = "link" /\ d.seed = k.seed /\ d.todo = k.todo /\ d.at = k.at
        /\ d.lvl = to /\ d.cur = cur /\ d.raises = raises
    BY <2>4 DEF IsTask
  <2> QED
    BY <1>3, <2>1, <2>5
<1> HIDE DEF next
<1>10. PICK new : new = next
  OBVIOUS
<1>11. ASSUME ~overlap PROVE (maxLevel <= level[entry])' /\ Goes(new)'
  <2>1. maxLevel <= level[entry]
    BY <1>1, <1>2, <1>11, QuietTask
  <2>2. ASSUME new.seed # None, new.node # 0 PROVE Resumes(new)'
    <3>1. cur \in Elements \ marked /\ cur # k.node /\ Readable(cur, to) /\ at[k.node] = k.at
      BY <1>7, <1>9, <1>10, <1>11, <2>2
    <3>2. (new.cur \in Elements \ marked /\ new.cur # new.node /\ Readable(new.cur, new.lvl))'
      BY <1>2, <1>5, <1>9, <1>10, <3>1 DEF Readable
    <3>3. at'[new.node] = new.at /\ ToSet(new.todo) = {} /\ new.pc = "link"
      BY <1>2, <1>9, <1>10, <3>1 DEF ToSet
    <3> QED
      BY <3>2, <3>3 DEF Resumes
  <2>3. new.pc = "link" /\ (new.raises => maxLevel' < level'[new.node])
    BY <1>2, <1>8, <1>9, <1>10
  <2> QED
    BY <1>2, <2>1, <2>2, <2>3 DEF Goes
<1>12. task' = [task EXCEPT ![t] = new]
  BY <1>2, <1>10
<1> QED
  BY <1>1, <1>2, <1>3, <1>11, <1>12, QuietMoves

\* A level is searched and the element's own list written.
LEMMA LinkKeepsQuiet ==
  ASSUME QuietInv, EfConstruct > 1, ~Undefined, NEW t \in Threads, Link(t)
  PROVE  Quiet'
<1>1. PICK k : k = task[t]
  OBVIOUS
<1> DEFINE chosen == Diverse(SearchLayer(k.cur, k.at, k.lvl, EfConstruct, Nodes, PatienceIn), k.at,
                             Degree(k.lvl), k.lvl)
           rest   == Kept(chosen, Nodes \ {k.node})
           cur    == IF chosen = <<>> THEN 0 ELSE Head(chosen)
           next   == [k EXCEPT !.cur = cur, !.todo = rest]
<1>2. /\ k.pc = "link" /\ task' = [task EXCEPT ![t] = IF rest = <<>> THEN After(next) ELSE next]
      /\ UNCHANGED <<level, entry, maxLevel, overlap>>
  BY <1>1 DEF Link, elements, tops, threads
<1>3. LinkInv /\ IsTask(k) /\ k # Idle /\ k.node \in Elements /\ k.lvl \in Levels
  BY <1>1, <1>2, BusyTask DEF QuietInv
<1>4. level[k.node] \in Nat /\ k.lvl \in Nat
  BY <1>3, SoundIs, NodesAre
<1>5. PICK ch : ch = chosen
  OBVIOUS
<1>6. rest = Kept(ch, Nodes \ {k.node}) /\ (ch # <<>> => cur = Head(ch))
  BY <1>5
<1>7. /\ ch = Diverse(SearchLayer(k.cur, k.at, k.lvl, EfConstruct, Nodes, PatienceIn), k.at,
                      Degree(k.lvl), k.lvl)
  BY <1>5
<1> HIDE DEF chosen, rest, cur
<1>8. /\ IsTask(next) /\ next.node = k.node /\ next.at = k.at /\ next.pc = "link" /\ next.todo = rest
      /\ next.seed = k.seed /\ next.lvl = k.lvl /\ next.cur = cur /\ next.raises = k.raises
  <2> DEFINE a == [k EXCEPT !.cur = cur]
  <2>1. next = [a EXCEPT !.todo = rest]
    BY <1>3 DEF IsTask
  <2>2. IsTask(a) /\ a.node = k.node /\ a.pc = "link" /\ a.cur = cur /\ a.seed = k.seed /\ a.lvl = k.lvl
    BY <1>2, <1>3 DEF IsTask
  <2>3. a.at = k.at /\ a.raises = k.raises
    BY <1>3 DEF IsTask
  <2> HIDE DEF a, next
  <2> QED
    BY <2>1, <2>2, <2>3 DEF IsTask
<1> HIDE DEF next
<1>9. PICK m : m = next
  OBVIOUS
<1>10. PICK new : new = (IF m.todo = <<>> THEN After(m) ELSE m)
  OBVIOUS
<1>11. ASSUME ~overlap PROVE (maxLevel <= level[entry])' /\ Goes(new)'
  <2>1. Goes(k) /\ maxLevel <= level[entry]
    BY <1>1, <1>2, <1>11, QuietTask
  <2>2. ASSUME m.seed # None, m.node # 0 PROVE Half(m)'
    <3>1. k.seed # None /\ k.node # 0 /\ Resumes(k)
      BY <1>8, <1>9, <2>1, <2>2 DEF Goes
    <3>2. /\ m.node = k.node /\ m.at = k.at /\ m.lvl = k.lvl /\ (ch # <<>> => m.cur = Head(ch))
          /\ m.todo = Kept(ch, Nodes \ {k.node})
      BY <1>6, <1>8, <1>9
    <3> QED
      BY <1>1, <1>3, <1>7, <3>1, <3>2, LinkHalf
  <2>3. m.raises => maxLevel' < level'[m.node]
    BY <1>2, <1>8, <1>9, <2>1 DEF Goes
  <2>4. Goes(new)'
    BY <1>2, <1>4, <1>8, <1>9, <1>10, <2>2, <2>3, HalfGoes
  <2> QED
    BY <1>2, <2>1, <2>4
<1>12. task' = [task EXCEPT ![t] = new]
  BY <1>2, <1>8, <1>9, <1>10
<1> QED
  BY <1>1, <1>2, <1>3, <1>11, <1>12, QuietMoves

\* A neighbour is relinked.
LEMMA LinkBackKeepsQuiet ==
  ASSUME QuietInv, NEW t \in Threads, LinkBack(t)
  PROVE  Quiet'
<1>1. PICK k : k = task[t]
  OBVIOUS
<1> DEFINE todo == Tail(k.todo)
           next == [k EXCEPT !.todo = todo]
<1>2. /\ k.pc = "link" /\ task' = [task EXCEPT ![t] = IF next.todo = <<>> THEN After(next) ELSE next]
      /\ UNCHANGED <<level, entry, maxLevel, overlap>>
  BY <1>1 DEF LinkBack, elements, tops, threads
<1>3. LinkInv /\ IsTask(k) /\ k # Idle /\ k.node \in Elements /\ k.lvl \in Levels
  BY <1>1, <1>2, BusyTask DEF QuietInv
<1>4. level[k.node] \in Nat /\ k.lvl \in Nat
  BY <1>3, SoundIs, NodesAre
<1> HIDE DEF todo
<1>5. /\ IsTask(next) /\ next.node = k.node /\ next.at = k.at /\ next.pc = "link" /\ next.todo = todo
      /\ next.seed = k.seed /\ next.lvl = k.lvl /\ next.cur = k.cur /\ next.raises = k.raises
  BY <1>2, <1>3 DEF IsTask
<1> HIDE DEF next
<1>6. PICK m : m = next
  OBVIOUS
<1>7. PICK new : new = (IF m.todo = <<>> THEN After(m) ELSE m)
  OBVIOUS
<1>8. ASSUME ~overlap PROVE (maxLevel <= level[entry])' /\ Goes(new)'
  <2>1. Goes(k) /\ maxLevel <= level[entry]
    BY <1>1, <1>2, <1>8, QuietTask
  <2>2. ASSUME m.seed # None, m.node # 0 PROVE Half(m)'
    <3>1. k.seed # None /\ k.node # 0 /\ Resumes(k)
      BY <1>5, <1>6, <2>1, <2>2 DEF Goes
    <3>2. /\ m.node = k.node /\ m.at = k.at /\ m.lvl = k.lvl /\ m.cur = k.cur /\ m.todo = Tail(k.todo)
      BY <1>5, <1>6 DEF todo
    <3> QED
      BY <1>1, <1>3, <3>1, <3>2, LinkBackHalf
  <2>3. m.raises => maxLevel' < level'[m.node]
    BY <1>2, <1>5, <1>6, <2>1 DEF Goes
  <2>4. Goes(new)'
    BY <1>2, <1>4, <1>5, <1>6, <1>7, <2>2, <2>3, HalfGoes
  <2> QED
    BY <1>2, <2>1, <2>4
<1>9. task' = [task EXCEPT ![t] = new]
  BY <1>2, <1>5, <1>6, <1>7
<1> QED
  BY <1>1, <1>2, <1>3, <1>8, <1>9, QuietMoves

\* The links of an element and its vector are as they were.
LEMMA StillFound ==
  ASSUME UNCHANGED <<count, level, links>>, NEW n, ~Alone(n) \/ FoundItself(n)
  PROVE  (~Alone(n) \/ FoundItself(n))'
<1>1. \A m, l : Targets(m, l)' = Targets(m, l)
  BY DEF Targets
<1>2. Elements' = Elements
  BY DEF Elements
<1> QED
  BY <1>1, <1>2 DEF Alone, FoundItself

\* The entry point and its level are written, and the addition ends.
LEMMA EndsKeepQuiet ==
  ASSUME QuietInv, NEW t \in Threads, SetEntry(t) \/ SetTop(t) \/ Return(t)
  PROVE  Quiet'
<1>1. PICK k : k = task[t]
  OBVIOUS
<1>2. /\ UNCHANGED <<count, level, at, links, marked, overlap>> /\ k.pc \in {"entry", "top", "done"}
  BY <1>1 DEF SetEntry, SetTop, Return, elements, marks, threads
<1>3. LinkInv /\ IsTask(k) /\ k # Idle /\ k.node \in Elements
  BY <1>1, <1>2, BusyTask DEF QuietInv
<1>4. entry \in Nodes /\ maxLevel \in Nat /\ level[k.node] \in Nat
  BY <1>3, SoundIs, NodesAre DEF GraphInv, GraphTypeOK
<1>5. PICK new : /\ task' = [task EXCEPT ![t] = new]
                 /\ \/ new = [k EXCEPT !.pc = "top"] /\ k.pc = "entry" /\ entry' = k.node /\ maxLevel' = maxLevel
                    \/ new = [k EXCEPT !.pc = "done"] /\ k.pc = "top" /\ entry' = entry /\ maxLevel' = level[k.node]
                    \/ new = Idle /\ entry' = entry /\ maxLevel' = maxLevel
  BY <1>1 DEF SetEntry, SetTop, Return, tops
<1>6. ASSUME ~overlap PROVE (maxLevel <= level[entry])' /\ (new # Idle => Goes(new)')
  <2>1. Goes(k) /\ maxLevel <= level[entry]
    BY <1>1, <1>2, <1>6, QuietTask
  <2>2. /\ k.pc = "entry" => maxLevel < level[k.node]
        /\ k.pc = "top" => entry = k.node
    BY <2>1 DEF Goes
  <2>3. (maxLevel <= level[entry])'
    BY <1>2, <1>4, <1>5, <2>1, <2>2
  <2>4. ASSUME new # Idle PROVE Goes(new)'
    <3>1. /\ new.node = k.node /\ new.seed = k.seed
          /\ (new.pc = "top" /\ entry' = k.node) \/ new.pc = "done"
      BY <1>3, <1>5, <2>4 DEF IsTask
    <3>2. ASSUME new.seed # None, new.node # 0 PROVE Resumes(new)'
      <4>1. Resumes(k)
        BY <2>1, <3>1, <3>2 DEF Goes
      <4>2. (~Alone(k.node) \/ FoundItself(k.node))'
        BY <1>2, <4>1, StillFound DEF Resumes
      <4> QED
        BY <3>1, <4>2 DEF Resumes
    <3> QED
      BY <3>1, <3>2 DEF Goes
  <2> QED
    BY <2>3, <2>4
<1> QED
  BY <1>1, <1>2, <1>3, <1>5, <1>6, QuietMoves

\* A new element is added.
LEMMA AddNewKeepsQuiet ==
  ASSUME QuietInv, NEW t \in Threads, NEW p \in Free, NEW l \in Levels, AddNew(t, p, l)
  PROVE  Quiet'
<1>1. PICK k : k = IF count = 0 THEN Idle ELSE Adding(count, p, "seek", None)
  OBVIOUS
<1>2. /\ task' = [task EXCEPT ![t] = k] /\ overlap' = (overlap \/ Busy # {})
      /\ level' = [level EXCEPT ![count] = l] /\ count < Capacity /\ UNCHANGED <<entry, maxLevel>>
  BY <1>1 DEF AddNew, tops
<1>3. GraphInv /\ level \in [Nodes -> Levels] /\ Elements \subseteq Nodes /\ Levels \subseteq Nat
  BY SoundIs, NodesAre DEF QuietInv
<1>4. count \in Nodes /\ count \notin Elements
  BY <1>2, <1>3, GraphSizes DEF GraphInv, GraphTypeOK
<1>5. ASSUME ~overlap PROVE (maxLevel <= level[entry])' /\ (k # Idle => Goes(k)')
  <2>1. maxLevel <= level[entry]
    BY <1>5 DEF QuietInv, Quiet
  <2>2. (maxLevel <= level[entry])'
    <3>1. CASE entry \in Elements
      <4>1. level'[entry] = level[entry]
        BY <1>2, <1>3, <1>4, <3>1
      <4> QED
        BY <1>2, <2>1, <4>1
    <3>2. CASE count = 0 /\ entry = 0 /\ maxLevel = 0
      <4>1. level'[entry] = l /\ l \in Nat
        BY <1>2, <1>3, <1>4, <3>2
      <4> QED
        BY <1>2, <3>2, <4>1
    <3> QED
      BY <1>3, <3>1, <3>2 DEF GraphInv, EntryMade
  <2>3. ASSUME k # Idle PROVE Goes(k)'
    <3>1. k.pc = "seek" /\ k.seed = None
      BY <1>1, <2>3 DEF Adding
    <3> QED
      BY <3>1 DEF Goes
  <2> QED
    BY <2>2, <2>3
<1> QED
  BY <1>2, <1>5, QuietStarts

\* An update starts.
LEMMA UpdateKeepsQuiet ==
  ASSUME QuietInv, NEW t \in Threads, NEW n \in Elements, NEW p, Update(t, n, p)
  PROVE  Quiet'
<1>1. PICK seed : seed = SeedOf(n)
  OBVIOUS
<1>2. PICK k : k = Adding(n, p, "unlink", seed)
  OBVIOUS
<1>3. /\ task' = [task EXCEPT ![t] = k] /\ overlap' = (overlap \/ Busy # {})
      /\ marked' = marked \ {n} /\ UNCHANGED <<count, level, entry, maxLevel>>
  BY <1>1, <1>2 DEF Update, tops
<1>4. seed = None \/ (n = entry /\ seed \in Elements \ (marked \cup {n}))
  BY <1>1, SeedIs DEF QuietInv
<1>5. k.pc = "unlink" /\ k.seed = seed /\ k.node = n
  BY <1>2 DEF Adding
<1>6. Elements' = Elements
  BY <1>3 DEF Elements
<1>7. ASSUME ~overlap PROVE (maxLevel <= level[entry])' /\ Goes(k)'
  <2>1. maxLevel <= level[entry]
    BY <1>7 DEF QuietInv, Quiet
  <2>2. ASSUME k.seed # None PROVE (k.node = entry /\ k.seed \in Elements \ marked /\ k.seed # k.node)'
    BY <1>3, <1>4, <1>5, <1>6, <2>2
  <2>3. k.seed # None => Resumes(k)'
    BY <1>5, <2>2 DEF Resumes
  <2> QED
    BY <1>3, <1>5, <2>1, <2>3 DEF Goes
<1> QED
  BY <1>3, <1>7, QuietStarts

\* Nothing changes.
LEMMA StillQuiet ==
  ASSUME QuietInv, UNCHANGED vars
  PROVE  Quiet'
<1>1. UNCHANGED <<count, level, at, links, marked, entry, maxLevel, task, overlap>>
  BY DEF vars, elements, marks, tops, threads
<1>2. Elements' = Elements /\ \A m, l : Targets(m, l)' = Targets(m, l)
  BY <1>1 DEF Elements, Targets
<1>3. \A m, l : FoundAt(m, l)' = FoundAt(m, l) /\ Readable(m, l)' = Readable(m, l)
  BY <1>1, <1>2 DEF FoundAt, Readable
<1>4. ASSUME NEW k, Goes(k) PROVE Goes(k)'
  <2>1. ASSUME Resumes(k) PROVE Resumes(k)'
    <3>1. FoundAbove(k) => FoundAbove(k)'
      BY <1>1, <1>3 DEF FoundAbove
    <3>2. ~Alone(k.node) \/ FoundItself(k.node) => (~Alone(k.node) \/ FoundItself(k.node))'
      BY <1>1, StillFound
    <3> QED
      BY <1>1, <1>2, <1>3, <2>1, <3>1, <3>2 DEF Resumes
  <2> QED
    BY <1>1, <1>4, <2>1 DEF Goes
<1>5. ASSUME NEW t \in Threads, Goes(task[t]) PROVE Goes(task[t])'
  <2>1. PICK k : k = task[t]
    OBVIOUS
  <2>2. Goes(k)' /\ task'[t] = k
    BY <1>1, <1>4, <1>5, <2>1
  <2> QED
    BY <2>2
<1> QED
  BY <1>1, <1>5 DEF QuietInv, Quiet

\* An element is marked deleted between additions.
LEMMA MarkKeepsQuiet ==
  ASSUME QuietInv, NEW n \in Elements, MarkDelete(n)
  PROVE  Quiet'
<1>1. UNCHANGED <<count, level, entry, maxLevel, task, overlap>> /\ Busy = {}
  BY DEF MarkDelete, elements, tops, threads
<1>2. \A t \in Threads : task'[t] = Idle
  BY <1>1 DEF Busy
<1> QED
  BY <1>1, <1>2 DEF QuietInv, Quiet

\* The empty graph.
LEMMA InitQuiet == GraphInit => QuietInv
<1> SUFFICES ASSUME GraphInit PROVE QuietInv
  OBVIOUS
<1>1. LinkInv
  BY InitLinkInv
<1>2. maxLevel = 0 /\ level[entry] = 0 /\ \A t \in Threads : task[t] = Idle
  BY GraphAssumption DEF GraphInit, Nodes
<1> QED
  BY <1>1, <1>2 DEF QuietInv, Quiet

\* Every step keeps the only addition going, if the search of its place has room for two results.
LEMMA StepKeepsQuiet == EfConstruct > 1 /\ QuietInv /\ [GraphNext]_vars => QuietInv'
<1> SUFFICES ASSUME EfConstruct > 1, QuietInv, [GraphNext]_vars PROVE QuietInv'
  OBVIOUS
<1>1. LinkInv'
  BY StepKeepsLinkInv DEF QuietInv
<1>2. CASE UNCHANGED vars
  BY <1>1, <1>2, StillQuiet DEF QuietInv
<1>3. ASSUME ~Undefined, NEW t \in Threads, Step(t) PROVE QuietInv'
  BY <1>1, <1>3, UnlinkKeepsQuiet, SeekKeepsQuiet, LinkKeepsQuiet, LinkBackKeepsQuiet, EndsKeepQuiet
     DEF Step, QuietInv
<1>4. ASSUME NEW t \in Threads, NEW p \in Free, NEW l \in Levels, AddNew(t, p, l) PROVE QuietInv'
  BY <1>1, <1>4, AddNewKeepsQuiet DEF QuietInv
<1>5. ASSUME NEW t \in Threads, NEW n \in Elements, NEW p \in Free \cup {at[n]}, Update(t, n, p)
      PROVE  QuietInv'
  BY <1>1, <1>5, UpdateKeepsQuiet DEF QuietInv
<1>6. ASSUME NEW n \in Elements, MarkDelete(n) PROVE QuietInv'
  BY <1>1, <1>6, MarkKeepsQuiet DEF QuietInv
<1> QED
  BY <1>2, <1>3, <1>4, <1>5, <1>6 DEF GraphNext

\* An entry point that is updated is linked again, however many levels, links and elements there are,
\* if it found a live neighbour to start from, no two additions were ever under way at once and a
\* search has room for two results; element 0, and one that its search found itself, excepted.
THEOREM SeedAlwaysReinserted == EfConstruct > 1 => (GraphSpec => []SeedReinserted)
<1> SUFFICES ASSUME EfConstruct > 1 PROVE GraphSpec => []SeedReinserted
  OBVIOUS
<1>1. QuietInv /\ [GraphNext]_vars => QuietInv'
  BY StepKeepsQuiet
<1>2. QuietInv => SeedReinserted
  <2> SUFFICES ASSUME QuietInv, NEW t \in Busy, ~overlap, task[t].pc = "done", task[t].seed # None,
                      task[t].node # 0
               PROVE  ~Alone(task[t].node) \/ FoundItself(task[t].node)
    BY DEF SeedReinserted
  <2>1. Goes(task[t])
    BY DEF QuietInv, Quiet, Busy
  <2> QED
    BY <2>1 DEF Goes, Resumes
<1> QED
  BY <1>1, <1>2, InitQuiet, PTL DEF GraphSpec
===============================================================================

-------------------------- MODULE ThreadPoolProofs --------------------------
(***************************************************************************)
(* Proofs about ThreadPool for any number of clients, workers and tasks:   *)
(* types, with the places a thread can be in (Flow); that every task is in *)
(* one place (Once); and that the destructor leaves no task behind, as no  *)
(* wakeup is lost and no worker that stays is flagged (Watch).             *)
(***************************************************************************)
EXTENDS ThreadPool, DataLemmas

Gone == {"none", "exited"}

\* A worker has a task from popping to completing it, through the loop inside,
\* and is registered all the time: where others help, it blocks.
WorkerFits(p, t, r) ==
    /\ p \in WorkerPlaces
    /\ t # None <=> p \in {"run", "chunk", "serial", "enqueue", "notify", "block",
                         "complete"}
    /\ p \notin Gone \union {"start"} => r >= 1

\* A client has a task only while it helps, and is registered just then.
ClientFits(c, p, t, r) ==
    /\ p \in ClientPlaces \/ (c = Owner /\ p \in OwnerPlaces)
    /\ t # None <=> p \in {"enlist", "run", "complete"}
    /\ r = IF p \in {"run", "complete", "retire"} THEN 1 ELSE 0

\* What is left to hand out is left to a thread that is in its loop.
LeftFits(p, l) ==
    /\ p \notin {"chunk", "serial", "enqueue", "notify", "enqueue fired"} => l = {}
    /\ p = "enqueue" => l # {}
    /\ p = "enqueue fired" => \E k \in Tasks : l = {k}

\* Thread x may be at p with task t and the tasks of l left, registered r times.
Fits(x, p, t, l, r) ==
    /\ x \in Workers => WorkerFits(p, t, r)
    /\ x \in Clients => ClientFits(x, p, t, r)
    /\ LeftFits(p, l)

\* Beyond the size, or the size that is just being set, there are no threads.
NewSize == IF pc[Owner] = "set size" THEN goal ELSE size
GoneOK == \A w \in Workers : w > NewSize => pc[w] \in Gone

Flow ==
    /\ TypeOK
    /\ \A x \in Threads : Fits(x, pc[x], cur[x], left[x], registered[x])
    /\ GoneOK

USE DEF Set, To, Goto, Gone, InLoop

\* Clients are no workers, and nobody is None.
LEMMA ThreadKinds ==
    /\ Owner \in Clients /\ Owner \in Threads /\ Threads = Clients \union Workers
    /\ \A x \in Clients : x \notin Workers
    /\ \A w \in Workers : w \in Nat /\ w > 0 /\ w <= MaxWorkers
    /\ \A x \in Threads : x # None
    /\ None \notin Tasks /\ Tasks \subseteq Nat
    /\ MaxWorkers \in Nat
  <1>1. \A w \in Workers : w \in Nat /\ w > 0 /\ w <= MaxWorkers
    BY ThreadPoolAssumption DEF Workers
  <1>2. \A x \in Clients : x \notin Int
    BY ThreadPoolAssumption
  <1>3. \A x \in Clients : x \notin Workers
    BY <1>1, <1>2
  <1> QED
    BY <1>1, <1>3, ThreadPoolAssumption DEF Threads
-----------------------------------------------------------------------------
(* Types and places.  Most steps are one thread's, x; all that happens to    *)
(* others, those of W, is that they are woken up.                            *)

Moves(x, W, p, t, l, r) ==
    /\ pc' = [y \in Threads |-> IF y = x THEN p ELSE IF y \in W THEN "lock" ELSE pc[y]]
    /\ cur' = [cur EXCEPT ![x] = t]
    /\ left' = [left EXCEPT ![x] = l]
    /\ registered' = [registered EXCEPT ![x] = r]

PoolTyped ==
    /\ queue \in Seq(Tasks) /\ done \subseteq Tasks /\ mutex \in Workers \union {None}
    /\ size \in 0..MaxWorkers /\ flag \in [Workers -> BOOLEAN] /\ isDone \in BOOLEAN
    /\ issued \subseteq Tasks /\ goal \in 0..MaxWorkers /\ resizes \in 0..MaxResizes

\* A step of x leaves types and places right if it puts x where x fits, and
\* no thread beyond the size comes to life.
LEMMA MoveFlow ==
    ASSUME Flow, NEW x \in Threads, NEW W \in SUBSET Asleep, NEW p,
           NEW t \in Tasks \union {None}, NEW l \in SUBSET Tasks, NEW r \in Nat,
           Moves(x, W, p, t, l, r), Fits(x, p, t, l, r), PoolTyped', pc[x] \notin Gone,
           \A w \in Workers : w > NewSize' => w > NewSize \/ pc[w] \in Gone
    PROVE  Flow'
  <1> USE ThreadKinds
  <1>1. pc'[x] = p /\ cur'[x] = t /\ left'[x] = l /\ registered'[x] = r
    BY DEF Flow, TypeOK, Moves
  <1>2. \A y \in Threads \ {x} : /\ cur'[y] = cur[y] /\ left'[y] = left[y]
                                 /\ registered'[y] = registered[y]
                                 /\ pc'[y] = IF y \in W THEN "lock" ELSE pc[y]
    BY DEF Flow, TypeOK, Moves
  <1>3. ASSUME NEW y \in W PROVE Fits(y, "lock", cur[y], left[y], registered[y])
    <2>1. y \in Workers /\ y \in Threads /\ pc[y] = "asleep"
      BY DEF Asleep
    <2>2. Fits(y, pc[y], cur[y], left[y], registered[y])
      BY <2>1 DEF Flow
    <2> QED
      BY <2>1, <2>2 DEF Fits, WorkerFits, LeftFits, WorkerPlaces
  <1>4. \A y \in Threads : Fits(y, pc'[y], cur'[y], left'[y], registered'[y])
    <2> SUFFICES ASSUME NEW y \in Threads PROVE Fits(y, pc'[y], cur'[y], left'[y], registered'[y])
      OBVIOUS
    <2>1. CASE y = x
      BY <1>1, <2>1
    <2>2. CASE y \in W /\ y # x
      BY <1>2, <1>3, <2>2
    <2>3. CASE y \notin W /\ y # x
      BY <1>2, <2>3 DEF Flow
    <2> QED
      BY <2>1, <2>2, <2>3
  <1>5. \A y \in Threads : pc'[y] \in WorkerPlaces \union ClientPlaces \union OwnerPlaces
    BY <1>4 DEF Fits, WorkerFits, ClientFits
  <1>6. TypeOK'
    <2>1. pc' \in [Threads -> WorkerPlaces \union ClientPlaces \union OwnerPlaces]
      BY <1>5 DEF Moves
    <2>2. /\ cur' \in [Threads -> Tasks \union {None}] /\ left' \in [Threads -> SUBSET Tasks]
          /\ registered' \in [Threads -> Nat]
      BY DEF Moves, Flow, TypeOK
    <2> QED
      BY <2>1, <2>2 DEF PoolTyped, TypeOK
  <1>7. GoneOK'
    <2> SUFFICES ASSUME NEW w \in Workers, w > NewSize' PROVE pc'[w] \in Gone
      BY DEF GoneOK
    <2>1. pc[w] \in Gone /\ w \in Threads
      BY DEF Flow, GoneOK
    <2>2. w # x /\ w \notin W
      BY <2>1 DEF Asleep
    <2> QED
      BY <1>2, <2>1, <2>2
  <1> QED
    BY <1>4, <1>6, <1>7 DEF Flow

\* Most steps leave the sizes alone.
LEMMA StepFlow ==
    ASSUME Flow, NEW x \in Threads, NEW W \in SUBSET Asleep, NEW p,
           NEW t \in Tasks \union {None}, NEW l \in SUBSET Tasks, NEW r \in Nat,
           Moves(x, W, p, t, l, r), Fits(x, p, t, l, r), PoolTyped', UNCHANGED <<size, goal>>,
           pc[x] \notin Gone \union {"set size"}, p # "set size"
    PROVE  Flow'
  <1>1. NewSize' = NewSize
    BY ThreadKinds DEF NewSize, Moves, Asleep
  <1> QED
    BY <1>1, MoveFlow

\* The task that is handed out next is one of those left.
LEMMA NextOfLoop ==
    ASSUME TypeOK, NEW x \in Threads, left[x] # {}
    PROVE  /\ Min(left[x]) \in left[x] /\ Min(left[x]) \in Tasks
           /\ Append(queue, Min(left[x])) \in Seq(Tasks)
  <1>1. Min(left[x]) \in left[x] /\ Min(left[x]) \in Tasks
    BY ThreadKinds, MinOf DEF TypeOK
  <1> QED
    BY <1>1 DEF TypeOK

\* So is the task that is popped one of those queued.
LEMMA NextOfQueue ==
    ASSUME TypeOK, queue # <<>>
    PROVE  Head(queue) \in Tasks /\ Tail(queue) \in Seq(Tasks)
  BY DEF TypeOK

\* What a step may presume of its thread.
LEMMA Here ==
    ASSUME Flow, NEW x \in Threads
    PROVE  /\ TypeOK /\ PoolTyped /\ Fits(x, pc[x], cur[x], left[x], registered[x])
           /\ cur[x] \in Tasks \union {None} /\ left[x] \in SUBSET Tasks
           /\ registered[x] \in Nat
           /\ DOMAIN pc = Threads /\ pc = [y \in Threads |-> pc[y]]
           /\ cur = [cur EXCEPT ![x] = cur[x]] /\ left = [left EXCEPT ![x] = left[x]]
           /\ registered = [registered EXCEPT ![x] = registered[x]]
  BY DEF Flow, TypeOK, PoolTyped

\* The steps of loops and of those who help.
LEMMA LoopFlow ==
    ASSUME Flow, NEW x \in Threads, LoopStep(x)
    PROVE  Flow'
  <1> USE ThreadKinds DEF pool, owner
  <1> DEFINE t == cur[x]
             l == left[x]
             r == registered[x]
  <1>1. /\ TypeOK /\ PoolTyped /\ Fits(x, pc[x], t, l, r)
        /\ t \in Tasks \union {None} /\ l \in SUBSET Tasks /\ r \in Nat
    BY Here
  <1>2. /\ DOMAIN pc = Threads /\ pc = [y \in Threads |-> pc[y]] /\ cur = [cur EXCEPT ![x] = t]
        /\ left = [left EXCEPT ![x] = l] /\ registered = [registered EXCEPT ![x] = r]
    BY Here
  <1>3. CASE Enlist(x)
    <2>1. Moves(x, {}, "run", t, l, r + 1)
      BY <1>2, <1>3 DEF Enlist, Moves
    <2>2. Fits(x, "run", t, l, r + 1) /\ r + 1 \in Nat
      BY <1>1, <1>3 DEF Enlist, Fits, WorkerFits, ClientFits, LeftFits,
           WorkerPlaces, ClientPlaces, OwnerPlaces
    <2>3. PoolTyped' /\ UNCHANGED <<size, goal>>
      BY <1>1, <1>3 DEF Enlist, PoolTyped
    <2> QED
      BY <1>1, <1>3, <2>1, <2>2, <2>3, StepFlow DEF Enlist
  <1>4. CASE Retire(x)
    <2>1. Moves(x, {}, "help", t, l, r - 1)
      BY <1>2, <1>4 DEF Retire, Moves
    <2>2. Fits(x, "help", t, l, r - 1) /\ r - 1 \in Nat
      BY <1>1, <1>4 DEF Retire, Fits, WorkerFits, ClientFits, LeftFits,
           WorkerPlaces, ClientPlaces, OwnerPlaces
    <2>3. PoolTyped' /\ UNCHANGED <<size, goal>>
      BY <1>1, <1>4 DEF Retire, PoolTyped
    <2> QED
      BY <1>1, <1>4, <2>1, <2>2, <2>3, StepFlow DEF Retire
  <1>5. CASE Wait(x)
    <2>1. Moves(x, {}, IF is_worker(x) THEN "block" ELSE "help", t, l, r)
      BY <1>2, <1>5 DEF Wait, is_worker, Moves
    <2>2. Fits(x, IF is_worker(x) THEN "block" ELSE "help", t, l, r)
      <3>1. CASE x \in Workers
        <4>1. (pc[x] = "chunk" \/ pc[x] = "serial") /\ l = {} /\ WorkerFits(pc[x], t, r)
          BY <1>1, <1>5, <3>1 DEF Wait, Fits
        <4>2. r >= 1 /\ t # None
          BY <4>1 DEF WorkerFits
        <4>3. is_worker(x)
          BY <1>1, <4>2 DEF is_worker
        <4>4. WorkerFits("block", t, r)
          BY <4>2 DEF WorkerFits, WorkerPlaces
        <4> QED
          BY <3>1, <4>1, <4>3, <4>4 DEF Fits, LeftFits
      <3>2. CASE x \in Clients
        <4>1. ~is_worker(x) /\ ClientFits(x, "help", t, r) /\ LeftFits("help", l)
          BY <1>1, <1>5, <3>2 DEF Wait, is_worker, Fits, ClientFits, LeftFits,
               ClientPlaces, OwnerPlaces
        <4> QED
          BY <3>2, <4>1 DEF Fits
      <3> QED
        BY <3>1, <3>2
    <2>3. PoolTyped' /\ UNCHANGED <<size, goal>>
      BY <1>1, <1>5 DEF Wait, is_worker, PoolTyped
    <2>4. pc[x] \in InLoop
      BY <1>5 DEF Wait
    <2> QED
      BY <1>1, <2>1, <2>2, <2>3, <2>4, StepFlow
  <1>6. CASE Awake(x)
    <2>1. Moves(x, {}, IF t = None THEN "idle" ELSE "complete", t, l, r)
      BY <1>2, <1>6 DEF Awake, Moves
    <2>2. Fits(x, IF t = None THEN "idle" ELSE "complete", t, l, r)
      BY <1>1, <1>6 DEF Awake, Fits, WorkerFits, ClientFits, LeftFits,
           WorkerPlaces, ClientPlaces, OwnerPlaces
    <2>3. PoolTyped' /\ UNCHANGED <<size, goal>>
      BY <1>1, <1>6 DEF Awake, PoolTyped
    <2> QED
      BY <1>1, <1>6, <2>1, <2>2, <2>3, StepFlow DEF Awake
  <1>7. CASE Help(x)
    <2>1. Moves(x, {}, "enlist", Head(queue), l, r)
      BY <1>2, <1>7 DEF Help, Moves
    <2>2. Fits(x, "enlist", Head(queue), l, r)
      BY <1>1, <1>7, NextOfQueue DEF Help, Fits, WorkerFits, ClientFits, LeftFits,
           WorkerPlaces, ClientPlaces, OwnerPlaces
    <2>3. PoolTyped' /\ UNCHANGED <<size, goal>>
      BY <1>1, <1>7, NextOfQueue DEF Help, PoolTyped
    <2> QED
      BY <1>1, <1>7, <2>1, <2>2, <2>3, StepFlow, NextOfQueue DEF Help
  <1>8. CASE Complete(x)
    <2>0. t \in Tasks
      BY <1>1, <1>8 DEF Complete, Fits, WorkerFits, ClientFits
    <2>1. Moves(x, {}, IF x \in Workers THEN "check flag" ELSE "retire", None, l, r)
      BY <1>2, <1>8 DEF Complete, Moves
    <2>2. Fits(x, IF x \in Workers THEN "check flag" ELSE "retire", None, l, r)
      BY <1>1, <1>8 DEF Complete, Fits, WorkerFits, ClientFits, LeftFits,
           WorkerPlaces, ClientPlaces, OwnerPlaces
    <2>3. PoolTyped' /\ UNCHANGED <<size, goal>>
      BY <1>1, <1>8, <2>0 DEF Complete, PoolTyped
    <2> QED
      BY <1>1, <1>8, <2>1, <2>2, <2>3, StepFlow DEF Complete
  <1>9. CASE Chunk(x) /\ pc' = pc
    <2>0. /\ left' = [left EXCEPT ![x] = left'[x]] /\ left'[x] \in SUBSET Tasks
          /\ done' \subseteq Tasks /\ UNCHANGED <<pool, registered, cur, issued, owner>>
          /\ pc[x] \in InLoop
      <3>1. Min(l) \in Tasks /\ Subtasks[Min(l)] \subseteq Tasks
        BY <1>1, <1>9, NextOfLoop, ThreadPoolAssumption DEF Chunk
      <3>2. /\ left' = [left EXCEPT ![x] = l] \/ left' = [left EXCEPT ![x] = l \ {Min(l)}]
            /\ done' = done \/ done' = done \union {Min(l)} \union Subtasks[Min(l)]
        BY <1>2, <1>9 DEF Chunk, Inline
      <3>3. x \in DOMAIN left
        BY <1>1 DEF TypeOK
      <3> QED
        BY <1>1, <1>9, <3>1, <3>2, <3>3 DEF Chunk, PoolTyped
    <2>1. Moves(x, {}, pc[x], t, left'[x], r)
      BY <1>2, <1>9, <2>0 DEF Chunk, Inline, Moves
    <2>2. Fits(x, pc[x], t, left'[x], r)
      BY <1>1, <1>9, <2>0 DEF Chunk, Inline, Fits, WorkerFits, ClientFits, LeftFits,
           WorkerPlaces, ClientPlaces, OwnerPlaces
    <2>3. PoolTyped' /\ UNCHANGED <<size, goal>>
      BY <1>1, <1>9, <2>0 DEF Chunk, Inline, PoolTyped
    <2> QED
      BY <1>1, <1>9, <2>1, <2>2, <2>3, StepFlow, <2>0 DEF Chunk, Inline
  <1>10. CASE Chunk(x) /\ pc' # pc
    <2>1. Moves(x, {}, "enqueue", t, l, r)
      BY <1>2, <1>10 DEF Chunk, Moves
    <2>2. Fits(x, "enqueue", t, l, r)
      BY <1>1, <1>10, NextOfLoop DEF Chunk, Fits, WorkerFits, ClientFits, LeftFits,
           WorkerPlaces, ClientPlaces, OwnerPlaces
    <2>3. PoolTyped' /\ UNCHANGED <<size, goal>>
      BY <1>1, <1>10, NextOfLoop DEF Chunk, PoolTyped
    <2> QED
      BY <1>1, <1>10, <2>1, <2>2, <2>3, StepFlow, NextOfLoop DEF Chunk
  <1>11. CASE Enqueue(x) /\ pc[x] = "enqueue"
    <2>0. l # {}
      BY <1>1, <1>11 DEF Fits, LeftFits
    <2>1. Moves(x, {}, "notify", t, l \ {Min(l)}, r)
      BY <1>2, <1>11 DEF Enqueue, Moves
    <2>2. Fits(x, "notify", t, l \ {Min(l)}, r)
      BY <1>1, <1>11, NextOfLoop, <2>0 DEF Enqueue, Fits, WorkerFits, ClientFits, LeftFits,
           WorkerPlaces, ClientPlaces, OwnerPlaces
    <2>3. PoolTyped' /\ UNCHANGED <<size, goal>>
      BY <1>1, <1>11, NextOfLoop, <2>0 DEF Enqueue, PoolTyped
    <2> QED
      BY <1>1, <1>11, <2>1, <2>2, <2>3, StepFlow, NextOfLoop, <2>0 DEF Enqueue
  <1>12. CASE Enqueue(x) /\ pc[x] = "enqueue fired"
    <2>0. l # {} /\ Min(l) \in l /\ l \ {Min(l)} = {}
      BY <1>1, <1>12, NextOfLoop DEF Fits, LeftFits
    <2>1. Moves(x, {}, "notify fired", t, l \ {Min(l)}, r)
      BY <1>2, <1>12 DEF Enqueue, Moves
    <2>2. Fits(x, "notify fired", t, l \ {Min(l)}, r)
      BY <1>1, <1>12, NextOfLoop, <2>0 DEF Enqueue, Fits, WorkerFits, ClientFits, LeftFits,
           WorkerPlaces, ClientPlaces, OwnerPlaces
    <2>3. PoolTyped' /\ UNCHANGED <<size, goal>>
      BY <1>1, <1>12, NextOfLoop, <2>0 DEF Enqueue, PoolTyped
    <2> QED
      BY <1>1, <1>12, <2>1, <2>2, <2>3, StepFlow, NextOfLoop, <2>0 DEF Enqueue
  <1>13. CASE Run(x) /\ (Subtasks[cur[x]] = {} \/ Serial(x))
    <2>0. t \in Tasks /\ Subtasks[t] \subseteq Tasks
      BY <1>1, <1>13, ThreadPoolAssumption DEF Run, Fits, WorkerFits, ClientFits
    <2>1. Moves(x, {}, "complete", t, l, r)
      BY <1>2, <1>13 DEF Run, Moves
    <2>2. Fits(x, "complete", t, l, r)
      BY <1>1, <1>13, <2>0 DEF Run, Fits, WorkerFits, ClientFits, LeftFits,
           WorkerPlaces, ClientPlaces, OwnerPlaces
    <2>3. PoolTyped' /\ UNCHANGED <<size, goal>>
      BY <1>1, <1>13, <2>0 DEF Run, PoolTyped
    <2> QED
      BY <1>1, <1>13, <2>1, <2>2, <2>3, StepFlow, <2>0 DEF Run
  <1>14. CASE Run(x) /\ ~(Subtasks[cur[x]] = {} \/ Serial(x))
    <2>0. t \in Tasks /\ Subtasks[t] \subseteq Tasks
      BY <1>1, <1>14, ThreadPoolAssumption DEF Run, Fits, WorkerFits, ClientFits
    <2>1. Moves(x, {}, LoopPlace, t, Subtasks[t], r)
      BY <1>2, <1>14 DEF Run, Serial, Moves
    <2>2. Fits(x, LoopPlace, t, Subtasks[t], r)
      BY <1>1, <1>14, <2>0 DEF Run, Serial, LoopPlace, Fits, WorkerFits, ClientFits, LeftFits,
           WorkerPlaces, ClientPlaces, OwnerPlaces
    <2>3. PoolTyped' /\ UNCHANGED <<size, goal>>
      BY <1>1, <1>14, <2>0 DEF Run, Serial, PoolTyped
    <2>4. pc[x] = "run" /\ LoopPlace # "set size"
      BY <1>14 DEF Run, LoopPlace
    <2> QED
      BY <1>1, <2>1, <2>2, <2>3, <2>4, StepFlow, <2>0
  <1>15. ASSUME NEW from, NEW to, NotifyOne(x, from, to),
                \/ from = "notify" /\ to = "chunk"
                \/ from = "notify fired" /\ to = "idle"
         PROVE  Flow'
    <2>0. pc[x] = from
      BY <1>15 DEF NotifyOne
    <2>1. PICK W \in SUBSET Asleep : Moves(x, W, to, t, l, r)
      <3>1. CASE Asleep = {} /\ To(x, to)
        <4>1. Moves(x, {}, to, t, l, r)
          BY <1>2, <1>15, <3>1 DEF NotifyOne, Moves
        <4> QED
          BY <4>1
      <3>2. ASSUME NEW w \in Asleep, pc' = [pc EXCEPT ![x] = to, ![w] = "lock"]
            PROVE  \E W \in SUBSET Asleep : Moves(x, W, to, t, l, r)
        <4>1. w # x /\ w \in Threads
          BY <1>15, <2>0 DEF Asleep
        <4>2. Moves(x, {w}, to, t, l, r)
          BY <1>2, <1>15, <3>2, <4>1 DEF NotifyOne, Moves
        <4> QED
          BY <4>2
      <3> QED
        BY <1>15, <3>1, <3>2 DEF NotifyOne
    <2>2. Fits(x, to, t, l, r)
      BY <1>1, <1>15, <2>0 DEF Fits, WorkerFits, ClientFits, LeftFits, WorkerPlaces, ClientPlaces,
           OwnerPlaces
    <2>3. PoolTyped' /\ UNCHANGED <<size, goal>>
      BY <1>1, <1>15 DEF NotifyOne, PoolTyped
    <2> QED
      BY <1>1, <1>15, <2>0, <2>1, <2>2, <2>3, StepFlow
  <1>16. CASE Notify(x)
    BY <1>15, <1>16 DEF Notify
  <1> QED
    BY <1>3, <1>4, <1>5, <1>6, <1>7, <1>8, <1>9, <1>10, <1>11, <1>12, <1>13, <1>14, <1>16
       DEF LoopStep, Enqueue

\* The steps of a worker.
LEMMA WorkerFlow ==
    ASSUME Flow, NEW x \in Threads, x \in Workers, WorkerStep(x) \/ SpuriousWakeup(x)
    PROVE  Flow'
  <1> USE ThreadKinds DEF pool, owner
  <1> DEFINE t == cur[x]
             l == left[x]
             r == registered[x]
  <1>1. /\ TypeOK /\ PoolTyped /\ Fits(x, pc[x], t, l, r)
        /\ t \in Tasks \union {None} /\ l \in SUBSET Tasks /\ r \in Nat
    BY Here
  <1>2. /\ DOMAIN pc = Threads /\ pc = [y \in Threads |-> pc[y]] /\ cur = [cur EXCEPT ![x] = t]
        /\ left = [left EXCEPT ![x] = l] /\ registered = [registered EXCEPT ![x] = r]
    BY Here
  <1>3. CASE Start(x)
    <2>1. Moves(x, {}, "pop", t, l, r + 1)
      BY <1>2, <1>3 DEF Start, Moves
    <2>2. Fits(x, "pop", t, l, r + 1) /\ r + 1 \in Nat
      BY <1>1, <1>3 DEF Start, Fits, WorkerFits, ClientFits, LeftFits,
           WorkerPlaces, ClientPlaces, OwnerPlaces
    <2>3. PoolTyped' /\ UNCHANGED <<size, goal>>
      BY <1>1, <1>3 DEF Start, PoolTyped
    <2> QED
      BY <1>1, <1>3, <2>1, <2>2, <2>3, StepFlow DEF Start
  <1>4. CASE Pop(x) /\ queue = <<>>
    <2>1. Moves(x, {}, "lock", t, l, r)
      BY <1>2, <1>4 DEF Pop, TakeTask, Moves
    <2>2. Fits(x, "lock", t, l, r)
      BY <1>1, <1>4 DEF Pop, TakeTask, Fits, WorkerFits, ClientFits, LeftFits,
           WorkerPlaces, ClientPlaces, OwnerPlaces
    <2>3. PoolTyped' /\ UNCHANGED <<size, goal>>
      BY <1>1, <1>4 DEF Pop, TakeTask, PoolTyped
    <2> QED
      BY <1>1, <1>4, <2>1, <2>2, <2>3, StepFlow DEF Pop, TakeTask
  <1>5. CASE Pop(x) /\ queue # <<>>
    <2>1. Moves(x, {}, "run", Head(queue), l, r)
      BY <1>2, <1>5 DEF Pop, TakeTask, Moves
    <2>2. Fits(x, "run", Head(queue), l, r)
      BY <1>1, <1>5, NextOfQueue DEF Pop, TakeTask, Fits, WorkerFits, ClientFits, LeftFits,
           WorkerPlaces, ClientPlaces, OwnerPlaces
    <2>3. PoolTyped' /\ UNCHANGED <<size, goal>>
      BY <1>1, <1>5, NextOfQueue DEF Pop, TakeTask, PoolTyped
    <2> QED
      BY <1>1, <1>5, <2>1, <2>2, <2>3, StepFlow, NextOfQueue DEF Pop, TakeTask
  <1>6. CASE CheckFlag(x)
    <2>1. Moves(x, {}, IF flag[x] THEN "exited" ELSE "pop", t, l, r)
      BY <1>2, <1>6 DEF CheckFlag, Moves
    <2>2. Fits(x, IF flag[x] THEN "exited" ELSE "pop", t, l, r)
      BY <1>1, <1>6 DEF CheckFlag, Fits, WorkerFits, ClientFits, LeftFits,
           WorkerPlaces, ClientPlaces, OwnerPlaces
    <2>3. PoolTyped' /\ UNCHANGED <<size, goal>>
      BY <1>1, <1>6 DEF CheckFlag, PoolTyped
    <2> QED
      BY <1>1, <1>6, <2>1, <2>2, <2>3, StepFlow DEF CheckFlag
  <1>7. CASE Lock(x)
    <2>1. Moves(x, {}, "predicate", t, l, r)
      BY <1>2, <1>7 DEF Lock, Moves
    <2>2. Fits(x, "predicate", t, l, r)
      BY <1>1, <1>7 DEF Lock, Fits, WorkerFits, ClientFits, LeftFits,
           WorkerPlaces, ClientPlaces, OwnerPlaces
    <2>3. PoolTyped' /\ UNCHANGED <<size, goal>>
      BY <1>1, <1>7 DEF Lock, PoolTyped
    <2> QED
      BY <1>1, <1>7, <2>1, <2>2, <2>3, StepFlow DEF Lock
  <1>8. CASE Predicate(x) /\ queue = <<>>
    <2>1. Moves(x, {}, "no task", t, l, r)
      BY <1>2, <1>8 DEF Predicate, TakeTask, Moves
    <2>2. Fits(x, "no task", t, l, r)
      BY <1>1, <1>8 DEF Predicate, TakeTask, Fits, WorkerFits, ClientFits, LeftFits,
           WorkerPlaces, ClientPlaces, OwnerPlaces
    <2>3. PoolTyped' /\ UNCHANGED <<size, goal>>
      BY <1>1, <1>8 DEF Predicate, TakeTask, PoolTyped
    <2> QED
      BY <1>1, <1>8, <2>1, <2>2, <2>3, StepFlow DEF Predicate, TakeTask
  <1>9. CASE Predicate(x) /\ queue # <<>>
    <2>1. Moves(x, {}, "run", Head(queue), l, r)
      BY <1>2, <1>9 DEF Predicate, TakeTask, Moves
    <2>2. Fits(x, "run", Head(queue), l, r)
      BY <1>1, <1>9, NextOfQueue DEF Predicate, TakeTask, Fits, WorkerFits, ClientFits, LeftFits,
           WorkerPlaces, ClientPlaces, OwnerPlaces
    <2>3. PoolTyped' /\ UNCHANGED <<size, goal>>
      BY <1>1, <1>9, NextOfQueue DEF Predicate, TakeTask, PoolTyped
    <2> QED
      BY <1>1, <1>9, <2>1, <2>2, <2>3, StepFlow, NextOfQueue DEF Predicate, TakeTask
  <1>10. CASE Sleep(x)
    <2>1. Moves(x, {}, IF isDone \/ flag[x] THEN "leave" ELSE "asleep", t, l, r)
      BY <1>2, <1>10 DEF Sleep, Moves
    <2>2. Fits(x, IF isDone \/ flag[x] THEN "leave" ELSE "asleep", t, l, r)
      BY <1>1, <1>10 DEF Sleep, Fits, WorkerFits, ClientFits, LeftFits,
           WorkerPlaces, ClientPlaces, OwnerPlaces
    <2>3. PoolTyped' /\ UNCHANGED <<size, goal>>
      BY <1>1, <1>10 DEF Sleep, PoolTyped
    <2> QED
      BY <1>1, <1>10, <2>1, <2>2, <2>3, StepFlow DEF Sleep
  <1>11. CASE Leave(x)
    <2>1. Moves(x, {}, "exited", t, l, r - 1)
      BY <1>2, <1>11 DEF Leave, Moves
    <2>2. Fits(x, "exited", t, l, r - 1) /\ r - 1 \in Nat
      BY <1>1, <1>11 DEF Leave, Fits, WorkerFits, ClientFits, LeftFits,
           WorkerPlaces, ClientPlaces, OwnerPlaces
    <2>3. PoolTyped' /\ UNCHANGED <<size, goal>>
      BY <1>1, <1>11 DEF Leave, PoolTyped
    <2> QED
      BY <1>1, <1>11, <2>1, <2>2, <2>3, StepFlow DEF Leave
  <1>12. CASE SpuriousWakeup(x)
    <2>1. Moves(x, {}, "lock", t, l, r)
      BY <1>2, <1>12 DEF SpuriousWakeup, Moves
    <2>2. Fits(x, "lock", t, l, r)
      BY <1>1, <1>12 DEF SpuriousWakeup, Fits, WorkerFits, ClientFits, LeftFits,
           WorkerPlaces, ClientPlaces, OwnerPlaces
    <2>3. PoolTyped' /\ UNCHANGED <<size, goal>>
      BY <1>1, <1>12 DEF SpuriousWakeup, PoolTyped
    <2> QED
      BY <1>1, <1>12, <2>1, <2>2, <2>3, StepFlow DEF SpuriousWakeup
  <1> QED
    BY <1>3, <1>4, <1>5, <1>6, <1>7, <1>8, <1>9, <1>10, <1>11, <1>12 DEF WorkerStep, Pop, Predicate

\* What the clients and the owner do on their own.
LEMMA ClientFlow ==
    ASSUME Flow, NEW x \in Threads, x \in Clients, StartLoop(x) \/ \E k \in Fired[x] : Fire(x, k)
    PROVE  Flow'
  <1> USE ThreadKinds DEF pool, owner
  <1> DEFINE t == cur[x]
             l == left[x]
             r == registered[x]
  <1>1. /\ TypeOK /\ PoolTyped /\ Fits(x, pc[x], t, l, r)
        /\ t \in Tasks \union {None} /\ l \in SUBSET Tasks /\ r \in Nat
    BY Here
  <1>2. /\ DOMAIN pc = Threads /\ pc = [y \in Threads |-> pc[y]] /\ cur = [cur EXCEPT ![x] = t]
        /\ left = [left EXCEPT ![x] = l] /\ registered = [registered EXCEPT ![x] = r]
    BY Here
  <1>3. CASE StartLoop(x)
    <2>0. Work[x] \subseteq Tasks
      BY <1>3, ThreadPoolAssumption
    <2>1. Moves(x, {}, LoopPlace, t, Work[x], r)
      BY <1>2, <1>3 DEF StartLoop, Moves
    <2>2. Fits(x, LoopPlace, t, Work[x], r)
      BY <1>1, <1>3, <2>0 DEF StartLoop, LoopPlace, Fits, WorkerFits, ClientFits, LeftFits,
           WorkerPlaces, ClientPlaces, OwnerPlaces
    <2>3. PoolTyped' /\ UNCHANGED <<size, goal>>
      BY <1>1, <1>3, <2>0 DEF StartLoop, PoolTyped
    <2>4. pc[x] = "idle" /\ LoopPlace # "set size"
      BY <1>3 DEF StartLoop, LoopPlace
    <2> QED
      BY <1>1, <2>1, <2>2, <2>3, <2>4, StepFlow, <2>0
  <1>4. ASSUME NEW k \in Fired[x], Fire(x, k)
        PROVE  Flow'
    <2>0. k \in Tasks /\ Subtasks[k] \subseteq Tasks /\ pc[x] = "idle"
      BY <1>4, ThreadPoolAssumption DEF Fire
    <2>1. PoolTyped' /\ UNCHANGED <<size, goal>>
      BY <1>1, <1>4, <2>0 DEF Fire, Inline, PoolTyped
    <2>2. CASE size < 1
      <3>1. Moves(x, {}, "idle", t, l, r)
        BY <1>2, <1>4, <2>0, <2>2 DEF Fire, Moves
      <3>2. Fits(x, "idle", t, l, r)
        BY <1>1, <2>0
      <3> QED
        BY <1>1, <2>0, <2>1, <3>1, <3>2, StepFlow
    <2>3. CASE ~(size < 1)
      <3>1. Moves(x, {}, "enqueue fired", t, {k}, r)
        BY <1>2, <1>4, <2>3 DEF Fire, Moves
      <3>2. Fits(x, "enqueue fired", t, {k}, r)
        BY <1>1, <2>0 DEF Fits, WorkerFits, ClientFits, LeftFits, ClientPlaces, OwnerPlaces
      <3> QED
        BY <1>1, <2>0, <2>1, <3>1, <3>2, StepFlow
    <2> QED
      BY <2>2, <2>3
  <1> QED
    BY <1>3, <1>4

\* The steps of the owner, but for growing.
LEMMA OwnerFlow ==
    ASSUME Flow, NEW x \in Threads, x = Owner, OwnerStep \/ (\E n \in Sizes : Shrink(n)) \/ Stop
    PROVE  Flow'
  <1> USE ThreadKinds DEF pool, owner
  <1> DEFINE t == cur[x]
             l == left[x]
             r == registered[x]
  <1>1. /\ TypeOK /\ PoolTyped /\ Fits(x, pc[x], t, l, r)
        /\ t \in Tasks \union {None} /\ l \in SUBSET Tasks /\ r \in Nat
    BY Here
  <1>2. /\ DOMAIN pc = Threads /\ pc = [y \in Threads |-> pc[y]] /\ cur = [cur EXCEPT ![x] = t]
        /\ left = [left EXCEPT ![x] = l] /\ registered = [registered EXCEPT ![x] = r]
    BY Here
  <1>3. CASE FlagOne
    <2>0. /\ pc[x] = "flag" /\ pc'[x] \in {"flag", "wake"} /\ pc' = [pc EXCEPT ![x] = pc'[x]]
          /\ flag' \in [Workers -> BOOLEAN]
      BY <1>1, <1>2, <1>3 DEF FlagOne, PoolTyped
    <2>1. Moves(x, {}, pc'[x], t, l, r)
      BY <1>2, <1>3, <2>0 DEF FlagOne, Moves
    <2>2. Fits(x, pc'[x], t, l, r)
      BY <1>1, <1>3, <2>0 DEF FlagOne, Fits, WorkerFits, ClientFits, LeftFits,
           WorkerPlaces, ClientPlaces, OwnerPlaces
    <2>3. PoolTyped' /\ UNCHANGED <<size, goal>>
      BY <1>1, <1>3, <2>0 DEF FlagOne, PoolTyped
    <2> QED
      BY <1>1, <1>3, <2>1, <2>2, <2>3, StepFlow, <2>0 DEF FlagOne
  <1>4. CASE WakeAll("wake", "join")
    <2>1. Moves(x, Asleep, "join", t, l, r)
      BY <1>2, <1>4 DEF WakeAll, Moves
    <2>2. Fits(x, "join", t, l, r)
      BY <1>1, <1>4 DEF WakeAll, Fits, WorkerFits, ClientFits, LeftFits,
           WorkerPlaces, ClientPlaces, OwnerPlaces
    <2>3. PoolTyped' /\ UNCHANGED <<size, goal>>
      BY <1>1, <1>4 DEF WakeAll, PoolTyped
    <2> QED
      BY <1>1, <1>4, <2>1, <2>2, <2>3, StepFlow DEF WakeAll
  <1>5. CASE WakeAll("stop wake", "stop join")
    <2>1. Moves(x, Asleep, "stop join", t, l, r)
      BY <1>2, <1>5 DEF WakeAll, Moves
    <2>2. Fits(x, "stop join", t, l, r)
      BY <1>1, <1>5 DEF WakeAll, Fits, WorkerFits, ClientFits, LeftFits,
           WorkerPlaces, ClientPlaces, OwnerPlaces
    <2>3. PoolTyped' /\ UNCHANGED <<size, goal>>
      BY <1>1, <1>5 DEF WakeAll, PoolTyped
    <2> QED
      BY <1>1, <1>5, <2>1, <2>2, <2>3, StepFlow DEF WakeAll
  <1>6. CASE \E n \in Sizes : Shrink(n)
    <2>0. Sizes \subseteq 0..MaxWorkers /\ MaxResizes \in Nat
      BY ThreadPoolAssumption
    <2>1. Moves(x, {}, "flag", t, l, r)
      BY <1>2, <1>6 DEF Shrink, Moves
    <2>2. Fits(x, "flag", t, l, r)
      BY <1>1, <1>6, <2>0 DEF Shrink, Fits, WorkerFits, ClientFits, LeftFits,
           WorkerPlaces, ClientPlaces, OwnerPlaces
    <2>3. PoolTyped' /\ UNCHANGED size
      BY <1>1, <1>6, <2>0 DEF Shrink, PoolTyped
    <2> QED
      <3>1. \A w \in Workers : w > NewSize' => w > NewSize
        BY <1>6, <2>1, <2>3 DEF Shrink, NewSize, Moves
      <3> QED
        BY <1>1, <1>6, <2>1, <2>2, <2>3, <3>1, MoveFlow DEF Shrink
  <1>7. CASE Stop
    <2>1. Moves(x, {}, "stop wake", t, l, r)
      BY <1>2, <1>7 DEF Stop, Moves
    <2>2. Fits(x, "stop wake", t, l, r)
      BY <1>1, <1>7 DEF Stop, Fits, WorkerFits, ClientFits, LeftFits,
           WorkerPlaces, ClientPlaces, OwnerPlaces
    <2>3. PoolTyped' /\ UNCHANGED <<size, goal>>
      BY <1>1, <1>7 DEF Stop, PoolTyped
    <2> QED
      BY <1>1, <1>7, <2>1, <2>2, <2>3, StepFlow DEF Stop
  <1>8. CASE StopJoin
    <2>0. <<>> \in Seq(Tasks)
      OBVIOUS
    <2>1. Moves(x, {}, "stopped", t, l, r)
      BY <1>2, <1>8 DEF StopJoin, Moves
    <2>2. Fits(x, "stopped", t, l, r)
      BY <1>1, <1>8, <2>0 DEF StopJoin, Fits, WorkerFits, ClientFits, LeftFits,
           WorkerPlaces, ClientPlaces, OwnerPlaces
    <2>3. PoolTyped' /\ UNCHANGED <<size, goal>>
      BY <1>1, <1>8, <2>0 DEF StopJoin, PoolTyped
    <2> QED
      BY <1>1, <1>8, <2>1, <2>2, <2>3, StepFlow, <2>0 DEF StopJoin
  <1>9. CASE Join
    <2>1. Moves(x, {}, "set size", t, l, r)
      BY <1>2, <1>9 DEF Join, Moves
    <2>2. Fits(x, "set size", t, l, r)
      BY <1>1, <1>9 DEF Join, Fits, WorkerFits, ClientFits, LeftFits, ClientPlaces, OwnerPlaces
    <2>3. PoolTyped' /\ UNCHANGED <<size, goal>>
      BY <1>1, <1>9 DEF Join, PoolTyped
    <2>4. \A w \in Workers : w > NewSize' => w > NewSize \/ pc[w] \in Gone
      <3>1. NewSize' = goal /\ NewSize = size
        BY <1>9, <2>1, <2>3 DEF Join, NewSize, Moves
      <3>2. size \in Int /\ goal \in Int
        BY <1>1 DEF PoolTyped
      <3>3. \A w \in goal + 1..size : pc[w] = "exited"
        BY <1>9 DEF Join
      <3> SUFFICES ASSUME NEW w \in Workers, w > NewSize', ~(w > NewSize) PROVE pc[w] \in Gone
        OBVIOUS
      <3>4. w \in goal + 1..size
        BY <3>1, <3>2
      <3> QED
        BY <3>3, <3>4
    <2> QED
      BY <1>1, <1>9, <2>1, <2>2, <2>3, <2>4, MoveFlow DEF Join
  <1>10. CASE SetSize
    <2>1. Moves(x, {}, "idle", t, l, r)
      BY <1>2, <1>10 DEF SetSize, Moves
    <2>2. Fits(x, "idle", t, l, r)
      BY <1>1, <1>10 DEF SetSize, Fits, WorkerFits, ClientFits, LeftFits, ClientPlaces, OwnerPlaces
    <2>3. PoolTyped'
      BY <1>1, <1>10 DEF SetSize, PoolTyped
    <2>4. \A w \in Workers : w > NewSize' => w > NewSize
      BY <1>10, <2>1 DEF SetSize, NewSize, Moves
    <2> QED
      BY <1>1, <1>10, <2>1, <2>2, <2>3, <2>4, MoveFlow DEF SetSize
  <1> QED
    BY <1>3, <1>4, <1>5, <1>6, <1>7, <1>8, <1>9, <1>10 DEF OwnerStep, Wake

\* The threads that Grow starts take places nobody is in.
LEMMA GrowFlow ==
    ASSUME Flow, NEW n \in Sizes, Grow(n)
    PROVE  Flow'
  <1> USE ThreadKinds
  <1>1. TypeOK /\ pc[Owner] = "idle" /\ n \in 0..MaxWorkers /\ size \in Nat
    <2>1. n \in 0..MaxWorkers
      BY ThreadPoolAssumption
    <2>2. TypeOK /\ size \in Nat
      BY DEF Flow, TypeOK
    <2> QED
      BY <2>1, <2>2 DEF Grow
  <1>2. \A x \in Threads : /\ cur'[x] = cur[x] /\ left'[x] = left[x]
                           /\ registered'[x] = registered[x]
    BY DEF Grow
  <1>3. ASSUME NEW x \in Threads
        PROVE  Fits(x, pc'[x], cur'[x], left'[x], registered'[x])
    <2>0. Fits(x, pc[x], cur[x], left[x], registered[x])
      BY DEF Flow
    <2>1. CASE x = Owner
      <3>1. pc'[x] = "set size" /\ x \in Clients
        BY <2>1 DEF Grow
      <3> QED
        BY <1>1, <1>2, <2>0, <2>1, <3>1 DEF Fits, ClientFits, LeftFits, OwnerPlaces
    <2>2. CASE x # Owner /\ x \in size + 1..n
      <3>1. x \in Workers /\ x > NewSize
        BY <1>1, <2>2 DEF NewSize, Workers
      <3>2. pc[x] \in Gone /\ pc'[x] = "start"
        BY <2>2, <3>1 DEF Flow, GoneOK, Grow
      <3> QED
        BY <1>2, <2>0, <3>1, <3>2 DEF Fits, WorkerFits, LeftFits, WorkerPlaces
    <2>3. CASE x # Owner /\ x \notin size + 1..n
      BY <1>2, <2>0, <2>3 DEF Grow
    <2> QED
      BY <2>1, <2>2, <2>3
  <1>4. \A y \in Threads : pc'[y] \in WorkerPlaces \union ClientPlaces \union OwnerPlaces
    BY <1>3 DEF Fits, WorkerFits, ClientFits
  <1>5. TypeOK'
    <2>1. pc' \in [Threads -> WorkerPlaces \union ClientPlaces \union OwnerPlaces]
      BY <1>4 DEF Grow
    <2>2. flag' \in [Workers -> BOOLEAN] /\ resizes' \in 0..MaxResizes
      <3>1. flag \in [Workers -> BOOLEAN] /\ resizes \in Nat /\ MaxResizes \in Nat
        BY <1>1, ThreadPoolAssumption DEF TypeOK
      <3>2. flag' \in [Workers -> BOOLEAN]
        BY <3>1 DEF Grow
      <3>3. resizes' = resizes + 1 /\ resizes < MaxResizes
        BY DEF Grow
      <3> QED
        BY <3>1, <3>2, <3>3
    <2> QED
      BY <1>1, <2>1, <2>2 DEF Grow, TypeOK
  <1>6. GoneOK'
    <2> SUFFICES ASSUME NEW w \in Workers, w > NewSize' PROVE pc'[w] \in Gone
      BY DEF GoneOK
    <2>1. w > n
      BY DEF Grow, NewSize
    <2>2. w > NewSize /\ w \notin size + 1..n /\ w \in Threads /\ w # Owner
      <3>1. n >= size
        BY DEF Grow
      <3>2. NewSize = size
        BY <1>1 DEF NewSize
      <3>3. w \in Nat /\ n \in Nat /\ size \in Nat
        BY <1>1
      <3> QED
        BY <2>1, <3>1, <3>2, <3>3
    <2> QED
      BY <2>2 DEF Flow, GoneOK, Grow
  <1> QED
    BY <1>3, <1>5, <1>6 DEF Flow

\* It holds at first, ...
LEMMA InitFlow == Init => Flow
  <1> SUFFICES ASSUME Init PROVE Flow
    OBVIOUS
  <1> USE ThreadKinds
  <1>1. size \in 0..MaxWorkers
    BY ThreadPoolAssumption DEF Init
  <1>2. ASSUME NEW x \in Threads PROVE Fits(x, pc[x], cur[x], left[x], registered[x])
    BY <1>1 DEF Init, Fits, WorkerFits, ClientFits, LeftFits, WorkerPlaces, ClientPlaces
  <1>3. \A x \in Threads : pc[x] \in WorkerPlaces \union ClientPlaces
    BY <1>1 DEF Init, WorkerPlaces, ClientPlaces
  <1>4. TypeOK
    <2>1. <<>> \in Seq(Tasks) /\ MaxResizes \in Nat
      BY ThreadPoolAssumption
    <2>2. pc \in [Threads -> WorkerPlaces \union ClientPlaces \union OwnerPlaces]
      BY <1>3 DEF Init
    <2>3. /\ flag \in [Workers -> BOOLEAN] /\ registered \in [Threads -> Nat]
          /\ cur \in [Threads -> Tasks \union {None}] /\ left \in [Threads -> SUBSET Tasks]
      BY DEF Init
    <2>4. resizes \in 0..MaxResizes /\ goal \in 0..MaxWorkers
      BY <1>1, <2>1 DEF Init
    <2> QED
      BY <1>1, <2>1, <2>2, <2>3, <2>4 DEF Init, TypeOK
  <1>5. GoneOK
    BY <1>1 DEF Init, GoneOK, NewSize
  <1> QED
    BY <1>2, <1>4, <1>5 DEF Flow

\* ... and every step keeps it.
LEMMA NextFlow == Flow /\ [Next]_vars => Flow'
  <1> SUFFICES ASSUME Flow, [Next]_vars PROVE Flow'
    OBVIOUS
  <1>1. CASE UNCHANGED vars
    BY <1>1 DEF vars, pool, owner, Flow, TypeOK, GoneOK, NewSize, Asleep, Fits, WorkerFits,
         ClientFits, LeftFits
  <1>2. ASSUME NEW x \in Threads, Yield(x) PROVE Flow'
    BY <1>1, <1>2 DEF Yield
  <1> QED
    BY <1>1, <1>2, LoopFlow, WorkerFlow, ClientFlow, OwnerFlow, GrowFlow, ThreadKinds DEF Next

\* The types are kept, as every thread stays within the places of its kind
\* and only has a task, and tasks left, where the code holds them.
THEOREM TypeCorrect == Spec => []TypeOK
  <1>1. Flow => TypeOK
    BY DEF Flow
  <1> QED
    BY <1>1, InitFlow, NextFlow, PTL DEF Spec

-----------------------------------------------------------------------------
(* Every task is in one place.                                               *)

\* A task is begun when its thread has started what the task does.
Begun(k) == k \in done \/ \E x \in Threads : cur[x] = k /\ pc[x] \notin {"enlist", "run"}

\* Nothing of the loop inside a task is anywhere before the task has begun, and
\* what is somewhere is a client's task that was issued, or in such a loop.
Once ==
    /\ EachTaskOnce
    /\ \A k \in Tasks : \A j \in Subtasks[k] : ~Begun(k) => Places(j) = 0
    /\ \A k \in Tasks : Places(k) # 0 => k \in issued \/ \E i \in Tasks : k \in Subtasks[i]

Queued(k) == Occurrences(queue, k)
Handing(k) == {x \in Threads : k \in left[x]}
Running(k) == {x \in Threads : cur[x] = k}
One(b) == IF b THEN 1 ELSE 0

\* There are finitely many threads, ...
LEMMA ThreadsFinite == IsFiniteSet(Threads)
  <1>1. IsFiniteSet(Workers)
    BY FS_Interval, ThreadPoolAssumption DEF Workers
  <1> QED
    BY <1>1, FS_Union, ThreadPoolAssumption DEF Threads

\* ... so the parts of Places are numbers.
LEMMA PlacesAre ==
    ASSUME TypeOK, NEW k
    PROVE  /\ IsFiniteSet(Queued(k)) /\ Cardinality(Queued(k)) \in Nat
           /\ IsFiniteSet(Handing(k)) /\ Cardinality(Handing(k)) \in Nat
           /\ IsFiniteSet(Running(k)) /\ Cardinality(Running(k)) \in Nat
           /\ Places(k) = Cardinality(Queued(k)) + Cardinality(Handing(k))
                          + Cardinality(Running(k)) + One(k \in done)
           /\ Places(k) \in Nat
  <1>1. Handing(k) \subseteq Threads /\ Running(k) \subseteq Threads
    BY DEF Handing, Running
  <1>2. /\ IsFiniteSet(Handing(k)) /\ Cardinality(Handing(k)) \in Nat
        /\ IsFiniteSet(Running(k)) /\ Cardinality(Running(k)) \in Nat
    BY <1>1, ThreadsFinite, FS_Subset, FS_CardinalityType
  <1>3. IsFiniteSet(Queued(k)) /\ Cardinality(Queued(k)) \in Nat
    BY OccurrencesFinite DEF TypeOK, Queued
  <1>4. Places(k) = Cardinality(Queued(k)) + Cardinality(Handing(k))
                    + Cardinality(Running(k)) + One(k \in done)
    BY DEF Places, Queued, Occurrences, Handing, Running, One
  <1> QED
    BY <1>2, <1>3, <1>4 DEF One

\* What a step of x that hands out, takes or finishes a task does to Places.
LEMMA PlacesMove ==
    ASSUME TypeOK, TypeOK', NEW x \in Threads, NEW k \in Tasks,
           left' = [left EXCEPT ![x] = left'[x]], cur' = [cur EXCEPT ![x] = cur'[x]]
    PROVE  Places(k)' = Places(k)
             + (Cardinality(Queued(k)') - Cardinality(Queued(k)))
             + (One(k \in left'[x]) - One(k \in left[x]))
             + (One(cur'[x] = k) - One(cur[x] = k))
             + (One(k \in done') - One(k \in done))
  <1>1. Handing(k) \ {x} = Handing(k)' \ {x} /\ Running(k) \ {x} = Running(k)' \ {x}
    BY DEF Handing, Running, TypeOK
  <1>2. /\ x \in Handing(k) <=> k \in left[x]
        /\ x \in Handing(k)' <=> k \in left'[x]
        /\ x \in Running(k) <=> cur[x] = k
        /\ x \in Running(k)' <=> cur'[x] = k
    BY DEF Handing, Running
  <1>3. /\ Places(k) = Cardinality(Queued(k)) + Cardinality(Handing(k))
                      + Cardinality(Running(k)) + One(k \in done)
        /\ Places(k)' = Cardinality(Queued(k)') + Cardinality(Handing(k)')
                      + Cardinality(Running(k)') + One(k \in done')
        /\ Cardinality(Queued(k)) \in Nat /\ Cardinality(Queued(k)') \in Nat
        /\ IsFiniteSet(Handing(k)) /\ IsFiniteSet(Running(k))
    <2>1. ASSUME TypeOK'
          PROVE  /\ Places(k)' = Cardinality(Queued(k)') + Cardinality(Handing(k)')
                                 + Cardinality(Running(k)') + One(k \in done')
                 /\ Cardinality(Queued(k)') \in Nat
      <3>1. Places(k)' = Cardinality(Queued(k)') + Cardinality(Handing(k)')
                         + Cardinality(Running(k)') + One(k \in done')
        BY DEF Places, Queued, Occurrences, Handing, Running, One
      <3> QED
        BY <3>1, <2>1, OccurrencesFinite DEF TypeOK, Queued
    <2> QED
      BY <2>1, PlacesAre
  <1>4. /\ Cardinality(Handing(k)) \in Nat /\ Cardinality(Handing(k)') \in Nat
        /\ Cardinality(Handing(k)') = Cardinality(Handing(k)) + One(k \in left'[x])
                                      - One(k \in left[x])
    <2>1. /\ Cardinality(Handing(k)) \in Nat /\ Cardinality(Handing(k)') \in Nat
          /\ Cardinality(Handing(k)') = Cardinality(Handing(k))
               + (IF x \in Handing(k)' THEN 1 ELSE 0) - (IF x \in Handing(k) THEN 1 ELSE 0)
      BY <1>1, <1>3, OneMember
    <2> QED
      BY <1>2, <2>1 DEF One
  <1>5. /\ Cardinality(Running(k)) \in Nat /\ Cardinality(Running(k)') \in Nat
        /\ Cardinality(Running(k)') = Cardinality(Running(k)) + One(cur'[x] = k)
                                      - One(cur[x] = k)
    <2>1. /\ Cardinality(Running(k)) \in Nat /\ Cardinality(Running(k)') \in Nat
          /\ Cardinality(Running(k)') = Cardinality(Running(k))
               + (IF x \in Running(k)' THEN 1 ELSE 0) - (IF x \in Running(k) THEN 1 ELSE 0)
      <3>1. Running(k) \ {x} = Running(k)' \ {x} /\ IsFiniteSet(Running(k))
        BY <1>1, <1>3
      <3> QED
        BY ONLY <3>1, OneMember
    <2> QED
      BY <1>2, <2>1 DEF One
  <1> QED
    BY <1>3, <1>4, <1>5 DEF One

\* A task in one place at most is in no second one.
LEMMA OnePlace ==
    ASSUME TypeOK, NEW k \in Tasks, Places(k) <= 1
    PROVE  /\ \A x, y \in Threads : k \in left[x] => cur[y] # k
           /\ \A x \in Threads : k \in left[x] \/ cur[x] = k => k \notin done
           /\ \A x, y \in Threads : cur[x] = k /\ cur[y] = k => x = y
           /\ \A x \in Threads : k \in left[x] \/ cur[x] = k => Places(k) = 1
           /\ k \in done => Places(k) = 1
           /\ (\E x \in Threads : k \in left[x] \/ cur[x] = k) => Queued(k) = {}
  <1>1. /\ IsFiniteSet(Queued(k)) /\ Cardinality(Queued(k)) \in Nat
        /\ IsFiniteSet(Handing(k)) /\ Cardinality(Handing(k)) \in Nat
        /\ IsFiniteSet(Running(k)) /\ Cardinality(Running(k)) \in Nat
        /\ Places(k) = Cardinality(Queued(k)) + Cardinality(Handing(k))
                       + Cardinality(Running(k)) + One(k \in done)
        /\ One(k \in done) \in {0, 1} /\ (k \in done => One(k \in done) = 1)
    BY PlacesAre DEF One
  <1>2. ASSUME NEW x \in Threads, k \in left[x] PROVE Cardinality(Handing(k)) >= 1
    <2>1. x \in Handing(k)
      BY <1>2 DEF Handing
    <2> QED
      BY <1>1, <2>1, FS_EmptySet
  <1>3. ASSUME NEW x \in Threads, cur[x] = k PROVE Cardinality(Running(k)) >= 1
    <2>1. x \in Running(k)
      BY <1>3 DEF Running
    <2> QED
      BY <1>1, <2>1, FS_EmptySet
  <1>4. ASSUME NEW x \in Threads, NEW y \in Threads, cur[x] = k, cur[y] = k PROVE x = y
    <2>1. Cardinality(Running(k)) = 1
      BY <1>1, <1>3, <1>4
    <2>2. PICK z : Running(k) = {z}
      BY <1>1, <2>1, FS_Singleton
    <2> QED
      BY <1>4, <2>2 DEF Running
  <1>5. Cardinality(Queued(k)) = 0 => Queued(k) = {}
    BY <1>1, FS_EmptySet
  <1> QED
    BY <1>1, <1>2, <1>3, <1>4, <1>5

\* A task that was begun has begun for good, and the owner stops for good.
Held(y) == cur[y] # None /\ pc[y] \notin {"enlist", "run"}
Kept ==
    /\ done \subseteq done'
    /\ \A y \in Threads : Held(y) => \/ cur'[y] = cur[y] /\ pc'[y] \notin {"enlist", "run"}
                                     \/ cur[y] \in done'
    /\ pc[Owner] = "stopped" => pc'[Owner] = "stopped"

\* Every step does.
LEMMA NextKept ==
    ASSUME Flow, [Next]_vars
    PROVE  Kept
  <1> USE ThreadKinds DEF pool, owner, Fits, WorkerFits, ClientFits
  <1>1. TypeOK /\ \A y \in Threads : Fits(y, pc[y], cur[y], left[y], registered[y])
    BY DEF Flow
  <1>2. \A y \in Threads : Held(y) /\ y \in Workers =>
            pc[y] \in {"chunk", "serial", "enqueue", "notify", "block", "complete"}
    BY <1>1 DEF Held
  <1>3. \A y \in Threads : Held(y) /\ y \in Clients => pc[y] = "complete"
    BY <1>1 DEF Held
  <1>4. ASSUME NEW x \in Threads, LoopStep(x) PROVE Kept
    <2>1. CASE Chunk(x)
      BY <1>1, <1>2, <1>3, <2>1 DEF Chunk, Inline, Kept, Held, TypeOK
    <2>2. CASE Enqueue(x)
      BY <1>1, <1>2, <1>3, <2>2 DEF Enqueue, Kept, Held, TypeOK
    <2>3. CASE Notify(x)
      BY <1>1, <1>2, <1>3, <2>3 DEF Notify, NotifyOne, Asleep, Kept, Held, TypeOK
    <2>4. CASE Wait(x)
      BY <1>1, <1>2, <1>3, <2>4 DEF Wait, Kept, Held, TypeOK
    <2>5. CASE Awake(x)
      BY <1>1, <1>2, <1>3, <2>5 DEF Awake, Kept, Held, TypeOK
    <2>6. CASE Help(x)
      BY <1>1, <1>2, <1>3, <2>6 DEF Help, Kept, Held, TypeOK
    <2>7. CASE Enlist(x)
      BY <1>1, <1>2, <1>3, <2>7 DEF Enlist, Kept, Held, TypeOK
    <2>8. CASE Retire(x)
      BY <1>1, <1>2, <1>3, <2>8 DEF Retire, Kept, Held, TypeOK
    <2>9. CASE Run(x)
      BY <1>1, <1>2, <1>3, <2>9 DEF Run, LoopPlace, Kept, Held, TypeOK
    <2>10. CASE Complete(x)
      BY <1>1, <1>2, <1>3, <2>10 DEF Complete, Kept, Held, TypeOK
    <2> QED
      BY <1>4, <2>1, <2>2, <2>3, <2>4, <2>5, <2>6, <2>7, <2>8, <2>9, <2>10 DEF LoopStep
  <1>5. ASSUME NEW x \in Workers, WorkerStep(x) \/ SpuriousWakeup(x) PROVE Kept
    <2>1. CASE Start(x)
      BY <1>1, <1>2, <1>3, <2>1 DEF Start, Kept, Held, TypeOK
    <2>2. CASE Pop(x)
      BY <1>1, <1>2, <1>3, <2>2 DEF Pop, TakeTask, Kept, Held, TypeOK
    <2>3. CASE CheckFlag(x)
      BY <1>1, <1>2, <1>3, <2>3 DEF CheckFlag, Kept, Held, TypeOK
    <2>4. CASE Lock(x)
      BY <1>1, <1>2, <1>3, <2>4 DEF Lock, Kept, Held, TypeOK
    <2>5. CASE Predicate(x)
      BY <1>1, <1>2, <1>3, <2>5 DEF Predicate, TakeTask, Kept, Held, TypeOK
    <2>6. CASE Sleep(x)
      BY <1>1, <1>2, <1>3, <2>6 DEF Sleep, Kept, Held, TypeOK
    <2>7. CASE Leave(x)
      BY <1>1, <1>2, <1>3, <2>7 DEF Leave, Kept, Held, TypeOK
    <2>8. CASE SpuriousWakeup(x)
      BY <1>1, <1>2, <1>3, <2>8 DEF SpuriousWakeup, Kept, Held, TypeOK
    <2> QED
      BY <1>5, <2>1, <2>2, <2>3, <2>4, <2>5, <2>6, <2>7, <2>8 DEF WorkerStep
  <1>6. ASSUME OwnerStep PROVE Kept
    <2>1. CASE FlagOne
      BY <1>1, <1>2, <1>3, <2>1 DEF FlagOne, Kept, Held, TypeOK
    <2>2. CASE Wake
      BY <1>1, <1>2, <1>3, <2>2 DEF Wake, WakeAll, Asleep, Kept, Held, TypeOK
    <2>3. CASE Join
      BY <1>1, <1>2, <1>3, <2>3 DEF Join, Kept, Held, TypeOK
    <2>4. CASE SetSize
      BY <1>1, <1>2, <1>3, <2>4 DEF SetSize, Kept, Held, TypeOK
    <2>5. CASE StopJoin
      BY <1>1, <1>2, <1>3, <2>5 DEF StopJoin, Kept, Held, TypeOK
    <2> QED
      BY <1>6, <2>1, <2>2, <2>3, <2>4, <2>5 DEF OwnerStep
  <1>7. ASSUME NEW c \in Clients, StartLoop(c) PROVE Kept
    BY <1>1, <1>2, <1>3, <1>7 DEF StartLoop, LoopPlace, Kept, Held, TypeOK
  <1>8. ASSUME NEW c \in Clients, NEW k \in Fired[c], Fire(c, k) PROVE Kept
    BY <1>1, <1>2, <1>3, <1>8 DEF Fire, Inline, Kept, Held, TypeOK
  <1>9. ASSUME NEW n \in Sizes, Grow(n) PROVE Kept
    <2>1. \A y \in Threads : Held(y) => pc'[y] # "run" /\ pc'[y] # "enlist"
      BY <1>2, <1>3, <1>9 DEF Grow
    <2> QED
      BY <1>9, <2>1 DEF Grow, Kept
  <1>10. ASSUME NEW n \in Sizes, Shrink(n) PROVE Kept
    BY <1>1, <1>2, <1>3, <1>10 DEF Shrink, Kept, Held, TypeOK
  <1>11. CASE Stop
    BY <1>1, <1>2, <1>3, <1>11 DEF Stop, Kept, Held, TypeOK
  <1>12. CASE UNCHANGED vars
    BY <1>1, <1>2, <1>3, <1>12 DEF vars, Kept, Held
  <1>13. ASSUME NEW x \in Threads, Yield(x) PROVE Kept
    BY <1>12, <1>13 DEF Yield
  <1> QED
    BY <1>4, <1>5, <1>6, <1>7, <1>8, <1>9, <1>10, <1>11, <1>12, <1>13 DEF Next

\* So what was begun stays begun.
LEMMA BegunStays ==
    ASSUME Flow, Kept, NEW k \in Tasks, Begun(k)
    PROVE  Begun(k)'
  <1>1. CASE k \in done
    BY <1>1 DEF Kept, Begun
  <1>2. ASSUME NEW y \in Threads, cur[y] = k, pc[y] \notin {"enlist", "run"} PROVE Begun(k)'
    <2>1. Held(y)
      BY <1>2, ThreadKinds DEF Held
    <2> QED
      BY <1>2, <2>1 DEF Kept, Begun
  <1> QED
    BY <1>1, <1>2 DEF Begun

\* A step that puts the tasks of N, which are nowhere yet, in one place each
\* and leaves the others where they are or in another place: N are tasks that
\* a client issues, or the loop inside a task that begins.
Adds(N) ==
    /\ N \subseteq Tasks
    /\ \A k \in Tasks : Places(k)' = Places(k) + One(k \in N)
    /\ \A k \in N : Places(k) = 0
    /\ issued \subseteq issued' /\ issued' \subseteq issued \union N
    /\ \A k \in N : \/ k \in issued' /\ \A i \in Tasks : k \notin Subtasks[i]
                    \/ \E i \in Tasks : k \in Subtasks[i] /\ Begun(i)'

\* Such a step keeps every task in one place.
LEMMA AddsOnce ==
    ASSUME Flow, Flow', Kept, Once, NEW N, Adds(N)
    PROVE  Once'
  <1>1. TypeOK /\ TypeOK' /\ issued \subseteq Tasks /\ issued' \subseteq Tasks
    BY DEF Flow, TypeOK
  <1>2. \A k \in Tasks : Places(k) \in Nat /\ Places(k) <= 1
    BY <1>1, PlacesAre DEF Once, EachTaskOnce
  <1>3. \A k \in Tasks : k \in N => Places(k)' = 1
    BY DEF Adds, One
  <1>4. \A k \in Tasks : k \notin N => Places(k)' = Places(k)
    BY <1>2 DEF Adds, One
  <1>5. \A k \in Tasks : (Places(k) <= 1)'
    BY <1>2, <1>3, <1>4
  <1>6. ASSUME NEW k \in issued', pc'[Owner] # "stopped" PROVE Places(k)' = 1
    BY <1>1, <1>3, <1>4, <1>6 DEF Adds, Once, EachTaskOnce, Kept
  <1>7. ASSUME NEW k \in Tasks, NEW j \in Subtasks[k], ~Begun(k)' PROVE Places(j)' = 0
    <2>1. j \in Tasks /\ \A i \in Tasks : j \in Subtasks[i] => i = k
      BY ThreadPoolAssumption
    <2>2. Places(j) = 0
      BY <1>7, BegunStays DEF Once
    <2>3. j \notin N
      BY <1>7, <2>1 DEF Adds
    <2> QED
      BY <1>4, <2>1, <2>2, <2>3
  <1>8. ASSUME NEW k \in Tasks, Places(k)' # 0
        PROVE  k \in issued' \/ \E i \in Tasks : k \in Subtasks[i]
    BY <1>4, <1>8 DEF Adds, Once
  <1> QED
    BY <1>5, <1>6, <1>7, <1>8 DEF Once, EachTaskOnce

\* Steps that touch no task, and those that take one from the queue.
LEMMA NothingMoves ==
    ASSUME TypeOK, UNCHANGED <<queue, done, cur, left, issued>>
    PROVE  Adds({})
  <1>1. \A k : Places(k)' = Places(k) /\ Places(k) \in Nat
    BY PlacesAre DEF Places
  <1> QED
    BY <1>1 DEF Adds, One

\* Popping a task, by a helper or a worker.
LEMMA TaskTaken ==
    ASSUME TypeOK, TypeOK', NEW x \in Threads, queue # <<>>, cur[x] = None,
           cur' = [cur EXCEPT ![x] = Head(queue)], queue' = Tail(queue),
           UNCHANGED <<done, left, issued>>
    PROVE  Adds({})
  <1>1. left' = [left EXCEPT ![x] = left'[x]] /\ cur'[x] = Head(queue)
    BY DEF TypeOK
  <1>2. ASSUME NEW k \in Tasks PROVE Places(k)' = Places(k)
    <2>1. /\ Cardinality(Queued(k)) = Cardinality(Queued(k)') + One(Head(queue) = k)
          /\ Cardinality(Queued(k)) \in Nat /\ Cardinality(Queued(k)') \in Nat
      BY OccurrencesTail, OccurrencesFinite DEF TypeOK, Queued, One
    <2>2. Places(k)' = Places(k)
             + (Cardinality(Queued(k)') - Cardinality(Queued(k)))
             + (One(k \in left'[x]) - One(k \in left[x]))
             + (One(cur'[x] = k) - One(cur[x] = k))
             + (One(k \in done') - One(k \in done))
      BY <1>1, PlacesMove
    <2>3. Places(k) \in Nat /\ cur[x] # k
      BY PlacesAre, ThreadKinds
    <2> QED
      BY <1>1, <2>1, <2>2, <2>3 DEF One
  <1> QED
    BY <1>2, PlacesAre DEF Adds, One

\* Where x is in a loop, or has a task, there is the task's only place.
LEMMA LoopsPlace ==
    ASSUME TypeOK, Once, NEW x \in Threads, NEW k \in Tasks, k \in left[x] \/ cur[x] = k
    PROVE  /\ Places(k) = 1 /\ k \notin done
           /\ k \in left[x] => \A y \in Threads : cur[y] # k
           /\ \A y \in Threads : cur[y] = k => cur[x] = k /\ y = x
  <1>1. Places(k) <= 1
    BY DEF Once, EachTaskOnce
  <1> QED
    BY <1>1, OnePlace

\* What was not begun has nothing of its loop anywhere.
LEMMA FreshLoop ==
    ASSUME TypeOK, Once, NEW k \in Tasks, k \notin done,
           \A y \in Threads : cur[y] = k => pc[y] \in {"enlist", "run"}
    PROVE  \A j \in Subtasks[k] : Places(j) = 0 /\ j \notin done /\ j # k
  <1>1. ~Begun(k)
    BY DEF Begun
  <1>2. \A j \in Subtasks[k] : Places(j) = 0
    BY <1>1 DEF Once
  <1>3. \A j \in Subtasks[k] : Places(j) <= 1 /\ j \in Tasks
    BY <1>2, ThreadPoolAssumption
  <1>4. \A j \in Subtasks[k] : j \notin done
    BY <1>2, <1>3, OnePlace
  <1>5. \A j \in Subtasks[k] : Subtasks[j] = {}
    BY ThreadPoolAssumption
  <1> QED
    BY <1>2, <1>4, <1>5

\* A task that is run on the spot takes its loop with it.
LEMMA ChunkAdds ==
    ASSUME Flow, Flow', Once, NEW x \in Threads, Chunk(x)
    PROVE  \E N : Adds(N)
  <1>0. PICK k : k = Min(left[x])
    OBVIOUS
  <1> USE ThreadKinds DEF pool, owner
  <1>1. TypeOK /\ TypeOK' /\ pc[x] \in InLoop /\ left[x] # {} /\ issued' = issued
    BY DEF Flow, Chunk
  <1>2. k \in left[x] /\ k \in Tasks /\ Subtasks[k] \subseteq Tasks
    BY <1>0, <1>1, NextOfLoop, ThreadPoolAssumption
  <1>3. CASE UNCHANGED <<done, left>>
    BY <1>1, <1>3, NothingMoves DEF Chunk
  <1>4. CASE Inline(k) /\ left' = [left EXCEPT ![x] = left[x] \ {k}]
    <2>1. Places(k) = 1 /\ k \notin done /\ \A y \in Threads : cur[y] # k
      BY <1>1, <1>2, LoopsPlace
    <2>2. \A j \in Subtasks[k] : Places(j) = 0 /\ j \notin done /\ j # k
      BY <1>1, <1>2, <2>1, FreshLoop
    <2>3. /\ cur' = [cur EXCEPT ![x] = cur'[x]] /\ left' = [left EXCEPT ![x] = left'[x]]
          /\ cur'[x] = cur[x] /\ left'[x] = left[x] \ {k} /\ queue' = queue
          /\ done' = done \union {k} \union Subtasks[k]
      BY <1>1, <1>4 DEF Chunk, Inline, TypeOK
    <2>4. ASSUME NEW i \in Tasks PROVE Places(i)' = Places(i) + One(i \in Subtasks[k])
      <3>1. Places(i)' = Places(i)
               + (Cardinality(Queued(i)') - Cardinality(Queued(i)))
               + (One(i \in left'[x]) - One(i \in left[x]))
               + (One(cur'[x] = i) - One(cur[x] = i))
               + (One(i \in done') - One(i \in done))
        BY <1>1, <2>3, PlacesMove
      <3>2. Places(i) \in Nat /\ Cardinality(Queued(i)) \in Nat
            /\ Cardinality(Queued(i)') = Cardinality(Queued(i))
        BY <1>1, <2>3, PlacesAre DEF Queued
      <3> QED
        BY <1>2, <2>1, <2>2, <2>3, <3>1, <3>2 DEF One
    <2>5. Begun(k)'
      BY <2>3 DEF Begun
    <2>6. Adds(Subtasks[k])
      BY <1>1, <1>2, <2>2, <2>4, <2>5 DEF Adds
    <2> QED
      BY <2>6
  <1> QED
    BY <1>0, <1>3, <1>4 DEF Chunk

\* A task that is pushed goes from the loop to the queue.
LEMMA EnqueueAdds ==
    ASSUME Flow, Flow', Once, NEW x \in Threads, Enqueue(x)
    PROVE  Adds({})
  <1> DEFINE k == Min(left[x])
  <1> USE ThreadKinds DEF pool, owner
  <1>1. TypeOK /\ TypeOK' /\ left[x] # {} /\ issued' = issued
    <2>1. Fits(x, pc[x], cur[x], left[x], registered[x])
      BY DEF Flow
    <2> QED
      BY <2>1 DEF Flow, Enqueue, Fits, LeftFits
  <1>2. k \in left[x] /\ k \in Tasks
    BY <1>1, NextOfLoop
  <1>3. /\ cur' = [cur EXCEPT ![x] = cur'[x]] /\ left' = [left EXCEPT ![x] = left'[x]]
        /\ cur'[x] = cur[x] /\ left'[x] = left[x] \ {k} /\ queue' = Append(queue, k)
        /\ done' = done
    BY <1>1 DEF Enqueue, TypeOK
  <1>4. ASSUME NEW i \in Tasks PROVE Places(i)' = Places(i)
    <2>1. Places(i)' = Places(i)
             + (Cardinality(Queued(i)') - Cardinality(Queued(i)))
             + (One(i \in left'[x]) - One(i \in left[x]))
             + (One(cur'[x] = i) - One(cur[x] = i))
             + (One(i \in done') - One(i \in done))
      BY <1>1, <1>3, PlacesMove
    <2>2. Cardinality(Queued(i)') = Cardinality(Queued(i)) + One(k = i)
      BY <1>1, <1>2, <1>3, OccurrencesAppend DEF TypeOK, Queued, One
    <2>3. Places(i) \in Nat /\ Cardinality(Queued(i)) \in Nat
      BY <1>1, PlacesAre
    <2> QED
      BY <1>2, <1>3, <2>1, <2>2, <2>3 DEF One
  <1> QED
    BY <1>1, <1>4, PlacesAre DEF Adds, One

\* A task that is completed goes from its thread to the tasks done.
LEMMA CompleteAdds ==
    ASSUME Flow, Flow', Once, NEW x \in Threads, Complete(x)
    PROVE  Adds({})
  <1> DEFINE k == cur[x]
  <1> USE ThreadKinds DEF pool, owner
  <1>1. TypeOK /\ TypeOK' /\ k \in Tasks /\ issued' = issued
    <2>1. Fits(x, pc[x], cur[x], left[x], registered[x]) /\ TypeOK
      BY DEF Flow
    <2> QED
      BY <2>1 DEF Flow, Complete, Fits, WorkerFits, ClientFits, TypeOK
  <1>2. k \notin done
    BY <1>1, LoopsPlace
  <1>3. /\ cur' = [cur EXCEPT ![x] = cur'[x]] /\ left' = [left EXCEPT ![x] = left'[x]]
        /\ cur'[x] = None /\ left'[x] = left[x] /\ queue' = queue /\ done' = done \union {k}
    BY <1>1 DEF Complete, TypeOK
  <1>4. ASSUME NEW i \in Tasks PROVE Places(i)' = Places(i)
    <2>1. Places(i)' = Places(i)
             + (Cardinality(Queued(i)') - Cardinality(Queued(i)))
             + (One(i \in left'[x]) - One(i \in left[x]))
             + (One(cur'[x] = i) - One(cur[x] = i))
             + (One(i \in done') - One(i \in done))
      BY <1>1, <1>3, PlacesMove
    <2>2. Places(i) \in Nat /\ Cardinality(Queued(i)) \in Nat
          /\ Cardinality(Queued(i)') = Cardinality(Queued(i))
      BY <1>1, <1>3, PlacesAre DEF Queued
    <2> QED
      BY <1>2, <1>3, <2>1, <2>2 DEF One
  <1> QED
    BY <1>1, <1>4, PlacesAre DEF Adds, One

\* A task that begins brings the tasks of its loop.
LEMMA RunAdds ==
    ASSUME Flow, Flow', Once, NEW x \in Threads, Run(x)
    PROVE  Adds(Subtasks[cur[x]])
  <1>0. PICK k : k = cur[x]
    OBVIOUS
  <1> USE ThreadKinds DEF pool, owner
  <1>1. /\ TypeOK /\ TypeOK' /\ k \in Tasks /\ issued' = issued /\ left[x] = {}
        /\ pc[x] = "run" /\ Subtasks[k] \subseteq Tasks
    <2>1. Fits(x, pc[x], cur[x], left[x], registered[x]) /\ TypeOK
      BY DEF Flow
    <2>2. pc[x] = "run" /\ issued' = issued /\ TypeOK'
      BY DEF Run, Flow
    <2>3. k # None /\ left[x] = {}
      BY <1>0, <2>1, <2>2 DEF Fits, LeftFits, WorkerFits, ClientFits
    <2>4. k \in Tasks
      BY <1>0, <2>1, <2>3 DEF TypeOK
    <2> QED
      BY <2>1, <2>2, <2>3, <2>4, ThreadPoolAssumption
  <1>2. k \notin done /\ \A y \in Threads : cur[y] = k => pc[y] \in {"enlist", "run"}
    BY <1>0, <1>1, LoopsPlace
  <1>3. \A j \in Subtasks[k] : Places(j) = 0 /\ j \notin done /\ j # k
    BY <1>1, <1>2, FreshLoop
  <1>4. /\ cur' = [cur EXCEPT ![x] = cur'[x]] /\ left' = [left EXCEPT ![x] = left'[x]]
        /\ cur'[x] = k /\ queue' = queue
        /\ \/ left'[x] = Subtasks[k] /\ done' = done
           \/ left'[x] = {} /\ done' = done \union Subtasks[k]
        /\ pc'[x] \notin {"enlist", "run"}
    BY <1>0, <1>1 DEF Run, LoopPlace, TypeOK
  <1>5. ASSUME NEW i \in Tasks PROVE Places(i)' = Places(i) + One(i \in Subtasks[k])
    <2>1. Places(i)' = Places(i)
             + (Cardinality(Queued(i)') - Cardinality(Queued(i)))
             + (One(i \in left'[x]) - One(i \in left[x]))
             + (One(cur'[x] = i) - One(cur[x] = i))
             + (One(i \in done') - One(i \in done))
      BY <1>1, <1>4, PlacesMove
    <2>2. Places(i) \in Nat /\ Cardinality(Queued(i)) \in Nat
          /\ Cardinality(Queued(i)') = Cardinality(Queued(i))
      BY <1>1, <1>4, PlacesAre DEF Queued
    <2> QED
      BY <1>0, <1>1, <1>3, <1>4, <2>1, <2>2 DEF One
  <1>6. Begun(k)'
    BY <1>4 DEF Begun
  <1> QED
    BY <1>0, <1>1, <1>3, <1>5, <1>6 DEF Adds

\* A client's task is nowhere before the client issues it.
LEMMA Unissued ==
    ASSUME TypeOK, Once, NEW c \in Clients, NEW k \in Work[c] \union Fired[c], k \notin issued
    PROVE  /\ k \in Tasks /\ Places(k) = 0 /\ k \notin done
           /\ \A y \in Threads : cur[y] # k /\ k \notin left[y]
           /\ \A i \in Tasks : k \notin Subtasks[i]
  <1>1. k \in Tasks /\ \A i \in Tasks : k \notin Subtasks[i]
    BY ThreadPoolAssumption
  <1>2. Places(k) = 0
    BY <1>1 DEF Once
  <1> QED
    BY <1>1, <1>2, OnePlace

\* A client that begins a loop brings its tasks.
LEMMA StartLoopAdds ==
    ASSUME Flow, Flow', Once, NEW c \in Clients, StartLoop(c)
    PROVE  Adds(Work[c])
  <1> USE ThreadKinds DEF pool, owner
  <1>1. /\ TypeOK /\ TypeOK' /\ issued' = issued \union Work[c] /\ left[c] = {}
        /\ Work[c] \subseteq Tasks /\ Work[c] \intersect issued = {}
    <2>1. Fits(c, pc[c], cur[c], left[c], registered[c]) /\ TypeOK
      BY DEF Flow
    <2> QED
      BY <2>1, ThreadPoolAssumption DEF Flow, StartLoop, Fits, LeftFits
  <1>2. \A k \in Work[c] : Places(k) = 0 /\ \A i \in Tasks : k \notin Subtasks[i]
    BY <1>1, Unissued
  <1>3. /\ cur' = [cur EXCEPT ![c] = cur'[c]] /\ left' = [left EXCEPT ![c] = left'[c]]
        /\ cur'[c] = cur[c] /\ queue' = queue /\ left'[c] = Work[c] /\ done' = done
    BY <1>1 DEF StartLoop, TypeOK
  <1>4. ASSUME NEW i \in Tasks PROVE Places(i)' = Places(i) + One(i \in Work[c])
    <2>1. Places(i)' = Places(i)
             + (Cardinality(Queued(i)') - Cardinality(Queued(i)))
             + (One(i \in left'[c]) - One(i \in left[c]))
             + (One(cur'[c] = i) - One(cur[c] = i))
             + (One(i \in done') - One(i \in done))
      BY <1>1, <1>3, PlacesMove
    <2>2. Places(i) \in Nat /\ Cardinality(Queued(i)) \in Nat
          /\ Cardinality(Queued(i)') = Cardinality(Queued(i))
      BY <1>1, <1>3, PlacesAre DEF Queued
    <2> QED
      BY <1>1, <1>3, <2>1, <2>2 DEF One
  <1> QED
    BY <1>1, <1>2, <1>4 DEF Adds

\* A client that fires a task brings that one.
LEMMA FireAdds ==
    ASSUME Flow, Flow', Once, NEW c \in Clients, NEW k \in Fired[c], Fire(c, k)
    PROVE  \E N : Adds(N)
  <1> USE ThreadKinds DEF pool, owner
  <1>1. /\ TypeOK /\ TypeOK' /\ issued' = issued \union {k} /\ left[c] = {}
        /\ k \notin issued
    <2>1. Fits(c, pc[c], cur[c], left[c], registered[c]) /\ TypeOK
      BY DEF Flow
    <2> QED
      BY <2>1 DEF Flow, Fire, Fits, LeftFits
  <1>2. /\ k \in Tasks /\ Places(k) = 0 /\ k \notin done
        /\ \A y \in Threads : cur[y] # k
        /\ \A i \in Tasks : k \notin Subtasks[i]
    BY <1>1, Unissued
  <1>3. \A j \in Subtasks[k] : Places(j) = 0 /\ j \notin done /\ j # k /\ j \in Tasks
    BY <1>1, <1>2, FreshLoop, ThreadPoolAssumption
  <1>4. /\ cur' = [cur EXCEPT ![c] = cur'[c]] /\ left' = [left EXCEPT ![c] = left'[c]]
        /\ cur'[c] = cur[c] /\ queue' = queue
        /\ \/ left'[c] = {k} /\ done' = done
           \/ left'[c] = {} /\ done' = done \union {k} \union Subtasks[k]
    BY <1>1 DEF Fire, Inline, TypeOK
  <1> DEFINE N == IF k \in done' THEN {k} \union Subtasks[k] ELSE {k}
  <1>5. ASSUME NEW i \in Tasks PROVE Places(i)' = Places(i) + One(i \in N)
    <2>1. Places(i)' = Places(i)
             + (Cardinality(Queued(i)') - Cardinality(Queued(i)))
             + (One(i \in left'[c]) - One(i \in left[c]))
             + (One(cur'[c] = i) - One(cur[c] = i))
             + (One(i \in done') - One(i \in done))
      BY <1>1, <1>4, PlacesMove
    <2>2. Places(i) \in Nat /\ Cardinality(Queued(i)) \in Nat
          /\ Cardinality(Queued(i)') = Cardinality(Queued(i))
      BY <1>1, <1>4, PlacesAre DEF Queued
    <2> QED
      BY <1>1, <1>2, <1>3, <1>4, <2>1, <2>2 DEF One
  <1>6. k \in done' => Begun(k)'
    BY DEF Begun
  <1>7. Adds(N)
    BY <1>1, <1>2, <1>3, <1>5, <1>6 DEF Adds
  <1> QED
    BY <1>7

\* The destructor's end empties the queue, and only that.
LEMMA StopJoinOnce ==
    ASSUME Flow, Once, StopJoin
    PROVE  Once'
  <1>1. TypeOK /\ UNCHANGED <<done, cur, left, issued>> /\ queue' = <<>>
    BY DEF Flow, StopJoin
  <1>2. pc'[Owner] = "stopped" /\ \A k : Begun(k)' <=> Begun(k)
    BY <1>1, ThreadKinds DEF StopJoin, Begun, TypeOK
  <1>3. ASSUME NEW k \in Tasks PROVE Places(k)' \in Nat /\ Places(k)' <= Places(k)
    <2>1. Cardinality({i \in DOMAIN queue' : queue'[i] = k}) = 0
      <3>1. {i \in DOMAIN queue' : queue'[i] = k} = {}
        BY <1>1
      <3> QED
        BY <3>1, FS_EmptySet
    <2>2. /\ Places(k)' = 0 + Cardinality(Handing(k)) + Cardinality(Running(k)) + One(k \in done)
      BY <1>1, <2>1 DEF Places, Handing, Running, One
    <2> QED
      BY <1>1, <2>2, PlacesAre DEF One
  <1>4. \A k \in Tasks : Places(k) \in Nat
    BY <1>1, PlacesAre
  <1>5. \A k \in Tasks : \A j \in Subtasks[k] : j \in Tasks
    BY ThreadPoolAssumption
  <1>6. \A k \in Tasks : (Places(k) <= 1)'
    BY <1>3, <1>4 DEF Once, EachTaskOnce
  <1>7. \A k \in Tasks : \A j \in Subtasks[k] : ~Begun(k)' => Places(j)' = 0
    BY <1>2, <1>3, <1>4, <1>5 DEF Once
  <1>8. \A k \in Tasks : Places(k)' # 0 => k \in issued' \/ \E i \in Tasks : k \in Subtasks[i]
    BY <1>1, <1>3, <1>4 DEF Once
  <1> QED
    BY <1>2, <1>6, <1>7, <1>8 DEF Once, EachTaskOnce

\* At first no task is anywhere.
LEMMA InitOnce == Init /\ Flow => Once
  <1> SUFFICES ASSUME Init, Flow PROVE Once
    OBVIOUS
  <1>1. TypeOK /\ issued = {}
    BY DEF Flow, Init
  <1>2. ASSUME NEW k \in Tasks PROVE Places(k) = 0
    <2>1. {i \in DOMAIN queue : queue[i] = k} = {}
      BY DEF Init
    <2>2. {x \in Threads : k \in left[x]} = {} /\ {x \in Threads : cur[x] = k} = {}
      BY ThreadKinds DEF Init
    <2>3. k \notin done
      BY DEF Init
    <2>4. Cardinality({}) = 0
      BY FS_EmptySet
    <2>5. Places(k) = 0 + 0 + 0 + 0
      BY <2>1, <2>2, <2>3, <2>4, Zenon DEF Places
    <2> QED
      BY <2>5
  <1>3. \A k \in Tasks : \A j \in Subtasks[k] : j \in Tasks
    BY ThreadPoolAssumption
  <1> QED
    BY <1>1, <1>2, <1>3 DEF Once, EachTaskOnce

\* Every step keeps every task in one place.
LEMMA NextOnce ==
    ASSUME Flow, Flow', Once, [Next]_vars
    PROVE  Once'
  <1> USE ThreadKinds DEF pool, owner
  <1>1. Kept /\ TypeOK /\ TypeOK'
    BY NextKept DEF Flow
  <1>2. ASSUME UNCHANGED <<queue, done, cur, left, issued>> PROVE Once'
    BY <1>1, <1>2, NothingMoves, AddsOnce
  <1>3. ASSUME NEW x \in Threads, queue # <<>>, cur[x] = None,
               cur' = [cur EXCEPT ![x] = Head(queue)], queue' = Tail(queue),
               UNCHANGED <<done, left, issued>>
        PROVE  Once'
    BY <1>1, <1>3, TaskTaken, AddsOnce
  <1>4. ASSUME NEW x \in Threads, LoopStep(x) PROVE Once'
    <2>1. CASE Chunk(x) \/ Enqueue(x) \/ Run(x) \/ Complete(x)
      BY <1>1, <2>1, ChunkAdds, EnqueueAdds, RunAdds, CompleteAdds, AddsOnce
    <2>2. CASE Help(x)
      <3>1. cur[x] = None
        BY <2>2 DEF Flow, Help, Fits, WorkerFits, ClientFits, WorkerPlaces
      <3> QED
        BY <1>3, <2>2, <3>1 DEF Help
    <2>3. CASE Notify(x) \/ Wait(x) \/ Awake(x) \/ Enlist(x) \/ Retire(x)
      BY <1>2, <2>3 DEF Notify, NotifyOne, Wait, Awake, Enlist, Retire
    <2> QED
      BY <1>4, <2>1, <2>2, <2>3 DEF LoopStep
  <1>5. ASSUME NEW w \in Workers, WorkerStep(w) \/ SpuriousWakeup(w) PROVE Once'
    <2>1. CASE Start(w) \/ CheckFlag(w) \/ Lock(w) \/ Sleep(w) \/ Leave(w) \/ SpuriousWakeup(w)
      BY <1>2, <2>1 DEF Start, CheckFlag, Lock, Sleep, Leave, SpuriousWakeup
    <2>2. CASE Pop(w) \/ Predicate(w)
      <3>1. cur[w] = None
        BY <2>2 DEF Flow, Pop, Predicate, Fits, WorkerFits
      <3> QED
        BY <1>2, <1>3, <2>2, <3>1 DEF Pop, Predicate, TakeTask
    <2> QED
      BY <1>5, <2>1, <2>2 DEF WorkerStep
  <1>6. CASE OwnerStep
    BY <1>2, <1>6, StopJoinOnce DEF OwnerStep, FlagOne, Wake, WakeAll, Join, SetSize
  <1>7. ASSUME NEW c \in Clients, StartLoop(c) PROVE Once'
    BY <1>1, <1>7, StartLoopAdds, AddsOnce
  <1>8. ASSUME NEW c \in Clients, NEW k \in Fired[c], Fire(c, k) PROVE Once'
    BY <1>1, <1>8, FireAdds, AddsOnce
  <1>9. ASSUME NEW n \in Sizes, Grow(n) \/ Shrink(n) PROVE Once'
    BY <1>2, <1>9 DEF Grow, Shrink
  <1>10. CASE Stop
    BY <1>2, <1>10 DEF Stop
  <1>11. CASE UNCHANGED vars
    BY <1>2, <1>11 DEF vars
  <1>12. ASSUME NEW x \in Threads, Yield(x) PROVE Once'
    BY <1>11, <1>12 DEF Yield
  <1> QED
    BY <1>4, <1>5, <1>6, <1>7, <1>8, <1>9, <1>10, <1>11, <1>12 DEF Next

\* Every task that was begun is in exactly one place, with one thread, in the
\* queue, or done, until the pool is gone: push, pop, the helpers, resizing and
\* the workers that leave lose none and run none twice.
THEOREM TasksOnce == Spec => []EachTaskOnce
  <1>1. Flow /\ Once /\ [Next]_vars => (Flow /\ Once)'
    BY NextFlow, NextOnce
  <1>2. Once => EachTaskOnce
    BY DEF Once
  <1> QED
    BY <1>1, <1>2, InitFlow, InitOnce, PTL DEF Spec

-----------------------------------------------------------------------------
(* No task is left behind.                                                   *)

\* The size the pool will have when the owner is done with it.
Target == IF pc[Owner] \in {"flag", "wake", "join", "set size"} THEN goal ELSE size

\* Worker w will look at the queue before it sleeps or leaves.
Looking(w) == pc[w] \notin {"no task", "asleep", "leave"} \union Gone

MutexOK == \A w \in Workers : pc[w] \in {"predicate", "no task"} => mutex = w

\* Only workers that the pool gets rid of are flagged, all of them before the
\* owner wakes them; none of those falls asleep once it is woken.
FlagsOK ==
    /\ \A w \in 1..Target : ~flag[w] /\ (pc[w] \in {"leave"} \union Gone => isDone)
    /\ pc[Owner] = "flag" => goal < size /\ ~flag[goal + 1]
    /\ pc[Owner] \in {"wake", "join"} => \A w \in goal + 1..size : flag[w]
    /\ \A w \in Workers : w > Target /\ pc[w] = "asleep" => pc[Owner] \in {"flag", "wake"}

\* When the destructor runs nobody uses the pool any more.
StopOK ==
    /\ isDone <=> pc[Owner] \in {"stop wake", "stop join", "stopped"}
    /\ isDone => /\ \A c \in Clients \ {Owner} : pc[c] = "idle"
                 /\ \A c \in Clients : Work[c] \union Fired[c] \subseteq issued

\* While tasks are queued somebody is about to wake a worker, or a worker of
\* those that stay will look.
NoLostWakeup ==
    queue # <<>> /\ Target > 0 =>
        \/ pc[Owner] \in {"flag", "wake"}
        \/ \E x \in Threads : pc[x] \in {"notify", "notify fired"}
        \/ \E w \in 1..Target : Looking(w)

Watch == MutexOK /\ FlagsOK /\ StopOK /\ NoLostWakeup /\ DestructorRunsAll

Pending == \E x \in Threads : pc[x] \in {"notify", "notify fired"}

\* What the steps that are not the owner's own do to what it looks at.
Ordinary ==
    /\ UNCHANGED <<size, goal, flag, isDone>>
    /\ issued \subseteq issued' /\ done \subseteq done'
    /\ \A p \in OwnerPlaces : pc[Owner] = p <=> pc'[Owner] = p
    /\ (\A c \in Clients : Work[c] \union Fired[c] \subseteq issued) =>
          issued' = issued /\ \A c \in Clients : pc[c] = "idle" => pc'[c] = "idle"
    /\ \A w \in Workers : pc'[w] \in {"leave"} \union Gone =>
          pc[w] \in {"leave"} \union Gone \/ isDone \/ flag[w]
    /\ \A w \in Workers : pc'[w] = "asleep" => pc[w] = "asleep" \/ (~flag[w] /\ pc[w] = "no task")
    /\ \A w \in Workers : Looking(w) => Looking(w)' \/ flag[w] \/ queue' = <<>>
    /\ queue' # <<>> => queue # <<>> \/ Pending'
    /\ MutexOK'

\* The steps of a loop, and of what is done before and after.
Busy == {"chunk", "serial", "enqueue", "notify", "enqueue fired", "notify fired", "run", "complete"}

\* They change nothing that the owner looks at, but may push or wake.
LEMMA BusyMove ==
    ASSUME Flow, MutexOK, NEW x \in Threads, NEW W \in SUBSET Asleep,
           pc[x] \in Busy, pc'[x] \in Busy \union {"idle"},
           \A y \in Threads \ {x} : pc'[y] = IF y \in W THEN "lock" ELSE pc[y],
           UNCHANGED <<mutex, size, goal, flag, isDone, issued>>, done \subseteq done',
           queue' # <<>> => queue # <<>> \/ pc'[x] \in {"notify", "notify fired"}
    PROVE  Ordinary /\ (Pending => Pending' \/ pc[x] \in {"notify", "notify fired"})
  <1> USE ThreadKinds DEF Busy
  <1>1. \A w \in Workers : w \in Threads
    OBVIOUS
  <1>2. \A y \in W : y \in Workers /\ pc[y] = "asleep" /\ y # x /\ y \in Threads
    BY DEF Asleep
  <1>3. MutexOK'
    BY <1>1, <1>2 DEF MutexOK
  <1>4. /\ \A p \in OwnerPlaces : pc[Owner] = p <=> pc'[Owner] = p
        /\ \A c \in Clients : pc[c] = "idle" => pc'[c] = "idle"
    BY <1>2 DEF OwnerPlaces
  <1>5. ASSUME NEW w \in Workers
        PROVE  /\ pc'[w] \in {"leave"} \union Gone => pc[w] \in {"leave"} \union Gone
               /\ pc'[w] = "asleep" => pc[w] = "asleep"
               /\ Looking(w) => Looking(w)'
    BY <1>1, <1>2 DEF Looking
  <1>6. Pending => Pending' \/ pc[x] \in {"notify", "notify fired"}
    BY <1>2 DEF Pending
  <1>7. pc'[x] \in {"notify", "notify fired"} => Pending'
    BY DEF Pending
  <1> QED
    BY <1>3, <1>4, <1>5, <1>6, <1>7 DEF Ordinary

\* The steps of loops are ordinary, and only telling a worker ends a push.
LEMMA OrdinaryLoops ==
    ASSUME Flow, MutexOK, NEW x \in Threads, LoopStep(x)
    PROVE  Ordinary /\ (Pending => Pending' \/ Notify(x))
  <1> USE ThreadKinds DEF pool, owner, Fits, WorkerFits, ClientFits
  <1>1. /\ TypeOK /\ Fits(x, pc[x], cur[x], left[x], registered[x])
    BY DEF Flow
  <1>2. CASE Chunk(x)
    <2>1. /\ pc[x] \in InLoop /\ pc'[x] \in InLoop \union {"enqueue"} /\ done \subseteq done'
          /\ \A y \in Threads \ {x} : pc'[y] = pc[y]
          /\ UNCHANGED <<mutex, size, goal, flag, isDone, issued, queue>>
      BY <1>1, <1>2 DEF Chunk, Inline, TypeOK
    <2>2. {} \in SUBSET Asleep /\ \A y : y \notin {}
      OBVIOUS
    <2> QED
      BY <2>1, <2>2, BusyMove DEF Busy
  <1>3. CASE Enqueue(x)
    <2>1. /\ pc[x] \in Busy /\ pc[x] \notin {"notify", "notify fired"}
          /\ pc'[x] \in {"notify", "notify fired"}
          /\ \A y \in Threads \ {x} : pc'[y] = pc[y]
          /\ UNCHANGED <<mutex, size, goal, flag, isDone, issued, done>>
      BY <1>1, <1>3 DEF Enqueue, TypeOK, Busy
    <2>2. {} \in SUBSET Asleep /\ \A y : y \notin {}
      OBVIOUS
    <2> QED
      BY <2>1, <2>2, BusyMove DEF Busy
  <1>4. CASE Notify(x)
    <2>1. /\ pc[x] \in {"notify", "notify fired"} /\ pc'[x] \in {"chunk", "idle"}
          /\ UNCHANGED <<mutex, size, goal, flag, isDone, issued, queue, done>>
      BY <1>1, <1>4 DEF Notify, NotifyOne, TypeOK, Asleep
    <2>2. PICK W \in SUBSET Asleep :
             \A y \in Threads \ {x} : pc'[y] = IF y \in W THEN "lock" ELSE pc[y]
      <3>1. CASE Asleep = {}
        <4>1. \A y \in Threads \ {x} : pc'[y] = IF y \in Asleep THEN "lock" ELSE pc[y]
          <5>1. PICK to : pc' = [pc EXCEPT ![x] = to]
            BY <1>4, <3>1 DEF Notify, NotifyOne
          <5>2. \A y \in Threads \ {x} : pc'[y] = pc[y]
            BY <1>1, <5>1 DEF TypeOK
          <5> QED
            BY <3>1, <5>2
        <4>2. Asleep \in SUBSET Asleep
          OBVIOUS
        <4> QED
          BY <4>1, <4>2
      <3>2. ASSUME NEW w \in Asleep, NEW to, pc' = [pc EXCEPT ![x] = to, ![w] = "lock"]
            PROVE  \E W \in SUBSET Asleep :
                      \A y \in Threads \ {x} : pc'[y] = IF y \in W THEN "lock" ELSE pc[y]
        <4>1. \A y \in Threads \ {x} : pc'[y] = IF y \in {w} THEN "lock" ELSE pc[y]
          BY <1>1, <3>2 DEF TypeOK
        <4> QED
          BY <4>1
      <3> QED
        BY <1>4, <3>1, <3>2 DEF Notify, NotifyOne
    <2>3. Ordinary
      BY <2>1, <2>2, BusyMove DEF Busy
    <2> QED
      BY <1>4, <2>3
  <1>5. CASE Wait(x)
    BY <1>1, <1>5 DEF Wait, Ordinary, Pending, MutexOK, Looking,
         TypeOK, WorkerPlaces, ClientPlaces, OwnerPlaces
  <1>6. CASE Awake(x)
    BY <1>1, <1>6 DEF Awake, Ordinary, Pending, MutexOK, Looking,
         TypeOK, WorkerPlaces, ClientPlaces, OwnerPlaces
  <1>7. CASE Help(x)
    BY <1>1, <1>7 DEF Help, Ordinary, Pending, MutexOK, Looking,
         TypeOK, WorkerPlaces, ClientPlaces, OwnerPlaces
  <1>8. CASE Enlist(x)
    BY <1>1, <1>8 DEF Enlist, Ordinary, Pending, MutexOK, Looking,
         TypeOK, WorkerPlaces, ClientPlaces, OwnerPlaces
  <1>9. CASE Retire(x)
    BY <1>1, <1>9 DEF Retire, Ordinary, Pending, MutexOK, Looking,
         TypeOK, WorkerPlaces, ClientPlaces, OwnerPlaces
  <1>10. CASE Run(x)
    <2>1. /\ pc[x] = "run" /\ pc'[x] \in InLoop \union {"complete"} /\ done \subseteq done'
          /\ \A y \in Threads \ {x} : pc'[y] = pc[y]
          /\ UNCHANGED <<mutex, size, goal, flag, isDone, issued, queue>>
      BY <1>1, <1>10 DEF Run, LoopPlace, TypeOK
    <2>2. {} \in SUBSET Asleep /\ \A y : y \notin {}
      OBVIOUS
    <2> QED
      BY <2>1, <2>2, BusyMove DEF Busy
  <1>11. CASE Complete(x)
    BY <1>1, <1>11 DEF Complete, Ordinary, Pending, MutexOK, Looking,
         TypeOK, WorkerPlaces, ClientPlaces, OwnerPlaces
  <1> QED
    BY <1>2, <1>3, <1>4, <1>5, <1>6, <1>7, <1>8, <1>9, <1>10, <1>11 DEF LoopStep

\* So are the workers' steps, ...
LEMMA OrdinaryWorkers ==
    ASSUME Flow, MutexOK, NEW x \in Workers, WorkerStep(x) \/ SpuriousWakeup(x)
    PROVE  Ordinary /\ (Pending => Pending')
  <1> USE ThreadKinds DEF pool, owner, Fits, WorkerFits, ClientFits
  <1>1. /\ TypeOK /\ Fits(x, pc[x], cur[x], left[x], registered[x])
    BY DEF Flow
  <1>2. CASE Start(x)
    BY <1>1, <1>2 DEF Start, Ordinary, Pending, MutexOK, Looking,
         TypeOK, WorkerPlaces, ClientPlaces, OwnerPlaces
  <1>3. CASE Pop(x)
    BY <1>1, <1>3 DEF Pop, TakeTask, Ordinary, Pending, MutexOK, Looking,
         TypeOK, WorkerPlaces, ClientPlaces, OwnerPlaces
  <1>4. CASE CheckFlag(x)
    BY <1>1, <1>4 DEF CheckFlag, Ordinary, Pending, MutexOK, Looking,
         TypeOK, WorkerPlaces, ClientPlaces, OwnerPlaces
  <1>5. CASE Lock(x)
    BY <1>1, <1>5 DEF Lock, Ordinary, Pending, MutexOK, Looking,
         TypeOK, WorkerPlaces, ClientPlaces, OwnerPlaces
  <1>6. CASE Predicate(x)
    BY <1>1, <1>6 DEF Predicate, TakeTask, Ordinary, Pending, MutexOK, Looking,
         TypeOK, WorkerPlaces, ClientPlaces, OwnerPlaces
  <1>7. CASE Sleep(x)
    BY <1>1, <1>7 DEF Sleep, Ordinary, Pending, MutexOK, Looking,
         TypeOK, WorkerPlaces, ClientPlaces, OwnerPlaces
  <1>8. CASE Leave(x)
    BY <1>1, <1>8 DEF Leave, Ordinary, Pending, MutexOK, Looking,
         TypeOK, WorkerPlaces, ClientPlaces, OwnerPlaces
  <1>9. CASE SpuriousWakeup(x)
    BY <1>1, <1>9 DEF SpuriousWakeup, Ordinary, Pending, MutexOK, Looking,
         TypeOK, WorkerPlaces, ClientPlaces, OwnerPlaces
  <1> QED
    BY <1>2, <1>3, <1>4, <1>5, <1>6, <1>7, <1>8, <1>9 DEF WorkerStep

\* ... and what clients begin.
LEMMA OrdinaryClients ==
    ASSUME Flow, MutexOK, NEW x \in Clients,
           StartLoop(x) \/ \E k \in Fired[x] : Fire(x, k)
    PROVE  Ordinary /\ (Pending => Pending')
  <1> USE ThreadKinds DEF pool, owner
  <1>1. TypeOK
    BY DEF Flow
  <1>2. CASE StartLoop(x)
    BY <1>1, <1>2 DEF StartLoop, LoopPlace, Ordinary, Pending, MutexOK, Looking,
         TypeOK, WorkerPlaces, ClientPlaces, OwnerPlaces
  <1>3. ASSUME NEW k \in Fired[x], Fire(x, k)
        PROVE  Ordinary /\ (Pending => Pending')
    <2>1. /\ pc[x] = "idle" /\ pc'[x] \in {"idle", "enqueue fired"} /\ done \subseteq done'
          /\ \A y \in Threads \ {x} : pc'[y] = pc[y]
          /\ UNCHANGED <<mutex, size, goal, flag, isDone, queue>> /\ issued \subseteq issued'
          /\ ~(Work[x] \union Fired[x] \subseteq issued)
      BY <1>1, <1>3 DEF Fire, Inline, TypeOK
    <2>2. /\ \A p \in OwnerPlaces : pc[Owner] = p <=> pc'[Owner] = p
          /\ \A w \in Workers : pc'[w] = pc[w]
      BY <2>1 DEF OwnerPlaces
    <2>3. Pending => Pending'
      BY <2>1 DEF Pending
    <2> QED
      BY <2>1, <2>2, <2>3 DEF Ordinary, MutexOK, Looking
  <1> QED
    BY <1>2, <1>3

\* The threads that stay are workers.
LEMMA TargetRange ==
    ASSUME TypeOK
    PROVE  /\ Target \in Nat /\ Target <= MaxWorkers
           /\ \A w \in 1..Target : w \in Workers
           /\ Target > 0 => 1 \in 1..Target
  <1>1. Target \in Nat /\ Target <= MaxWorkers
    <2>1. size \in 0..MaxWorkers /\ goal \in 0..MaxWorkers
      BY DEF TypeOK
    <2>2. Target = size \/ Target = goal
      BY DEF Target
    <2> QED
      BY <2>1, <2>2, ThreadKinds
  <1> QED
    BY <1>1, ThreadKinds DEF Workers

\* When the owner is in the destructor, or has stopped, the size is settled.
LEMMA OwnerSizes ==
    /\ pc[Owner] \in {"idle", "stop wake", "stop join", "stopped"} => Target = size /\ NewSize = size
    /\ pc[Owner] \in {"flag", "wake", "join"} => Target = goal /\ NewSize = size
    /\ pc[Owner] = "set size" => Target = goal /\ NewSize = goal
    /\ pc[Owner] \notin {"flag", "wake", "join", "set size"} => Target = size /\ NewSize = size
  BY DEF Target, NewSize

\* Ordinary steps keep watch, if a push is not ended.
LEMMA OrdinaryKeepsWatch ==
    ASSUME Flow, Flow', Watch, Ordinary, (Pending => Pending') \/ NoLostWakeup'
    PROVE  Watch'
  <1> USE ThreadKinds
  <1>1. /\ TypeOK /\ TypeOK' /\ GoneOK /\ MutexOK /\ FlagsOK /\ StopOK /\ NoLostWakeup
        /\ DestructorRunsAll /\ MutexOK'
    BY DEF Flow, Watch, Ordinary
  <1>2. \A p \in OwnerPlaces : pc[Owner] = p <=> pc'[Owner] = p
    BY DEF Ordinary
  <1>3. /\ pc[Owner] = "flag" <=> pc'[Owner] = "flag"
        /\ pc[Owner] = "wake" <=> pc'[Owner] = "wake"
        /\ pc[Owner] = "join" <=> pc'[Owner] = "join"
        /\ pc[Owner] = "set size" <=> pc'[Owner] = "set size"
        /\ pc[Owner] = "stop wake" <=> pc'[Owner] = "stop wake"
        /\ pc[Owner] = "stop join" <=> pc'[Owner] = "stop join"
        /\ pc[Owner] = "stopped" <=> pc'[Owner] = "stopped"
    BY <1>2 DEF OwnerPlaces
  <1>4. UNCHANGED <<size, goal, flag, isDone>> /\ Target' = Target
    BY <1>3 DEF Ordinary, Target
  <1>5. FlagsOK'
    <2>1. ASSUME NEW w \in 1..Target PROVE ~flag'[w] /\ (pc'[w] \in {"leave"} \union Gone => isDone')
      <3>1. w \in Workers /\ ~flag[w] /\ (pc[w] \in {"leave"} \union Gone => isDone)
        BY <1>1, TargetRange DEF FlagsOK
      <3>2. pc'[w] \in {"leave"} \union Gone => pc[w] \in {"leave"} \union Gone \/ isDone \/ flag[w]
        BY <3>1 DEF Ordinary
      <3>3. flag' = flag /\ isDone' = isDone
        BY <1>4
      <3> QED
        BY <3>1, <3>2, <3>3
    <2>2. /\ pc'[Owner] = "flag" => goal' < size' /\ ~flag'[goal' + 1]
          /\ pc'[Owner] \in {"wake", "join"} => \A w \in goal' + 1..size' : flag'[w]
      BY <1>1, <1>3, <1>4 DEF FlagsOK
    <2>3. ASSUME NEW w \in Workers, w > Target, pc'[w] = "asleep"
          PROVE  pc[Owner] \in {"flag", "wake"}
      <3>1. CASE pc[w] = "asleep"
        BY <1>1, <2>3, <3>1 DEF FlagsOK
      <3>2. CASE pc[w] # "asleep"
        <4>1. ~flag[w] /\ pc[w] = "no task"
          BY <2>3, <3>2 DEF Ordinary
        <4>2. ~(w > NewSize)
          BY <1>1, <4>1 DEF GoneOK
        <4>3. w \in Int /\ size \in Int /\ goal \in Int
          BY <1>1 DEF TypeOK
        <4>4. pc[Owner] \in {"flag", "wake", "join"} /\ Target = goal /\ NewSize = size
          BY <2>3, <4>2, <4>3, OwnerSizes
        <4>5. w \in goal + 1..size
          BY <2>3, <4>2, <4>3, <4>4
        <4> QED
          BY <1>1, <4>1, <4>4, <4>5 DEF FlagsOK
      <3> QED
        BY <3>1, <3>2
    <2> QED
      BY <1>3, <1>4, <2>1, <2>2, <2>3 DEF FlagsOK
  <1>6. StopOK'
    <2>1. isDone' = isDone /\ issued \subseteq issued'
      BY DEF Ordinary
    <2>2. isDone' <=> pc'[Owner] \in {"stop wake", "stop join", "stopped"}
      BY <1>1, <1>3, <2>1 DEF StopOK
    <2>3. ASSUME isDone
          PROVE  /\ \A c \in Clients \ {Owner} : pc'[c] = "idle"
                 /\ \A c \in Clients : Work[c] \union Fired[c] \subseteq issued'
      <3>1. /\ \A c \in Clients \ {Owner} : pc[c] = "idle"
            /\ \A c \in Clients : Work[c] \union Fired[c] \subseteq issued
        BY <1>1, <2>3 DEF StopOK
      <3>2. \A c \in Clients : pc[c] = "idle" => pc'[c] = "idle"
        BY <3>1 DEF Ordinary
      <3> QED
        BY <2>1, <3>1, <3>2
    <2>4. isDone' => /\ \A c \in Clients \ {Owner} : pc'[c] = "idle"
                     /\ \A c \in Clients : Work[c] \union Fired[c] \subseteq issued'
      BY <2>1, <2>3
    <2> QED
      BY <2>2, <2>4 DEF StopOK
  <1>7. NoLostWakeup'
    <2> SUFFICES ASSUME Pending => Pending', queue' # <<>>, Target > 0,
                        pc[Owner] \notin {"flag", "wake"}, ~Pending'
                 PROVE  \E w \in 1..Target : Looking(w)'
      BY <1>3, <1>4 DEF NoLostWakeup, Pending, Looking
    <2>1. queue # <<>> /\ ~Pending
      BY DEF Ordinary
    <2>2. PICK w \in 1..Target : Looking(w)
      BY <1>1, <2>1 DEF NoLostWakeup, Pending
    <2>3. w \in Workers /\ ~flag[w]
      BY <1>1, TargetRange DEF FlagsOK
    <2> QED
      BY <2>2, <2>3 DEF Ordinary
  <1>8. DestructorRunsAll'
    <2> SUFFICES ASSUME pc[Owner] = "stopped", size > 0 PROVE issued' \subseteq done'
      BY <1>3, <1>4 DEF DestructorRunsAll
    <2>1. issued \subseteq done /\ issued' = issued
      BY <1>1 DEF DestructorRunsAll, StopOK, Ordinary
    <2> QED
      BY <2>1 DEF Ordinary
  <1> QED
    BY <1>1, <1>5, <1>6, <1>7, <1>8 DEF Watch

\* A pusher that finds a worker asleep wakes one that stays, and one that finds
\* none leaves none that has looked already.
LEMMA NotifyKeepsWatch ==
    ASSUME Flow, Flow', Watch, Ordinary, NEW x \in Threads, Notify(x)
    PROVE  NoLostWakeup'
  <1> USE ThreadKinds DEF pool, owner
  <1>1. /\ TypeOK /\ TypeOK' /\ GoneOK /\ MutexOK /\ FlagsOK /\ StopOK
    BY DEF Flow, Watch
  <1>2. /\ pc[x] \in {"notify", "notify fired"} /\ pc'[x] \in {"chunk", "idle"}
        /\ mutex = None /\ UNCHANGED <<size, goal, flag, isDone>>
        /\ \/ Asleep = {} /\ \A y \in Threads \ {x} : pc'[y] = pc[y]
           \/ \E w \in Asleep : pc'[w] = "lock"
    BY <1>1 DEF Notify, NotifyOne, TypeOK, Asleep
  <1>3. \A p \in OwnerPlaces : pc[Owner] = p <=> pc'[Owner] = p
    BY DEF Ordinary
  <1>4. Target' = Target
    BY <1>2, <1>3 DEF Target, OwnerPlaces
  <1> SUFFICES ASSUME Target > 0, pc[Owner] \notin {"flag", "wake"}
               PROVE  \E w \in 1..Target : Looking(w)'
    BY <1>3, <1>4 DEF NoLostWakeup, OwnerPlaces, Looking
  <1>5. ASSUME NEW w \in Asleep, pc'[w] = "lock" PROVE w \in 1..Target /\ Looking(w)'
    <2>1. w \in Workers /\ pc[w] = "asleep"
      BY DEF Asleep
    <2>2. ~(w > Target)
      BY <1>1, <2>1 DEF FlagsOK
    <2> QED
      BY <1>1, <1>5, <2>1, <2>2, TargetRange DEF Looking
  <1>6. CASE isDone
    <2>1. x \in Workers
      BY <1>1, <1>2, <1>6 DEF StopOK, Notify, NotifyOne
    <2>2. Target = size /\ NewSize = size
      BY <1>1, <1>6 DEF StopOK, Target, NewSize
    <2>3. ~(x > NewSize)
      BY <1>1, <1>2, <2>1 DEF GoneOK
    <2>4. x \in 1..Target
      BY <1>1, <2>1, <2>2, <2>3, TargetRange
    <2> QED
      BY <1>2, <2>4 DEF Looking
  <1>7. CASE ~isDone /\ Asleep = {} /\ \A y \in Threads \ {x} : pc'[y] = pc[y]
    <2>1. 1 \in 1..Target /\ 1 \in Workers /\ 1 \in Threads /\ 1 # None
      BY <1>1, TargetRange
    <2>2. pc[1] \notin {"leave", "asleep", "no task"} \union Gone
      <3>1. pc[1] \notin {"leave"} \union Gone
        BY <1>1, <1>7, <2>1 DEF FlagsOK
      <3>2. pc[1] # "asleep"
        BY <1>7, <2>1 DEF Asleep
      <3>3. pc[1] # "no task"
        BY <1>1, <1>2, <2>1 DEF MutexOK
      <3> QED
        BY <3>1, <3>2, <3>3
    <2> QED
      BY <1>2, <1>7, <2>1, <2>2 DEF Looking
  <1> QED
    BY <1>2, <1>5, <1>6, <1>7

\* Where all that changes is where the owner is.
LEMMA OwnerAlone ==
    ASSUME Flow, Watch, NEW to, pc' = [pc EXCEPT ![Owner] = to], to # "stopped", UNCHANGED mutex,
           pc[Owner] \in OwnerPlaces \union {"idle"}
    PROVE  /\ MutexOK' /\ DestructorRunsAll' /\ pc'[Owner] = to /\ (Pending => Pending')
           /\ \A y \in Threads \ {Owner} : pc'[y] = pc[y]
           /\ \A w \in Workers : pc'[w] = pc[w] /\ Looking(w)' = Looking(w)
  <1> USE ThreadKinds
  <1>1. pc'[Owner] = to /\ \A y \in Threads \ {Owner} : pc'[y] = pc[y]
    BY DEF Flow, TypeOK
  <1>2. \A w \in Workers : pc'[w] = pc[w]
    BY <1>1
  <1> QED
    BY <1>1, <1>2 DEF Watch, MutexOK, DestructorRunsAll, Pending, Looking, OwnerPlaces

\* Shrinking begins with nobody flagged.
LEMMA ShrinkWatch ==
    ASSUME Flow, Watch, NEW n \in Sizes, Shrink(n)
    PROVE  Watch'
  <1> USE ThreadKinds DEF pool, owner
  <1>1. /\ TypeOK /\ FlagsOK /\ StopOK /\ n \in Nat /\ size \in Nat
    BY ThreadPoolAssumption DEF Flow, Watch, TypeOK
  <1>2. /\ pc[Owner] = "idle" /\ pc' = [pc EXCEPT ![Owner] = "flag"] /\ n < size /\ goal' = n
        /\ UNCHANGED <<queue, mutex, size, flag, isDone, issued>>
    BY DEF Shrink
  <1>3. /\ MutexOK' /\ DestructorRunsAll' /\ pc'[Owner] = "flag"
        /\ \A y \in Threads \ {Owner} : pc'[y] = pc[y]
        /\ \A w \in Workers : pc'[w] = pc[w]
    BY <1>2, OwnerAlone
  <1>4. Target = size /\ Target' = n
    BY <1>2, <1>3 DEF Target
  <1>5. FlagsOK'
    <2>1. \A w \in 1..n : w \in Workers /\ w \in 1..size
      BY <1>1, <1>2, ThreadPoolAssumption DEF Workers, TypeOK
    <2>2. \A w \in 1..size : ~flag[w] /\ (pc[w] \in {"leave"} \union Gone => isDone)
      BY <1>1, <1>4 DEF FlagsOK
    <2>3. n + 1 \in 1..size
      BY <1>1, <1>2
    <2> QED
      BY <1>2, <1>3, <1>4, <2>1, <2>2, <2>3 DEF FlagsOK
  <1>6. StopOK'
    BY <1>1, <1>2, <1>3 DEF StopOK
  <1>7. NoLostWakeup'
    BY <1>3 DEF NoLostWakeup
  <1> QED
    BY <1>3, <1>5, <1>6, <1>7 DEF Watch

\* Flags are set from the last thread down to the first that goes.
LEMMA FlagOneWatch ==
    ASSUME Flow, Watch, FlagOne
    PROVE  Watch'
  <1> USE ThreadKinds DEF pool, owner
  <1>1. /\ TypeOK /\ FlagsOK /\ StopOK /\ goal \in Nat /\ size \in Nat
    BY DEF Flow, Watch, TypeOK
  <1>2. PICK f : f = Max({v \in goal + 1..size : ~flag[v]})
    OBVIOUS
  <1>3. /\ pc[Owner] = "flag" /\ flag' = [flag EXCEPT ![f] = TRUE]
        /\ pc' = [pc EXCEPT ![Owner] = IF f = goal + 1 THEN "wake" ELSE "flag"]
        /\ UNCHANGED <<queue, mutex, size, isDone, issued, goal>>
    BY <1>2 DEF FlagOne
  <1>4. goal < size /\ ~flag[goal + 1]
    BY <1>1, <1>3 DEF FlagsOK
  <1>5. /\ f \in goal + 1..size /\ \A v \in goal + 1..size : ~flag[v] => v <= f
    <2> DEFINE S == {v \in goal + 1..size : ~flag[v]}
    <2>1. S \in SUBSET Nat /\ goal + 1 \in S /\ \A v \in S : v <= size
      BY <1>1, <1>4
    <2>2. Max(S) \in S /\ \A v \in S : v <= Max(S)
      BY <1>1, <2>1, MaxOf
    <2> QED
      BY <1>2, <2>2
  <1>6. /\ MutexOK' /\ DestructorRunsAll'
        /\ pc'[Owner] = IF f = goal + 1 THEN "wake" ELSE "flag"
        /\ \A y \in Threads \ {Owner} : pc'[y] = pc[y]
        /\ \A w \in Workers : pc'[w] = pc[w]
    <2>1. (IF f = goal + 1 THEN "wake" ELSE "flag") # "stopped" /\ pc[Owner] \in OwnerPlaces
      BY <1>3 DEF OwnerPlaces
    <2> QED
      BY <1>3, <2>1, OwnerAlone
  <1>7. Target = goal /\ Target' = goal
    BY <1>3, <1>6 DEF Target
  <1>8. DOMAIN flag = Workers /\ \A w \in goal + 1..size : w \in Workers
    BY <1>1 DEF TypeOK, Workers
  <1>9. flag'[f] = TRUE /\ \A w \in Workers \ {f} : flag'[w] = flag[w]
    BY <1>3, <1>5, <1>8
  <1>10. FlagsOK'
    <2>1. ASSUME NEW w \in 1..goal PROVE ~flag'[w] /\ (pc'[w] \in {"leave"} \union Gone => isDone')
      <3>1. w \in Workers /\ w # f
        BY <1>1, <1>5, <1>7, TargetRange
      <3>2. ~flag[w] /\ (pc[w] \in {"leave"} \union Gone => isDone)
        BY <1>1, <1>7 DEF FlagsOK
      <3> QED
        BY <1>3, <1>6, <1>9, <3>1, <3>2
    <2>2. f # goal + 1 => ~flag'[goal + 1]
      <3>1. goal + 1 \in Workers
        BY <1>1, <1>4, <1>8
      <3> QED
        BY <1>4, <1>9, <3>1
    <2>3. ASSUME f = goal + 1, NEW w \in goal + 1..size PROVE flag'[w]
      <3>1. CASE w = f
        BY <1>9, <3>1
      <3>2. CASE w # f
        <4>1. ~(w <= f) /\ w \in Workers
          BY <1>1, <1>8, <2>3, <3>2
        <4>2. flag[w]
          BY <1>5, <4>1
        <4> QED
          BY <1>9, <3>2, <4>1, <4>2
      <3> QED
        BY <3>1, <3>2
    <2>4. pc'[Owner] \in {"flag", "wake"} /\ (pc'[Owner] = "flag" <=> f # goal + 1)
      BY <1>6
    <2> QED
      BY <1>3, <1>4, <1>7, <2>1, <2>2, <2>3, <2>4 DEF FlagsOK
  <1>11. StopOK'
    <2>1. pc[Owner] = "flag" /\ pc'[Owner] \in {"flag", "wake"}
      BY <1>3, <1>6
    <2> QED
      BY <1>1, <1>3, <1>6, <2>1 DEF StopOK
  <1>12. NoLostWakeup'
    BY <1>6 DEF NoLostWakeup
  <1> QED
    BY <1>6, <1>10, <1>11, <1>12 DEF Watch

\* After waking all, the first worker is awake if any worker stays.
LEMMA WakeWatch ==
    ASSUME Flow, Watch, Wake
    PROVE  Watch'
  <1> USE ThreadKinds DEF pool, owner
  <1>1. /\ TypeOK /\ FlagsOK /\ StopOK /\ MutexOK /\ NoLostWakeup
    BY DEF Flow, Watch
  <1>2. /\ \/ pc[Owner] = "wake" /\ pc'[Owner] = "join"
           \/ pc[Owner] = "stop wake" /\ pc'[Owner] = "stop join"
        /\ mutex = None /\ UNCHANGED <<queue, mutex, size, flag, isDone, issued, goal>>
        /\ \A y \in Threads \ {Owner} : pc'[y] = IF pc[y] = "asleep" THEN "lock" ELSE pc[y]
    <2>1. \A y \in Threads : pc[y] = "asleep" => y \in Workers
      BY DEF Flow, Fits, ClientFits, ClientPlaces, OwnerPlaces
    <2>2. \A y \in Threads : y \in Asleep <=> pc[y] = "asleep"
      BY <2>1 DEF Asleep
    <2>3. ASSUME NEW from, NEW to, WakeAll(from, to)
          PROVE  /\ pc[Owner] = from /\ pc'[Owner] = to
                 /\ mutex = None /\ UNCHANGED <<queue, mutex, size, flag, isDone, issued, goal>>
                 /\ \A y \in Threads \ {Owner} : pc'[y] = IF pc[y] = "asleep" THEN "lock" ELSE pc[y]
      <3>1. pc' = [x \in Threads |-> IF x = Owner THEN to
                                     ELSE IF x \in Asleep THEN "lock" ELSE pc[x]]
        BY <2>3 DEF WakeAll
      <3>2. pc'[Owner] = to
        BY <3>1
      <3>3. ASSUME NEW y \in Threads \ {Owner}
            PROVE  pc'[y] = IF pc[y] = "asleep" THEN "lock" ELSE pc[y]
        <4>1. pc'[y] = IF y \in Asleep THEN "lock" ELSE pc[y]
          BY <3>1
        <4> QED
          BY <2>2, <4>1
      <3>4. /\ pc[Owner] = from /\ mutex = None
            /\ UNCHANGED <<queue, mutex, size, flag, isDone, issued, goal>>
        BY <2>3 DEF WakeAll
      <3> QED
        BY <3>2, <3>3, <3>4
    <2>4. CASE WakeAll("wake", "join")
      BY <2>3, <2>4
    <2>5. CASE WakeAll("stop wake", "stop join")
      BY <2>3, <2>5
    <2> QED
      BY <2>4, <2>5 DEF Wake
  <1>3. \A w \in Workers : pc'[w] = IF pc[w] = "asleep" THEN "lock" ELSE pc[w]
    BY <1>2
  <1>4. Target' = Target
    BY <1>2 DEF Target
  <1>5. MutexOK' /\ DestructorRunsAll'
    BY <1>1, <1>2, <1>3 DEF MutexOK, DestructorRunsAll
  <1>6. FlagsOK'
    <2>1. ASSUME NEW w \in 1..Target PROVE ~flag[w] /\ (pc'[w] \in {"leave"} \union Gone => isDone)
      <3>1. w \in Workers
        BY <1>1, TargetRange
      <3> QED
        BY <1>1, <1>3, <3>1 DEF FlagsOK
    <2>2. pc'[Owner] = "join" => \A w \in goal + 1..size : flag[w]
      BY <1>1, <1>2 DEF FlagsOK
    <2> QED
      BY <1>2, <1>3, <1>4, <2>1, <2>2 DEF FlagsOK
  <1>7. StopOK'
    BY <1>1, <1>2 DEF StopOK
  <1>8. NoLostWakeup'
    <2> SUFFICES ASSUME queue # <<>>, Target > 0
                 PROVE  Pending' \/ \E w \in 1..Target : Looking(w)'
      BY <1>2, <1>4 DEF NoLostWakeup, Pending, Looking
    <2>1. CASE pc[Owner] = "wake"
      <3>1. 1 \in 1..Target /\ 1 \in Workers /\ 1 # None
        BY <1>1, TargetRange
      <3>2. ~isDone /\ pc[1] \notin {"leave"} \union Gone
        BY <1>1, <2>1, <3>1 DEF FlagsOK, StopOK
      <3>3. pc[1] # "no task"
        BY <1>1, <1>2, <3>1 DEF MutexOK
      <3> QED
        BY <1>3, <3>1, <3>2, <3>3 DEF Looking
    <2>2. CASE pc[Owner] = "stop wake"
      <3>1. CASE Pending
        <4>1. Pending'
          BY <1>2, <3>1, <2>2 DEF Pending
        <4> QED
          BY <4>1
      <3>2. CASE ~Pending
        <4>1. PICK w \in 1..Target : Looking(w)
          BY <1>1, <2>2, <3>2 DEF NoLostWakeup, Pending
        <4>2. w \in Workers
          BY <1>1, TargetRange
        <4> QED
          BY <1>3, <4>1, <4>2 DEF Looking
      <3> QED
        BY <3>1, <3>2
    <2> QED
      BY <1>2, <2>1, <2>2
  <1> QED
    BY <1>5, <1>6, <1>7, <1>8 DEF Watch

\* New threads look at the queue first.
LEMMA GrowWatch ==
    ASSUME Flow, Watch, NEW n \in Sizes, Grow(n)
    PROVE  Watch'
  <1> USE ThreadKinds DEF pool, owner
  <1>1. /\ TypeOK /\ FlagsOK /\ StopOK /\ MutexOK /\ NoLostWakeup /\ GoneOK
        /\ n \in Nat /\ size \in Nat /\ n <= MaxWorkers
    BY ThreadPoolAssumption DEF Flow, Watch, TypeOK
  <1>2. /\ pc[Owner] = "idle" /\ n >= size /\ pc'[Owner] = "set size" /\ goal' = n
        /\ UNCHANGED <<queue, mutex, size, isDone, issued>>
    BY DEF Grow
  <1>3. ASSUME NEW w \in Workers
        PROVE  /\ w \in size + 1..n => pc'[w] = "start" /\ flag'[w] = FALSE
               /\ w \notin size + 1..n => pc'[w] = pc[w] /\ flag'[w] = flag[w]
    BY DEF Grow
  <1>4. Target = size /\ NewSize = size /\ Target' = n
    BY <1>2 DEF Target, NewSize
  <1>5. \A w \in Workers : w \in size + 1..n => pc[w] \in Gone
    BY <1>1, <1>4 DEF GoneOK
  <1>6. MutexOK' /\ DestructorRunsAll'
    BY <1>1, <1>2, <1>3 DEF MutexOK, DestructorRunsAll
  <1>7. FlagsOK'
    <2>1. ASSUME NEW w \in 1..n PROVE ~flag'[w] /\ (pc'[w] \in {"leave"} \union Gone => isDone)
      <3>1. w \in Workers
        BY <1>1 DEF Workers
      <3>2. CASE w \in size + 1..n
        BY <1>3, <3>1, <3>2
      <3>3. CASE w \notin size + 1..n
        <4>1. w \in 1..Target
          BY <1>1, <1>4, <3>3
        <4> QED
          BY <1>1, <1>3, <3>1, <3>3, <4>1 DEF FlagsOK
      <3> QED
        BY <3>2, <3>3
    <2>2. ASSUME NEW w \in Workers, w > n, pc'[w] = "asleep" PROVE FALSE
      <3>1. w > Target /\ w \notin size + 1..n
        <4>1. w \in Nat /\ n >= size /\ Target = size
          BY <1>2, <1>4
        <4> QED
          BY <1>1, <2>2, <4>1
      <3> QED
        BY <1>1, <1>2, <1>3, <2>2, <3>1 DEF FlagsOK
    <2> QED
      BY <1>2, <1>4, <2>1, <2>2 DEF FlagsOK
  <1>8. StopOK'
    BY <1>1, <1>2 DEF StopOK
  <1>9. NoLostWakeup'
    <2> SUFFICES ASSUME queue # <<>>, n > 0
                 PROVE  Pending' \/ \E w \in 1..n : Looking(w)'
      BY <1>2, <1>4 DEF NoLostWakeup, Pending, Looking
    <2>1. CASE size = 0
      <3>1. 1 \in 1..n /\ 1 \in Workers /\ 1 \in size + 1..n
        BY <1>1, <2>1 DEF Workers
      <3> QED
        BY <1>3, <3>1 DEF Looking
    <2>2. CASE size > 0 /\ Pending
      <3>1. PICK x \in Threads : pc[x] \in {"notify", "notify fired"}
        BY <2>2 DEF Pending
      <3>2. pc'[x] = pc[x]
        <4>1. CASE x \in Workers
          BY <1>3, <1>5, <3>1, <4>1
        <4>2. CASE x \notin Workers
          <5>1. x \in Clients /\ x # Owner /\ x \notin size + 1..n
            <6>1. x \in Clients /\ x # Owner
              BY <1>2, <3>1, <4>2
            <6>2. x \notin Int
              BY <6>1, ThreadPoolAssumption
            <6> QED
              BY <1>1, <6>1, <6>2
          <5> QED
            BY <5>1 DEF Grow
        <4> QED
          BY <4>1, <4>2
      <3> QED
        BY <3>1, <3>2 DEF Pending
    <2>3. CASE size > 0 /\ ~Pending
      <3>1. PICK w \in 1..size : Looking(w)
        BY <1>1, <1>2, <1>4, <2>3 DEF NoLostWakeup, Pending
      <3>2. w \in Workers /\ w \notin size + 1..n /\ w \in 1..n
        <4>1. n >= size
          BY <1>2
        <4>2. w \in Int /\ w >= 1 /\ w <= size
          BY <1>1
        <4> QED
          BY <1>1, <4>1, <4>2 DEF Workers
      <3> QED
        BY <1>3, <3>1, <3>2 DEF Looking
    <2> QED
      BY <1>1, <2>1, <2>2, <2>3
  <1> QED
    BY <1>6, <1>7, <1>8, <1>9 DEF Watch

\* Joining, setting the size and stopping leave the workers alone.
LEMMA SettleWatch ==
    ASSUME Flow, Flow', Watch, Join \/ SetSize \/ Stop
    PROVE  Watch'
  <1> USE ThreadKinds DEF pool, owner
  <1>1. /\ TypeOK /\ TypeOK' /\ FlagsOK /\ StopOK /\ MutexOK /\ NoLostWakeup /\ GoneOK /\ GoneOK'
    BY DEF Flow, Watch
  <1> DEFINE to == pc'[Owner]
  <1>2. /\ pc' = [pc EXCEPT ![Owner] = to] /\ UNCHANGED <<queue, mutex, flag, issued, goal>>
        /\ to \in {"set size", "idle", "stop wake"}
        /\ pc[Owner] \in {"join", "set size", "idle"}
    BY <1>1 DEF Join, SetSize, Stop, TypeOK
  <1>3. /\ MutexOK' /\ DestructorRunsAll' /\ (Pending => Pending')
        /\ \A y \in Threads \ {Owner} : pc'[y] = pc[y]
        /\ \A w \in Workers : pc'[w] = pc[w] /\ Looking(w)' = Looking(w)
    <2>1. pc[Owner] \in OwnerPlaces \union {"idle"} /\ to # "stopped"
      BY <1>2 DEF OwnerPlaces
    <2> HIDE DEF to
    <2> QED
      BY <1>2, <2>1, OwnerAlone
  <1>4. Target' = Target
    <2>1. CASE Join
      BY <2>1, <1>1 DEF Join, Target, TypeOK
    <2>2. CASE SetSize
      BY <2>2, <1>1 DEF SetSize, Target, TypeOK
    <2>3. CASE Stop
      BY <2>3, <1>1 DEF Stop, Target, TypeOK
    <2> QED
      BY <2>1, <2>2, <2>3
  <1>5. (isDone => isDone') /\ to \notin {"flag", "wake", "join"}
    <2>1. isDone' = isDone \/ isDone'
      BY DEF Join, SetSize, Stop
    <2>2. isDone => isDone'
      BY <2>1
    <2>3. to \notin {"flag", "wake", "join"}
      BY <1>2
    <2> QED
      BY <2>2, <2>3
  <1>6. ASSUME NEW w \in Workers, w > Target, pc[w] = "asleep" PROVE FALSE
    BY <1>1, <1>2, <1>6 DEF FlagsOK
  <1>7. FlagsOK'
    <2>1. ASSUME NEW w \in 1..Target PROVE ~flag[w] /\ (pc'[w] \in {"leave"} \union Gone => isDone')
      <3>1. w \in Workers
        BY <1>1, TargetRange
      <3> QED
        BY <1>1, <1>3, <1>5, <3>1 DEF FlagsOK
    <2> QED
      BY <1>2, <1>3, <1>4, <1>5, <1>6, <2>1 DEF FlagsOK
  <1>8. StopOK'
    <2>1. CASE Join \/ SetSize
      <3>1. isDone' = isDone /\ ~isDone /\ to \in {"set size", "idle"}
        BY <1>1, <2>1 DEF Join, SetSize, StopOK, TypeOK
      <3>2. ~isDone'
        BY <3>1
      <3> QED
        BY <3>1, <3>2 DEF StopOK
    <2>2. CASE Stop
      <3>1. /\ isDone' /\ to = "stop wake"
            /\ \A c \in Clients : Work[c] \union Fired[c] \subseteq issued
            /\ \A c \in Clients : pc[c] = "idle"
        BY <1>1, <2>2 DEF Stop, TypeOK
      <3>2. \A c \in Clients \ {Owner} : pc'[c] = "idle"
        BY <1>3, <3>1
      <3> QED
        BY <1>2, <3>1, <3>2 DEF StopOK
    <2> QED
      BY <2>1, <2>2
  <1>9. NoLostWakeup'
    <2> SUFFICES ASSUME queue # <<>>, Target > 0, ~Pending'
                 PROVE  \E w \in 1..Target : Looking(w)'
      BY <1>2, <1>4 DEF NoLostWakeup, Pending, Looking
    <2>1. PICK w \in 1..Target : Looking(w)
      BY <1>1, <1>2, <1>3 DEF NoLostWakeup, Pending
    <2>2. w \in Workers
      BY <1>1, TargetRange
    <2> QED
      BY <1>3, <2>1, <2>2
  <1> QED
    BY <1>3, <1>7, <1>8, <1>9 DEF Watch

\* When the last worker has been joined the queue is empty and nobody has a task.
LEMMA StopJoinWatch ==
    ASSUME Flow, Once, Watch, StopJoin
    PROVE  Watch'
  <1> USE ThreadKinds DEF pool, owner
  <1>1. /\ TypeOK /\ FlagsOK /\ StopOK /\ MutexOK /\ NoLostWakeup /\ GoneOK
    BY DEF Flow, Watch
  <1>2. /\ pc[Owner] = "stop join" /\ pc'[Owner] = "stopped" /\ queue' = <<>>
        /\ UNCHANGED <<done, mutex, size, flag, isDone, issued, goal>>
        /\ \A y \in Threads \ {Owner} : pc'[y] = pc[y]
        /\ \A w \in 1..size : pc[w] = "exited"
    BY <1>1 DEF StopJoin, TypeOK
  <1>3. \A w \in Workers : pc'[w] = pc[w]
    BY <1>2
  <1>4. Target = size /\ Target' = size /\ NewSize = size
    BY <1>2 DEF Target, NewSize
  <1>5. MutexOK' /\ StopOK' /\ NoLostWakeup'
    BY <1>1, <1>2, <1>3 DEF MutexOK, StopOK, NoLostWakeup
  <1>6. FlagsOK'
    <2>1. \A w \in 1..size : w \in Workers
      BY <1>1, <1>4, TargetRange
    <2> QED
      BY <1>1, <1>2, <1>3, <1>4, <2>1 DEF FlagsOK
  <1>7. ASSUME NEW x \in Threads PROVE pc[x] \in Gone \union {"idle", "stop join"}
    <2>1. CASE x \in Clients
      BY <1>1, <1>2, <2>1 DEF StopOK
    <2>2. CASE x \in Workers
      <3>3. size \in Int /\ x \in Nat /\ x > 0
        BY <1>1, <2>2 DEF TypeOK
      <3>1. x <= size => pc[x] = "exited"
        <4>1. x <= size => x \in 1..size
          BY <3>3
        <4> QED
          BY <1>2, <4>1
      <3>2. x > size => pc[x] \in Gone
        BY <1>1, <1>4, <2>2 DEF GoneOK
      <3>4. x <= size \/ x > size
        BY <3>3
      <3> QED
        BY <3>1, <3>2, <3>4
    <2> QED
      BY <2>1, <2>2
  <1>8. \A x \in Threads : left[x] = {} /\ cur[x] = None
    BY <1>7 DEF Flow, Fits, WorkerFits, ClientFits, LeftFits
  <1>9. size > 0 => queue = <<>>
    <2>1. \A x \in Threads : pc[x] \notin {"notify", "notify fired"}
      BY <1>7
    <2>2. \A w \in 1..Target : ~Looking(w)
      BY <1>2, <1>4 DEF Looking
    <2> QED
      BY <1>1, <1>2, <1>4, <2>1, <2>2 DEF NoLostWakeup
  <1>10. DestructorRunsAll'
    <2> SUFFICES ASSUME size > 0, NEW k \in issued PROVE k \in done
      BY <1>2 DEF DestructorRunsAll
    <2>1. Places(k) = 1
      BY <1>2 DEF Once, EachTaskOnce
    <2>2. {i \in DOMAIN queue : queue[i] = k} = {}
      BY <1>9
    <2>3. {x \in Threads : k \in left[x]} = {} /\ {x \in Threads : cur[x] = k} = {}
      <3>1. k # None
        BY <1>1 DEF TypeOK
      <3> QED
        BY <1>8, <3>1
    <2>4. Cardinality({}) = 0
      BY FS_EmptySet
    <2>5. /\ Cardinality({i \in DOMAIN queue : queue[i] = k}) = 0
          /\ Cardinality({x \in Threads : k \in left[x]}) = 0
          /\ Cardinality({x \in Threads : cur[x] = k}) = 0
      BY <2>2, <2>3, <2>4
    <2> QED
      BY <2>1, <2>5 DEF Places
  <1> QED
    BY <1>5, <1>6, <1>10 DEF Watch

\* At first the queue is empty.
LEMMA InitWatch == Init /\ Flow => Watch
  <1> SUFFICES ASSUME Init, Flow PROVE Watch
    OBVIOUS
  <1> USE ThreadKinds
  <1>1. TypeOK /\ size \in 0..MaxWorkers /\ pc[Owner] = "idle" /\ queue = <<>> /\ isDone = FALSE
    BY DEF Flow, Init, TypeOK
  <1>2. Target = size
    BY <1>1 DEF Target
  <1>3. \A w \in Workers : pc[w] = (IF w <= size THEN "start" ELSE "none") /\ flag[w] = FALSE
    BY DEF Init
  <1>4. \A w \in 1..size : w \in Workers /\ w <= size
    BY <1>1 DEF Workers
  <1>5. FlagsOK
    BY <1>1, <1>2, <1>3, <1>4 DEF FlagsOK
  <1> QED
    BY <1>1, <1>3, <1>5 DEF Watch, MutexOK, StopOK, NoLostWakeup, DestructorRunsAll

\* Every step keeps watch.
LEMMA NextWatch ==
    ASSUME Flow, Flow', Once, Watch, [Next]_vars
    PROVE  Watch'
  <1> USE ThreadKinds DEF pool, owner
  <1>1. MutexOK
    BY DEF Watch
  <1>2. ASSUME NEW x \in Threads, LoopStep(x) PROVE Watch'
    <2>1. Ordinary /\ (Pending => Pending' \/ Notify(x))
      BY <1>1, <1>2, OrdinaryLoops
    <2>2. CASE Notify(x)
      BY <2>1, <2>2, NotifyKeepsWatch, OrdinaryKeepsWatch
    <2>3. CASE ~Notify(x)
      BY <2>1, <2>3, OrdinaryKeepsWatch
    <2> QED
      BY <2>2, <2>3
  <1>3. ASSUME NEW w \in Workers, WorkerStep(w) \/ SpuriousWakeup(w) PROVE Watch'
    BY <1>1, <1>3, OrdinaryWorkers, OrdinaryKeepsWatch
  <1>4. ASSUME NEW c \in Clients, StartLoop(c) \/ \E k \in Fired[c] : Fire(c, k) PROVE Watch'
    BY <1>1, <1>4, OrdinaryClients, OrdinaryKeepsWatch
  <1>5. CASE UNCHANGED vars
    BY <1>5 DEF vars, Watch, MutexOK, FlagsOK, StopOK, NoLostWakeup, DestructorRunsAll,
         Target, Looking
  <1>6. ASSUME NEW x \in Threads, Yield(x) PROVE Watch'
    BY <1>5, <1>6 DEF Yield
  <1> QED
    BY <1>2, <1>3, <1>4, <1>5, <1>6, GrowWatch, ShrinkWatch, FlagOneWatch, WakeWatch,
       SettleWatch, StopJoinWatch DEF Next, OwnerStep

\* The destructor returns when every task that was issued is done, unless the
\* pool has no workers: a worker that is flagged, or sees isDone, leaves no
\* task that nobody looks for, and no wakeup is lost between the queue, the
\* mutex and the condition variable.
THEOREM DestructorDrains == Spec => []DestructorRunsAll
  <1>1. Flow /\ Once /\ Watch /\ [Next]_vars => (Flow /\ Once /\ Watch)'
    BY NextFlow, NextOnce, NextWatch
  <1>2. Watch => DestructorRunsAll
    BY DEF Watch
  <1> QED
    BY <1>1, <1>2, InitFlow, InitOnce, InitWatch, PTL DEF Spec


=============================================================================

----------------------------- MODULE ThreadPool -----------------------------
(***************************************************************************)
(* thread_pool, task_set and the parallel loops (libutil/thread.cpp,       *)
(* thread.h, parallel.h): clients cut loops into tasks, push them and help *)
(* to run tasks while they wait; workers run tasks, sleep on the condition *)
(* variable while there are none, and leave when the pool shrinks or is    *)
(* destroyed.                                                              *)
(*                                                                         *)
(* A worker is named by its place in the pool.  A new thread in a place    *)
(* may get the thread id of the one before, as the system is free to give  *)
(* it, so the registry of workers is kept by place, too.                   *)
(***************************************************************************)
EXTENDS Integers, Sequences, FiniteSets, FiniteSetsExt, SequencesExt

CONSTANTS Clients, Owner,    \* the Owner, a client, resizes and destroys
          MaxWorkers,
          Tasks,             \* numbers, in the order in which loops cut them
          Work,              \* [Clients -> sets of tasks]: each one's loop
          Fired,             \* [Clients -> sets of tasks]: pushed, not waited for
          Subtasks,          \* [Tasks -> sets of tasks]: the loop inside a task
          Recursive,         \* paropt::recursive of the loops inside tasks
          BusyFactor,        \* 4 in the code
          InitialSizes, Sizes, MaxResizes,
          Careful,           \* resize only "while no jobs are running"
          None

Workers == 1..MaxWorkers
Threads == Clients \union Workers

ASSUME ThreadPoolAssumption ==
    /\ IsFiniteSet(Clients) /\ Owner \in Clients
    /\ MaxWorkers \in Nat /\ Clients \intersect Int = {}
    /\ IsFiniteSet(Tasks) /\ Tasks \subseteq Nat
    /\ Work \in [Clients -> SUBSET Tasks] /\ Fired \in [Clients -> SUBSET Tasks]
    /\ Subtasks \in [Tasks -> SUBSET Tasks]
    /\ \A k \in Tasks : \A j \in Subtasks[k] :   \* one loop's, with no loop of their own
          /\ Subtasks[j] = {} /\ \A i \in Tasks \ {k} : j \notin Subtasks[i]
          /\ \A c \in Clients : j \notin Work[c] \union Fired[c]
    /\ BusyFactor \in Nat /\ InitialSizes \subseteq 0..MaxWorkers
    /\ Sizes \subseteq 0..MaxWorkers /\ MaxResizes \in Nat
    /\ Recursive \in BOOLEAN /\ Careful \in BOOLEAN
    /\ None \notin Threads /\ None \notin Tasks

VARIABLES
    queue,       \* q: tasks that nobody runs yet
    done,        \* tasks whose futures are ready
    mutex,       \* who holds the mutex of the condition variable
    size,        \* m_size
    flag,        \* [Workers -> BOOLEAN]: the stop flags
    isDone,
    registered,  \* [Threads -> Nat]: m_worker_threadids
    pc,
    cur,         \* the task a thread runs, for the pool or as a helper
    left,        \* the tasks its loop has yet to hand out
    issued,      \* history: tasks of the clients that were begun
    goal, resizes

pool   == <<queue, mutex, size, flag, isDone>>
owner  == <<goal, resizes>>
vars   == <<pool, done, registered, pc, cur, left, issued, owner>>

Set(f, x, v) == [f EXCEPT ![x] = v]
To(x, to) == pc' = Set(pc, x, to)
Goto(x, from, to) == pc[x] = from /\ To(x, to)
Asleep == {w \in Workers : pc[w] = "asleep"}
is_worker(x) == registered[x] # 0

Init ==
    /\ queue = <<>> /\ done = {} /\ mutex = None /\ size \in InitialSizes
    /\ flag = [w \in Workers |-> FALSE] /\ isDone = FALSE
    /\ registered = [x \in Threads |-> 0]
    /\ pc = [x \in Threads |-> IF x \in Clients THEN "idle"
                               ELSE IF x <= size THEN "start" ELSE "none"]
    /\ cur = [x \in Threads |-> None] /\ left = [x \in Threads |-> {}]
    /\ issued = {} /\ goal = size /\ resizes = 0
-----------------------------------------------------------------------------
(* Loops: parallel_for_chunked_id and task_set. *)

\* A loop inside a task is run by one thread when its thread is inside of a
\* loop already (parallel_recursive_depth), or is a worker and the loop does
\* not ask for recursion (paropt::resolve).
Serial(x) == ~Recursive \/ x \in Clients
Inline(k) == done' = done \union {k} \union Subtasks[k]

\* What the task_set of x waits for: its loop's tasks.
Awaited(x) == IF cur[x] # None THEN Subtasks[cur[x]] ELSE Work[x]

\* paropt::resolve: a loop counts the threads once, as it begins; with no worker
\* in the pool it is single-threaded to its end, though the pool may grow.
LoopPlace == IF size < 1 THEN "serial" ELSE "chunk"
InLoop == {"chunk", "serial"}

StartLoop(c) ==
    /\ Goto(c, "idle", LoopPlace) /\ Work[c] # {} /\ Work[c] \intersect issued = {}
    /\ left' = Set(left, c, Work[c]) /\ issued' = issued \union Work[c]
    /\ UNCHANGED <<pool, done, registered, cur, owner>>

very_busy == Len(queue) > BusyFactor * size

\* The next task: the last one of a loop is run here, and so is every task of a
\* single-threaded loop, or when the pool is busy or, in push, has no threads.
Chunk(x) ==
    LET k == Min(left[x])
        here == pc[x] = "serial" \/ size < 1 \/ left[x] = {k} \/ very_busy
    IN
    /\ pc[x] \in InLoop /\ left[x] # {}
    /\ IF here THEN Inline(k) /\ left' = Set(left, x, left[x] \ {k}) /\ UNCHANGED pc
               ELSE To(x, "enqueue") /\ UNCHANGED <<done, left>>
    /\ UNCHANGED <<pool, registered, cur, issued, owner>>

\* push_queue_and_notify: the task goes to the queue, ...
Enqueue(x) ==
    LET k == Min(left[x]) IN
    /\ \/ Goto(x, "enqueue", "notify") \/ Goto(x, "enqueue fired", "notify fired")
    /\ queue' = Append(queue, k) /\ left' = Set(left, x, left[x] \ {k})
    /\ UNCHANGED <<done, mutex, size, flag, isDone, registered, cur, issued, owner>>

\* Mutant: the worker is told without the mutex.
MutNotifyOne(x, from, to) ==
    /\ pc[x] = from
    /\ \/ Asleep = {} /\ To(x, to)
       \/ \E w \in Asleep : pc' = [pc EXCEPT ![x] = to, ![w] = "lock"]
    /\ UNCHANGED <<pool, done, registered, cur, left, issued, owner>>

\* ... then one sleeping worker, if there is any, is told under the mutex.
NotifyOne(x, from, to) ==
    /\ pc[x] = from /\ mutex = None
    /\ \/ Asleep = {} /\ To(x, to)
       \/ \E w \in Asleep : pc' = [pc EXCEPT ![x] = to, ![w] = "lock"]
    /\ UNCHANGED <<pool, done, registered, cur, left, issued, owner>>
Notify(x) == NotifyOne(x, "notify", "chunk") \/ NotifyOne(x, "notify fired", "idle")

\* task_set::wait: workers block, other threads help.
Wait(x) ==
    /\ pc[x] \in InLoop /\ left[x] = {}
    /\ To(x, IF is_worker(x) THEN "block" ELSE "help")
    /\ UNCHANGED <<pool, done, registered, cur, left, issued, owner>>

Awake(x) ==
    /\ pc[x] \in {"block", "help"} /\ Awaited(x) \subseteq done
    /\ To(x, IF cur[x] = None THEN "idle" ELSE "complete")
    /\ UNCHANGED <<pool, done, registered, cur, left, issued, owner>>

\* Mutant: the helper leaves the task in the queue.
MutHelp(x) ==
    /\ Goto(x, "help", "enlist") /\ queue # <<>> /\ cur' = Set(cur, x, Head(queue))
    /\ UNCHANGED <<pool, done, registered, left, issued, owner>>

\* run_one_task: pop, register, run, deregister.
Help(x) ==
    /\ Goto(x, "help", "enlist") /\ queue # <<>>
    /\ cur' = Set(cur, x, Head(queue)) /\ queue' = Tail(queue)
    /\ UNCHANGED <<done, mutex, size, flag, isDone, registered, left, issued, owner>>

\* It finds the queue empty and tries again.
Yield(x) == pc[x] = "help" /\ queue = <<>> /\ UNCHANGED vars

\* Mutant: the helper does not register.
MutEnlist(x) ==
    /\ Goto(x, "enlist", "run")
    /\ UNCHANGED <<pool, done, registered, cur, left, issued, owner>>

Enlist(x) ==
    /\ Goto(x, "enlist", "run") /\ registered' = Set(registered, x, registered[x] + 1)
    /\ UNCHANGED <<pool, done, cur, left, issued, owner>>

Retire(x) ==
    /\ Goto(x, "retire", "help") /\ registered' = Set(registered, x, registered[x] - 1)
    /\ UNCHANGED <<pool, done, cur, left, issued, owner>>

\* A client that pushes a task and forgets it.
Fire(c, k) ==
    /\ pc[c] = "idle" /\ k \in Fired[c] \ issued /\ issued' = issued \union {k}
    /\ IF size < 1 THEN Inline(k) /\ UNCHANGED <<pc, left>>
       ELSE To(c, "enqueue fired") /\ left' = Set(left, c, {k}) /\ UNCHANGED done
    /\ UNCHANGED <<pool, registered, cur, owner>>

\* A task: what it does for itself, or a loop of its own first.
Run(x) ==
    /\ pc[x] = "run"
    /\ IF Subtasks[cur[x]] = {} \/ Serial(x)
       THEN To(x, "complete") /\ done' = done \union Subtasks[cur[x]] /\ UNCHANGED left
       ELSE To(x, LoopPlace) /\ left' = Set(left, x, Subtasks[cur[x]]) /\ UNCHANGED done
    /\ UNCHANGED <<pool, registered, cur, issued, owner>>

\* Its future is ready.
Complete(x) ==
    /\ Goto(x, "complete", IF x \in Workers THEN "check flag" ELSE "retire")
    /\ done' = done \union {cur[x]} /\ cur' = Set(cur, x, None)
    /\ UNCHANGED <<pool, registered, left, issued, owner>>
-----------------------------------------------------------------------------
(* A worker: the lambda of set_thread. *)

Start(w) ==
    /\ Goto(w, "start", "pop") /\ registered' = Set(registered, w, registered[w] + 1)
    /\ UNCHANGED <<pool, done, cur, left, issued, owner>>

TakeTask(w) ==
    /\ queue # <<>> /\ To(w, "run")
    /\ cur' = Set(cur, w, Head(queue)) /\ queue' = Tail(queue)

Pop(w) ==
    /\ pc[w] = "pop"
    /\ \/ TakeTask(w)
       \/ queue = <<>> /\ To(w, "lock") /\ UNCHANGED <<cur, queue>>
    /\ UNCHANGED <<done, mutex, size, flag, isDone, registered, left, issued, owner>>

\* Mutant: it returns when the pool is being destroyed, too.
MutCheckFlag(w) ==
    /\ Goto(w, "check flag", IF flag[w] \/ isDone THEN "exited" ELSE "pop")
    /\ UNCHANGED <<pool, done, registered, cur, left, issued, owner>>

\* After a task: a flagged worker returns on the spot.
CheckFlag(w) ==
    /\ Goto(w, "check flag", IF flag[w] THEN "exited" ELSE "pop")
    /\ UNCHANGED <<pool, done, registered, cur, left, issued, owner>>

Lock(w) ==
    /\ Goto(w, "lock", "predicate") /\ mutex = None /\ mutex' = w
    /\ UNCHANGED <<queue, done, size, flag, isDone, registered, cur, left, issued, owner>>

\* Mutant: a flagged worker leaves though it popped a task.
MutPredicate(w) ==
    /\ pc[w] = "predicate"
    /\ \/ ~flag[w] /\ TakeTask(w) /\ mutex' = None
       \/ flag[w] /\ queue # <<>> /\ queue' = Tail(queue) /\ To(w, "no task")
          /\ UNCHANGED <<cur, mutex>>
       \/ queue = <<>> /\ To(w, "no task") /\ UNCHANGED <<cur, queue, mutex>>
    /\ UNCHANGED <<done, size, flag, isDone, registered, left, issued, owner>>

\* cv.wait's predicate, under the mutex: pop, ...
Predicate(w) ==
    /\ pc[w] = "predicate"
    /\ \/ TakeTask(w) /\ mutex' = None
       \/ queue = <<>> /\ To(w, "no task") /\ UNCHANGED <<cur, queue, mutex>>
    /\ UNCHANGED <<done, size, flag, isDone, registered, left, issued, owner>>

\* ... or leave, or release the mutex and sleep, in one step.
Sleep(w) ==
    /\ Goto(w, "no task", IF isDone \/ flag[w] THEN "leave" ELSE "asleep")
    /\ mutex' = None
    /\ UNCHANGED <<queue, done, size, flag, isDone, registered, cur, left, issued, owner>>

SpuriousWakeup(w) ==
    /\ Goto(w, "asleep", "lock")
    /\ UNCHANGED <<pool, done, registered, cur, left, issued, owner>>

Leave(w) ==
    /\ Goto(w, "leave", "exited") /\ registered' = Set(registered, w, registered[w] - 1)
    /\ UNCHANGED <<pool, done, cur, left, issued, owner>>
-----------------------------------------------------------------------------
(* The owner: resize and the destructor's stop(true). *)

Quiescent ==
    /\ \A c \in Clients \ {Owner} : pc[c] = "idle"
    /\ queue = <<>> /\ issued \subseteq done

\* Growing starts the new threads, then sets the size.
Grow(n) ==
    /\ pc[Owner] = "idle" /\ n >= size /\ n \in Sizes /\ resizes < MaxResizes
    /\ Careful => Quiescent
    /\ pc' = [x \in Threads |-> IF x = Owner THEN "set size"
                                ELSE IF x \in size + 1..n THEN "start" ELSE pc[x]]
    /\ flag' = [w \in Workers |-> IF w \in size + 1..n THEN FALSE ELSE flag[w]]
    /\ goal' = n /\ resizes' = resizes + 1
    /\ UNCHANGED <<queue, mutex, size, isDone, done, registered, cur, left, issued>>

\* Shrinking flags the threads from the last one down, ...
Shrink(n) ==
    /\ Goto(Owner, "idle", "flag") /\ n < size /\ n \in Sizes /\ resizes < MaxResizes
    /\ Careful => Quiescent
    /\ goal' = n /\ resizes' = resizes + 1
    /\ UNCHANGED <<pool, done, registered, cur, left, issued>>

FlagOne ==
    LET w == Max({v \in goal + 1..size : ~flag[v]}) IN
    /\ pc[Owner] = "flag" /\ flag' = Set(flag, w, TRUE)
    /\ To(Owner, IF w = goal + 1 THEN "wake" ELSE "flag")
    /\ UNCHANGED <<queue, mutex, size, isDone, done, registered, cur, left, issued, owner>>

\* Mutant: only one sleeping worker is woken.
MutWakeAll(from, to) ==
    /\ pc[Owner] = from /\ mutex = None
    /\ \/ Asleep = {} /\ To(Owner, to)
       \/ \E w \in Asleep : pc' = [pc EXCEPT ![Owner] = to, ![w] = "lock"]
    /\ UNCHANGED <<pool, done, registered, cur, left, issued, owner>>

\* ... wakes all that sleep, ...
WakeAll(from, to) ==
    /\ pc[Owner] = from /\ mutex = None
    /\ pc' = [x \in Threads |-> IF x = Owner THEN to
                                ELSE IF x \in Asleep THEN "lock" ELSE pc[x]]
    /\ UNCHANGED <<pool, done, registered, cur, left, issued, owner>>
Wake == WakeAll("wake", "join") \/ WakeAll("stop wake", "stop join")

\* ... and joins the flagged ones before it sets the size.
Join ==
    /\ Goto(Owner, "join", "set size") /\ \A w \in goal + 1..size : pc[w] = "exited"
    /\ UNCHANGED <<pool, done, registered, cur, left, issued, owner>>

SetSize ==
    /\ Goto(Owner, "set size", "idle") /\ size' = goal
    /\ UNCHANGED <<queue, mutex, flag, isDone, done, registered, cur, left, issued, owner>>

\* Nobody uses the pool any more when it is destroyed; tasks may be queued.
Stop ==
    /\ Goto(Owner, "idle", "stop wake") /\ \A c \in Clients : pc[c] = "idle"
    /\ \A c \in Clients : Work[c] \union Fired[c] \subseteq issued
    /\ isDone' = TRUE
    /\ UNCHANGED <<queue, mutex, size, flag, done, registered, cur, left, issued, owner>>

StopJoin ==
    /\ Goto(Owner, "stop join", "stopped") /\ \A w \in 1..size : pc[w] = "exited"
    /\ queue' = <<>>
    /\ UNCHANGED <<mutex, size, flag, isDone, done, registered, cur, left, issued, owner>>
-----------------------------------------------------------------------------
LoopStep(x) == Chunk(x) \/ Enqueue(x) \/ Notify(x) \/ Wait(x) \/ Awake(x) \/ Help(x)
               \/ Enlist(x) \/ Retire(x) \/ Run(x) \/ Complete(x)
WorkerStep(w) == Start(w) \/ Pop(w) \/ CheckFlag(w) \/ Lock(w) \/ Predicate(w)
                 \/ Sleep(w) \/ Leave(w)
OwnerStep == FlagOne \/ Wake \/ Join \/ SetSize \/ StopJoin

Next ==
    \/ \E x \in Threads : LoopStep(x) \/ Yield(x)
    \/ \E w \in Workers : WorkerStep(w) \/ SpuriousWakeup(w)
    \/ OwnerStep
    \/ \E c \in Clients : StartLoop(c)
    \/ \E c \in Clients : \E k \in Fired[c] : Fire(c, k)
    \/ \E n \in Sizes : Grow(n) \/ Shrink(n)
    \/ Stop
    \/ pc[Owner] = "stopped" /\ UNCHANGED vars

Spec == Init /\ [][Next]_vars
\* Threads inside the library run, and one that waits for the mutex gets it in
\* the end, though others lock it again and again after spurious wakeups (no
\* other step of a thread can be enabled and disabled for ever, as the tasks are
\* finite); clients need not call the library, nobody has to wake up spuriously.
FairSpec == /\ Spec /\ SF_vars(OwnerStep)
            /\ \A c \in Clients : SF_vars(LoopStep(c))
            /\ \A w \in Workers : SF_vars(LoopStep(w) \/ WorkerStep(w))
-----------------------------------------------------------------------------
\* Where a worker can be, and where a client can; the last are the owner's.
WorkerPlaces == {"none", "start", "pop", "run", "chunk", "serial", "enqueue", "notify",
                 "block", "complete", "check flag", "lock", "predicate", "no task", "asleep",
                 "leave", "exited"}
ClientPlaces == {"idle", "chunk", "serial", "enqueue", "notify", "enqueue fired", "notify fired",
                 "help", "enlist", "run", "complete", "retire"}
OwnerPlaces == {"flag", "wake", "join", "set size", "stop wake", "stop join", "stopped"}

TypeOK ==
    /\ queue \in Seq(Tasks) /\ done \subseteq Tasks /\ mutex \in Workers \union {None}
    /\ size \in 0..MaxWorkers /\ flag \in [Workers -> BOOLEAN] /\ isDone \in BOOLEAN
    /\ registered \in [Threads -> Nat]
    /\ pc \in [Threads -> WorkerPlaces \union ClientPlaces \union OwnerPlaces]
    /\ cur \in [Threads -> Tasks \union {None}] /\ left \in [Threads -> SUBSET Tasks]
    /\ issued \subseteq Tasks /\ goal \in 0..MaxWorkers /\ resizes \in 0..MaxResizes

\* Every task that was begun is in exactly one place until the pool is gone:
\* with the thread that has yet to hand it out, in the queue, with the one
\* thread that runs it, or done.  None is lost or run twice.
Places(k) == Cardinality({i \in DOMAIN queue : queue[i] = k})
             + Cardinality({x \in Threads : k \in left[x]})
             + Cardinality({x \in Threads : cur[x] = k})
             + (IF k \in done THEN 1 ELSE 0)
EachTaskOnce ==
    /\ \A k \in issued : pc[Owner] # "stopped" => Places(k) = 1
    /\ \A k \in Tasks : Places(k) <= 1

\* "the destructor waits for all the functions in the queue to be finished",
\* unless the pool was resized to 0 while tasks were queued.
DestructorRunsAll == pc[Owner] = "stopped" /\ size > 0 => issued \subseteq done

\* The threads that no longer run are no workers: is_worker is about "the
\* thread in the pool or currently engaged in taking tasks from the pool".
GoneAreNoWorkers == \A w \in Workers : pc[w] \in {"none", "exited"} => ~is_worker(w)

\* A loop, or a task_set, comes to its end.
LoopsEnd == \A c \in {d \in Clients : Work[d] # {}} : pc[c] \in InLoop ~> pc[c] = "idle"

\* A task that was pushed and forgotten is run: no worker sleeps through it or
\* leaves it behind, unless the pool has no workers any more.
FiredTasksRun == \A c \in Clients : \A k \in Fired[c] :
    (\E i \in DOMAIN queue : queue[i] = k) ~> k \in done \/ size = 0

\* Resizing and destroying the pool come to their end: no worker sleeps
\* through its stop flag.
OwnerReturns == pc[Owner] \in {"join", "stop join"} ~> pc[Owner] \in {"idle", "stopped"}
=============================================================================

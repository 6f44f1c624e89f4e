----------------------------- MODULE ThreadPool -----------------------------
(***************************************************************************)
(* scorpio_utils::threading::ThreadPool (threading/thread_pool.hpp,        *)
(* thread_pool.cpp): workers that take tasks from a Channel and sleep on a *)
(* condition variable, an owner that adds tasks, changes the number of     *)
(* threads and in the end destroys the pool, and tasks that add tasks.     *)
(*                                                                         *)
(* Every access to a shared word is a step of its own.  A comparison of    *)
(* two words takes two steps, in an order that C++ leaves open: what the   *)
(* first has loaded may be stale when the second compares with it.         *)
(*                                                                         *)
(* The channel is the FIFO queue of BoundedQueue, never full; tasks are    *)
(* counted, not named.                                                     *)
(*                                                                         *)
(* Adding and notifying do not take the pool's mutex, so nothing orders    *)
(* them with a worker between its test of the condition and its sleep; the *)
(* mutex only keeps workers from testing at the same time, which no        *)
(* property can tell, and is left out.                                     *)
(***************************************************************************)
EXTENDS Integers, FiniteSets

CONSTANTS Workers,   \* threads that can live at a time
          Counts,    \* arguments of set_threads_count()
          MaxTasks,  \* bound: tasks ever added
          MaxSets    \* bound: calls of set_threads_count()

ASSUME ThreadPoolAssumption ==
  /\ IsFiniteSet(Workers) /\ Counts \subseteq Nat
  /\ MaxTasks \in Nat /\ MaxSets \in Nat

VARIABLES
  queued,   \* tasks in _tasks
  done,     \* tasks that have returned
  added,    \* history: tasks ever added
  stop,     \* _stop
  count,    \* _threads_count
  living,   \* _living_threads
  pseudo,   \* _pseudo_living_threads
  worker,   \* where each worker is
  seen,     \* what it has loaded for the comparison it is in, else 0
  owner,    \* where the owner is, <<place, argument>>
  wait,     \* set_threads_count's argument of that name
  sets,     \* calls of set_threads_count so far
  misled    \* history: one of them counted on workers that were on their way out

tasks == <<queued, done, added>>
resizes == <<sets, misled, wait>>
threads == <<count, living, pseudo, resizes>>
workers == <<worker, seen>>
poolVars == <<tasks, stop, threads, workers, owner>>

Go(w, from, to) ==
  worker[w] = from /\ worker' = [worker EXCEPT ![w] = to] /\ UNCHANGED seen
Load(w, from, to, value) ==
  worker[w] = from /\ worker' = [worker EXCEPT ![w] = to] /\ seen' = [seen EXCEPT ![w] = value]

\* one of the operands of _threads_count < _living_threads, and the comparison
LoadEither(w, from, ofCount, ofLiving) ==
  Load(w, from, ofCount, count) \/ Load(w, from, ofLiving, living)
TooMany(w) == IF worker[w] \in {"innerCount", "testCount"} THEN seen[w] < living ELSE count < seen[w]

Asleep == {w \in Workers : worker[w] = "asleep"}

\* the condition variable, for a thread whose own step is from -> to in `moved'
NotifyOne(moved) ==
  /\ UNCHANGED seen
  /\ IF Asleep = {} THEN worker' = moved
     ELSE \E w \in Asleep : worker' = [moved EXCEPT ![w] = "test"]
NotifyAll ==
  worker' = [w \in Workers |-> IF w \in Asleep THEN "test" ELSE worker[w]] /\ UNCHANGED seen

-----------------------------------------------------------------------------
(* thread_worker().                                                        *)

\* while (!_stop)
Outer(w) ==
  /\ \/ ~ stop /\ Go(w, "outer", "inner")
     \/ stop /\ Go(w, "outer", "exit")
  /\ UNCHANGED <<tasks, stop, threads, owner>>

\* while (_threads_count >= _living_threads && ...
LoadInner(w) ==
  /\ LoadEither(w, "inner", "innerCount", "innerLiving")
  /\ UNCHANGED <<tasks, stop, threads, owner>>

Inner(w) ==
  /\ worker[w] \in {"innerCount", "innerLiving"}
  /\ Load(w, worker[w], IF TooMany(w) THEN "leave" ELSE "receive", 0)
  /\ UNCHANGED <<tasks, stop, threads, owner>>

\* ... a task could be received)
Receive(w) ==
  /\ \/ queued > 0 /\ queued' = queued - 1 /\ Go(w, "receive", "run")
     \/ queued = 0 /\ UNCHANGED queued /\ Go(w, "receive", "leave")
  /\ UNCHANGED <<done, added, stop, threads, owner>>

Finish(w) ==
  /\ Go(w, "run", "inner")
  /\ done' = done + 1
  /\ UNCHANGED <<queued, added, stop, threads, owner>>

\* a task that adds a task: a continuation, or a call of async()
AddFromTask(w) ==
  /\ added < MaxTasks
  /\ Go(w, "run", "notify")
  /\ queued' = queued + 1 /\ added' = added + 1
  /\ UNCHANGED <<done, stop, threads, owner>>

NotifyFromTask(w) ==
  /\ worker[w] = "notify"
  /\ NotifyOne([worker EXCEPT ![w] = "run"])
  /\ UNCHANGED <<tasks, stop, threads, owner>>

\* _threads_count < _pseudo_living_threads.fetch_sub(1): whoever finds more threads than
\* asked for that have not yet decided to leave, leaves.  Either the count is loaded first ...
LoadCount(w) ==
  /\ Load(w, "leave", "counted", count)
  /\ UNCHANGED <<tasks, stop, threads, owner>>

\* Seeded bug: whoever finds more threads than asked for leaves, and so may all of them.
LeaveByLiving(w) ==
  /\ Load(w, "counted", IF seen[w] < living THEN "left" ELSE "stay", 0)
  /\ pseudo' = pseudo - 1
  /\ UNCHANGED <<tasks, stop, count, living, resizes, owner>>

Leave(w) ==
  /\ Load(w, "counted", IF seen[w] < pseudo THEN "left" ELSE "stay", 0)
  /\ pseudo' = pseudo - 1
  /\ UNCHANGED <<tasks, stop, count, living, resizes, owner>>

\* ... or the worker is taken off first
TakeOff(w) ==
  /\ Load(w, "leave", "taken", pseudo)
  /\ pseudo' = pseudo - 1
  /\ UNCHANGED <<tasks, stop, count, living, resizes, owner>>

LeaveTaken(w) ==
  /\ Load(w, "taken", IF count < seen[w] THEN "left" ELSE "stay", 0)
  /\ UNCHANGED <<tasks, stop, threads, owner>>

Left(w) ==
  /\ Go(w, "left", "none")
  /\ living' = living - 1
  /\ UNCHANGED <<tasks, stop, count, pseudo, resizes, owner>>

Stay(w) ==
  /\ Go(w, "stay", "test")
  /\ pseudo' = pseudo + 1
  /\ UNCHANGED <<tasks, stop, count, living, resizes, owner>>

\* the condition the condition variable is waited for with: tasks, ...
Test(w) ==
  /\ Go(w, "test", IF queued > 0 THEN "outer" ELSE "testStop")
  /\ UNCHANGED <<tasks, stop, threads, owner>>

\* Seeded bug: a worker that waits is not woken by the destructor.
StopUntested(w) ==
  /\ Go(w, "testStop", "testSizes")
  /\ UNCHANGED <<tasks, stop, threads, owner>>

\* ... _stop, ...
TestStop(w) ==
  /\ Go(w, "testStop", IF stop THEN "outer" ELSE "testSizes")
  /\ UNCHANGED <<tasks, stop, threads, owner>>

LoadSizes(w) ==
  /\ LoadEither(w, "testSizes", "testCount", "testLiving")
  /\ UNCHANGED <<tasks, stop, threads, owner>>

\* ... or too many threads
TestSizes(w) ==
  /\ worker[w] \in {"testCount", "testLiving"}
  /\ Load(w, worker[w], IF TooMany(w) THEN "outer" ELSE "sleep", 0)
  /\ UNCHANGED <<tasks, stop, threads, owner>>

Sleep(w) == Go(w, "sleep", "asleep") /\ UNCHANGED <<tasks, stop, threads, owner>>

Exit(w) ==
  /\ Go(w, "exit", "left")
  /\ pseudo' = pseudo - 1
  /\ UNCHANGED <<tasks, stop, count, living, resizes, owner>>

-----------------------------------------------------------------------------
(* The owner: add_task(), set_threads_count(), ~ThreadPool().              *)

OwnerAt(place) == owner[1] = place

AddTask ==
  /\ OwnerAt("idle") /\ added < MaxTasks
  /\ queued' = queued + 1 /\ added' = added + 1
  /\ owner' = <<"notify", 0>>
  /\ UNCHANGED <<done, stop, threads, workers>>

NotifyAdded ==
  /\ OwnerAt("notify")
  /\ NotifyOne(worker)
  /\ owner' = <<"idle", 0>>
  /\ UNCHANGED <<tasks, stop, threads>>

Present == {w \in Workers : worker[w] \notin {"none", "left"}}

\* those that leave a pool of n threads although they are counted as living ...
Leavers(n) == {w \in Workers : worker[w] = "left" \/ (worker[w] = "taken" /\ n < seen[w])}
\* ... and those that will compare with an older and smaller number than n
Stale(n) == {w \in Workers : worker[w] = "counted" /\ seen[w] < n}

Misleads(n) ==
  Stale(n) # {} \/ (Leavers(n) # {} /\ Cardinality(Present \ Leavers(n)) < n)

SetThreadsCount(n) ==
  /\ OwnerAt("idle") /\ sets < MaxSets
  /\ count' = n
  /\ wait' \in BOOLEAN
  /\ sets' = sets + 1
  /\ misled' = (misled \/ Misleads(n))
  /\ owner' = <<"compare", n>>
  /\ UNCHANGED <<tasks, stop, living, pseudo, workers>>

CompareLiving ==
  /\ OwnerAt("compare")
  /\ owner' = IF owner[2] > living THEN <<"spawn", owner[2] - living>>
              ELSE IF owner[2] < living THEN <<"shrink", 0>> ELSE <<"idle", 0>>
  /\ UNCHANGED <<tasks, stop, threads, workers>>

Spawn ==
  /\ OwnerAt("spawn")
  /\ pseudo' = pseudo + 1
  /\ owner' = <<"start", owner[2]>>
  /\ UNCHANGED <<tasks, stop, count, living, resizes, workers>>

\* _living_threads is incremented before the thread starts
Start ==
  /\ OwnerAt("start")
  /\ living' = living + 1
  /\ \E w \in Workers : Go(w, "none", "outer")
  /\ owner' = IF owner[2] = 1 THEN <<"idle", 0>> ELSE <<"spawn", owner[2] - 1>>
  /\ UNCHANGED <<tasks, stop, count, pseudo, resizes>>

Shrink ==
  /\ OwnerAt("shrink")
  /\ NotifyAll
  /\ owner' = IF wait THEN <<"await", 0>> ELSE <<"idle", 0>>
  /\ UNCHANGED <<tasks, stop, threads>>

\* while (_living_threads != _threads_count) notify_all()
AwaitThreads ==
  /\ OwnerAt("await")
  /\ IF living = count THEN owner' = <<"idle", 0>> /\ UNCHANGED workers
     ELSE NotifyAll /\ UNCHANGED owner
  /\ UNCHANGED <<tasks, stop, threads>>

\* ~ThreadPool: work(), ...
Destroy ==
  /\ OwnerAt("idle")
  /\ owner' = <<"work", 0>>
  /\ UNCHANGED <<tasks, stop, threads, workers>>

\* Seeded bug: the destructor does not run the tasks that are still queued.
WorkNever ==
  /\ OwnerAt("work")
  /\ owner' = <<"stop", 0>>
  /\ UNCHANGED <<tasks, stop, threads, workers>>

Work ==
  /\ OwnerAt("work")
  /\ IF queued > 0 THEN queued' = queued - 1 /\ done' = done + 1 /\ UNCHANGED owner
     ELSE owner' = <<"stop", 0>> /\ UNCHANGED <<queued, done>>
  /\ UNCHANGED <<added, stop, threads, workers>>

\* ... _stop = true, and notify_all() until no thread lives
Stop ==
  /\ OwnerAt("stop")
  /\ stop' = TRUE
  /\ owner' = <<"join", 0>>
  /\ UNCHANGED <<tasks, threads, workers>>

Join ==
  /\ OwnerAt("join")
  /\ IF living = 0 THEN owner' = <<"destroyed", 0>> /\ UNCHANGED workers
     ELSE NotifyAll /\ UNCHANGED owner
  /\ UNCHANGED <<tasks, stop, threads>>

-----------------------------------------------------------------------------
PoolInit == /\ queued = 0 /\ done = 0 /\ added = 0
            /\ stop = FALSE
            /\ \E n \in Counts : count = n /\ owner = <<"compare", n>>
            /\ living = 0 /\ pseudo = 0
            /\ worker = [w \in Workers |-> "none"] /\ seen = [w \in Workers |-> 0]
            /\ wait = FALSE
            /\ sets = 0 /\ misled = FALSE

\* a task ends by itself, so Finish is fair while AddFromTask need not happen
WorkerStep(w) ==
  \/ Outer(w) \/ LoadInner(w) \/ Inner(w) \/ Receive(w) \/ Finish(w) \/ NotifyFromTask(w)
  \/ LoadCount(w) \/ Leave(w) \/ TakeOff(w) \/ LeaveTaken(w) \/ Left(w) \/ Stay(w)
  \/ Test(w) \/ TestStop(w) \/ LoadSizes(w) \/ TestSizes(w) \/ Sleep(w) \/ Exit(w)

\* what the owner has begun
OwnerStep == \/ NotifyAdded \/ CompareLiving \/ Spawn \/ Start \/ Shrink \/ AwaitThreads
             \/ Work \/ Stop \/ Join

PoolNext == \/ \E w \in Workers : WorkerStep(w) \/ AddFromTask(w)
            \/ AddTask \/ Destroy \/ OwnerStep
            \/ \E n \in Counts : SetThreadsCount(n)

PoolSpec == PoolInit /\ [][PoolNext]_poolVars

\* every thread that can run does; nobody has to call anything
PoolFairness == (\A w \in Workers : WF_poolVars(WorkerStep(w))) /\ WF_poolVars(OwnerStep)

FairPoolSpec == PoolSpec /\ PoolFairness

-----------------------------------------------------------------------------
(* Properties.                                                             *)

\* Workers that leave at the same time decide by _pseudo_living_threads: a pool that is
\* resized keeps as many threads as it was asked to keep (thread_pool.cpp:29-34), unless a
\* resize was misled: set_threads_count() compares with _living_threads, which counts those
\* that have decided to leave and those that have yet to compare with the count before.
KeepsEnoughThreads ==
  ~ stop /\ ~ misled /\ owner[1] \notin {"compare", "spawn", "start"}
    => Cardinality(Present) >= count

\* A pool that was never resized is destroyed only once every task has been run,
\* those that tasks have added in the meantime included.
TasksDoneUnlessResized == OwnerAt("destroyed") /\ sets = 0 => done = added

\* The pool keeps its threads, and loses no task with them.
PoolServes == KeepsEnoughThreads /\ TasksDoneUnlessResized

\* Every call returns, the destructor too, whose last notify_all() may come before
\* a worker sleeps: all but set_threads_count() with wait, whose workers can give
\* way to each other for ever.
CallsReturn ==
  owner[1] \notin {"idle", "await"} ~> owner[1] \in {"idle", "await", "destroyed"}

\* A task added to a pool that has threads is run (test_thread_pool.cpp: a future
\* of async() is awaited without any further call).
EveryTaskRuns == \A k \in 1 .. MaxTasks : added >= k /\ count > 0 ~> done >= k \/ count = 0
==============================================================================

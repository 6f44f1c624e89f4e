------------------------------ MODULE WaitGroup ------------------------------
(***************************************************************************)
(* scorpio_utils::threading::WaitGroup, Future, WaitableBase and AndThen   *)
(* (threading/wait_group.hpp, future.hpp, waitable.hpp, waitable.cpp,      *)
(* and_then.hpp): tasks of a pool complete futures; a group counts the     *)
(* waitables it was given that are not done, futures and other groups;     *)
(* whoever is done reports to the groups that wait with it, through plain  *)
(* pointers; a continuation is handed to the pool when its source is done. *)
(*                                                                         *)
(* A call in progress is the sequence of steps its thread still has to     *)
(* make.  A step ends where another thread may come in: at the lock of a   *)
(* mutex, of which every future and every group has two (its own, and that *)
(* of its WaitableBase), and between the groups that are reported to.      *)
(*                                                                         *)
(* Groups are held by shared_ptr, as for_each() hands them out: the last   *)
(* reference to go, a thread's or a group's, destroys the group.           *)
(***************************************************************************)
EXTENDS Integers, FiniteSets, SequencesExt

CONSTANTS Futures, Groups,
          Values,           \* the futures that carry a value: Future<T>, T not void
          Clients,          \* threads that use the pool's futures
          Filler,           \* the client that fills and closes the groups
          Shared,           \* the groups whose shared_ptr the other clients have as well
          Wanted,           \* bound: group |-> the waitables it is given
          Awaited, Mapped,  \* bounds: the waitables waited for, and given continuations
          MaxMaps,          \* bound: continuations that wait at a time
          WordSize,         \* size_t has this many values
          Nobody

Waitables == Futures \cup Groups
\* a future stands for the pool's thread that runs its task as well
Threads == Futures \cup Clients

ASSUME WaitGroupAssumption ==
  /\ IsFiniteSet(Waitables) /\ IsFiniteSet(Threads)
  /\ Futures \cap Groups = {} /\ Values \subseteq Futures
  /\ Futures \cap Clients = {} /\ Filler \in Clients
  /\ Shared \subseteq Groups /\ Awaited \cup Mapped \subseteq Waitables
  /\ Wanted \in [Groups -> SUBSET Waitables]
  /\ MaxMaps \in Nat /\ WordSize \in Nat /\ Cardinality(Waitables) < WordSize
  /\ Nobody \notin Threads \cup Waitables

VARIABLES
  todo,        \* thread |-> the steps of its call in progress
  asleep,      \* client |-> what its wait() or await() sleeps on
  own,         \* Future::_mutex and WaitGroup::_mutex: who holds it
  base,        \* WaitableBase::_mutex: who holds it
  done,        \* WaitableBase::_done
  waitGroups,  \* WaitableBase::_wait_groups
  tasks,       \* WaitGroup::_tasks
  count,       \* WaitGroup::_count
  groupClosed, \* WaitGroup::_closed
  alive,       \* groups not destroyed
  holders,     \* group |-> clients with a shared_ptr to it
  maps,        \* AndThen::_functions: continuations not yet handed to the pool
  called       \* AndThen::_done

calls == <<todo, asleep>>
mutexes == <<own, base>>
groups == <<tasks, count, groupClosed>>
waiting == <<done, waitGroups>>
life == <<alive, holders>>
andThen == <<maps, called>>
groupVars == <<calls, mutexes, groups, waiting, life, andThen>>

Idle(t) == todo[t] = <<>> /\ (t \in Clients => asleep[t] = Nobody)
Do(t, steps) == todo' = [todo EXCEPT ![t] = steps]

\* the next step of t is op on x; `first' come before the rest
NextIs(t, op, x) == todo[t] # <<>> /\ Head(todo[t])[1] = op /\ Head(todo[t])[2] = x
Then(t, first) == Do(t, first \o Tail(todo[t]))

Free(mutex, x) == mutex[x] = Nobody
Lock(mutex, x, t) == mutex[x] = Nobody /\ mutex' = [mutex EXCEPT ![x] = t]
Unlock(mutex, x) == mutex' = [mutex EXCEPT ![x] = Nobody]

\* notify_all() on x, by t: whoever sleeps on it tests again, under the mutex
Notify(t, x) ==
  LET woken == {c \in Clients : asleep[c] = x} IN
  /\ asleep' = [c \in Clients |-> IF c \in woken THEN Nobody ELSE asleep[c]]
  /\ todo' = [u \in Threads |-> IF u = t THEN Tail(todo[t])
                                ELSE IF u \in woken THEN <<<<"wait", x>>>> ELSE todo[u]]

\* call(): every continuation goes to the pool
Call(x) ==
  /\ maps' = [maps EXCEPT ![x] = 0]
  /\ called' = [called EXCEPT ![x] = TRUE]

-----------------------------------------------------------------------------
(* Futures, and the tasks of the pool that complete them.                  *)

\* The task of f, queued by async(), ends in set_done(), under the mutex of f.
SetDone(f) == <<<<"begin", f>>, <<"done", f>>, <<"end", f>>>>
Completed(f) == todo[f] = <<>>

\* Seeded bug: Future<void> never hands its continuations over.
EndWakesOnly(f) ==
  /\ NextIs(f, "end", f)
  /\ UNCHANGED andThen
  /\ Unlock(own, f)
  /\ Notify(f, f)
  /\ UNCHANGED <<base, groups, waiting, life>>

\* Future<T> hands its continuations over before it tells its groups ...
BeginStep(f) ==
  /\ NextIs(f, "begin", f) /\ Then(f, <<>>)
  /\ Lock(own, f, f)
  /\ IF f \in Values THEN Call(f) ELSE UNCHANGED andThen
  /\ UNCHANGED <<asleep, base, groups, waiting, life>>

\* ... Future<void> after; then the sleepers of await() are woken
EndStep(f) ==
  /\ NextIs(f, "end", f)
  /\ IF f \in Values THEN UNCHANGED andThen ELSE Call(f)
  /\ Unlock(own, f)
  /\ Notify(f, f)
  /\ UNCHANGED <<base, groups, waiting, life>>

Given == FoldFunction(+, 0, maps)

\* and_map() on a source that is not done; on one that is, it goes to the pool at once
AndMap(c, x) ==
  /\ Idle(c) /\ Free(own, x)
  /\ x \in Groups => c \in holders[x]
  /\ x \in Mapped /\ ~ called[x] /\ Given < MaxMaps
  /\ maps' = [maps EXCEPT ![x] = @ + 1]
  /\ UNCHANGED <<calls, mutexes, groups, waiting, life, called>>

-----------------------------------------------------------------------------
(* WaitableBase::done() and WaitGroup::task_done().                        *)

Reports(x) == [i \in DOMAIN waitGroups[x] |-> <<"task_done", waitGroups[x][i], x>>]

\* Seeded bug: done() does not note that the waitable is done.
DoneForgets(t, x) ==
  /\ NextIs(t, "done", x)
  /\ Lock(base, x, t)
  /\ Then(t, Reports(x) \o <<<<"clear", x>>>>)
  /\ UNCHANGED <<asleep, own, groups, waiting, life, andThen>>

\* the waitable's mutex stays locked until every group has been told
DoneStep(t, x) ==
  /\ NextIs(t, "done", x)
  /\ Lock(base, x, t)
  /\ done' = [done EXCEPT ![x] = TRUE]
  /\ Then(t, Reports(x) \o <<<<"clear", x>>>>)
  /\ UNCHANGED <<asleep, own, groups, waitGroups, life, andThen>>

ClearStep(t, x) ==
  /\ NextIs(t, "clear", x) /\ Then(t, <<>>)
  /\ Unlock(base, x)
  /\ waitGroups' = [waitGroups EXCEPT ![x] = <<>>]
  /\ UNCHANGED <<asleep, own, groups, done, life, andThen>>

\* the group's last task goes on to empty_group() with the group's mutex
TaskDoneStep(t, g) ==
  /\ NextIs(t, "task_done", g)
  /\ count' = [count EXCEPT ![g] = (@ - 1) % WordSize]
  /\ \/ count[g] = 1 /\ Lock(own, g, t) /\ Then(t, <<<<"done", g>>, <<"empty", g>>>>)
     \/ count[g] # 1 /\ Free(own, g) /\ Then(t, <<>>) /\ UNCHANGED own
  /\ UNCHANGED <<asleep, base, tasks, groupClosed, waiting, life, andThen>>

\* Seeded bug: the group's sleepers are told only when it is closed.
EmptyWakesWhenClosed(t, g) ==
  /\ NextIs(t, "empty", g)
  /\ Unlock(own, g)
  /\ IF groupClosed[g] THEN Call(g) /\ Notify(t, g)
                       ELSE Then(t, <<>>) /\ UNCHANGED <<asleep, andThen>>
  /\ UNCHANGED <<base, groups, waiting, life>>

\* the rest of empty_group(): continuations if closed, then notify_all()
EmptyStep(t, g) ==
  /\ NextIs(t, "empty", g)
  /\ IF groupClosed[g] THEN Call(g) ELSE UNCHANGED andThen
  /\ Unlock(own, g)
  /\ Notify(t, g)
  /\ UNCHANGED <<base, groups, waiting, life>>

-----------------------------------------------------------------------------
(* WaitGroup.                                                              *)

\* add(), by for_each() or by its caller: std::lock() takes both mutexes.  wait_with()
\* counts a waitable that is done off at once, with them held.  Groups are nested one deep.
Addable(c, g, x) ==
  /\ Idle(c) /\ c = Filler /\ c \in holders[g]
  /\ x \in Wanted[g] \ tasks[g] /\ ~ groupClosed[g]
  /\ x \in Groups => /\ x # g /\ c \in holders[x] /\ tasks[x] \cap Groups = {}
                     /\ \A p \in Groups : g \notin tasks[p]
  /\ Free(own, g) /\ Free(base, x)

AddNew(c, g, x) ==
  /\ Addable(c, g, x) /\ ~ done[x]
  /\ tasks' = [tasks EXCEPT ![g] = @ \cup {x}]
  /\ count' = [count EXCEPT ![g] = @ + 1]
  /\ waitGroups' = [waitGroups EXCEPT ![x] = Append(@, g)]
  /\ UNCHANGED <<calls, mutexes, groupClosed, done, life, andThen>>

AddDone(c, g, x) ==
  /\ Addable(c, g, x) /\ done[x]
  /\ tasks' = [tasks EXCEPT ![g] = @ \cup {x}]
  /\ \/ count[g] # 0 /\ UNCHANGED <<todo, mutexes>>
     \/ /\ count[g] = 0 /\ Lock(own, g, c) /\ Lock(base, x, c)
        /\ Do(c, <<<<"done", g>>, <<"empty", g>>, <<"added", x>>>>)
  /\ UNCHANGED <<asleep, count, groupClosed, waiting, life, andThen>>

AddedStep(t, x) ==
  /\ NextIs(t, "added", x) /\ Then(t, <<>>)
  /\ Unlock(base, x)
  /\ UNCHANGED <<asleep, own, groups, waiting, life, andThen>>

CloseGroup(c, g) ==
  /\ Idle(c) /\ c = Filler /\ c \in holders[g] /\ ~ groupClosed[g] /\ tasks[g] = Wanted[g]
  /\ groupClosed' = [groupClosed EXCEPT ![g] = TRUE]
  /\ UNCHANGED <<calls, mutexes, tasks, count, waiting, life, andThen>>

\* wait() on a group and await() on a future, by another client than the filler: test under
\* the mutex, else sleep
Wait(c, x) ==
  /\ Idle(c) /\ c # Filler /\ x \in Awaited
  /\ x \in Groups => c \in holders[x]
  /\ Do(c, <<<<"wait", x>>>>)
  /\ UNCHANGED <<asleep, mutexes, groups, waiting, life, andThen>>

Over(x) == IF x \in Groups THEN count[x] = 0 ELSE Completed(x)

WaitStep(c, x) ==
  /\ NextIs(c, "wait", x) /\ Then(c, <<>>)
  /\ Free(own, x)
  /\ asleep' = [asleep EXCEPT ![c] = IF Over(x) THEN Nobody ELSE x]
  /\ UNCHANGED <<mutexes, groups, waiting, life, andThen>>

-----------------------------------------------------------------------------
(* ~WaitGroup(): leaves the waitables it waits with, one at a time.        *)

Referenced(g) == holders'[g] # {} \/ \E p \in alive' : g \in tasks[p]
WaitsWith(x, g) == \E i \in DOMAIN waitGroups[x] : waitGroups[x][i] = g

\* a client drops its shared_ptr
Release(c, g) ==
  /\ Idle(c) /\ c \in holders[g] /\ (c = Filler => tasks[g] = Wanted[g])
  /\ holders' = [holders EXCEPT ![g] = @ \ {c}]
  /\ UNCHANGED alive
  /\ Do(c, IF Referenced(g) THEN <<>> ELSE <<<<"destroy", g>>>>)
  /\ UNCHANGED <<asleep, mutexes, groups, waiting, andThen>>

\* remove_wait_group(): a waitable is given to a group once, so it has one entry to lose
LeaveStep(t, g) ==
  /\ NextIs(t, "destroy", g)
  /\ Free(own, g)
  /\ \E x \in tasks[g] :
       /\ Free(base, x)
       /\ \E i \in DOMAIN waitGroups[x] :
            /\ waitGroups[x][i] = g
            /\ waitGroups' = [waitGroups EXCEPT ![x] = RemoveAt(@, i)]
  /\ UNCHANGED <<calls, mutexes, groups, done, life, andThen>>

Orphans(g) == {x \in tasks[g] \cap Groups : ~ Referenced(x)}

\* the members go with the group: a group only _tasks referred to is destroyed too
Freed(t, g) ==
  /\ NextIs(t, "destroy", g)
  /\ alive' = alive \ {g}
  /\ UNCHANGED holders
  /\ \E rest \in SetToSeqs({<<"destroy", x>> : x \in Orphans(g)}) : Then(t, rest)
  /\ UNCHANGED <<asleep, mutexes, groups, waiting, andThen>>

\* Seeded bug: it goes with its tasks still pointing at it.
FreeAtOnce(t, g) == Freed(t, g)

FreeStep(t, g) == (\A x \in tasks[g] : ~ WaitsWith(x, g)) /\ Freed(t, g)

-----------------------------------------------------------------------------
GroupInit ==
  /\ todo = [t \in Threads |-> IF t \in Futures THEN SetDone(t) ELSE <<>>]
  /\ asleep = [c \in Clients |-> Nobody]
  /\ own = [x \in Waitables |-> Nobody]
  /\ base = [x \in Waitables |-> Nobody]
  /\ done = [x \in Waitables |-> FALSE]
  /\ waitGroups = [x \in Waitables |-> <<>>]
  /\ tasks = [g \in Groups |-> {}]
  /\ count = [g \in Groups |-> 0]
  /\ groupClosed = [g \in Groups |-> FALSE]
  /\ alive = Groups
  /\ holders = [g \in Groups |-> IF g \in Shared THEN Clients ELSE {Filler}]
  /\ maps = [x \in Waitables |-> 0]
  /\ called = [x \in Waitables |-> FALSE]

\* a call goes on
Continue(t) ==
  /\ todo[t] # <<>>
  /\ \E x \in {Head(todo[t])[2]} :
       \/ DoneStep(t, x) \/ ClearStep(t, x) \/ AddedStep(t, x)
       \/ t \in Clients /\ WaitStep(t, x)
       \/ x = t /\ (BeginStep(t) \/ EndStep(t))
       \/ x \in Groups /\ (TaskDoneStep(t, x) \/ EmptyStep(t, x) \/ LeaveStep(t, x) \/ FreeStep(t, x))

Use(c) ==
  \/ \E x \in Waitables : AndMap(c, x) \/ Wait(c, x)
  \/ \E g \in Groups : CloseGroup(c, g) \/ Release(c, g)
  \/ \E g \in Groups, x \in Waitables : AddNew(c, g, x) \/ AddDone(c, g, x)

GroupNext == \/ \E t \in Threads : Continue(t)
             \/ \E c \in Clients : Use(c)

GroupSpec == GroupInit /\ [][GroupNext]_groupVars

\* a call that can go on does, and the pool runs what it was given
FairGroupSpec == /\ GroupSpec
                 /\ \A t \in Threads : WF_groupVars(Continue(t))

-----------------------------------------------------------------------------
(* What must hold.                                                         *)

Pending(g) == {x \in Waitables : \E t \in Threads : \E i \in DOMAIN todo[t] :
                                  todo[t][i] = <<"task_done", g, x>>}
Dying(g) == \E t \in Threads : \E i \in DOMAIN todo[t] : todo[t][i] = <<"destroy", g>>

\* A group's count is exactly what it is still owed: the waitables of its list that are not
\* done, all of which know of the group, and those on their way to count themselves off.
\* So wait(), which looks at the count alone, returns when every waitable is done and not
\* earlier, whatever completes while the group is filled (wait_group.hpp:51-55, 135-143,
\* waitable.cpp:24-44).
CountIsOwed ==
  \A g \in alive : ~ Dying(g) =>
    /\ count[g] = Cardinality({x \in tasks[g] : ~ done[x]}) + Cardinality(Pending(g))
    /\ \A x \in tasks[g] : ~ done[x] => WaitsWith(x, g)

\* No waitable keeps, and no call in progress has still to use, the pointer of a group that
\* has been destroyed, though waitables refer to groups by plain pointers and the last
\* shared_ptr may go while the last task reports (wait_group.hpp:125-132).
DeadGroupIsLeftAlone ==
  \A g \in Groups \ alive :
    /\ \A x \in Waitables : (x \in Groups => x \in alive) => ~ WaitsWith(x, g)
    /\ \A t \in Threads : \A i \in DOMAIN todo[t] : todo[t][i][2] # g

\* Every call returns: await() and wait() are woken, and no two calls lock each other out of
\* the mutexes of futures, waitables and groups; but a group that waits with a group nothing
\* was added to waits for ever (future.hpp:57-66, wait_group.hpp:43-49, 162-165).
Hopeless(t) == /\ t \in Clients /\ asleep[t] \in Groups
               /\ \E h \in tasks[asleep[t]] \cap Groups : tasks[h] = {}
CallsReturn == \A t \in Threads : []<>(Idle(t) \/ Hopeless(t))

\* A continuation is handed to the pool once its source is done: that of a future, which
\* always gets done, always, whether it carries a value or not (future.hpp:57-66, 134-141);
\* that of a group if the group was closed while a future it waits with was still to be done
\* and the groups it waits with were given something (wait_group.hpp:43-49,
\* and_then_declaration.hpp:72-82).
Sourced(g) == /\ groupClosed[g]
              /\ \E f \in tasks[g] \cap Futures : ~ done[f]
              /\ \A h \in tasks[g] \cap Groups : tasks[h] # {}
ContinuationsRun ==
  /\ \A f \in Mapped \cap Futures : []<>(maps[f] = 0)
  /\ \A g \in Mapped \cap Groups : maps[g] # 0 /\ Sourced(g) ~> maps[g] = 0 \/ g \notin alive

\* Nobody waits in vain, threads or continuations.
NobodyWaitsForever == CallsReturn /\ ContinuationsRun
=============================================================================

----------------------------- MODULE ForEachRange -----------------------------
(***************************************************************************)
(* ThreadPool::for_each_range() (threading/thread_pool.hpp): a range of    *)
(* integers is cut into one task a thread, the first ones an index longer. *)
(* What becomes of the tasks is the business of WaitGroup and ThreadPool.  *)
(*                                                                         *)
(* N is a type narrower than int, of Bits bits: a difference is exact, what *)
(* is stored in a variable of the type wraps.                              *)
(***************************************************************************)
EXTENDS Integers, Sequences, FiniteSets

CONSTANTS Bits, MaxThreads, \* bound: threads of the pool, not 0: the code divides by it
          Endless           \* the length of a loop that never ends
ForEachRangeAssumption == {Bits, MaxThreads} \subseteq Nat \ {0} /\ Endless \notin Int

VARIABLES range,    \* the arguments, std::is_signed_v<N>, and the threads when it was called
          begin,    \* the rest of the range starts here
          extra,    \* work_extra
          tasks,    \* the tasks handed to async()
          returned
vars == <<range, begin, extra, tasks, returned>>

lowest == IF range.signed THEN -(2 ^ (Bits - 1)) ELSE 0
highest == lowest + 2 ^ Bits - 1
Wrap(n) == lowest + ((n - lowest) % 2 ^ Bits)

length == range.end - range.begin
work == Wrap(length \div range.threads)  \* work_per_thread

Types == {[signed |-> FALSE, least |-> 0], [signed |-> TRUE, least |-> -(2 ^ (Bits - 1))]}

Init ==
  /\ \E type \in Types : \E b, e \in type.least .. type.least + 2 ^ Bits - 1 :
       \E n \in 1 .. MaxThreads :
         range = [signed |-> type.signed, begin |-> b, end |-> e, threads |-> n]
  /\ begin = range.begin
  /\ extra = IF range.begin < range.end THEN length % range.threads ELSE 0
  /\ tasks = <<>> /\ returned = FALSE

HandOut(count) == tasks' = Append(tasks, [first |-> begin, count |-> count])

\* Seeded bug: the index more is not counted.
ExtraTaskOverlaps ==
  /\ ~ returned /\ extra > 0
  /\ HandOut(IF work = highest THEN Endless ELSE work + 1)
  /\ extra' = extra - 1 /\ begin' = Wrap(begin + work)
  /\ UNCHANGED <<range, returned>>

\* i <= work_per_thread holds for every i when work_per_thread is the greatest value
ExtraTask ==
  /\ ~ returned /\ extra > 0
  /\ HandOut(IF work = highest THEN Endless ELSE work + 1)
  /\ extra' = extra - 1 /\ begin' = Wrap(begin + work + 1)
  /\ UNCHANGED <<range, returned>>

EvenTask ==
  /\ ~ returned /\ extra = 0 /\ begin < range.end
  /\ HandOut(IF work < 0 THEN 0 ELSE work)
  /\ begin' = Wrap(begin + work)
  /\ UNCHANGED <<range, extra, returned>>

Return ==
  /\ ~ returned /\ extra = 0 /\ begin >= range.end
  /\ returned' = TRUE
  /\ UNCHANGED <<range, begin, extra, tasks>>

Next == ExtraTask \/ EvenTask \/ Return
Spec == Init /\ [][Next]_vars

-----------------------------------------------------------------------------
IndicesOf(task) == {Wrap(task.first + i) : i \in 0 .. task.count - 1}

\* Every index of the range is given to exactly one task, there are no more tasks than
\* threads, and none is empty, up to the ends of the type; but not when the range is longer
\* than the greatest value of a signed type (thread_pool.hpp:101-120).
IndicesAreDealtOut ==
  returned /\ length <= highest =>
    /\ Len(tasks) <= range.threads
    /\ \A i \in DOMAIN tasks : tasks[i].count # Endless /\ tasks[i].count > 0
    /\ UNION {IndicesOf(tasks[i]) : i \in DOMAIN tasks} = range.begin .. range.end - 1
    /\ \A i, j \in DOMAIN tasks : i # j => IndicesOf(tasks[i]) \cap IndicesOf(tasks[j]) = {}
=============================================================================

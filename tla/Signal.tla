------------------------------- MODULE Signal -------------------------------
(***************************************************************************)
(* scorpio_utils::threading::Signal (threading/signal.hpp, signal.cpp): a  *)
(* counting semaphore on a futex word.  A waiter that finds the count at   *)
(* zero asks the kernel to sleep, which it does only if the word is still  *)
(* zero; notify() adds to the word and then wakes, in two steps, between   *)
(* which anybody may take what was added.                                  *)
(*                                                                         *)
(* The wake of a notify() is left pending in `wakes' and happens as a step *)
(* of its own, one thread at a time.                                       *)
(***************************************************************************)
EXTENDS Integers, FiniteSets

CONSTANTS Threads,
          Margin,     \* close() stores -Margin, 1e9 in the code; bound: fewer
                      \* than that are notified after it
          MaxCount,   \* bound: notify() does not raise the count over it
          MaxWakes    \* bound: pending wakes notify() may leave

ASSUME SignalAssumption ==
  /\ IsFiniteSet(Threads)
  /\ Margin \in Nat \ {0}
  /\ MaxCount \in Nat /\ MaxWakes \in Nat

VARIABLES futex,   \* _futex: the count, negative once closed
          waiter,  \* thread |-> "out" of wait(), or "trying", "parking", "asleep" in it
          wakes    \* FUTEX_WAKEs that are still to come

vars == <<futex, waiter, wakes>>

Closed == 0 - Margin

At(stage) == {t \in Threads : waiter[t] = stage}
Awake == At("trying") \cup At("parking")
Move(t, stage) == waiter' = [waiter EXCEPT ![t] = stage]

-----------------------------------------------------------------------------
\* try_take() that succeeds; one that fails or throws changes nothing
TryTake == /\ futex > 0
           /\ futex' = futex - 1
           /\ UNCHANGED <<waiter, wakes>>

\* wait() is called ...
Enter(t) == waiter[t] = "out" /\ Move(t, "trying") /\ UNCHANGED <<futex, wakes>>

\* ... and takes one, or
Take(t) == /\ waiter[t] = "trying" /\ futex > 0
           /\ futex' = futex - 1
           /\ Move(t, "out")
           /\ UNCHANGED wakes

\* Seeded bug: a closed signal looks like an empty one.
ThrowNever(t) == FALSE /\ UNCHANGED vars

\* ... throws because the signal is closed, or
Throw(t) == /\ waiter[t] = "trying" /\ futex < 0
            /\ Move(t, "out")
            /\ UNCHANGED <<futex, wakes>>

\* ... goes to sleep
Miss(t) == /\ waiter[t] = "trying" /\ futex = 0
           /\ Move(t, "parking")
           /\ UNCHANGED <<futex, wakes>>

\* Seeded bug: the thread sleeps whatever the count has become.
ParkAnyway(t) == /\ waiter[t] = "parking"
                 /\ Move(t, "asleep")
                 /\ UNCHANGED <<futex, wakes>>

\* FUTEX_WAIT with 0 as the expected value: EAGAIN when the word has changed
Park(t) == /\ waiter[t] = "parking"
           /\ Move(t, IF futex = 0 THEN "asleep" ELSE "trying")
           /\ UNCHANGED <<futex, wakes>>

\* EINTR
Interrupt(t) == /\ waiter[t] = "asleep"
                /\ Move(t, "trying")
                /\ UNCHANGED <<futex, wakes>>

\* Seeded bug: one thread is woken however many were notified.
NotifyWakesOne(n) == /\ futex' = futex + n
                     /\ wakes' = wakes + 1
                     /\ UNCHANGED waiter

Notify(n) == /\ futex' = futex + n
             /\ wakes' = wakes + n
             /\ UNCHANGED waiter

\* FUTEX_WAKE, of a thread that sleeps if there is one
Wake == /\ wakes > 0
        /\ wakes' = wakes - 1
        /\ IF At("asleep") = {} THEN UNCHANGED waiter
           ELSE \E t \in At("asleep") : Move(t, "trying")
        /\ UNCHANGED futex

\* close() wakes every thread that sleeps
Close == /\ futex' = Closed
         /\ wakes' = wakes + Cardinality(Threads)
         /\ UNCHANGED waiter

-----------------------------------------------------------------------------
InitWith(initial) == /\ futex = initial
                     /\ waiter = [t \in Threads |-> "out"]
                     /\ wakes = 0

Init == \E initial \in 0 .. MaxCount : InitWith(initial)

WaiterStep(t) == Take(t) \/ Throw(t) \/ Miss(t) \/ Park(t)

Next == \/ TryTake
        \/ \E t \in Threads : Enter(t) \/ WaiterStep(t) \/ Interrupt(t)
        \/ \E n \in 1 .. MaxCount :
             /\ futex + n <= (IF futex < 0 THEN -1 ELSE MaxCount)
             /\ wakes + n <= MaxWakes
             /\ Notify(n)
        \/ Wake
        \/ futex # Closed /\ Close

Spec == Init /\ [][Next]_vars

\* a thread inside wait() runs, and a notify() that has begun ends
Fairness == (\A t \in Threads : WF_vars(WaiterStep(t))) /\ WF_vars(Wake)

FairSpec == Spec /\ Fairness

-----------------------------------------------------------------------------
(* Properties.                                                             *)

TypeOK == /\ futex \in Int
          /\ waiter \in [Threads -> {"out", "trying", "parking", "asleep"}]
          /\ wakes \in Nat

\* No wake-up is lost: while somebody sleeps, everything that can be taken is
\* about to be seen, by a thread that is awake or by one a pending wake will
\* wake.  Takers that overtake the woken thread do not break it.
NoLostWakeup ==
  At("asleep") # {} => futex <= wakes + Cardinality(Awake)

\* Once the signal is closed, every thread that still sleeps is about to be woken.
CloseWakesSleepers == futex < 0 => Cardinality(At("asleep")) <= wakes

\* A thread in wait() gets out of it if the count stays positive, whoever else
\* takes and notifies meanwhile: nobody is left asleep next to a count.
CountServesWaiters ==
  \A t \in Threads :
    [](waiter[t] # "out" /\ [](futex > 0) => <>(waiter[t] = "out"))

==============================================================================

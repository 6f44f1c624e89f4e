-------------------------- MODULE ThreadingProofs --------------------------
(***************************************************************************)
(* Signal loses no wake-up, for any number of threads and any notify():    *)
(* the two counting invariants together with the types are inductive.      *)
(*                                                                         *)
(* The thread pool counts its threads right and keeps as many as it was    *)
(* asked to keep, for any number of threads, tasks and resizes.            *)
(***************************************************************************)
EXTENDS Signal, ThreadPool, FiniteSetTheorems, TLAPS

-----------------------------------------------------------------------------
(* The semaphore.                                                          *)

IInv == TypeOK /\ NoLostWakeup /\ CloseWakesSleepers

\* The set of threads at a stage is finite, and its size a natural number.
LEMMA StageIsFinite ==
  ASSUME NEW S \in SUBSET Threads
  PROVE  IsFiniteSet(S) /\ Cardinality(S) \in Nat
  BY SignalAssumption, FS_Subset, FS_CardinalityType

\* Moving one thread takes it from its stage to the other and leaves all else.
LEMMA MoveStages ==
  ASSUME TypeOK, NEW t \in Threads,
         NEW stage \in {"out", "trying", "parking", "asleep"},
         Move(t, stage)
  PROVE  /\ waiter' \in [Threads -> {"out", "trying", "parking", "asleep"}]
         /\ At("asleep")' = IF stage = "asleep" THEN At("asleep") \cup {t}
                            ELSE At("asleep") \ {t}
         /\ Awake' = IF stage \in {"trying", "parking"} THEN Awake \cup {t}
                     ELSE Awake \ {t}
  BY DEF TypeOK, Move, At, Awake

\* Notify and Close leave every thread where it is.
LEMMA SameStages ==
  ASSUME UNCHANGED waiter
  PROVE  At("asleep")' = At("asleep") /\ Awake' = Awake
  BY DEF At, Awake

\* One thread more or less, in a set of threads that has it or not.
LEMMA CountOne ==
  ASSUME NEW S \in SUBSET Threads, NEW t \in Threads
  PROVE  /\ t \in S => /\ Cardinality(S \ {t}) = Cardinality(S) - 1
                       /\ S \cup {t} = S
                       /\ Cardinality(S) >= 1
         /\ t \notin S => /\ Cardinality(S \cup {t}) = Cardinality(S) + 1
                          /\ S \ {t} = S
  <1>1. IsFiniteSet(S) /\ Cardinality(S) \in Nat
    BY StageIsFinite
  <1>2. CASE t \in S
    <2>1. Cardinality(S \ {t}) = Cardinality(S) - 1
      BY <1>1, <1>2, FS_RemoveElement
    <2>2. Cardinality(S \ {t}) \in Nat
      BY StageIsFinite
    <2>3. S \cup {t} = S
      BY <1>2
    <2> QED BY <1>1, <1>2, <2>1, <2>2, <2>3
  <1>3. CASE t \notin S
    <2>1. Cardinality(S \cup {t}) = Cardinality(S) + 1
      BY <1>1, <1>3, FS_AddElement
    <2>2. S \ {t} = S
      BY <1>3
    <2> QED BY <1>3, <2>1, <2>2
  <1> QED BY <1>2, <1>3

\* A signal nobody waits for.
LEMMA InitIInv == Init => IInv
  <1> SUFFICES ASSUME Init PROVE IInv
    OBVIOUS
  <1>1. PICK initial \in 0 .. MaxCount : InitWith(initial)
    BY DEF Init
  <1>2. TypeOK
    BY <1>1, SignalAssumption DEF InitWith, TypeOK
  <1>3. At("asleep") = {}
    BY <1>1 DEF InitWith, At
  <1>4. initial >= 0
    BY SignalAssumption
  <1> QED BY <1>1, <1>2, <1>3, <1>4 DEF IInv, NoLostWakeup, CloseWakesSleepers, InitWith

\* A thread inside wait() that takes, throws, misses, parks or is interrupted.
LEMMA WaiterKeepsIInv ==
  ASSUME IInv, NEW t \in Threads, Enter(t) \/ WaiterStep(t) \/ Interrupt(t)
  PROVE  IInv'
<1> DEFINE S == At("asleep")
           A == Awake
<1>0. /\ TypeOK /\ NoLostWakeup /\ CloseWakesSleepers
      /\ S \in SUBSET Threads /\ A \in SUBSET Threads /\ S \cap A = {}
      /\ Cardinality(S) \in Nat /\ Cardinality(A) \in Nat
  <2>1. S \in SUBSET Threads /\ A \in SUBSET Threads /\ S \cap A = {}
    BY DEF At, Awake
  <2> QED BY <2>1, StageIsFinite DEF IInv
<1>c. /\ t \in S => Cardinality(S \ {t}) = Cardinality(S) - 1 /\ Cardinality(S) >= 1
      /\ t \notin S => Cardinality(S \cup {t}) = Cardinality(S) + 1 /\ S \ {t} = S
      /\ t \in A => /\ Cardinality(A \ {t}) = Cardinality(A) - 1
                    /\ A \cup {t} = A /\ Cardinality(A) >= 1
      /\ t \notin A => Cardinality(A \cup {t}) = Cardinality(A) + 1 /\ A \ {t} = A
  BY <1>0, CountOne
<1>e. Cardinality({}) = 0
  BY FS_EmptySet
<1>1. CASE Enter(t)
  <2>1. t \notin S /\ t \notin A
    BY <1>1 DEF Enter, At, Awake
  <2>2. TypeOK' /\ S' = S /\ A' = A \cup {t} /\ futex' = futex /\ wakes' = wakes
    BY <1>0, <1>1, <1>c, <2>1, MoveStages DEF Enter, TypeOK
  <2> HIDE DEF S, A
  <2>3. Cardinality(A') = Cardinality(A) + 1
    BY <1>c, <2>1, <2>2
  <2>4. S' # {} => futex' <= wakes' + Cardinality(A')
    BY <1>0, <2>2, <2>3 DEF NoLostWakeup, TypeOK, S, A
  <2> QED BY <1>0, <2>2, <2>4 DEF IInv, NoLostWakeup, CloseWakesSleepers, S, A
<1>2. CASE Take(t)
  <2>1. t \notin S /\ t \in A
    BY <1>2 DEF Take, At, Awake
  <2>2. TypeOK' /\ S' = S /\ A' = A \ {t} /\ futex' = futex - 1 /\ futex > 0 /\ wakes' = wakes
    <3>1. /\ waiter' \in [Threads -> {"out", "trying", "parking", "asleep"}]
          /\ S' = S \ {t} /\ A' = A \ {t}
      BY <1>0, <1>2, MoveStages DEF Take
    <3>2. futex' = futex - 1 /\ futex > 0 /\ wakes' = wakes /\ wakes \in Nat /\ futex' \in Int
      BY <1>0, <1>2 DEF Take, TypeOK
    <3>3. S \ {t} = S
      BY <2>1
    <3> QED BY <3>1, <3>2, <3>3 DEF TypeOK
  <2> HIDE DEF S, A
  <2>3. Cardinality(A') = Cardinality(A) - 1
    BY <1>c, <2>1, <2>2
  <2>4. S' # {} => futex' <= wakes' + Cardinality(A')
    BY <1>0, <2>2, <2>3 DEF NoLostWakeup, TypeOK, S, A
  <2>5. futex' >= 0
    BY <1>0, <2>2 DEF TypeOK
  <2> QED BY <2>2, <2>4, <2>5 DEF IInv, NoLostWakeup, CloseWakesSleepers, S, A, TypeOK
<1>3. CASE Throw(t)
  <2>1. t \notin S /\ t \in A
    BY <1>3 DEF Throw, At, Awake
  <2>2. TypeOK' /\ S' = S /\ A' = A \ {t} /\ futex' = futex /\ futex < 0 /\ wakes' = wakes
    BY <1>0, <1>3, <1>c, <2>1, MoveStages DEF Throw, TypeOK
  <2> HIDE DEF S, A
  <2>3. Cardinality(A') = Cardinality(A) - 1 /\ Cardinality(A) >= 1
    BY <1>c, <2>1, <2>2
  <2>4. futex' <= wakes' + Cardinality(A')
    BY <1>0, <2>2, <2>3 DEF TypeOK
  <2> QED BY <1>0, <2>2, <2>4 DEF IInv, NoLostWakeup, CloseWakesSleepers, S, A
<1>4. CASE Miss(t)
  <2>1. t \notin S /\ t \in A
    BY <1>4 DEF Miss, At, Awake
  <2>2. TypeOK' /\ S' = S /\ A' = A /\ futex' = futex /\ wakes' = wakes
    BY <1>0, <1>4, <1>c, <2>1, MoveStages DEF Miss, TypeOK
  <2> QED BY <1>0, <2>2 DEF IInv, NoLostWakeup, CloseWakesSleepers
<1>5. CASE Park(t)
  <2>1. t \notin S /\ t \in A
    BY <1>5 DEF Park, At, Awake
  <2>2. CASE futex = 0
    <3>1. TypeOK' /\ futex' = 0 /\ wakes' = wakes /\ A' \in SUBSET Threads
      BY <1>0, <1>5, <2>2, MoveStages DEF Park, TypeOK
    <3>2. Cardinality(A') \in Nat
      BY <3>1, StageIsFinite
    <3> HIDE DEF S, A
    <3>3. futex' <= wakes' + Cardinality(A')
      BY <3>1, <3>2 DEF TypeOK
    <3> QED BY <3>1, <3>3 DEF IInv, NoLostWakeup, CloseWakesSleepers, S, A
  <2>3. CASE futex # 0
    <3>1. TypeOK' /\ S' = S /\ A' = A /\ futex' = futex /\ wakes' = wakes
      BY <1>0, <1>5, <1>c, <2>1, <2>3, MoveStages DEF Park, TypeOK
    <3> QED BY <1>0, <3>1 DEF IInv, NoLostWakeup, CloseWakesSleepers
  <2> QED BY <2>2, <2>3
<1>6. CASE Interrupt(t)
  <2>1. t \in S /\ t \notin A
    BY <1>6 DEF Interrupt, At, Awake
  <2>2. /\ TypeOK' /\ S' = S \ {t} /\ A' = A \cup {t}
        /\ futex' = futex /\ wakes' = wakes
    BY <1>0, <1>6, MoveStages DEF Interrupt, TypeOK
  <2> HIDE DEF S, A
  <2>3. /\ Cardinality(A') = Cardinality(A) + 1
        /\ Cardinality(S') = Cardinality(S) - 1
    BY <1>c, <2>1, <2>2
  <2>4. futex' <= wakes' + Cardinality(A')
    BY <1>0, <2>1, <2>2, <2>3 DEF NoLostWakeup, TypeOK, S, A
  <2>5. futex' < 0 => Cardinality(S') <= wakes'
    BY <1>0, <2>2, <2>3 DEF CloseWakesSleepers, TypeOK, S
  <2> QED BY <2>2, <2>4, <2>5 DEF IInv, NoLostWakeup, CloseWakesSleepers, S, A
<1> QED BY <1>1, <1>2, <1>3, <1>4, <1>5, <1>6 DEF WaiterStep

\* A FUTEX_WAKE either wakes a sleeper, one for one, or finds none.
LEMMA WakeKeepsIInv ==
  ASSUME IInv, Wake
  PROVE  IInv'
<1> DEFINE S == At("asleep")
           A == Awake
<1>0. /\ TypeOK /\ NoLostWakeup /\ CloseWakesSleepers
      /\ wakes > 0 /\ wakes' = wakes - 1 /\ futex' = futex
  BY DEF IInv, Wake
<1>1. CASE S = {}
  <2>1. S' = {} /\ TypeOK'
    BY <1>0, <1>1 DEF Wake, At, TypeOK
  <2>2. Cardinality({}) = 0
    BY FS_EmptySet
  <2> QED BY <1>0, <2>1, <2>2 DEF IInv, NoLostWakeup, CloseWakesSleepers, TypeOK
<1>2. CASE S # {}
  <2>1. PICK t \in S : Move(t, "trying")
    BY <1>2 DEF Wake
  <2>2. t \in Threads /\ t \notin A /\ S \in SUBSET Threads /\ A \in SUBSET Threads
    BY DEF At, Awake
  <2>3. TypeOK' /\ S' = S \ {t} /\ A' = A \cup {t}
    BY <1>0, <2>1, <2>2, MoveStages DEF TypeOK
  <2>4. Cardinality(S) \in Nat /\ Cardinality(A) \in Nat
    BY <2>2, StageIsFinite
  <2>5. /\ Cardinality(S') = Cardinality(S) - 1
        /\ Cardinality(A') = Cardinality(A) + 1
    BY <2>2, <2>3, CountOne
  <2> HIDE DEF S, A
  <2>6. futex' <= wakes' + Cardinality(A')
    BY <1>0, <1>2, <2>4, <2>5 DEF NoLostWakeup, TypeOK, S, A
  <2>7. futex' < 0 => Cardinality(S') <= wakes'
    BY <1>0, <2>4, <2>5 DEF CloseWakesSleepers, TypeOK, S
  <2> QED BY <2>3, <2>6, <2>7 DEF IInv, NoLostWakeup, CloseWakesSleepers, S, A
<1> QED BY <1>1, <1>2

\* The steps that move no thread: they change the count and the pending wakes.
LEMMA CountKeepsIInv ==
  ASSUME IInv, \/ TryTake
               \/ \E n \in 1 .. MaxCount : Notify(n)
               \/ Close
               \/ UNCHANGED vars
  PROVE  IInv'
<1> DEFINE S == At("asleep")
           A == Awake
<1>0. /\ TypeOK /\ NoLostWakeup /\ CloseWakesSleepers
      /\ UNCHANGED waiter /\ S' = S /\ A' = A
  BY SameStages DEF IInv, TryTake, Notify, Close, vars
<1>1. S \in SUBSET Threads /\ A \in SUBSET Threads
  BY DEF At, Awake
<1>2. Cardinality(S) \in Nat /\ Cardinality(A) \in Nat /\ Cardinality(Threads) \in Nat
  BY <1>1, StageIsFinite
<1>3. Cardinality(S) <= Cardinality(Threads)
  BY <1>1, SignalAssumption, FS_Subset
<1> HIDE DEF S, A
<1>4. futex \in Int /\ wakes \in Nat
  BY <1>0 DEF TypeOK
<1>5. /\ futex' \in Int /\ wakes' \in Nat
      /\ S # {} => futex' <= wakes' + Cardinality(A)
      /\ futex' < 0 => Cardinality(S) <= wakes'
  <2>1. /\ S # {} => futex <= wakes + Cardinality(A)
        /\ futex < 0 => Cardinality(S) <= wakes
    BY <1>0 DEF NoLostWakeup, CloseWakesSleepers, S, A
  <2>2. CASE TryTake
    BY <1>2, <1>4, <2>1, <2>2 DEF TryTake
  <2>3. CASE \E n \in 1 .. MaxCount : Notify(n)
    <3>1. PICK n \in 1 .. MaxCount : Notify(n)
      BY <2>3
    <3>2. n \in Nat
      BY SignalAssumption
    <3> QED BY <1>2, <1>4, <2>1, <3>1, <3>2 DEF Notify
  <2>4. CASE Close
    BY <1>2, <1>3, <1>4, <2>4, SignalAssumption DEF Close, Closed
  <2>5. CASE UNCHANGED vars
    BY <1>4, <2>1, <2>5 DEF vars
  <2> QED BY <2>2, <2>3, <2>4, <2>5
<1>6. TypeOK'
  BY <1>0, <1>5 DEF TypeOK
<1> QED BY <1>0, <1>5, <1>6 DEF IInv, NoLostWakeup, CloseWakesSleepers, S, A

\* The invariant holds in every reachable state of a signal.
THEOREM SignalInvariant == Spec => []IInv
<1>1. IInv /\ [Next]_vars => IInv'
  BY WaiterKeepsIInv, WakeKeepsIInv, CountKeepsIInv DEF Next
<1> QED BY <1>1, InitIInv, PTL DEF Spec

\* The word, the stages and the pending wakes have their types.
THEOREM SignalTypeOK == Spec => []TypeOK
  BY SignalInvariant, PTL DEF IInv

\* No wake-up is lost: a thread sleeps next to a positive count only while
\* enough threads to take all of it are awake or about to be woken.
THEOREM SignalNoLostWakeup == Spec => []NoLostWakeup
  BY SignalInvariant, PTL DEF IInv

\* close() leaves no thread asleep that a pending wake will not reach.
THEOREM SignalCloseWakesSleepers == Spec => []CloseWakesSleepers
  BY SignalInvariant, PTL DEF IInv

-----------------------------------------------------------------------------
(* The thread pool: where its workers are, and what its counters say of it. *)

WorkerPlaces == {"none", "outer", "inner", "innerCount", "innerLiving", "receive", "run",
                 "notify", "leave", "counted", "taken", "left", "stay", "test", "testStop",
                 "testSizes", "testCount", "testLiving", "sleep", "asleep", "exit"}
RestPlaces == {"idle", "notify", "shrink", "await", "work", "stop", "join", "destroyed"}
Growing == {"spawn", "start"}

\* the owner's argument is what it was asked for, or how many threads it still starts
OwnerOK ==
  \/ \E place \in RestPlaces : owner = <<place, 0>>
  \/ owner = <<"compare", count>>
  \/ \E place \in Growing, n \in Nat \ {0} : owner = <<place, n>>

WorkersOK == worker \in [Workers -> WorkerPlaces] /\ seen \in [Workers -> Nat]

PoolTypeOK ==
  /\ queued \in Nat /\ done \in Nat /\ added \in Nat
  /\ stop \in BOOLEAN /\ misled \in BOOLEAN
  /\ count \in Nat /\ sets \in Nat
  /\ WorkersOK /\ OwnerOK

In(places) == {w \in Workers : worker[w] \in places}
Number(places) == Cardinality(In(places))

AnyThread == WorkerPlaces \ {"none"}
Undecided == WorkerPlaces \ {"none", "left", "stay", "taken"}
Busy == {"run", "notify"}
Attentive == {"inner", "innerCount", "innerLiving", "receive", "run", "notify"}

Started == Number(AnyThread)     \* threads there are
Deciding == Number(Undecided)    \* those _pseudo_living_threads counts
Departing == Number({"left"})    \* those that have decided to leave and count as living
Exiting == Number({"exit"})
Executing == Number(Busy)        \* those with a task
Serving == Number(Attentive)     \* those that will look for a task before they leave

\* those that remain under the present count, decided or not
Keepers == Present \ Leavers(count)
Sure == Cardinality(Keepers)

\* what the counters count, and where every task is
Accounts ==
  /\ living = Started
  /\ pseudo = Deciding + (IF OwnerAt("start") THEN 1 ELSE 0)
  /\ added = done + queued + Executing

Phases ==
  /\ stop <=> OwnerAt("join") \/ OwnerAt("destroyed")
  /\ ~ stop => Exiting = 0
  /\ OwnerAt("destroyed") => Started = 0

\* threads are only started when nobody is leaving, nobody leaves while they are, and
\* nobody is about to compare with less than the present count
Kept ==
  ~ stop /\ ~ misled =>
    /\ Stale(count) = {}
    /\ owner[1] \in Growing => Leavers(count) = {} /\ living + owner[2] = count
    /\ OwnerAt("compare") => Leavers(count) = {} \/ Sure >= count
    /\ owner[1] \notin Growing \cup {"compare"} => Sure >= count

\* what has been loaded from a pool that was not resized is right, or at most the count
Fresh ==
  \A w \in Workers :
    /\ worker[w] \in {"innerCount", "testCount", "counted"} => seen[w] = count
    /\ worker[w] \in {"innerLiving", "testLiving", "taken"} => seen[w] <= count

\* such a pool never has a thread too many
Unresized ==
  sets = 0 =>
    /\ ~ misled /\ living <= count /\ Fresh
    /\ ~ stop => Departing = 0
    /\ OwnerAt("compare") => living = 0
    /\ owner[1] \in Growing => living + owner[2] = count

\* so whoever adds a task after the destructor found none takes it himself
Unattended == sets = 0 /\ (OwnerAt("stop") \/ OwnerAt("join") \/ OwnerAt("destroyed"))
Served == Unattended /\ queued > 0 => Serving > 0

PoolInv == PoolTypeOK /\ Accounts /\ Phases /\ Kept /\ Unresized /\ Served

-----------------------------------------------------------------------------
(* Counting workers.                                                       *)

LEMMA WorkersAreFinite ==
  ASSUME NEW places
  PROVE  /\ IsFiniteSet(In(places)) /\ Number(places) \in Nat
         /\ Number(places)' \in Nat
<1>1. IsFiniteSet(Workers) /\ In(places) \subseteq Workers /\ In(places)' \subseteq Workers
  BY ThreadPoolAssumption DEF In
<1>2. IsFiniteSet(In(places)) /\ IsFiniteSet(In(places)')
  BY <1>1, FS_Subset
<1> QED BY <1>2, FS_CardinalityType DEF Number

\* Of the workers at some places there are not more than at more places.
LEMMA MorePlacesMoreWorkers ==
  ASSUME NEW places, NEW more, In(places) \subseteq In(more)
  PROVE  Number(places) <= Number(more)
  BY WorkersAreFinite, FS_Subset DEF Number

LEMMA NobodyThere ==
  ASSUME NEW places
  PROVE  Number(places) = 0 <=> \A w \in Workers : worker[w] \notin places
<1>1. Number(places) = 0 <=> In(places) = {}
  BY WorkersAreFinite, FS_EmptySet DEF Number
<1> QED BY <1>1 DEF In

\* Keeping and leaving of one worker.
Keeps(w) == worker[w] \notin {"none", "left"} /\ (worker[w] = "taken" => ~ (count < seen[w]))
Leaves(w) == worker[w] = "left" \/ (worker[w] = "taken" /\ count < seen[w])

LEMMA KeepersKeep ==
  /\ Keepers = {w \in Workers : Keeps(w)}
  /\ Leavers(count) = {w \in Workers : Leaves(w)}
  /\ IsFiniteSet(Keepers) /\ Sure \in Nat
<1>1. Keepers = {w \in Workers : Keeps(w)}
  BY DEF Keepers, Keeps, Present, Leavers
<1>2. IsFiniteSet(Keepers)
  BY <1>1, ThreadPoolAssumption, FS_Subset
<1> QED BY <1>1, <1>2, FS_CardinalityType DEF Sure, Leavers, Leaves

\* The numbers are natural, and some workers are among others.
LEMMA NumberFacts ==
  ASSUME PoolTypeOK
  PROVE  /\ Started \in Nat /\ Deciding \in Nat /\ Departing \in Nat
         /\ Exiting \in Nat /\ Executing \in Nat /\ Serving \in Nat /\ Sure \in Nat
         /\ Deciding <= Sure /\ Sure <= Started
         /\ Executing <= Serving /\ Serving <= Started
         /\ Leavers(count) = {} => Sure = Started
<1>1. /\ Started \in Nat /\ Deciding \in Nat /\ Departing \in Nat
      /\ Exiting \in Nat /\ Executing \in Nat /\ Serving \in Nat /\ Sure \in Nat
  BY WorkersAreFinite, KeepersKeep DEF Started, Deciding, Departing, Exiting, Executing, Serving
<1>2. Deciding <= Sure
  <2>1. In(Undecided) \subseteq Keepers
    BY KeepersKeep DEF In, Undecided, Keeps
  <2> QED BY <2>1, KeepersKeep, FS_Subset DEF Deciding, Number, Sure
<1>3. Sure <= Started
  <2>1. Keepers \subseteq In(AnyThread)
    BY KeepersKeep DEF In, AnyThread, Keeps, PoolTypeOK, WorkersOK
  <2> QED BY <2>1, WorkersAreFinite, FS_Subset DEF Sure, Started, Number
<1>4. Executing <= Serving
  <2>1. In(Busy) \subseteq In(Attentive)
    BY DEF In, Busy, Attentive
  <2> QED BY <2>1, MorePlacesMoreWorkers DEF Executing, Serving
<1>5. Serving <= Started
  <2>1. In(Attentive) \subseteq In(AnyThread)
    BY DEF In, Attentive, AnyThread, WorkerPlaces
  <2> QED BY <2>1, MorePlacesMoreWorkers DEF Serving, Started
<1>6. Leavers(count) = {} => Sure = Started
  <2> SUFFICES ASSUME Leavers(count) = {} PROVE Sure = Started
    OBVIOUS
  <2>1. \A w \in Workers : ~ Leaves(w)
    BY KeepersKeep
  <2>2. Keepers = In(AnyThread)
    BY <2>1, KeepersKeep DEF Keeps, Leaves, In, AnyThread, PoolTypeOK, WorkersOK
  <2> QED BY <2>2 DEF Sure, Started, Number
<1> QED BY <1>1, <1>2, <1>3, <1>4, <1>5, <1>6

-----------------------------------------------------------------------------
(* A worker that goes from one place to another.                           *)

Moves(w, from, to) ==
  /\ worker[w] = from /\ worker' = [worker EXCEPT ![w] = to]
  /\ seen' \in [Workers -> Nat] /\ \A v \in Workers \ {w} : seen'[v] = seen[v]

LEMMA GoMoves ==
  ASSUME PoolTypeOK, NEW w \in Workers, NEW from, NEW to, Go(w, from, to)
  PROVE  Moves(w, from, to)
  BY DEF PoolTypeOK, WorkersOK, Go, Moves

LEMMA LoadMoves ==
  ASSUME PoolTypeOK, NEW w \in Workers, NEW from, NEW to, NEW value \in Nat,
         Load(w, from, to, value)
  PROVE  Moves(w, from, to) /\ seen'[w] = value
  BY DEF PoolTypeOK, WorkersOK, Load, Moves

One(place, places) == IF place \in places THEN 1 ELSE 0

\* A set from which only w goes, or to which only w comes.
LEMMA OneMore ==
  ASSUME NEW A, NEW B, IsFiniteSet(A), NEW w, A \ {w} = B \ {w}
  PROVE  Cardinality(B) = Cardinality(A) - One(w, A) + One(w, B)
<1> DEFINE C == A \ {w}
<1>1. IsFiniteSet(C) /\ w \notin C
  BY FS_Subset
<1>2. /\ A = IF w \in A THEN C \cup {w} ELSE C
      /\ B = IF w \in B THEN C \cup {w} ELSE C
  OBVIOUS
<1> HIDE DEF C
<1>3. Cardinality(C \cup {w}) = Cardinality(C) + 1 /\ Cardinality(C) \in Nat
  BY <1>1, FS_AddElement, FS_CardinalityType
<1>4. Cardinality(A) = Cardinality(C) + One(w, A)
  BY <1>2, <1>3 DEF One
<1>5. Cardinality(B) = Cardinality(C) + One(w, B)
  BY <1>2, <1>3 DEF One
<1>6. One(w, A) \in Int /\ One(w, B) \in Int
  BY DEF One
<1> QED BY <1>3, <1>4, <1>5, <1>6

\* A worker that goes is counted out of the place it leaves and into the one it enters.
LEMMA MoveCounts ==
  ASSUME PoolTypeOK, NEW w \in Workers, NEW from, NEW to, Moves(w, from, to), NEW places
  PROVE  Number(places)' = Number(places) - One(from, places) + One(to, places)
<1>1. /\ w \in In(places) <=> from \in places
      /\ w \in In(places)' <=> to \in places
      /\ In(places) \ {w} = In(places)' \ {w}
  BY DEF PoolTypeOK, WorkersOK, Moves, In
<1>2. Cardinality(In(places)')
        = Cardinality(In(places)) - One(w, In(places)) + One(w, In(places)')
  BY <1>1, WorkersAreFinite, OneMore
<1>3. One(w, In(places)) = One(from, places) /\ One(w, In(places)') = One(to, places)
  BY <1>1 DEF One
<1> QED BY <1>2, <1>3 DEF Number

\* What a worker's step does to all of the numbers ...
LEMMA MoveNumbers ==
  ASSUME PoolTypeOK, NEW w \in Workers, NEW from, NEW to \in WorkerPlaces, Moves(w, from, to)
  PROVE  /\ WorkersOK'
         /\ Started' = Started - One(from, AnyThread) + One(to, AnyThread)
         /\ Deciding' = Deciding - One(from, Undecided) + One(to, Undecided)
         /\ Departing' = Departing - One(from, {"left"}) + One(to, {"left"})
         /\ Exiting' = Exiting - One(from, {"exit"}) + One(to, {"exit"})
         /\ Executing' = Executing - One(from, Busy) + One(to, Busy)
         /\ Serving' = Serving - One(from, Attentive) + One(to, Attentive)
<1>1. WorkersOK'
  BY DEF PoolTypeOK, WorkersOK, Moves
<1>2. /\ Started' = Started - One(from, AnyThread) + One(to, AnyThread)
      /\ Deciding' = Deciding - One(from, Undecided) + One(to, Undecided)
  BY MoveCounts DEF Started, Deciding
<1>3. /\ Departing' = Departing - One(from, {"left"}) + One(to, {"left"})
      /\ Exiting' = Exiting - One(from, {"exit"}) + One(to, {"exit"})
  BY MoveCounts DEF Departing, Exiting
<1>4. /\ Executing' = Executing - One(from, Busy) + One(to, Busy)
      /\ Serving' = Serving - One(from, Attentive) + One(to, Attentive)
  BY MoveCounts DEF Executing, Serving
<1> QED BY <1>1, <1>2, <1>3, <1>4

\* ... to those that remain, those that leave and those that know an old count ...
LEMMA MoveKeepers ==
  ASSUME PoolTypeOK, NEW w \in Workers, NEW from, NEW to, Moves(w, from, to), count' = count
  PROVE  /\ Sure' = Sure - One(w, Keepers) + One(w, Keepers')
         /\ w \in Keepers <=> Keeps(w)
         /\ w \in Keepers' <=> Keeps(w)'
         /\ (Leaves(w)' => Leaves(w)) /\ Leavers(count) = {} => Leavers(count)' = {}
         /\ ~ Leaves(w) /\ Leaves(w)' => Leavers(count)' # {}
         /\ (to = "counted" => count <= seen'[w]) /\ Stale(count) = {} => Stale(count)' = {}
<1>1. Keepers = {v \in Workers : Keeps(v)} /\ IsFiniteSet(Keepers)
  BY KeepersKeep
<1>2. Keepers' = {v \in Workers : Keeps(v)'}
  BY DEF Keepers, Keeps, Present, Leavers
<1>3. Leavers(count) = {v \in Workers : Leaves(v)}
  BY KeepersKeep
<1>4. Leavers(count)' = {v \in Workers : Leaves(v)'}
  BY DEF Leavers, Leaves
<1>5. ASSUME NEW v \in Workers, v # w
      PROVE  /\ worker'[v] = worker[v] /\ seen'[v] = seen[v]
             /\ Keeps(v)' <=> Keeps(v)
             /\ Leaves(v)' <=> Leaves(v)
  BY <1>5 DEF PoolTypeOK, WorkersOK, Moves, Keeps, Leaves
<1>6. Sure' = Sure - One(w, Keepers) + One(w, Keepers')
  <2>1. Keepers \ {w} = Keepers' \ {w}
    BY <1>1, <1>2, <1>5
  <2> QED BY <1>1, <2>1, OneMore DEF Sure
<1>7. (to = "counted" => count <= seen'[w]) /\ Stale(count) = {} => Stale(count)' = {}
  <2>1. worker'[w] = to /\ count \in Nat /\ seen'[w] \in Nat
    BY DEF PoolTypeOK, WorkersOK, Moves
  <2> QED BY <1>5, <2>1 DEF Stale
<1> QED BY <1>1, <1>2, <1>3, <1>4, <1>5, <1>6, <1>7

\* ... and to what has been loaded.
LEMMA MoveFresh ==
  ASSUME PoolTypeOK, NEW w \in Workers, NEW from, NEW to, Moves(w, from, to), count' = count,
         to \in {"innerCount", "testCount", "counted"} => seen'[w] = count,
         to \in {"innerLiving", "testLiving", "taken"} => seen'[w] <= count
  PROVE  Fresh => Fresh'
  BY DEF PoolTypeOK, WorkersOK, Moves, Fresh

\* A step that notifies moves sleepers to their test, and a worker that has added a task
\* back to the task it runs.
Notifies == \/ NotifyAll \/ NotifyOne(worker)
            \/ \E w \in Workers : worker[w] = "notify" /\ NotifyOne([worker EXCEPT ![w] = "run"])

\* Every worker stays where it is, or makes such a step; what it has loaded stays too.
Stands(w) ==
  /\ seen'[w] = seen[w]
  /\ \/ worker'[w] = worker[w]
     \/ worker[w] = "asleep" /\ worker'[w] = "test"
     \/ worker[w] = "notify" /\ worker'[w] = "run"

LEMMA NotifyingStands ==
  ASSUME PoolTypeOK, Notifies \/ UNCHANGED workers
  PROVE  WorkersOK' /\ \A w \in Workers : Stands(w)
<1> USE DEF PoolTypeOK, WorkersOK, Stands, Asleep, WorkerPlaces
<1>1. CASE NotifyAll
  BY <1>1 DEF NotifyAll
<1>2. CASE NotifyOne(worker)
  BY <1>2 DEF NotifyOne
<1>3. ASSUME NEW w \in Workers, worker[w] = "notify", NotifyOne([worker EXCEPT ![w] = "run"])
      PROVE  WorkersOK' /\ \A v \in Workers : Stands(v)
  BY <1>3 DEF NotifyOne
<1>4. CASE UNCHANGED workers
  BY <1>4 DEF workers
<1> QED BY <1>1, <1>2, <1>3, <1>4 DEF Notifies

SameNumbers ==
  /\ WorkersOK'
  /\ Started' = Started /\ Deciding' = Deciding /\ Departing' = Departing
  /\ Exiting' = Exiting /\ Executing' = Executing /\ Serving' = Serving

\* No set of places that is counted tells these apart.
LEMMA StandingNumbers ==
  ASSUME PoolTypeOK, Notifies \/ UNCHANGED workers
  PROVE  SameNumbers
<1>1. WorkersOK' /\ \A w \in Workers : Stands(w)
  BY NotifyingStands
<1>2. ASSUME NEW places,
             "asleep" \in places <=> "test" \in places, "notify" \in places <=> "run" \in places
      PROVE  Number(places)' = Number(places)
  <2>1. In(places)' = In(places)
    BY <1>1, <1>2 DEF Stands, In
  <2> QED BY <2>1 DEF Number
<1>3. Started' = Started /\ Deciding' = Deciding
  BY <1>2 DEF Started, AnyThread, Deciding, Undecided, WorkerPlaces
<1>4. Departing' = Departing /\ Exiting' = Exiting
  BY <1>2 DEF Departing, Exiting
<1>5. Executing' = Executing /\ Serving' = Serving
  BY <1>2 DEF Executing, Busy, Serving, Attentive
<1> QED BY <1>1, <1>3, <1>4, <1>5 DEF SameNumbers

\* Nor does any such step change who remains, who leaves and what has been loaded.
LEMMA StandingKeepers ==
  ASSUME PoolTypeOK, Notifies \/ UNCHANGED workers, count' = count
  PROVE  /\ Sure' = Sure /\ Leavers(count)' = Leavers(count) /\ Stale(count)' = Stale(count)
         /\ Fresh => Fresh'
<1>1. \A w \in Workers : Stands(w)
  BY NotifyingStands
<1>2. Present' = Present /\ Leavers(count)' = Leavers(count) /\ Stale(count)' = Stale(count)
  BY <1>1 DEF Stands, Present, Leavers, Stale
<1>3. Fresh => Fresh'
  BY <1>1 DEF Stands, Fresh
<1> QED BY <1>2, <1>3 DEF Sure, Keepers

-----------------------------------------------------------------------------
(* Each step keeps the account.                                            *)

LEMMA InitPoolInv == PoolInit => PoolInv
<1> SUFFICES ASSUME PoolInit PROVE PoolInv
  OBVIOUS
<1>1. PoolTypeOK /\ owner = <<"compare", count>>
  <2>1. PICK n \in Counts : count = n /\ owner = <<"compare", n>>
    BY DEF PoolInit
  <2>2. count \in Nat /\ owner = <<"compare", count>>
    BY <2>1, ThreadPoolAssumption
  <2>3. WorkersOK
    BY DEF PoolInit, WorkersOK, WorkerPlaces
  <2>4. queued \in Nat /\ done \in Nat /\ added \in Nat /\ sets \in Nat
    BY DEF PoolInit
  <2>5. stop \in BOOLEAN /\ misled \in BOOLEAN
    BY ZenonT(20) DEF PoolInit
  <2> QED BY <2>2, <2>3, <2>4, <2>5 DEF PoolTypeOK, OwnerOK
<1>2. /\ Started = 0 /\ Deciding = 0 /\ Departing = 0 /\ Exiting = 0 /\ Executing = 0
      /\ Leavers(count) = {} /\ Stale(count) = {} /\ Fresh
  <2>1. \A w \in Workers : worker[w] = "none"
    BY DEF PoolInit
  <2>2. Leavers(count) = {} /\ Stale(count) = {} /\ Fresh
    BY <2>1 DEF Leavers, Stale, Fresh
  <2> QED BY <2>1, <2>2, NobodyThere DEF Started, AnyThread, Deciding, Undecided, Departing,
                                         Exiting, Executing, Busy
<1>3. count \in Nat
  BY <1>1 DEF PoolTypeOK
<1> QED BY <1>1, <1>2, <1>3
        DEF PoolInit, PoolInv, Accounts, OwnerAt, Phases, Kept, Unresized, Unattended, Served, Growing

\* Where a worker is while nothing about it is decided.
Quiet == WorkerPlaces \ {"none", "counted", "taken", "left", "stay", "exit"}

\* A worker that goes between such places, or to its exit: its tasks are accounted for,
\* and it does not take the last attention away.
QuietStep(w, from, to) ==
  /\ Moves(w, from, to) /\ UNCHANGED <<stop, threads, owner>>
  /\ to = "exit" => stop
  /\ to \in {"innerCount", "testCount"} => seen'[w] = count
  /\ to \in {"innerLiving", "testLiving"} => seen'[w] = living
  /\ queued' \in Nat /\ done' \in Nat /\ added' \in Nat
  /\ added' = done' + queued' + (Executing - One(from, Busy) + One(to, Busy))
  /\ Unattended /\ queued' > 0 => Serving - One(from, Attentive) + One(to, Attentive) > 0

LEMMA QuietMove ==
  ASSUME PoolInv, NEW w \in Workers, NEW from \in Quiet, NEW to \in Quiet \cup {"exit"},
         QuietStep(w, from, to)
  PROVE  PoolInv'
<1> USE DEF QuietStep, Unattended
<1>0. /\ PoolTypeOK /\ Accounts /\ Phases /\ Kept /\ Unresized
      /\ count' = count /\ living' = living /\ pseudo' = pseudo /\ sets' = sets
      /\ misled' = misled /\ stop' = stop /\ owner' = owner
  BY DEF PoolInv, threads, resizes
<1>1. /\ from \in AnyThread /\ to \in AnyThread /\ from \in Undecided /\ to \in Undecided
      /\ from \notin {"left", "exit"} /\ to # "left" /\ to \in WorkerPlaces
      /\ from \notin {"counted", "taken"} /\ to \notin {"counted", "taken"}
  BY DEF Quiet, AnyThread, Undecided, WorkerPlaces
<1>2. /\ Started \in Nat /\ Deciding \in Nat /\ Departing \in Nat /\ Exiting \in Nat /\ Sure \in Nat
  BY <1>0, NumberFacts
<1>3. /\ WorkersOK'
      /\ Started' = Started /\ Deciding' = Deciding /\ Departing' = Departing
      /\ Exiting' = Exiting + One(to, {"exit"})
      /\ Executing' = Executing - One(from, Busy) + One(to, Busy)
      /\ Serving' = Serving - One(from, Attentive) + One(to, Attentive)
  BY <1>0, <1>1, <1>2, MoveNumbers DEF One
<1>4. Sure' = Sure /\ (Leavers(count) = {} => Leavers(count)' = {})
      /\ (Stale(count) = {} => Stale(count)' = {})
  <2>1. worker[w] = from /\ worker'[w] = to
    BY <1>0 DEF Moves, PoolTypeOK, WorkersOK
  <2>2. Keeps(w) /\ Keeps(w)' /\ ~ Leaves(w)'
    BY <1>1, <2>1 DEF Keeps, Leaves, AnyThread
  <2>3. Sure' = Sure - 1 + 1
    BY <1>0, <2>2, MoveKeepers DEF One
  <2> QED BY <1>0, <1>1, <1>2, <2>2, <2>3, MoveKeepers
<1>5. PoolTypeOK'
  BY <1>0, <1>3 DEF PoolTypeOK, OwnerOK
<1>6. Accounts'
  BY <1>0, <1>3 DEF Accounts, OwnerAt
<1>7. Phases'
  BY <1>0, <1>2, <1>3 DEF Phases, OwnerAt, One
<1>8. Kept'
  BY <1>0, <1>4 DEF Kept, OwnerAt
<1>9. Unresized'
  <2>1. sets = 0 => Fresh'
    BY <1>0, <1>1, MoveFresh DEF Unresized
  <2> QED BY <1>0, <1>3, <2>1 DEF Unresized, OwnerAt
<1>10. Served'
  BY <1>0, <1>3 DEF Served, OwnerAt
<1> QED BY <1>5, <1>6, <1>7, <1>8, <1>9, <1>10 DEF PoolInv

\* A worker that looks for tasks, runs them, tests and sleeps.
LEMMA WorkerKeepsPoolInv ==
  ASSUME PoolInv, NEW w \in Workers,
         \/ Outer(w) \/ LoadInner(w) \/ Inner(w) \/ Receive(w) \/ Finish(w) \/ AddFromTask(w)
         \/ Test(w) \/ TestStop(w) \/ LoadSizes(w) \/ TestSizes(w) \/ Sleep(w)
  PROVE  PoolInv'
<1> SUFFICES \E from \in Quiet, to \in Quiet \cup {"exit"} : QuietStep(w, from, to)
  BY QuietMove
<1>0. /\ PoolTypeOK /\ Accounts /\ Phases /\ Unresized /\ Served
      /\ queued \in Nat /\ done \in Nat /\ added \in Nat /\ count \in Nat
      /\ worker \in [Workers -> WorkerPlaces] /\ seen \in [Workers -> Nat]
  BY DEF PoolInv, PoolTypeOK, WorkersOK
<1>n. /\ Started \in Nat /\ Executing \in Nat /\ Serving \in Nat /\ living \in Nat
      /\ added = done + queued + Executing
  BY <1>0, NumberFacts DEF Accounts
<1>s. Unattended /\ queued > 0 => Serving > 0
  BY <1>0 DEF Served
<1> USE DEF Quiet, WorkerPlaces
<1>1. CASE Outer(w)
  <2>1. CASE Go(w, "outer", "inner")
    <3>m. Moves(w, "outer", "inner")
      BY <1>0, <1>n, <1>1, <2>1, GoMoves DEF Outer
    <3>q. QuietStep(w, "outer", "inner")
      BY <1>0, <1>n, <1>s, <1>1, <2>1, <3>m DEF QuietStep, One, Busy, Attentive, Outer, tasks
    <3> QED BY <3>q
  <2>2. CASE stop /\ Go(w, "outer", "exit")
    <3>m. Moves(w, "outer", "exit")
      BY <1>0, <1>n, <1>1, <2>2, GoMoves DEF Outer
    <3>q. QuietStep(w, "outer", "exit")
      BY <1>0, <1>n, <1>s, <1>1, <2>2, <3>m DEF QuietStep, One, Busy, Attentive, Outer, tasks
    <3> QED BY <3>q
  <2> QED BY <1>1, <2>1, <2>2 DEF Outer
<1>2. CASE LoadInner(w)
  <2>1. CASE Load(w, "inner", "innerCount", count)
    <3>m. Moves(w, "inner", "innerCount") /\ seen'[w] = count
      BY <1>0, <1>n, <1>2, <2>1, LoadMoves DEF LoadInner
    <3>q. QuietStep(w, "inner", "innerCount")
      BY <1>0, <1>n, <1>s, <1>2, <2>1, <3>m DEF QuietStep, One, Busy, Attentive, LoadInner, tasks
    <3> QED BY <3>q
  <2>2. CASE Load(w, "inner", "innerLiving", living)
    <3>m. Moves(w, "inner", "innerLiving") /\ seen'[w] = living
      BY <1>0, <1>n, <1>2, <2>2, LoadMoves DEF LoadInner
    <3>q. QuietStep(w, "inner", "innerLiving")
      BY <1>0, <1>n, <1>s, <1>2, <2>2, <3>m DEF QuietStep, One, Busy, Attentive, LoadInner, tasks
    <3> QED BY <3>q
  <2> QED BY <1>2, <2>1, <2>2 DEF LoadInner, LoadEither
<1>3. CASE Inner(w)
  <2>1. worker[w] \in {"innerCount", "innerLiving"}
    BY <1>3 DEF Inner
  <2>2. CASE TooMany(w)
    <3>1. sets # 0
      BY <1>0, <1>n, <2>1, <2>2 DEF TooMany, Unresized, Fresh
    <3>m. Moves(w, worker[w], "leave")
      BY <1>0, <1>3, <2>2, LoadMoves DEF Inner
    <3>q. QuietStep(w, worker[w], "leave")
      BY <1>0, <1>n, <1>3, <2>1, <3>1, <3>m
         DEF QuietStep, One, Busy, Attentive, Unattended, Inner, tasks
    <3> QED BY <2>1, <3>q
  <2>3. CASE ~ TooMany(w)
    <3>m. Moves(w, worker[w], "receive")
      BY <1>0, <1>3, <2>3, LoadMoves DEF Inner
    <3>q. QuietStep(w, worker[w], "receive")
      BY <1>0, <1>n, <1>s, <1>3, <2>1, <3>m DEF QuietStep, One, Busy, Attentive, Inner, tasks
    <3> QED BY <2>1, <3>q
  <2> QED BY <2>2, <2>3
<1>4. CASE Receive(w)
  <2>1. CASE queued > 0 /\ queued' = queued - 1 /\ Go(w, "receive", "run")
    <3>m. Moves(w, "receive", "run")
      BY <1>0, <1>n, <1>4, <2>1, GoMoves DEF Receive
    <3>q. QuietStep(w, "receive", "run")
      BY <1>0, <1>n, <1>s, <1>4, <2>1, <3>m DEF QuietStep, One, Busy, Attentive, Receive
    <3> QED BY <3>q
  <2>2. CASE queued = 0 /\ UNCHANGED queued /\ Go(w, "receive", "leave")
    <3>m. Moves(w, "receive", "leave")
      BY <1>0, <1>n, <1>4, <2>2, GoMoves DEF Receive
    <3>q. QuietStep(w, "receive", "leave")
      BY <1>0, <1>n, <1>4, <2>2, <3>m DEF QuietStep, One, Busy, Attentive, Receive
    <3> QED BY <3>q
  <2> QED BY <1>4, <2>1, <2>2 DEF Receive
<1>5. CASE Finish(w)
  <2>m. Moves(w, "run", "inner")
    BY <1>0, <1>n, <1>5, GoMoves DEF Finish
  <2>q. QuietStep(w, "run", "inner")
    BY <1>0, <1>n, <1>s, <1>5, <2>m DEF QuietStep, One, Busy, Attentive, Finish
  <2> QED BY <2>q
<1>6. CASE AddFromTask(w)
  <2>s. Serving > 0
    BY <1>0, <1>n, <1>6, NobodyThere DEF Serving, Attentive, Go, AddFromTask
  <2>m. Moves(w, "run", "notify")
    BY <1>0, <1>n, <1>6, GoMoves DEF AddFromTask
  <2>q. QuietStep(w, "run", "notify")
    BY <1>0, <1>n, <1>6, <2>s, <2>m DEF QuietStep, One, Busy, Attentive, AddFromTask
  <2> QED BY <2>s, <2>q
<1>7. CASE Test(w)
  <2>1. PICK to \in {"outer", "testStop"} : Go(w, "test", to)
    BY <1>7 DEF Test
  <2>m. Moves(w, "test", to)
    BY <1>0, <1>n, <1>7, <2>1, GoMoves DEF Test
  <2>q. QuietStep(w, "test", to)
    BY <1>0, <1>n, <1>s, <1>7, <2>1, <2>m DEF QuietStep, One, Busy, Attentive, Test, tasks
  <2> QED BY <2>q
<1>8. CASE TestStop(w)
  <2>1. PICK to \in {"outer", "testSizes"} : Go(w, "testStop", to)
    BY <1>8 DEF TestStop
  <2>m. Moves(w, "testStop", to)
    BY <1>0, <1>n, <1>8, <2>1, GoMoves DEF TestStop
  <2>q. QuietStep(w, "testStop", to)
    BY <1>0, <1>n, <1>s, <1>8, <2>1, <2>m DEF QuietStep, One, Busy, Attentive, TestStop, tasks
  <2> QED BY <2>q
<1>9. CASE LoadSizes(w)
  <2>1. CASE Load(w, "testSizes", "testCount", count)
    <3>m. Moves(w, "testSizes", "testCount") /\ seen'[w] = count
      BY <1>0, <1>n, <1>9, <2>1, LoadMoves DEF LoadSizes
    <3>q. QuietStep(w, "testSizes", "testCount")
      BY <1>0, <1>n, <1>s, <1>9, <2>1, <3>m DEF QuietStep, One, Busy, Attentive, LoadSizes, tasks
    <3> QED BY <3>q
  <2>2. CASE Load(w, "testSizes", "testLiving", living)
    <3>m. Moves(w, "testSizes", "testLiving") /\ seen'[w] = living
      BY <1>0, <1>n, <1>9, <2>2, LoadMoves DEF LoadSizes
    <3>q. QuietStep(w, "testSizes", "testLiving")
      BY <1>0, <1>n, <1>s, <1>9, <2>2, <3>m DEF QuietStep, One, Busy, Attentive, LoadSizes, tasks
    <3> QED BY <3>q
  <2> QED BY <1>9, <2>1, <2>2 DEF LoadSizes, LoadEither
<1>10. CASE TestSizes(w)
  <2>1. PICK to \in {"outer", "sleep"} : Load(w, worker[w], to, 0)
    BY <1>10 DEF TestSizes
  <2>2. worker[w] \in {"testCount", "testLiving"}
    BY <1>10 DEF TestSizes
  <2>m. Moves(w, worker[w], to)
    BY <1>0, <1>n, <1>10, <2>1, LoadMoves DEF TestSizes
  <2>q. QuietStep(w, worker[w], to)
    BY <1>0, <1>n, <1>s, <1>10, <2>1, <2>2, <2>m
       DEF QuietStep, One, Busy, Attentive, TestSizes, tasks
  <2> QED BY <2>2, <2>q
<1>11. CASE Sleep(w)
  <2>m. Moves(w, "sleep", "asleep")
    BY <1>0, <1>n, <1>11, GoMoves DEF Sleep
  <2>q. QuietStep(w, "sleep", "asleep")
    BY <1>0, <1>n, <1>s, <1>11, <2>m DEF QuietStep, One, Busy, Attentive, Sleep, tasks
  <2> QED BY <2>q
<1> QED BY <1>1, <1>2, <1>3, <1>4, <1>5, <1>6, <1>7, <1>8, <1>9, <1>10, <1>11

NoNewLeaver == Leavers(count) = {} => Leavers(count)' = {}
NoNewStale == Stale(count) = {} => Stale(count)' = {}

\* A worker that decides whether it leaves: nobody leaves while that would be one too few.
LEMMA DecisionKeepsPoolInv ==
  ASSUME PoolInv, NEW w \in Workers,
         \/ LoadCount(w) \/ Leave(w) \/ TakeOff(w) \/ LeaveTaken(w)
         \/ Left(w) \/ Stay(w) \/ Exit(w)
  PROVE  PoolInv'
<1> USE DEF One, AnyThread, Undecided, Busy, Attentive, WorkerPlaces
<1>0. /\ PoolTypeOK /\ Accounts /\ Phases /\ Kept /\ Unresized /\ Served
      /\ queued \in Nat /\ done \in Nat /\ added \in Nat /\ count \in Nat
      /\ worker \in [Workers -> WorkerPlaces] /\ seen \in [Workers -> Nat]
      /\ (owner[1] \in Growing => owner[2] \in Nat \ {0})
  BY DEF PoolInv, PoolTypeOK, WorkersOK, OwnerOK, Growing, RestPlaces
<1>n. /\ Started \in Nat /\ Deciding \in Nat /\ Departing \in Nat /\ Sure \in Nat
      /\ Exiting \in Nat /\ Executing \in Nat /\ Serving \in Nat
      /\ Deciding <= Sure /\ Sure <= Started /\ living \in Nat /\ pseudo \in Nat
      /\ pseudo <= Deciding + 1 /\ (owner[1] \notin Growing => pseudo = Deciding)
  BY <1>0, NumberFacts DEF Accounts, Growing, OwnerAt
<1>k. sets = 0 => pseudo <= count
  BY <1>0, <1>n DEF Unresized, Accounts, Growing, OwnerAt
<1>1. CASE LoadCount(w)
  <2>m. Moves(w, "leave", "counted") /\ seen'[w] = count
    BY <1>0, <1>n, <1>1, LoadMoves DEF LoadCount
  <2>p. worker[w] = "leave" /\ worker'[w] = "counted" /\ count' = count
    BY <1>0, <1>1, <2>m DEF Moves, LoadCount, threads
  <2>n. /\ WorkersOK'
      /\ Started' = Started /\ Deciding' = Deciding /\ Departing' = Departing
      /\ Exiting' = Exiting /\ Executing' = Executing /\ Serving' = Serving
    BY <1>0, <1>n, <2>m, MoveNumbers
  <2>k. Sure' = Sure /\ NoNewLeaver /\ NoNewStale
    BY <1>0, <1>n, <1>1, <2>m, <2>p, MoveKeepers DEF Keeps, Leaves, NoNewLeaver, NoNewStale
  <2>f. sets = 0 => Fresh'
    BY <1>0, <1>n, <1>k, <2>m, <2>p, MoveFresh DEF Unresized, Fresh
  <2>1. PoolTypeOK'
    BY <1>0, <1>n, <1>1, <2>n, <2>p, <2>k, <2>f
       DEF PoolTypeOK, OwnerOK, LoadCount, tasks, threads, resizes
  <2>2. Accounts'
    BY <1>0, <1>n, <1>k, <1>1, <2>n, <2>p, <2>k, <2>f
       DEF Accounts, OwnerAt, Growing, LoadCount, tasks, threads, resizes
  <2>3. Phases'
    BY <1>0, <1>n, <1>k, <1>1, <2>n, <2>p, <2>k, <2>f
       DEF Phases, OwnerAt, Growing, LoadCount, tasks, threads, resizes
  <2>4. Kept'
    BY <1>0, <1>n, <1>k, <1>1, <2>n, <2>p, <2>k, <2>f
       DEF Accounts, Phases, Kept, NoNewLeaver, NoNewStale,
           OwnerAt, Growing, LoadCount, tasks, threads, resizes
  <2>5. Unresized'
    BY <1>0, <1>n, <1>k, <1>1, <2>n, <2>p, <2>k, <2>f
       DEF Accounts, Phases, Unresized, OwnerAt, Growing, LoadCount, tasks, threads, resizes
  <2>6. Served'
    BY <1>0, <1>n, <1>k, <1>1, <2>n, <2>p, <2>k, <2>f
       DEF Unattended, Served, OwnerAt, Growing, LoadCount, tasks, threads, resizes
  <2> QED BY <2>1, <2>2, <2>3, <2>4, <2>5, <2>6 DEF PoolInv
<1>2. CASE Leave(w)
  <2>1. CASE seen[w] < pseudo
    <3>m. Moves(w, "counted", "left")
      BY <1>0, <1>n, <1>2, <2>1, LoadMoves DEF Leave
    <3>p. worker[w] = "counted" /\ worker'[w] = "left" /\ count' = count
      BY <1>0, <1>2, <2>1, <3>m DEF Moves, Leave, threads
    <3>n. /\ WorkersOK'
        /\ Started' = Started /\ Deciding' = Deciding - 1 /\ Departing' = Departing + 1
        /\ Exiting' = Exiting /\ Executing' = Executing /\ Serving' = Serving
      BY <1>0, <1>n, <3>m, MoveNumbers
    <3>s. (Stale(count) = {} => count < pseudo) /\ sets # 0
      BY <1>0, <1>n, <1>k, <2>1, <3>p DEF Stale, Unresized, Fresh
    <3>k. Sure' = Sure - 1 /\ NoNewStale
      BY <1>0, <1>n, <1>2, <3>m, <3>p, MoveKeepers DEF Keeps, Leaves, NoNewLeaver, NoNewStale
    <3>1. PoolTypeOK'
      BY <1>0, <1>n, <1>2, <2>1, <3>n, <3>p, <3>s, <3>k
         DEF PoolTypeOK, OwnerOK, Leave, tasks, threads, resizes
    <3>2. Accounts'
      BY <1>0, <1>n, <1>k, <1>2, <2>1, <3>n, <3>p, <3>s, <3>k
         DEF Accounts, OwnerAt, Growing, Leave, tasks, threads, resizes
    <3>3. Phases'
      BY <1>0, <1>n, <1>k, <1>2, <2>1, <3>n, <3>p, <3>s, <3>k
         DEF Phases, OwnerAt, Growing, Leave, tasks, threads, resizes
    <3>4. Kept'
      BY <1>0, <1>n, <1>k, <1>2, <2>1, <3>n, <3>p, <3>s, <3>k
         DEF Accounts, Phases, Kept, NoNewLeaver, NoNewStale,
             OwnerAt, Growing, Leave, tasks, threads, resizes
    <3>5. Unresized'
      BY <1>0, <1>n, <1>k, <1>2, <2>1, <3>n, <3>p, <3>s, <3>k
         DEF Accounts, Phases, Unresized, OwnerAt, Growing, Leave, tasks, threads, resizes
    <3>6. Served'
      BY <1>0, <1>n, <1>k, <1>2, <2>1, <3>n, <3>p, <3>s, <3>k
         DEF Unattended, Served, OwnerAt, Growing, Leave, tasks, threads, resizes
    <3> QED BY <3>1, <3>2, <3>3, <3>4, <3>5, <3>6 DEF PoolInv
  <2>2. CASE ~ (seen[w] < pseudo)
    <3>m. Moves(w, "counted", "stay")
      BY <1>0, <1>n, <1>2, <2>2, LoadMoves DEF Leave
    <3>p. worker[w] = "counted" /\ worker'[w] = "stay" /\ count' = count
      BY <1>0, <1>2, <2>2, <3>m DEF Moves, Leave, threads
    <3>n. /\ WorkersOK'
        /\ Started' = Started /\ Deciding' = Deciding - 1 /\ Departing' = Departing
        /\ Exiting' = Exiting /\ Executing' = Executing /\ Serving' = Serving
      BY <1>0, <1>n, <3>m, MoveNumbers
    <3>k. Sure' = Sure /\ NoNewLeaver /\ NoNewStale
      BY <1>0, <1>n, <1>2, <3>m, <3>p, MoveKeepers DEF Keeps, Leaves, NoNewLeaver, NoNewStale
    <3>f. sets = 0 => Fresh'
      BY <1>0, <1>n, <1>k, <3>m, <3>p, MoveFresh DEF Unresized, Fresh
    <3>1. PoolTypeOK'
      BY <1>0, <1>n, <1>2, <2>2, <3>n, <3>p, <3>k, <3>f
         DEF PoolTypeOK, OwnerOK, Leave, tasks, threads, resizes
    <3>2. Accounts'
      BY <1>0, <1>n, <1>k, <1>2, <2>2, <3>n, <3>p, <3>k, <3>f
         DEF Accounts, OwnerAt, Growing, Leave, tasks, threads, resizes
    <3>3. Phases'
      BY <1>0, <1>n, <1>k, <1>2, <2>2, <3>n, <3>p, <3>k, <3>f
         DEF Phases, OwnerAt, Growing, Leave, tasks, threads, resizes
    <3>4. Kept'
      BY <1>0, <1>n, <1>k, <1>2, <2>2, <3>n, <3>p, <3>k, <3>f
         DEF Accounts, Phases, Kept, NoNewLeaver, NoNewStale,
             OwnerAt, Growing, Leave, tasks, threads, resizes
    <3>5. Unresized'
      BY <1>0, <1>n, <1>k, <1>2, <2>2, <3>n, <3>p, <3>k, <3>f
         DEF Accounts, Phases, Unresized, OwnerAt, Growing, Leave, tasks, threads, resizes
    <3>6. Served'
      BY <1>0, <1>n, <1>k, <1>2, <2>2, <3>n, <3>p, <3>k, <3>f
         DEF Unattended, Served, OwnerAt, Growing, Leave, tasks, threads, resizes
    <3> QED BY <3>1, <3>2, <3>3, <3>4, <3>5, <3>6 DEF PoolInv
  <2> QED BY <2>1, <2>2
<1>3. CASE TakeOff(w)
  <2>m. Moves(w, "leave", "taken") /\ seen'[w] = pseudo
    BY <1>0, <1>n, <1>3, LoadMoves DEF TakeOff
  <2>p. worker[w] = "leave" /\ worker'[w] = "taken" /\ count' = count
    BY <1>0, <1>3, <2>m DEF Moves, TakeOff, threads
  <2>n. /\ WorkersOK'
      /\ Started' = Started /\ Deciding' = Deciding - 1 /\ Departing' = Departing
      /\ Exiting' = Exiting /\ Executing' = Executing /\ Serving' = Serving
    BY <1>0, <1>n, <2>m, MoveNumbers
  <2>k. /\ NoNewStale
        /\ count < pseudo => Sure' = Sure - 1
        /\ pseudo <= count => Sure' = Sure /\ NoNewLeaver
    <3>1. CASE count < pseudo
      BY <1>0, <1>n, <2>m, <2>p, <3>1, MoveKeepers DEF Keeps, Leaves, NoNewLeaver, NoNewStale
    <3>2. CASE pseudo <= count
      BY <1>0, <1>n, <2>m, <2>p, <3>2, MoveKeepers DEF Keeps, Leaves, NoNewLeaver, NoNewStale
    <3> QED BY <1>0, <1>n, <3>1, <3>2
  <2>f. sets = 0 => Fresh'
    BY <1>0, <1>n, <1>k, <2>m, <2>p, MoveFresh DEF Unresized, Fresh
  <2>1. PoolTypeOK'
    BY <1>0, <1>n, <1>3, <2>n, <2>p, <2>k, <2>f
       DEF PoolTypeOK, OwnerOK, TakeOff, tasks, threads, resizes
  <2>2. Accounts'
    BY <1>0, <1>n, <1>k, <1>3, <2>n, <2>p, <2>k, <2>f
       DEF Accounts, OwnerAt, Growing, TakeOff, tasks, threads, resizes
  <2>3. Phases'
    BY <1>0, <1>n, <1>k, <1>3, <2>n, <2>p, <2>k, <2>f
       DEF Phases, OwnerAt, Growing, TakeOff, tasks, threads, resizes
  <2>4. Kept'
    BY <1>0, <1>n, <1>k, <1>3, <2>n, <2>p, <2>k, <2>f
       DEF Accounts, Phases, Kept, NoNewLeaver, NoNewStale,
           OwnerAt, Growing, TakeOff, tasks, threads, resizes
  <2>5. Unresized'
    BY <1>0, <1>n, <1>k, <1>3, <2>n, <2>p, <2>k, <2>f
       DEF Accounts, Phases, Unresized, OwnerAt, Growing, TakeOff, tasks, threads, resizes
  <2>6. Served'
    BY <1>0, <1>n, <1>k, <1>3, <2>n, <2>p, <2>k, <2>f
       DEF Unattended, Served, OwnerAt, Growing, TakeOff, tasks, threads, resizes
  <2> QED BY <2>1, <2>2, <2>3, <2>4, <2>5, <2>6 DEF PoolInv
<1>4. CASE LeaveTaken(w)
  <2>1. CASE count < seen[w]
    <3>m. Moves(w, "taken", "left")
      BY <1>0, <1>n, <1>4, <2>1, LoadMoves DEF LeaveTaken
    <3>p. worker[w] = "taken" /\ worker'[w] = "left" /\ count' = count
      BY <1>0, <1>4, <2>1, <3>m DEF Moves, LeaveTaken, threads
    <3>n. /\ WorkersOK'
        /\ Started' = Started /\ Deciding' = Deciding /\ Departing' = Departing + 1
        /\ Exiting' = Exiting /\ Executing' = Executing /\ Serving' = Serving
      BY <1>0, <1>n, <3>m, MoveNumbers
    <3>s. Leavers(count) # {} /\ sets # 0
      BY <1>0, <1>n, <2>1, <3>p DEF Leavers, Unresized, Fresh
    <3>k. Sure' = Sure /\ NoNewLeaver /\ NoNewStale
      BY <1>0, <1>n, <2>1, <3>m, <3>p, MoveKeepers DEF Keeps, Leaves, NoNewLeaver, NoNewStale
    <3>1. PoolTypeOK'
      BY <1>0, <1>n, <1>4, <2>1, <3>n, <3>p, <3>s, <3>k
         DEF PoolTypeOK, OwnerOK, LeaveTaken, tasks, threads, resizes
    <3>2. Accounts'
      BY <1>0, <1>n, <1>k, <1>4, <2>1, <3>n, <3>p, <3>s, <3>k
         DEF Accounts, OwnerAt, Growing, LeaveTaken, tasks, threads, resizes
    <3>3. Phases'
      BY <1>0, <1>n, <1>k, <1>4, <2>1, <3>n, <3>p, <3>s, <3>k
         DEF Phases, OwnerAt, Growing, LeaveTaken, tasks, threads, resizes
    <3>4. Kept'
      BY <1>0, <1>n, <1>k, <1>4, <2>1, <3>n, <3>p, <3>s, <3>k
         DEF Accounts, Phases, Kept, NoNewLeaver, NoNewStale,
             OwnerAt, Growing, LeaveTaken, tasks, threads, resizes
    <3>5. Unresized'
      BY <1>0, <1>n, <1>k, <1>4, <2>1, <3>n, <3>p, <3>s, <3>k
         DEF Accounts, Phases, Unresized, OwnerAt, Growing, LeaveTaken, tasks, threads, resizes
    <3>6. Served'
      BY <1>0, <1>n, <1>k, <1>4, <2>1, <3>n, <3>p, <3>s, <3>k
         DEF Unattended, Served, OwnerAt, Growing, LeaveTaken, tasks, threads, resizes
    <3> QED BY <3>1, <3>2, <3>3, <3>4, <3>5, <3>6 DEF PoolInv
  <2>2. CASE ~ (count < seen[w])
    <3>m. Moves(w, "taken", "stay")
      BY <1>0, <1>n, <1>4, <2>2, LoadMoves DEF LeaveTaken
    <3>p. worker[w] = "taken" /\ worker'[w] = "stay" /\ count' = count
      BY <1>0, <1>4, <2>2, <3>m DEF Moves, LeaveTaken, threads
    <3>n. /\ WorkersOK'
        /\ Started' = Started /\ Deciding' = Deciding /\ Departing' = Departing
        /\ Exiting' = Exiting /\ Executing' = Executing /\ Serving' = Serving
      BY <1>0, <1>n, <3>m, MoveNumbers
    <3>k. Sure' = Sure /\ NoNewLeaver /\ NoNewStale
      BY <1>0, <1>n, <2>2, <3>m, <3>p, MoveKeepers DEF Keeps, Leaves, NoNewLeaver, NoNewStale
    <3>f. sets = 0 => Fresh'
      BY <1>0, <1>n, <1>k, <3>m, <3>p, MoveFresh DEF Unresized, Fresh
    <3>1. PoolTypeOK'
      BY <1>0, <1>n, <1>4, <2>2, <3>n, <3>p, <3>k, <3>f
         DEF PoolTypeOK, OwnerOK, LeaveTaken, tasks, threads, resizes
    <3>2. Accounts'
      BY <1>0, <1>n, <1>k, <1>4, <2>2, <3>n, <3>p, <3>k, <3>f
         DEF Accounts, OwnerAt, Growing, LeaveTaken, tasks, threads, resizes
    <3>3. Phases'
      BY <1>0, <1>n, <1>k, <1>4, <2>2, <3>n, <3>p, <3>k, <3>f
         DEF Phases, OwnerAt, Growing, LeaveTaken, tasks, threads, resizes
    <3>4. Kept'
      BY <1>0, <1>n, <1>k, <1>4, <2>2, <3>n, <3>p, <3>k, <3>f
         DEF Accounts, Phases, Kept, NoNewLeaver, NoNewStale,
             OwnerAt, Growing, LeaveTaken, tasks, threads, resizes
    <3>5. Unresized'
      BY <1>0, <1>n, <1>k, <1>4, <2>2, <3>n, <3>p, <3>k, <3>f
         DEF Accounts, Phases, Unresized, OwnerAt, Growing, LeaveTaken, tasks, threads, resizes
    <3>6. Served'
      BY <1>0, <1>n, <1>k, <1>4, <2>2, <3>n, <3>p, <3>k, <3>f
         DEF Unattended, Served, OwnerAt, Growing, LeaveTaken, tasks, threads, resizes
    <3> QED BY <3>1, <3>2, <3>3, <3>4, <3>5, <3>6 DEF PoolInv
  <2> QED BY <2>1, <2>2
<1>5. CASE Left(w)
  <2>m. Moves(w, "left", "none")
    BY <1>0, <1>n, <1>5, GoMoves DEF Left
  <2>p. worker[w] = "left" /\ worker'[w] = "none" /\ count' = count
    BY <1>0, <1>5, <2>m DEF Moves, Left, threads
  <2>n. /\ WorkersOK'
      /\ Started' = Started - 1 /\ Deciding' = Deciding /\ Departing' = Departing - 1
      /\ Exiting' = Exiting /\ Executing' = Executing /\ Serving' = Serving
    BY <1>0, <1>n, <2>m, MoveNumbers
  <2>s. Departing > 0 /\ Started > 0 /\ Leavers(count) # {}
    BY <1>n, <2>p, NobodyThere DEF Departing, Started, Leavers
  <2>k. Sure' = Sure /\ NoNewStale
    BY <1>0, <1>n, <2>m, <2>p, MoveKeepers DEF Keeps, Leaves, NoNewLeaver, NoNewStale
  <2>f. sets = 0 => Fresh'
    BY <1>0, <1>n, <1>k, <2>m, <2>p, MoveFresh DEF Unresized, Fresh
  <2>1. PoolTypeOK'
    BY <1>0, <1>n, <1>5, <2>n, <2>p, <2>s, <2>k, <2>f
       DEF PoolTypeOK, OwnerOK, Left, tasks, threads, resizes
  <2>2. Accounts'
    BY <1>0, <1>n, <1>k, <1>5, <2>n, <2>p, <2>s, <2>k, <2>f
       DEF Accounts, OwnerAt, Growing, Left, tasks, threads, resizes
  <2>3. Phases'
    BY <1>0, <1>n, <1>k, <1>5, <2>n, <2>p, <2>s, <2>k, <2>f
       DEF Phases, OwnerAt, Growing, Left, tasks, threads, resizes
  <2>4. Kept'
    BY <1>0, <1>n, <1>k, <1>5, <2>n, <2>p, <2>s, <2>k, <2>f
       DEF Accounts, Phases, Kept, NoNewLeaver, NoNewStale,
           OwnerAt, Growing, Left, tasks, threads, resizes
  <2>5. Unresized'
    BY <1>0, <1>n, <1>k, <1>5, <2>n, <2>p, <2>s, <2>k, <2>f
       DEF Accounts, Phases, Unresized, OwnerAt, Growing, Left, tasks, threads, resizes
  <2>6. Served'
    BY <1>0, <1>n, <1>k, <1>5, <2>n, <2>p, <2>s, <2>k, <2>f
       DEF Unattended, Served, OwnerAt, Growing, Left, tasks, threads, resizes
  <2> QED BY <2>1, <2>2, <2>3, <2>4, <2>5, <2>6 DEF PoolInv
<1>6. CASE Stay(w)
  <2>m. Moves(w, "stay", "test")
    BY <1>0, <1>n, <1>6, GoMoves DEF Stay
  <2>p. worker[w] = "stay" /\ worker'[w] = "test" /\ count' = count
    BY <1>0, <1>6, <2>m DEF Moves, Stay, threads
  <2>n. /\ WorkersOK'
      /\ Started' = Started /\ Deciding' = Deciding + 1 /\ Departing' = Departing
      /\ Exiting' = Exiting /\ Executing' = Executing /\ Serving' = Serving
    BY <1>0, <1>n, <2>m, MoveNumbers
  <2>k. Sure' = Sure /\ NoNewLeaver /\ NoNewStale
    BY <1>0, <1>n, <2>m, <2>p, MoveKeepers DEF Keeps, Leaves, NoNewLeaver, NoNewStale
  <2>f. sets = 0 => Fresh'
    BY <1>0, <1>n, <1>k, <2>m, <2>p, MoveFresh DEF Unresized, Fresh
  <2>1. PoolTypeOK'
    BY <1>0, <1>n, <1>6, <2>n, <2>p, <2>k, <2>f
       DEF PoolTypeOK, OwnerOK, Stay, tasks, threads, resizes
  <2>2. Accounts'
    BY <1>0, <1>n, <1>k, <1>6, <2>n, <2>p, <2>k, <2>f
       DEF Accounts, OwnerAt, Growing, Stay, tasks, threads, resizes
  <2>3. Phases'
    BY <1>0, <1>n, <1>k, <1>6, <2>n, <2>p, <2>k, <2>f
       DEF Phases, OwnerAt, Growing, Stay, tasks, threads, resizes
  <2>4. Kept'
    BY <1>0, <1>n, <1>k, <1>6, <2>n, <2>p, <2>k, <2>f
       DEF Accounts, Phases, Kept, NoNewLeaver, NoNewStale,
           OwnerAt, Growing, Stay, tasks, threads, resizes
  <2>5. Unresized'
    BY <1>0, <1>n, <1>k, <1>6, <2>n, <2>p, <2>k, <2>f
       DEF Accounts, Phases, Unresized, OwnerAt, Growing, Stay, tasks, threads, resizes
  <2>6. Served'
    BY <1>0, <1>n, <1>k, <1>6, <2>n, <2>p, <2>k, <2>f
       DEF Unattended, Served, OwnerAt, Growing, Stay, tasks, threads, resizes
  <2> QED BY <2>1, <2>2, <2>3, <2>4, <2>5, <2>6 DEF PoolInv
<1>7. CASE Exit(w)
  <2>m. Moves(w, "exit", "left")
    BY <1>0, <1>n, <1>7, GoMoves DEF Exit
  <2>p. worker[w] = "exit" /\ worker'[w] = "left" /\ count' = count
    BY <1>0, <1>7, <2>m DEF Moves, Exit, threads
  <2>n. /\ WorkersOK'
      /\ Started' = Started /\ Deciding' = Deciding - 1 /\ Departing' = Departing + 1
      /\ Exiting' = Exiting - 1 /\ Executing' = Executing /\ Serving' = Serving
    BY <1>0, <1>n, <2>m, MoveNumbers
  <2>s. Exiting > 0 /\ Departing' \in Nat /\ Started \in Nat
    BY <1>n, <2>n, <2>p, NobodyThere DEF Exiting
  <2>f. sets = 0 => Fresh'
    BY <1>0, <1>n, <1>k, <2>m, <2>p, MoveFresh DEF Unresized, Fresh
  <2>1. PoolTypeOK'
    BY <1>0, <1>n, <1>7, <2>n, <2>p, <2>s, <2>f
       DEF PoolTypeOK, OwnerOK, Exit, tasks, threads, resizes
  <2>2. Accounts'
    BY <1>0, <1>n, <1>k, <1>7, <2>n, <2>p, <2>s, <2>f
       DEF Accounts, OwnerAt, Growing, Exit, tasks, threads, resizes
  <2>3. Phases'
    BY <1>0, <1>n, <1>k, <1>7, <2>n, <2>p, <2>s, <2>f
       DEF Phases, OwnerAt, Growing, Exit, tasks, threads, resizes
  <2>4. Kept'
    BY <1>0, <1>n, <1>k, <1>7, <2>n, <2>p, <2>s, <2>f
       DEF Accounts, Phases, Kept, NoNewLeaver, NoNewStale,
           OwnerAt, Growing, Exit, tasks, threads, resizes
  <2>5. Unresized'
    BY <1>0, <1>n, <1>k, <1>7, <2>n, <2>p, <2>s, <2>f
       DEF Accounts, Phases, Unresized, OwnerAt, Growing, Exit, tasks, threads, resizes
  <2>6. Served'
    BY <1>0, <1>n, <1>k, <1>7, <2>n, <2>p, <2>s, <2>f
       DEF Unattended, Served, OwnerAt, Growing, Exit, tasks, threads, resizes
  <2> QED BY <2>1, <2>2, <2>3, <2>4, <2>5, <2>6 DEF PoolInv
<1> QED BY <1>1, <1>2, <1>3, <1>4, <1>5, <1>6, <1>7

\* The owner, and a worker that notifies: workers stay where they are, but for sleepers.
LEMMA OwnerKeepsPoolInv ==
  ASSUME PoolInv,
         \/ \E w \in Workers : NotifyFromTask(w)
         \/ AddTask \/ Destroy \/ NotifyAdded \/ CompareLiving \/ Spawn
         \/ Shrink \/ AwaitThreads \/ Work \/ Stop \/ Join
         \/ \E n \in Counts : SetThreadsCount(n)
         \/ UNCHANGED poolVars
  PROVE  PoolInv'
<1>0. /\ PoolTypeOK /\ Accounts /\ Phases /\ Kept /\ Unresized /\ Served
      /\ queued \in Nat /\ done \in Nat /\ added \in Nat /\ count \in Nat /\ stop \in BOOLEAN
      /\ sets \in Nat /\ (owner[1] \in Growing => owner[2] \in Nat \ {0})
  BY DEF PoolInv, PoolTypeOK, OwnerOK, Growing, RestPlaces
<1>n. /\ Started \in Nat /\ Deciding \in Nat /\ Departing \in Nat /\ Sure \in Nat
      /\ Exiting \in Nat /\ Executing \in Nat /\ Serving \in Nat
      /\ Sure <= Started /\ Executing <= Serving /\ Serving <= Started
      /\ Leavers(count) = {} => Sure = Started
  BY <1>0, NumberFacts
<1>q. Notifies \/ UNCHANGED workers
  BY DEF NotifyFromTask, AddTask, Destroy, NotifyAdded, CompareLiving, Spawn, Shrink,
         AwaitThreads, Work, Stop, Join, SetThreadsCount, poolVars, Notifies
<1>s. SameNumbers
  BY <1>0, <1>q, StandingNumbers
<1>k. count' = count =>
        /\ Sure' = Sure /\ Leavers(count)' = Leavers(count) /\ Stale(count)' = Stale(count)
        /\ Fresh => Fresh'
  BY <1>0, <1>q, StandingKeepers
<1> USE DEF SameNumbers
<1>1. CASE AddTask
  <2>t. PoolTypeOK'
    BY <1>0, <1>s, <1>1
       DEF PoolTypeOK, OwnerOK, OwnerAt, RestPlaces, Growing, AddTask,
           tasks, threads, resizes
  <2> QED BY <1>0, <1>n, <1>s, <1>k, <1>1, <2>t
          DEF PoolInv, Accounts, Phases, Kept, Unresized, Unattended, Served, OwnerAt, Growing,
              AddTask, tasks, threads, resizes
<1>2. CASE Destroy
  <2>t. PoolTypeOK'
    BY <1>0, <1>s, <1>2
       DEF PoolTypeOK, OwnerOK, OwnerAt, RestPlaces, Growing, Destroy,
           tasks, threads, resizes
  <2> QED BY <1>0, <1>n, <1>s, <1>k, <1>2, <2>t
          DEF PoolInv, Accounts, Phases, Kept, Unresized, Unattended, Served, OwnerAt, Growing,
              Destroy, tasks, threads, resizes
<1>3. CASE NotifyAdded
  <2>t. PoolTypeOK'
    BY <1>0, <1>s, <1>3
       DEF PoolTypeOK, OwnerOK, OwnerAt, RestPlaces, Growing, NotifyAdded,
           tasks, threads, resizes
  <2> QED BY <1>0, <1>n, <1>s, <1>k, <1>3, <2>t
          DEF PoolInv, Accounts, Phases, Kept, Unresized, Unattended, Served, OwnerAt, Growing,
              NotifyAdded, tasks, threads, resizes
<1>4. CASE CompareLiving
  <2>c. OwnerAt("compare") /\ owner[2] = count /\ living \in Nat
    BY <1>0, <1>n, <1>4
       DEF CompareLiving, PoolTypeOK, OwnerOK, OwnerAt, RestPlaces, Growing, Accounts
  <2>1. CASE count > living
    <3>o. owner' = <<"spawn", count - living>> /\ count - living \in Nat \ {0}
      BY <1>0, <1>4, <2>c, <2>1 DEF CompareLiving
    <3>t. PoolTypeOK'
      BY <1>0, <1>s, <1>4, <2>c, <2>1, <3>o
         DEF PoolTypeOK, OwnerOK, OwnerAt, RestPlaces, Growing,
             CompareLiving, tasks, threads, resizes
    <3> QED BY <1>0, <1>n, <1>s, <1>k, <1>4, <2>c, <2>1, <3>o, <3>t
            DEF PoolInv, Accounts, Phases, Kept, Unresized, Unattended, Served, OwnerAt, Growing,
                CompareLiving, tasks, threads, resizes
  <2>2. CASE count < living
    <3>o. owner' = <<"shrink", 0>>
      BY <1>0, <1>4, <2>c, <2>2 DEF CompareLiving
    <3>t. PoolTypeOK'
      BY <1>0, <1>s, <1>4, <2>c, <2>2, <3>o
         DEF PoolTypeOK, OwnerOK, OwnerAt, RestPlaces, Growing,
             CompareLiving, tasks, threads, resizes
    <3> QED BY <1>0, <1>n, <1>s, <1>k, <1>4, <2>c, <2>2, <3>o, <3>t
            DEF PoolInv, Accounts, Phases, Kept, Unresized, Unattended, Served, OwnerAt, Growing,
                CompareLiving, tasks, threads, resizes
  <2>3. CASE count = living
    <3>o. owner' = <<"idle", 0>>
      BY <1>0, <1>4, <2>c, <2>3 DEF CompareLiving
    <3>t. PoolTypeOK'
      BY <1>0, <1>s, <1>4, <2>c, <2>3, <3>o
         DEF PoolTypeOK, OwnerOK, OwnerAt, RestPlaces, Growing,
             CompareLiving, tasks, threads, resizes
    <3> QED BY <1>0, <1>n, <1>s, <1>k, <1>4, <2>c, <2>3, <3>o, <3>t
            DEF PoolInv, Accounts, Phases, Kept, Unresized, Unattended, Served, OwnerAt, Growing,
                CompareLiving, tasks, threads, resizes
  <2> QED BY <1>0, <2>c, <2>1, <2>2, <2>3
<1>5. CASE Spawn
  <2>t. PoolTypeOK'
    BY <1>0, <1>s, <1>5
       DEF PoolTypeOK, OwnerOK, OwnerAt, RestPlaces, Growing, Spawn,
           tasks, threads, resizes
  <2> QED BY <1>0, <1>n, <1>s, <1>k, <1>5, <2>t
          DEF PoolInv, Accounts, Phases, Kept, Unresized, Unattended, Served, OwnerAt, Growing,
              Spawn, tasks, threads, resizes
<1>6. CASE Shrink
  <2>t. PoolTypeOK'
    BY <1>0, <1>s, <1>6
       DEF PoolTypeOK, OwnerOK, OwnerAt, RestPlaces, Growing, Shrink,
           tasks, threads, resizes
  <2> QED BY <1>0, <1>n, <1>s, <1>k, <1>6, <2>t
          DEF PoolInv, Accounts, Phases, Kept, Unresized, Unattended, Served, OwnerAt, Growing,
              Shrink, tasks, threads, resizes
<1>7. CASE AwaitThreads
  <2>t. PoolTypeOK'
    BY <1>0, <1>s, <1>7
       DEF PoolTypeOK, OwnerOK, OwnerAt, RestPlaces, Growing, AwaitThreads,
           tasks, threads, resizes
  <2> QED BY <1>0, <1>n, <1>s, <1>k, <1>7, <2>t
          DEF PoolInv, Accounts, Phases, Kept, Unresized, Unattended, Served, OwnerAt, Growing,
              AwaitThreads, tasks, threads, resizes
<1>8. CASE Work
  <2>t. PoolTypeOK'
    BY <1>0, <1>s, <1>8
       DEF PoolTypeOK, OwnerOK, OwnerAt, RestPlaces, Growing, Work,
           tasks, threads, resizes
  <2> QED BY <1>0, <1>n, <1>s, <1>k, <1>8, <2>t
          DEF PoolInv, Accounts, Phases, Kept, Unresized, Unattended, Served, OwnerAt, Growing,
              Work, tasks, threads, resizes
<1>9. CASE Stop
  <2>t. PoolTypeOK'
    BY <1>0, <1>s, <1>9
       DEF PoolTypeOK, OwnerOK, OwnerAt, RestPlaces, Growing, Stop,
           tasks, threads, resizes
  <2> QED BY <1>0, <1>n, <1>s, <1>k, <1>9, <2>t
          DEF PoolInv, Accounts, Phases, Kept, Unresized, Unattended, Served, OwnerAt, Growing,
              Stop, tasks, threads, resizes
<1>10. CASE Join
  <2>t. PoolTypeOK'
    BY <1>0, <1>s, <1>10
       DEF PoolTypeOK, OwnerOK, OwnerAt, RestPlaces, Growing, Join,
           tasks, threads, resizes
  <2> QED BY <1>0, <1>n, <1>s, <1>k, <1>10, <2>t
          DEF PoolInv, Accounts, Phases, Kept, Unresized, Unattended, Served, OwnerAt, Growing,
              Join, tasks, threads, resizes
<1>11. ASSUME NEW w \in Workers, NotifyFromTask(w) PROVE PoolInv'
  <2>t. PoolTypeOK'
    BY <1>0, <1>s, <1>11
       DEF PoolTypeOK, OwnerOK, OwnerAt, RestPlaces, Growing, NotifyFromTask,
           tasks, threads, resizes
  <2> QED BY <1>0, <1>n, <1>s, <1>k, <1>11, <2>t
          DEF PoolInv, Accounts, Phases, Kept, Unresized, Unattended, Served, OwnerAt, Growing,
              NotifyFromTask, tasks, threads, resizes
<1>12. ASSUME NEW n \in Counts, SetThreadsCount(n) PROVE PoolInv'
  <2>1. /\ n \in Nat /\ owner' = <<"compare", n>> /\ count' = n /\ sets' = sets + 1
        /\ misled' = (misled \/ Misleads(n)) /\ OwnerAt("idle")
        /\ UNCHANGED <<queued, done, added, stop, living, pseudo, worker, seen>>
    BY <1>12, ThreadPoolAssumption DEF SetThreadsCount, tasks, workers
  <2>2. misled' \in BOOLEAN
    BY <2>1
  <2>3. PoolTypeOK'
    BY <1>0, <1>s, <2>1, <2>2 DEF PoolTypeOK, OwnerOK
  <2>4. /\ Stale(count)' = Stale(n) /\ Leavers(count)' = Leavers(n)
        /\ Sure' = Cardinality(Present \ Leavers(n))
    BY <2>1 DEF Stale, Leavers, Sure, Keepers, Present
  <2>5. ~ misled' => Stale(n) = {} /\ (Leavers(n) = {} \/ ~ (Cardinality(Present \ Leavers(n)) < n))
    BY <2>1 DEF Misleads
  <2>6. Sure' \in Nat
    <3>1. IsFiniteSet(Present \ Leavers(n))
      BY ThreadPoolAssumption, FS_Subset DEF Present
    <3> QED BY <2>4, <3>1, FS_CardinalityType
  <2>7. Kept'
    BY <1>0, <2>1, <2>4, <2>5, <2>6 DEF Kept, OwnerAt, Growing
  <2> QED BY <1>0, <1>s, <2>1, <2>3, <2>7
          DEF PoolInv, Accounts, Phases, Unresized, Unattended, Served, OwnerAt
<1>13. CASE UNCHANGED poolVars
  <2>t. PoolTypeOK'
    BY <1>0, <1>s, <1>13
       DEF PoolTypeOK, OwnerOK, OwnerAt, RestPlaces, Growing, poolVars,
           tasks, threads, resizes
  <2> QED BY <1>0, <1>n, <1>s, <1>k, <1>13, <2>t
          DEF PoolInv, Accounts, Phases, Kept, Unresized, Unattended, Served, OwnerAt, Growing,
              poolVars, tasks, threads, resizes
<1> QED BY <1>1, <1>2, <1>3, <1>4, <1>5, <1>6, <1>7, <1>8, <1>9, <1>10, <1>11, <1>12, <1>13

\* A thread that starts.
LEMMA StartKeepsPoolInv ==
  ASSUME PoolInv, Start
  PROVE  PoolInv'
<1> USE DEF One, AnyThread, Undecided, Busy, Attentive, WorkerPlaces
<1>0. /\ PoolTypeOK /\ Accounts /\ Phases /\ Kept /\ Unresized /\ Served
      /\ queued \in Nat /\ done \in Nat /\ added \in Nat /\ count \in Nat /\ stop \in BOOLEAN
      /\ OwnerAt("start") /\ owner[2] \in Nat \ {0}
  BY DEF PoolInv, PoolTypeOK, OwnerOK, Growing, RestPlaces, Start, OwnerAt
<1>n. /\ Started \in Nat /\ Deciding \in Nat /\ Departing \in Nat /\ Sure \in Nat
      /\ Exiting \in Nat /\ Executing \in Nat /\ Serving \in Nat
      /\ Leavers(count) = {} => Sure = Started
  BY <1>0, NumberFacts
<1>1. PICK w \in Workers : Go(w, "none", "outer")
  BY DEF Start
<1>m. Moves(w, "none", "outer") /\ worker[w] = "none" /\ worker'[w] = "outer"
  BY <1>0, <1>1, GoMoves DEF Moves, PoolTypeOK, WorkersOK
<1>2. /\ Started' = Started + 1 /\ Deciding' = Deciding + 1
      /\ Departing' = Departing /\ Exiting' = Exiting
      /\ Executing' = Executing /\ Serving' = Serving /\ WorkersOK'
  BY <1>0, <1>n, <1>m, MoveNumbers
<1>3. /\ UNCHANGED <<queued, done, added, stop, count, pseudo, sets, misled>>
      /\ living' = living + 1
  BY DEF Start, tasks, resizes
<1>k. Sure' = Sure + 1 /\ NoNewLeaver /\ NoNewStale
  BY <1>0, <1>n, <1>m, <1>3, MoveKeepers DEF Keeps, Leaves, NoNewLeaver, NoNewStale
<1>f. sets = 0 => Fresh'
  BY <1>0, <1>m, <1>3, MoveFresh DEF Unresized
<1> USE DEF NoNewLeaver, NoNewStale
<1>4. CASE owner[2] = 1
  <2>1. owner' = <<"idle", 0>>
    BY <1>0, <1>4 DEF Start
  <2>2. PoolTypeOK'
    BY <1>0, <1>2, <1>3, <2>1 DEF PoolTypeOK, OwnerOK, RestPlaces
  <2> QED BY <1>0, <1>n, <1>2, <1>3, <1>k, <1>f, <1>4, <2>1, <2>2
          DEF PoolInv, Accounts, Phases, Kept, Unresized, Unattended, Served, OwnerAt, Growing
<1>5. CASE owner[2] # 1
  <2>1. owner' = <<"spawn", owner[2] - 1>> /\ owner[2] - 1 \in Nat \ {0}
    BY <1>0, <1>5 DEF Start
  <2>2. PoolTypeOK'
    BY <1>0, <1>2, <1>3, <2>1 DEF PoolTypeOK, OwnerOK, Growing
  <2> QED BY <1>0, <1>n, <1>2, <1>3, <1>k, <1>f, <1>5, <2>1, <2>2
          DEF PoolInv, Accounts, Phases, Kept, Unresized, Unattended, Served, OwnerAt, Growing
<1> QED BY <1>0, <1>4, <1>5

\* The invariant holds in every reachable state of a pool.
THEOREM PoolInvariant == PoolSpec => []PoolInv
<1>1. PoolInv /\ [PoolNext]_poolVars => PoolInv'
  BY WorkerKeepsPoolInv, DecisionKeepsPoolInv, OwnerKeepsPoolInv, StartKeepsPoolInv
     DEF PoolNext, WorkerStep, OwnerStep
<1> QED BY <1>1, InitPoolInv, PTL DEF PoolSpec

\* The three counters of a pool are what its threads make them: _living_threads the threads
\* there are, _pseudo_living_threads those that have not been taken off to decide whether
\* they leave, and every task that was added is queued, running or done.
THEOREM PoolAccounts == PoolSpec => [](PoolTypeOK /\ Accounts)
  BY PoolInvariant, PTL DEF PoolInv

\* A pool keeps as many threads as it was asked to keep, unless it was resized while a worker
\* was on its way out by the count before, and is destroyed with every task run, unless it
\* was resized.
THEOREM PoolServesAlways == PoolSpec => []PoolServes
<1>1. PoolInv => PoolServes
  <2> SUFFICES ASSUME PoolInv PROVE PoolServes
    OBVIOUS
  <2>0. /\ PoolTypeOK /\ Accounts /\ Phases /\ Kept /\ Unresized /\ Served
        /\ queued \in Nat /\ done \in Nat /\ count \in Nat
    BY DEF PoolInv, PoolTypeOK
  <2>1. Sure \in Nat /\ Cardinality(Present) \in Nat /\ Sure <= Cardinality(Present)
    <3>1. IsFiniteSet(Present) /\ Keepers \subseteq Present
      BY ThreadPoolAssumption, FS_Subset DEF Present, Keepers
    <3> QED BY <3>1, FS_Subset, FS_CardinalityType DEF Sure
  <2>2. KeepsEnoughThreads
    BY <2>0, <2>1 DEF Kept, KeepsEnoughThreads, Growing, OwnerAt
  <2>3. TasksDoneUnlessResized
    <3> SUFFICES ASSUME OwnerAt("destroyed"), sets = 0 PROVE done = added
      BY DEF TasksDoneUnlessResized
    <3>n. Executing \in Nat /\ Serving \in Nat /\ Executing <= Serving /\ Serving <= Started
      BY <2>0, NumberFacts
    <3> QED BY <2>0, <3>n DEF Phases, Accounts, Unattended, Served
  <2> QED BY <2>2, <2>3 DEF PoolServes
<1> QED BY <1>1, PoolInvariant, PTL
=============================================================================

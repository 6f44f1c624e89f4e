---------------------------- MODULE ThreadStreams ----------------------------
(***************************************************************************)
(* threading::ThreadSafeOStream, ThreadSafeIStream and ThreadSafeIOStream  *)
(* (thread_streams.hpp): a statement `stream << a << b;' or                *)
(* `stream >> a >> b;' locks the mutex with its first operator, which      *)
(* returns a guard; the next operators go to the guard, whose destructor   *)
(* unlocks at the end of the statement, or when an operator throws.        *)
(*                                                                         *)
(* The items of a statement are the statement, their place in it and the   *)
(* operator that wrote or read them.                                       *)
(***************************************************************************)
EXTENDS Naturals, Sequences

CONSTANTS
  StreamUsers, \* threads that share the stream
  NoThread,    \* who holds a mutex that is free
  Classes,     \* of "ostream", "istream", "iostream", those that are looked at
  Statements,  \* how many operators the statements of a thread have, in order
  MaxThrows    \* bound: operators that throw

ASSUME StreamsAssumption == /\ NoThread \notin StreamUsers /\ MaxThrows \in Nat
                            /\ Classes \subseteq {"ostream", "istream", "iostream"}
                            /\ Statements \in [StreamUsers -> Seq(Nat \ {0})]

VARIABLES
  class,   \* the class of the stream
  mutex,   \* the thread that holds _mutex
  guard,   \* of every thread: it has a guard
  place,   \* of every thread: the statement it is in and the operators it has done there
  stream,  \* _os, _is, _ios: the items written or read, in order
  throws
streamVars == <<class, mutex, guard, place, stream, throws>>

StreamsInit ==
  /\ class \in Classes /\ mutex = NoThread /\ guard = [t \in StreamUsers |-> FALSE]
  /\ place = [t \in StreamUsers |-> [statement |-> 1, done |-> 0]]
  /\ stream = <<>> /\ throws = 0

Length(t) == Statements[t][place[t].statement]
IsRunning(t) == place[t].statement <= Len(Statements[t])
\* The next operator: statements on an iostream mix them
Op(t) == CASE class = "ostream" -> "<<"
           [] class = "istream" -> ">>"
           [] class = "iostream" ->
                IF (place[t].statement + place[t].done) % 2 = 1 THEN "<<" ELSE ">>"

Item(t) ==
  [thread |-> t, statement |-> place[t].statement, index |-> place[t].done + 1, op |-> Op(t)]

Put(t) == /\ stream' = Append(stream, Item(t))
          /\ place' = [place EXCEPT ![t].done = @ + 1]
Insert(t) == Op(t) = "<<" /\ Put(t)
Extract(t) == Op(t) = ">>" /\ Put(t)

EndStatement(t) == place' = [place EXCEPT ![t] = [statement |-> @.statement + 1, done |-> 0]]

-----------------------------------------------------------------------------
\* operator<< and operator>> of the stream.  When the operator of the underlying
\* stream throws there is no guard to unlock what was locked.
Begin(t) ==
  /\ IsRunning(t) /\ place[t].done = 0 /\ mutex = NoThread /\ ~guard[t]
  /\ mutex' = t
  /\ \/ Put(t) /\ guard' = [guard EXCEPT ![t] = TRUE] /\ UNCHANGED throws
     \/ /\ throws < MaxThrows
        /\ throws' = throws + 1
        /\ EndStatement(t) /\ UNCHANGED <<stream, guard>>
  /\ UNCHANGED class

LockAndInsert(t) == Op(t) = "<<" /\ Begin(t)
LockAndExtract(t) == Op(t) = ">>" /\ Begin(t)
Lock(t) == LockAndInsert(t) \/ LockAndExtract(t)

\* Seeded bug: the guard is copied by its operator, and the copy unlocks.
OperatorUnlocks(t) ==
  /\ guard[t] /\ place[t].done < Length(t)
  /\ Put(t) /\ mutex' = (IF mutex = t THEN NoThread ELSE mutex)
  /\ UNCHANGED <<class, guard, throws>>

\* operator<< and operator>> of the guard
Operator(t) ==
  /\ guard[t] /\ place[t].done < Length(t)
  /\ Insert(t) \/ Extract(t)
  /\ UNCHANGED <<class, mutex, guard, throws>>

\* The destructor of the guard: after the last operator, or after one that threw
Unlock(t) ==
  /\ guard[t]
  /\ \/ place[t].done = Length(t) /\ UNCHANGED throws
     \/ place[t].done < Length(t) /\ throws < MaxThrows /\ throws' = throws + 1
  /\ mutex' = NoThread /\ guard' = [guard EXCEPT ![t] = FALSE]
  /\ EndStatement(t)
  /\ UNCHANGED <<class, stream>>

StreamsNext == \E t \in StreamUsers : Lock(t) \/ Operator(t) \/ Unlock(t)
StreamsSpec == StreamsInit /\ [][StreamsNext]_streamVars

-----------------------------------------------------------------------------
\* The items of a statement lie side by side in the stream, however the statements of
\* the threads meet and whichever operators throw (thread_streams.hpp:46-85).
StatementsStayWhole ==
  \A i \in 2 .. Len(stream) :
    \/ stream[i].index = 1
    \/ stream[i] = [stream[i - 1] EXCEPT !.index = @ + 1, !.op = stream[i].op]
=============================================================================

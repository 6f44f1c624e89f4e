------------------------------ MODULE Itertools ------------------------------
(***************************************************************************)
(* itertools (itertools/itertools.hpp): pipelines of lazy iterators.  An   *)
(* iterator is a generator and the value it has fetched ahead: making one  *)
(* fetches the first value, next() hands the value out and fetches another *)
(* before it returns, and a transformation is a generator that calls       *)
(* next() on the iterator it was made from, which fetches in its turn.     *)
(*                                                                         *)
(* A pipeline is described by the sequence of its stages, the source first.*)
(* Elements are numbers; Zip makes pairs of them.                          *)
(***************************************************************************)
EXTENDS Integers, Sequences, FiniteSets, SequencesExt

CONSTANTS Sources,   \* the sequences iter() is given
          Stages,    \* the transformations
          MaxStages, \* bound: transformations of a pipeline
          End        \* std::nullopt

ItertoolsAssumption ==
  /\ \A s \in Sources : s \in Seq(Nat)
  /\ MaxStages \in Nat /\ End \notin Nat

VARIABLES pipeline, \* the source and the transformations
          iter,     \* the iterator at its end
          produced  \* what next() has returned, by now
vars == <<pipeline, iter, produced>>

\* the functions given to map() and filter()
Function(x) == x + 1
Predicate(x) == x % 2 = 0

-----------------------------------------------------------------------------
(* Generators.  Each call gives the value, or End, and the new state.      *)

Result(value, gen) == [value |-> value, gen |-> gen]

FromIter(g) == IF g.rest = <<>> THEN Result(End, g)
               ELSE Result(Head(g.rest), [g EXCEPT !.rest = Tail(@)])

RangeGenerator(g) ==
  IF (g.current >= g.end /\ g.step > 0) \/ (g.current <= g.end /\ g.step < 0)
  THEN Result(End, g) ELSE Result(g.current, [g EXCEPT !.current = @ + g.step])

\* A generator without an end
RangeInf(g) == Result(g.current, [g EXCEPT !.current = @ + g.step])

RECURSIVE Generate(_), Filterer(_), Uniquifier(_), Deduplicator(_)

\* operator++: an iterator is [value, gen]
Increment(it) == Generate(it.gen)

\* Iterator's constructor fetches
Begin(gen) == Generate(gen)

\* next(): the value, then a step on unless it was the last
NextOf(it) == [value |-> it.value, it |-> IF it.value = End THEN it ELSE Increment(it)]

Mapper(g) ==
  LET n == NextOf(g.iter) IN
  Result(IF n.value = End THEN End ELSE Function(n.value), [g EXCEPT !.iter = n.it])

Filterer(g) ==
  LET n == NextOf(g.iter)
      after == [g EXCEPT !.iter = n.it] IN
  IF n.value = End \/ Predicate(n.value) THEN Result(n.value, after) ELSE Filterer(after)

Uniquifier(g) ==
  LET n == NextOf(g.iter)
      after == [g EXCEPT !.iter = n.it] IN
  IF n.value = End THEN Result(End, after)
  ELSE IF n.value \notin g.seen THEN Result(n.value, [after EXCEPT !.seen = @ \cup {n.value}])
  ELSE Uniquifier(after)

Deduplicator(g) ==
  LET n == NextOf(g.iter)
      after == [g EXCEPT !.iter = n.it] IN
  IF n.value = End THEN Result(End, after)
  ELSE IF n.value # g.last THEN Result(n.value, [after EXCEPT !.last = n.value])
  ELSE Deduplicator(after)

Firsterer(g) ==
  LET n == NextOf(g.iter) IN
  IF g.remaining = 0 THEN Result(End, g)
  ELSE Result(n.value, [g EXCEPT !.remaining = @ - 1, !.iter = n.it])

\* SkipN<true>: the iterator has been moved on when the generator is made
Skipper(g) == LET n == NextOf(g.iter) IN Result(n.value, [g EXCEPT !.iter = n.it])

Zipper(g) ==
  LET n1 == NextOf(g.iter)
      n2 == NextOf(g.other) IN
  Result(IF n1.value = End \/ n2.value = End THEN End ELSE <<n1.value, n2.value>>,
         [g EXCEPT !.iter = n1.it, !.other = n2.it])

\* Seeded bug: the value that ends the first is not replaced by one of the second.
ChainerGap(g) ==
  LET n == NextOf(IF g.first THEN g.iter ELSE g.other) IN
  IF g.first THEN Result(n.value, [g EXCEPT !.iter = n.it, !.first = n.value # End])
  ELSE Result(n.value, [g EXCEPT !.other = n.it])

Chainer(g) ==
  LET n1 == NextOf(g.iter)
      n2 == NextOf(g.other) IN
  IF g.first /\ n1.value # End THEN Result(n1.value, [g EXCEPT !.iter = n1.it])
  ELSE Result(n2.value, [g EXCEPT !.first = FALSE, !.other = n2.it])

Generate(g) ==
  CASE g.kind = "iter" -> FromIter(g)
    [] g.kind = "range" -> RangeGenerator(g)
    [] g.kind = "rangeInf" -> RangeInf(g)
    [] g.kind = "map" -> Mapper(g)
    [] g.kind = "filter" -> Filterer(g)
    [] g.kind = "unique" -> Uniquifier(g)
    [] g.kind = "dedup" -> Deduplicator(g)
    [] g.kind = "first" -> Firsterer(g)
    [] g.kind = "skip" -> Skipper(g)
    [] g.kind = "zip" -> Zipper(g)
    [] g.kind = "chain" -> Chainer(g)

-----------------------------------------------------------------------------
(* to<Transformation>(): a generator made from an iterator.                *)

RECURSIVE MovedOn(_, _)
MovedOn(it, n) == IF n = 0 THEN it ELSE MovedOn(Increment(it), n - 1)

Source(s) ==
  Begin(CASE s.kind = "range" -> [kind |-> "range", current |-> 0, end |-> s.end, step |-> s.step]
          [] s.kind = "rangeInf" -> [kind |-> "rangeInf", current |-> 0, step |-> s.step]
          [] s.kind = "iter" -> [kind |-> "iter", rest |-> s.seq])

To(it, s) ==
  Begin(CASE s.kind \in {"map", "filter"} -> [kind |-> s.kind, iter |-> it]
          [] s.kind = "unique" -> [kind |-> "unique", iter |-> it, seen |-> {}]
          [] s.kind = "dedup" -> [kind |-> "dedup", iter |-> it, last |-> End]
          [] s.kind = "first" -> [kind |-> "first", iter |-> it, remaining |-> s.n]
          [] s.kind = "skip" -> [kind |-> "skip", iter |-> MovedOn(it, s.n)]
          [] s.kind = "zip" -> [kind |-> "zip", iter |-> it, other |-> Source(s.other)]
          [] s.kind = "chain" -> [kind |-> "chain", iter |-> it, other |-> Source(s.other), first |-> TRUE])

Made(p) == FoldLeft(To, Source(Head(p)), Tail(p))

-----------------------------------------------------------------------------
(* Terminal transformations.  The first two call next(), Collect gives the *)
(* iterators to a constructor, which compares, dereferences and increments *)
(* them.                                                                   *)

RECURSIVE Count(_), Sum(_), Collect(_)
Count(it) == IF NextOf(it).value = End THEN 0 ELSE 1 + Count(NextOf(it).it)
Sum(it) == IF NextOf(it).value = End THEN 0 ELSE NextOf(it).value + Sum(NextOf(it).it)

\* operator!= with the iterator that end() returns
IsBeforeEnd(it) == it.value # End
Collect(it) == IF IsBeforeEnd(it) THEN <<it.value>> \o Collect(Increment(it)) ELSE <<>>

-----------------------------------------------------------------------------
\* Zip comes last, the functions are not made for pairs; without an end only what stops
\* before it can be run through
Pipelines ==
  {<<s>> \o t : s \in [kind : {"iter"}, seq : Sources]
                        \cup [kind : {"range"}, end : {3}, step : {1, 2}]
                        \cup [kind : {"range"}, end : {-2}, step : {-1}]
                        \cup [kind : {"rangeInf"}, step : {1}],
                t \in {u \in UNION {[1 .. n -> Stages] : n \in 0 .. MaxStages} :
                         \A k \in DOMAIN u : u[k].kind = "zip" => k = Len(u)}}

Ends(p) == p[1].kind # "rangeInf" \/ p[Len(p)].kind \in {"first", "zip"}

Init == /\ pipeline \in {p \in Pipelines : Ends(p)}
        /\ iter = Made(pipeline)
        /\ produced = <<>>

\* ForEach and the users of next()
Step == /\ iter.value # End
        /\ produced' = Append(produced, NextOf(iter).value)
        /\ iter' = NextOf(iter).it
        /\ UNCHANGED pipeline

Next == Step
Spec == Init /\ [][Next]_vars

-----------------------------------------------------------------------------
(* What must hold.                                                         *)

\* What a transformation makes of a whole sequence.
Occurs(s, k) == \E j \in 1 .. k - 1 : s[j] = s[k]
Picked(s, Keep(_)) ==
  LET kept == SelectSeq([k \in DOMAIN s |-> k], Keep) IN [k \in DOMAIN kept |-> s[kept[k]]]
Least(m, n) == IF m < n THEN m ELSE n

\* enough of what has no end for the transformations there are
Prefix == 20

Given(s) ==
  CASE s.kind = "range" -> [k \in 1 .. (IF s.step > 0 THEN (s.end + s.step - 1) \div s.step
                                        ELSE (0 - s.end) \div (0 - s.step)) |-> (k - 1) * s.step]
    [] s.kind = "rangeInf" -> [k \in 1 .. Prefix |-> (k - 1) * s.step]
    [] s.kind = "iter" -> s.seq

Transformed(s, t) ==
  CASE t.kind = "map" -> [k \in DOMAIN s |-> Function(s[k])]
    [] t.kind = "filter" -> SelectSeq(s, Predicate)
    [] t.kind = "unique" -> Picked(s, LAMBDA k : ~ Occurs(s, k))
    [] t.kind = "dedup" -> Picked(s, LAMBDA k : k = 1 \/ s[k] # s[k - 1])
    [] t.kind = "first" -> SubSeq(s, 1, Least(t.n, Len(s)))
    [] t.kind = "skip" -> SubSeq(s, t.n + 1, Len(s))
    [] t.kind = "zip" -> LET o == Given(t.other) IN
                         [k \in 1 .. Least(Len(s), Len(o)) |-> <<s[k], o[k]>>]
    [] t.kind = "chain" -> s \o Given(t.other)

Reference == FoldLeft(Transformed, Given(Head(pipeline)), Tail(pipeline))

\* A pipeline yields what its transformations make of the whole source, in order, and then
\* ends, though each stage keeps a value ahead of the one after it and goes on pulling when
\* a stage has ended; what is left of it is counted, summed and collected the same way
\* (itertools.hpp:147-156, 349-595).
PipelineIsItsReference ==
  LET left == SubSeq(Reference, Len(produced) + 1, Len(Reference))
  IN /\ IsPrefix(produced, Reference)
     /\ iter.value = End <=> left = <<>>
     /\ Count(iter) = Len(left)
     /\ Collect(iter) = left
     /\ Last(pipeline).kind # "zip" => Sum(iter) = FoldLeft(+, 0, left)
=============================================================================

-------------------------- MODULE BufferedFileSaver --------------------------
(***************************************************************************)
(* scorpio_utils::BufferedFileSaver (buffered_file_saver.hpp, .cpp): what  *)
(* is written and sought is noted down, and flush() does it, in a file     *)
(* that it opens for the occasion or that the constructor has opened.      *)
(* flush() may fail at any of its operations; a std::fstream that has      *)
(* failed ignores what it is told until it is cleared or opened anew.      *)
(*                                                                         *)
(* A written string is one element of the file, its number; 0 is a hole.   *)
(***************************************************************************)
EXTENDS Integers, Sequences, SequencesExt

CONSTANTS
  Modes,         \* _file_openmode: "none" truncates, "app" appends, "in" keeps the content
  Offsets,       \* what is given to seekp()
  MaxOperations, \* bound: operations of a saver
  Failures       \* bound: times the file system fails

SaverAssumption == /\ Modes \subseteq {"none", "app", "in"} /\ Offsets \subseteq Int
                   /\ {MaxOperations, Failures} \subseteq Nat

VARIABLES
  mode, preopened, \* _file_openmode, _preopened
  operations,      \* _operations
  file,            \* _file: whether it is there and open, its content, where it stands, fail()
  used,            \* operations so far
  broken,          \* failures so far
  alive,           \* the saver has not been destroyed
  expected         \* history: the content if all that no flush() gave up had been done
vars == <<mode, preopened, operations, file, used, broken, alive, expected>>

Write(n) == [kind |-> "write", value |-> n]
Seek(offset, dir) == [kind |-> "seek", offset |-> offset, dir |-> dir]
Dirs == {"beg", "cur", "end"}

-----------------------------------------------------------------------------
(* std::fstream.                                                           *)

Written(f, value) ==
  LET at == IF mode = "app" THEN Len(f.content) ELSE f.pos
      length == IF at < Len(f.content) THEN Len(f.content) ELSE at + 1
  IN [f EXCEPT !.pos = at + 1,
               !.content = [i \in 1 .. length |-> IF i = at + 1 THEN value
                                                  ELSE IF i <= Len(@) THEN @[i] ELSE 0]]

Sought(f, offset, dir) ==
  LET to == offset + CASE dir = "beg" -> 0 [] dir = "cur" -> f.pos [] dir = "end" -> Len(f.content)
  IN IF to < 0 THEN [f EXCEPT !.fail = TRUE] ELSE [f EXCEPT !.pos = to]

\* A stream that has failed does nothing
Visit(f, op) ==
  IF f.fail THEN f
  ELSE IF op.kind = "write" THEN Written(f, op.value) ELSE Sought(f, op.offset, op.dir)
Done(f, ops) == FoldLeft(Visit, f, ops)

\* open(_filename, out | _file_openmode): only `in' asks for a file that is there
Opened(f, works) ==
  IF works /\ (mode = "in" => f.exists)
  THEN [exists |-> TRUE, open |-> TRUE, content |-> IF mode = "none" THEN <<>> ELSE f.content,
        pos |-> 0, fail |-> FALSE]
  ELSE [f EXCEPT !.open = FALSE, !.fail = TRUE]

-----------------------------------------------------------------------------
\* The file system works, or fails once more
Works(works) == \/ works /\ UNCHANGED broken
                \/ ~works /\ broken < Failures /\ broken' = broken + 1

Absent == [exists |-> FALSE, open |-> FALSE, content |-> <<>>, pos |-> 0, fail |-> FALSE]
Existing == [Absent EXCEPT !.exists = TRUE, !.content = <<0, 0>>]

\* The constructor
Init ==
  /\ mode \in Modes /\ preopened \in BOOLEAN
  /\ \E f \in {Absent, Existing}, works \in BOOLEAN :
       /\ file = IF preopened THEN Opened(f, works) ELSE f
       /\ broken = IF works THEN 0 ELSE 1
       /\ works \/ (preopened /\ Failures > 0)
  /\ operations = <<>> /\ used = 0 /\ alive = TRUE
  /\ expected = file.content

Note(op) ==
  /\ alive /\ used < MaxOperations
  /\ operations' = Append(operations, op) /\ used' = used + 1
  /\ UNCHANGED <<mode, preopened, file, broken, alive, expected>>

Insert == Note(Write(used + 1))
Seekp == \E offset \in Offsets, dir \in Dirs : Note(Seek(offset, dir))

\* What flush() returns, the file it leaves, and the content there was to be: a flush() that
\* returns false has given up what it did not do.
Leaves(result, left, content) ==
  /\ file' = left
  /\ expected' = IF result THEN content ELSE left.content

\* Seeded bug: nobody looks at the file again once it is closed.
EndsUnchecked(left, content) ==
  Leaves(TRUE, IF preopened THEN left ELSE [left EXCEPT !.open = FALSE], content)

\* What flush() does after the operations: it asks the stream only when it closes it
Ends(left, content) ==
  IF preopened THEN Leaves(TRUE, left, content)
  ELSE Leaves(~left.fail, [left EXCEPT !.open = FALSE, !.fail = FALSE], content)

\* The content if every operation does what it can
Intended(f) ==
  FoldLeft(LAMBDA g, op : [Visit(g, op) EXCEPT !.fail = FALSE], f, operations).content

\* flush(), of which the first n operations reach the file unless the file system works
Flush ==
  /\ operations # <<>> /\ operations' = <<>>
  /\ \E opens, works \in BOOLEAN :
       LET f == IF preopened THEN file ELSE Opened(file, opens)
       IN /\ Works(opens /\ works) /\ (preopened => opens) /\ (~opens => works)
          /\ IF f.fail \/ ~f.open
             THEN works /\ Leaves(FALSE, [f EXCEPT !.fail = FALSE], f.content)
             ELSE \E n \in 0 .. Len(operations) :
                    LET some == Done(f, SubSeq(operations, 1, n))
                    IN IF works THEN n = Len(operations) /\ Ends(some, Intended(f))
                       ELSE Ends([some EXCEPT !.fail = TRUE], Intended(f))

Flushes == alive /\ Flush /\ UNCHANGED <<mode, preopened, used, alive>>

\* The destructor flushes, and nobody sees what that returns
Destroy ==
  /\ alive /\ alive' = FALSE
  /\ Flush \/ (operations = <<>> /\ UNCHANGED <<operations, file, broken, expected>>)
  /\ UNCHANGED <<mode, preopened, used>>

Next == Insert \/ Seekp \/ Flushes \/ Destroy
Spec == Init /\ [][Next]_vars

-----------------------------------------------------------------------------
\* A flush() that could not do everything it was told returns false if it has opened the
\* file itself; with a file that the constructor opened it returns true and leaves the stream
\* failed, and the next flush() that has something to do returns false
\* (buffered_file_saver.cpp:32-61).
LossesAreReported ==
  alive => file.content = expected \/ (preopened /\ file.fail)
=============================================================================

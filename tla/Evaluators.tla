----------------------------- MODULE Evaluators -----------------------------
(* expr, test, find, dd and the file name patterns: each reads its arguments *)
(* and computes at once. An input is one call, for those that read by        *)
(* descent with the tree of what was meant.                                  *)
EXTENDS Expr, Test, Find

CONSTANTS Inputs,    \* [tool, ...]
          IntBytes, MaxNumber
DD == INSTANCE Dd
VARIABLES input, done, answer
vars == <<input, done, answer>>

Init == input \in Inputs /\ done = FALSE /\ answer = <<>>
Answers(tool, a) == /\ input.tool = tool /\ ~done
                    /\ done' = TRUE /\ answer' = a /\ UNCHANGED input
RunExpr == Answers("expr", ExprMain(Written(input.meant, 1)))
RunText == Answers("text", ExprMain(input.text))
RunTest == Answers("test", TestMain(Arguments(input.meant, 1), FALSE))
RunMatch == Answers("match", Gmatch(input.name, input.mask))
RunFind == Answers("find", FindMain(input.root, input.top.name, Spelled(input.meant, 1)))
RunDd == Answers("dd", DD!DdMain(input))
RunNumber == Answers("number", DD!Getnum(input.text))
Ended == done /\ UNCHANGED vars
Next == RunExpr \/ RunText \/ RunTest \/ RunMatch \/ RunFind \/ RunDd \/ RunNumber \/ Ended
Spec == Init /\ [][Next]_vars

Done(tool) == done /\ input.tool = tool
-----------------------------------------------------------------------------
\* expr prints the value that its text has under the table of priorities, from
\* left to right in each, in the width of a long; 0 is false; a division by zero
\* is an error whatever stands around it (expr.c:94, 173).
ExprValue == Done("expr") => LET e == input.meant IN
  IF DividesByZero(e) THEN answer.status = 2
  ELSE answer = [status |-> IF Meant(e) = 0 THEN 1 ELSE 0, out |-> Meant(e)]

\* expr takes a text to its end, or reports an error, as the text is an
\* expression or is not: none is cut off and none refused (expr.c:36).
ExprAccepts == Done("text") => ((answer.status # 2) <=> Derives(1, input.text))

\* test is true of what its arguments say, -a before -o and ! before both,
\* though both sides are always read (test.c:51).
TestValue == Done("test") => (answer = 0 <=> Value(input.meant))

\* A pattern of letters, ? and * fits the names it describes, the whole of them
\* (gmatch.c:17).
PatternFits == Done("match") => (answer <=> Fits(input.name, input.mask))

\* find acts on every file below its path, in the order of the directories, as
\* the tree of its arguments says of that file (find.c:151, 504).
FindActs == Done("find") /\ input.whole => answer = [status |-> 0, acts |-> ActsBelow(input.meant, input.top, <<input.top.name>>)]

\* With files that went away and directories that cannot be entered or read find acts on
\* fewer files, and never on one in the place of another (find.c:516, 526).
FindSound == Done("find") =>
  LET all == ActsBelow(input.meant, input.top, <<input.top.name>>)
      met == FoldLeft(LAMBDA n, act : IF n < Len(answer.acts) /\ answer.acts[n + 1] = act THEN n + 1 ELSE n, 0, all) IN
  met = Len(answer.acts)

\* dd writes what it read, converted as one text whatever the two block sizes cut
\* it into; after an error in reading what came before it, and a part of
\* that when the output is full (dd.c:344, 562).
Kept(o, s) == IF o.n["seek"] = 0 THEN s ELSE
  LET at == o.n["seek"] * o.n["obs"] IN DD!Sized(input.old, at) \o s \o SubSeq(input.old, at + Len(s) + 1, Len(input.old))
DdCopies == Done("dd") /\ answer.status # "args" =>
  LET o == DD!Options(input.args)
      promised == DD!Promised(o, FlattenSeq([k \in 1..Len(DD!Given(o, input)) |-> DD!Given(o, input)[k].bytes])) IN
  o.conv \cap {"sync", "noerror"} = {} =>
    /\ answer.file = Kept(o, IF answer.status = "write" THEN SubSeq(promised, 1, input.room) ELSE promised)
    /\ answer.status = "write" <=> Len(promised) > input.room

\* The records dd reports are those it read and wrote, whole or partial; all but
\* the last are whole where it has a buffer of its own for them, with sync all
\* are; and each line that was cut counts once (dd.c:588).
DdRecords == Done("dd") /\ answer.status = "done" =>
  LET o == DD!Options(input.args)  given == SelectSeq(DD!Given(o, input), LAMBDA r : r.bytes # <<>>)
      Whole(s, n) == Cardinality({k \in 1..Len(s) : Len(s[k]) = n})
      text == FlattenSeq([k \in 1..Len(given) |-> given[k].bytes])  lines == DD!LinesOf(text) IN
  /\ answer.forec = Whole(answer.out, o.n["obs"]) /\ answer.porec = Len(answer.out) - answer.forec
  /\ ~DD!OneBuffer(o) => \A k \in 1..(Len(answer.out) - 1) : Len(answer.out[k]) = o.n["obs"]
  /\ "noerror" \notin o.conv /\ o.n["files"] <= 1 =>
       answer.firec = Whole([k \in 1..Len(given) |-> given[k].bytes], o.n["ibs"]) /\ answer.pirec = Len(given) - answer.firec
  /\ "sync" \in o.conv /\ DD!OneBuffer(o) => answer.porec = 0 /\ Len(answer.out) = answer.firec + answer.pirec
  /\ answer.trec = IF DD!Cmode(o) \in {"ebcdic", "ibm"} /\ o.n["cbs"] > 0
                   THEN Cardinality({k \in 1..Len(lines) : Len(lines[k]) > o.n["cbs"]}) ELSE 0

\* A size is the product that its text writes, and refused when that is out of range,
\* wherever in the product (dd.c:632).  Of the letters w is left out: the manual has it
\* stand for 2 (dd.c:28), the code for sizeof(int) (dd.c:644).
NumberValue == Done("number") => answer = IF input.n > MaxNumber THEN -1 ELSE input.n

\* What expr and test say and dd takes for a number is what the arguments mean: the
\* statements above of each.
ArgsMean == ExprValue /\ ExprAccepts /\ TestValue /\ NumberValue

\* find acts on the files its arguments describe, names by their patterns.
FindRight == PatternFits /\ FindActs /\ FindSound

\* dd copies the text and counts its records right.
DdRight == DdCopies /\ DdRecords

=============================================================================

-------------------------------- MODULE Test --------------------------------
(* test (bin_cmdsrc/test.c): its arguments are read from left to right by    *)
(* descent, and every part is computed, needed or not.                       *)
EXTENDS Integers, Sequences

CONSTANTS Words,    \* argument -> [num, len]: its number, or -1, and its length
          FileIs    \* argument -> "none", "empty", "file", "locked", "dir"

\* what a routine leaves: the next argument, its value, whether the process lives
Left(ap, v) == [ap |-> ap, v |-> v, dead |-> FALSE]
Dies == [ap |-> 0, v |-> FALSE, dead |-> TRUE]
Null == "no argument"

Nxtarg(a, ap, mt) == IF ap <= Len(a) THEN Left(ap + 1, a[ap]) ELSE IF mt THEN Left(ap + 1, Null) ELSE Dies

Tio(f, writes) == FileIs[f] \in {"empty", "file"} \/ (~writes /\ FileIs[f] = "dir")
Isnum(w) == Words[w].num >= 0
Compares(op, m, n) == CASE op = "-eq" -> m = n [] op = "-ne" -> m # n [] op = "-gt" -> m > n
                        [] op = "-lt" -> m < n [] op = "-ge" -> m >= n [] op = "-le" -> m <= n
Unaries == {"-r", "-w", "-d", "-f", "-s", "-n", "-z"}
Holds(op, w) == CASE op = "-r" -> Tio(w, FALSE) [] op = "-w" -> Tio(w, TRUE) [] op = "-d" -> FileIs[w] = "dir"
                  [] op = "-f" -> FileIs[w] \in {"empty", "file", "locked"} [] op = "-s" -> FileIs[w] \in {"file", "locked", "dir"}
                  [] op = "-n" -> w # "" [] op = "-z" -> w = ""

\* two operands with an operator between them, or a word alone at the end
Numbers(op, m, last) ==
  IF last.dead THEN last
  ELSE IF ~Isnum(last.v) THEN Left(last.ap, FALSE)
  ELSE IF op \in {"-eq", "-ne", "-gt", "-lt", "-ge", "-le"} THEN Left(last.ap, Compares(op, m, Words[last.v].num)) ELSE Dies
LengthOf(a, n, r) == IF r.dead THEN r ELSE Numbers(r.v, Words[n.v].len, Nxtarg(a, r.ap, FALSE))
Strings2(w, n, r) == IF r.dead THEN r ELSE Left(r.ap, (r.v = w) = (n.v = "="))
Binary(a, w, n) ==
  CASE n.v = Null -> Left(n.ap, w # "")
    [] n.v \in {"=", "!="} -> Strings2(w, n, Nxtarg(a, n.ap, FALSE))
    [] OTHER -> IF w = "-l" THEN LengthOf(a, n, Nxtarg(a, n.ap, FALSE))
                ELSE IF ~Isnum(w) THEN Left(n.ap, FALSE)
                ELSE Numbers(n.v, Words[w].num, Nxtarg(a, n.ap, FALSE))

RECURSIVE Exp(_, _)
Enclosing(p, close) == IF p.dead \/ close.dead \/ close.v # ")" THEN Dies ELSE Left(close.ap, p.v)
Enclosed1(a, p) == IF p.dead THEN Dies ELSE Enclosing(p, Nxtarg(a, p.ap, FALSE))
Unary1(w, n) == IF n.dead THEN n ELSE Left(n.ap, Holds(w, n.v))
Operand(a, w) ==
  CASE w.dead -> w
    [] w.v = "(" -> Enclosed1(a, Exp(a, w.ap))
    [] w.v \in Unaries -> Unary1(w.v, Nxtarg(a, w.ap, FALSE))
    [] OTHER -> Binary(a, w.v, Nxtarg(a, w.ap, TRUE))
E3(a, ap) == Operand(a, Nxtarg(a, ap, FALSE))

Negated(e) == [e EXCEPT !.v = ~@]
Factor(a, ap, w) == IF w.dead THEN w ELSE IF w.v = "!" THEN Negated(E3(a, w.ap)) ELSE E3(a, ap)
E2(a, ap) == Factor(a, ap, Nxtarg(a, ap, FALSE))

Follows(a, p, op) == ~p.dead /\ Nxtarg(a, p.ap, TRUE).v = op
RECURSIVE E1(_, _)
BothOf(p, q) == [q EXCEPT !.v = ~q.dead /\ p.v /\ q.v]
\* Mutant: -a is read like -o, its right side a whole expression
TermWide(a, p) == IF Follows(a, p, "-a") THEN BothOf(p, Exp(a, p.ap + 1)) ELSE p
Term(a, p) == IF Follows(a, p, "-a") THEN BothOf(p, E1(a, p.ap + 1)) ELSE p
E1(a, ap) == Term(a, E2(a, ap))

EitherOf(p, q) == [q EXCEPT !.v = ~q.dead /\ (p.v \/ q.v)]
Sum1(a, p) == IF Follows(a, p, "-o") THEN EitherOf(p, Exp(a, p.ap + 1)) ELSE p
Exp(a, ap) == Sum1(a, E1(a, ap))

\* the exit status; called as [ the command ends with 1 in any case
Status(e) == IF ~e.dead /\ e.v THEN 0 ELSE 1
TestMain(a, bracket) ==
  IF bracket \/ a = <<>> THEN 1 ELSE Status(Exp(a, 1))
-----------------------------------------------------------------------------
(* The language: trees [op, l, r], ["is", args, v]                           *)
Binds(e) == CASE e.op = "is" -> 4 [] e.op = "!" -> 3 [] e.op = "-a" -> 2 [] e.op = "-o" -> 1
RECURSIVE Arguments(_, _)
Arguments(e, row) ==
  LET text == CASE e.op = "is" -> e.args [] e.op = "!" -> <<"!">> \o Arguments(e.l, 4)
                [] OTHER -> Arguments(e.l, Binds(e) + 1) \o <<e.op>> \o Arguments(e.r, Binds(e)) IN
  IF Binds(e) < row THEN <<"(">> \o text \o <<")">> ELSE text
RECURSIVE Value(_)
Value(e) == CASE e.op = "is" -> e.v [] e.op = "!" -> ~Value(e.l) [] e.op = "-a" -> Value(e.l) /\ Value(e.r) [] e.op = "-o" -> Value(e.l) \/ Value(e.r)
=============================================================================

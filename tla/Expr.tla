-------------------------------- MODULE Expr --------------------------------
(* expr (bin_cmdsrc/expr.c): an expression is read from a text, character by *)
(* character, by a table of priorities, and computed while it is read.       *)
EXTENDS Integers, Sequences, SequencesExt, Bitwise

CONSTANT Bits   \* the width of a long

Wrap(n) == ((n + 2^(Bits - 1)) % (2^Bits)) - 2^(Bits - 1)
Unsigned(n) == n % (2^Bits)
Abs(n) == IF n < 0 THEN -n ELSE n
Quotient(a, b) == LET q == Abs(a) \div Abs(b) IN IF (a < 0) = (b < 0) THEN q ELSE -q
Truth(b) == IF b THEN 1 ELSE 0

\* one row of the table for each priority, 0 binds least
Ops == <<<<"|", "^">>, <<"&">>, <<"~">>, <<"!=", "<", "<=", ">", ">=", "=">>, <<"+", "-">>, <<"*", "/", "%", "<<", ">>">>>>
Chars(op) == CASE op = "!=" -> <<"!", "=">> [] op = "<=" -> <<"<", "=">> [] op = ">=" -> <<">", "=">>
               [] op = "<<" -> <<"<", "<">> [] op = ">>" -> <<">", ">">> [] OTHER -> <<op>>

\* the outcome of reading: the first untouched character, an error, the value
Read(at, val) == [at |-> at, cy |-> FALSE, val |-> val]
Fails(at) == [at |-> at, cy |-> TRUE, val |-> 0]

\* % does not test its divisor: the processor traps
Handlers(l, r, op) ==
  CASE op = "+" -> Read(0, Wrap(l + r))
    [] op = "-" -> Read(0, Wrap(l - r))
    [] op = "*" -> Read(0, Wrap(l * r))
    [] op = "/" -> IF r = 0 THEN Fails(0) ELSE Read(0, Wrap(Quotient(l, r)))
    [] op = "%" -> IF r = 0 THEN Fails(0) ELSE Read(0, Wrap(l - r * Quotient(l, r)))
    [] op = "|" -> Read(0, IF l # 0 THEN l ELSE r)
    [] op = "&" -> Read(0, IF l # 0 /\ r # 0 THEN l ELSE 0)
    [] op = "^" -> Read(0, Wrap(Unsigned(l) ^^ Unsigned(r)))
    [] op = "~" -> Read(0, -l - 1)
    [] op \in {"!=", "="} -> Read(0, Truth(l = r))
    [] op = "<" -> Read(0, Truth(l < r))
    [] op = "<=" -> Read(0, Truth(l <= r))
    [] op = ">" -> Read(0, Truth(l > r))
    [] op = ">=" -> Read(0, Truth(l >= r))
    [] op = "<<" -> Read(0, Wrap(l * 2^r))
    [] op = ">>" -> Read(0, l \div 2^r)

Char(t, i) == IF i \in DOMAIN t THEN t[i] ELSE ""
RECURSIVE SkipBlanks(_, _)
SkipBlanks(t, i) == IF Char(t, i) = " " THEN SkipBlanks(t, i + 1) ELSE i

\* the first operator of the row that the text begins with
Chkoper(t, i, row) ==
  LET j == SkipBlanks(t, i)
      hit == SelectSeq(row, LAMBDA op : IsPrefix(Chars(op), SubSeq(t, j, Len(t)))) IN
  IF hit = <<>> THEN [at |-> j, op |-> ""] ELSE [at |-> j + Len(Chars(Head(hit))), op |-> Head(hit)]

DigitChars == <<"0", "1", "2", "3", "4", "5", "6", "7", "8", "9", "a", "b", "c", "d", "e", "f">>
Digit(c) == LET d == SelectSeq([i \in 1..16 |-> i], LAMBDA i : DigitChars[i] = c) IN IF d = <<>> THEN 100 ELSE Head(d) - 1
RECURSIVE Constant(_, _, _, _)
Constant(t, i, base, val) ==
  LET d == Digit(Char(t, i)) IN
  IF d >= base THEN Read(i, val) ELSE Constant(t, i + 1, base, Wrap(val * base + d))

RECURSIVE Expr(_, _, _)
RECURSIVE Operations(_, _, _, _)
\* an operator of the row and its right operand, as often as there is one
Operations(t, i, row, lval) ==
  LET o == Chkoper(t, i, Ops[row])
      r == Expr(t, o.at, row + 1)
      h == Handlers(lval, r.val, o.op) IN
  IF o.op = "" THEN Read(o.at, lval)
  ELSE IF r.cy THEN r
  ELSE IF h.cy THEN Fails(r.at) ELSE Operations(t, r.at, row, h.val)

\* Mutant: a sign in front takes the whole sum behind it
Evalu1Greedy(t, i, row, sign) ==
  LET o == Chkoper(t, i, Ops[row])
      l == Expr(t, o.at, row + 1)
      s == Expr(t, o.at, row) IN
  IF sign /\ o.op # "" THEN IF s.cy THEN s ELSE Read(s.at, Handlers(0, s.val, o.op).val)
  ELSE IF l.cy THEN l ELSE Operations(t, l.at, row, l.val)

Evalu1(t, i, row, sign) ==
  LET o == Chkoper(t, i, Ops[row])
      l == Expr(t, o.at, row + 1) IN
  IF sign /\ o.op # "" THEN Operations(t, i, row, 0)
  ELSE LET v == Expr(t, i, row + 1) IN IF v.cy THEN v ELSE Operations(t, v.at, row, v.val)

\* ~ may stand in front of an operand, and is looked for behind it
Unary(t, i) ==
  LET o == Chkoper(t, i, Ops[3])
      v == Evalu1(t, o.at, 3, FALSE) IN
  IF v.cy \/ o.op = "" THEN v ELSE Read(v.at, Handlers(v.val, 0, "~").val)

Atom(t, i) ==
  LET s == SkipBlanks(t, i)
      e == Expr(t, s + 1, 1)
      close == SkipBlanks(t, e.at)
      hex == Char(t, s + 1) \in {"x", "X"} IN
  CASE Char(t, s) = "(" -> IF e.cy THEN e ELSE IF Char(t, close) = ")" THEN Read(close + 1, e.val) ELSE Fails(close)
    [] Char(t, s) = "0" -> IF hex THEN Constant(t, s + 2, 16, 0) ELSE Constant(t, s + 1, 8, 0)
    [] Digit(Char(t, s)) \in 1..9 -> Constant(t, s, 10, 0)
    [] OTHER -> Fails(s)

\* rows count from 1 here
Expr(t, i, row) == CASE row = 3 -> Unary(t, i) [] row = 7 -> Atom(t, i) [] OTHER -> Evalu1(t, i, row, row = 5)

\* Mutant: what is left of the text is not looked at
ExprMainPartial(t) ==
  LET r == Expr(t, 1, 1) IN
  IF r.cy THEN [status |-> 2, out |-> 0] ELSE [status |-> IF r.val # 0 THEN 0 ELSE 1, out |-> r.val]

\* what the command prints, and its exit status
ExprMain(t) ==
  LET r == Expr(t, 1, 1) IN
  IF r.cy \/ r.at # Len(t) + 1 THEN [status |-> 2, out |-> 0]
  ELSE [status |-> IF r.val # 0 THEN 0 ELSE 1, out |-> r.val]
-----------------------------------------------------------------------------
(* The language: trees [op, l, r], ["num", n] and texts that denote them     *)
Row(e) == CASE e.op = "num" -> 7 [] e.op = "neg" -> 5
            [] OTHER -> CHOOSE i \in DOMAIN Ops : \E k \in DOMAIN Ops[i] : Ops[i][k] = e.op

RECURSIVE Written(_, _)
\* with no more parentheses than the priorities ask for
Written(e, row) ==
  LET own == Row(e)
      text == CASE e.op = "num" -> e.text
                [] e.op = "neg" -> <<"-">> \o Written(e.l, 6)
                [] e.op = "~" -> <<"~">> \o Written(e.l, 4)
                [] OTHER -> Written(e.l, own) \o Chars(e.op) \o <<" ">> \o Written(e.r, own + 1) IN
  IF own < row THEN <<"(">> \o text \o <<")">> ELSE text

\* the quotient towards zero, by search
Divided(a, b) == CHOOSE q \in -2^Bits..2^Bits :
  Abs(q * b) <= Abs(a) /\ Abs(q * b) + Abs(b) > Abs(a) /\ (q * b = 0 \/ (q * b < 0) = (a < 0))
RECURSIVE Meant(_)
Meant(e) ==
  LET l == Meant(e.l)  r == Meant(e.r) IN
  CASE e.op = "num" -> e.n [] e.op = "neg" -> Wrap(-l) [] e.op = "~" -> -l - 1
    [] e.op = "+" -> Wrap(l + r) [] e.op = "-" -> Wrap(l - r) [] e.op = "*" -> Wrap(l * r)
    [] e.op = "/" -> Wrap(Divided(l, r)) [] e.op = "<<" -> Wrap(l * 2^r)
    [] e.op = "<" -> Truth(l < r) [] e.op = "=" -> Truth(l = r)
    [] e.op = "&" -> IF r = 0 THEN 0 ELSE l [] e.op = "|" -> IF l = 0 THEN r ELSE l
RECURSIVE DividesByZero(_)
DividesByZero(e) == /\ e.op # "num"
                    /\ \/ DividesByZero(e.l)
                       \/ e.op \notin {"neg", "~"} /\ DividesByZero(e.r)
                       \/ e.op = "/" /\ Meant(e.r) = 0

\* texts of digits, + and =, | and parentheses
RECURSIVE Derives(_, _)
Derives(row, t) ==
  LET ops == {"+", "=", "|"} \cap Range(Ops[row])
      Split(k) == /\ t[k] \in ops
                  /\ (k = 1 /\ row = 5) \/ Derives(row, SubSeq(t, 1, k - 1))
                  /\ Derives(row + 1, SubSeq(t, k + 1, Len(t))) IN
  IF row = 7 THEN (t # <<>> /\ Range(t) = {"1"}) \/ (Len(t) > 2 /\ t[1] = "(" /\ Last(t) = ")" /\ Derives(1, SubSeq(t, 2, Len(t) - 1)))
  ELSE Derives(row + 1, t) \/ \E k \in DOMAIN t : Split(k)
=============================================================================

------------------------------ MODULE WordSubst ------------------------------
(* The shell makes arguments of words (bin_cmdsrc/sh/argcrunch.c, var.c,      *)
(* cmdsub.c, expand.c, dirlook.c, wmatch.c), with the English characters.     *)
(* Characters are names, a quoted one is marked as in CmdBuf.                 *)
EXTENDS Parser

CONSTANTS Ascii,     \* the characters in the order of their codes
          Outputs,    \* command -> the characters it writes
          Dirs        \* path of a directory -> the names in it, in their order
Ord == [c \in Range(Ascii) |-> CHOOSE i \in DOMAIN Ascii : Ascii[i] = c]
Blanks == {" ", "TAB", "NL"}
Quote(c) == IF SubSeq(c, 1, 1) = "q" THEN c ELSE "q" \o c
-----------------------------------------------------------------------------
(* The list of variables is sorted, numbers by their value *)
IsDigit(s) == s # <<>> /\ s[1] \in DOMAIN Digit
Strcomp(s, t) ==
  \E n \in 0..Len(s) : /\ n < Len(t) /\ \A i \in 1..n : s[i] = t[i]
                       /\ n = Len(s) \/ Ord[s[n + 1]] < Ord[t[n + 1]]
Strless(s, t) == IF IsDigit(s) /\ IsDigit(t) /\ Len(s) # Len(t) THEN Len(s) < Len(t) ELSE Strcomp(s, t)
Itoa(n) == LET D(m) == CHOOSE c \in DOMAIN Digit : Digit[c] = m IN IF n < 10 THEN <<D(n)>> ELSE <<D(n \div 10), D(n % 10)>>

Var(name, value) == [nam |-> name, val |-> value, exp |-> FALSE, ro |-> FALSE]
Dummy == [Var(<<>>, <<>>) EXCEPT !.exp = TRUE]
Before(vs, name) == CHOOSE n \in 0..Len(vs) : (n = Len(vs) \/ ~Strless(vs[n + 1].nam, name)) /\ \A i \in 1..n : Strless(vs[i].nam, name)
Placed(vs, n, name, value) ==
  IF n < Len(vs) /\ vs[n + 1].nam = name THEN IF vs[n + 1].ro THEN vs ELSE [vs EXCEPT ![n + 1].val = value]
  ELSE InsertAt(vs, n + 1, Var(name, value))
Setvar(vs, name, value) == Placed(vs, Before(vs, name), name, value)
Varinit == FoldLeft(LAMBDA vs, x : Setvar(vs, x[1], x[2]), <<Dummy>>, <<<<<<"#">>, <<"0">>>>, <<<<"?">>, <<"0">>>>, <<<<"!">>, <<>>>>, <<<<"0">>, <<"x">>>>>>)
Named(vs, name) == SelectSeq(vs, LAMBDA v : v.nam = name)
Valof(vs, name) == IF Named(vs, name) = <<>> THEN <<>> ELSE Named(vs, name)[1].val
\* from the first name that does not come before "1", as long as they are not after "9"
IsPospar(v) == v.nam # <<>> /\ v.nam[1] \in DOMAIN Digit \ {"0"}
Pospars(vs) == SelectSeq(vs, IsPospar)
Posparlst(vs) == [i \in DOMAIN Pospars(vs) |-> Pospars(vs)[i].val]
\* $* and $@, a blank between the values
Star(vs) == FoldLeft(LAMBDA s, w : IF s = <<>> THEN w ELSE s \o <<" ">> \o w, <<>>, Posparlst(vs))
Clrpospar(vs) == SelectSeq(vs, LAMBDA v : ~IsPospar(v))
\* Mutant: the names keep their order as text.
ShiftedAsText(vs, n) ==
  Setvar([i \in 1..(Len(vs) - 1) |-> IF i < n THEN vs[i] ELSE IF IsPospar(vs[i + 1]) THEN [vs[i + 1] EXCEPT !.val = vs[i].val] ELSE vs[i + 1]], <<"#">>, Itoa(Atoi(Valof(vs, <<"#">>)) - 1))
Shifted(vs, n) ==
  Setvar([i \in 1..(Len(vs) - 1) |-> IF i < n THEN vs[i] ELSE IF IsPospar(vs[i + 1]) THEN [vs[i + 1] EXCEPT !.nam = Itoa(Atoi(@) - 1)] ELSE vs[i + 1]],
         <<"#">>, Itoa(Atoi(Valof(vs, <<"#">>)) - 1))
Shift(vs) == IF Pospars(vs) = <<>> \/ Pospars(vs)[1].nam[1] # "1" THEN vs ELSE Shifted(vs, CHOOSE i \in DOMAIN vs : IsPospar(vs[i]) /\ \A j \in 1..(i - 1) : ~IsPospar(vs[j]))
RECURSIVE Setpos1(_, _, _)
Setpos1(vs, args, n) == IF n > Len(args) THEN vs ELSE Setpos1(Setvar(vs, Itoa(n), args[n]), args, n + 1)
SetArgs(vs, args) == Setvar(Setpos1(Clrpospar(vs), args, 1), <<"#">>, Itoa(Len(args)))
Markable(vs, name) == IF Named(vs, name) = <<>> THEN Setvar(vs, name, <<>>) ELSE vs
Markvar(vs, name, mark) ==
  LET all == Markable(vs, name) IN
  [i \in DOMAIN all |-> IF all[i].nam # name THEN all[i] ELSE IF mark = "export" THEN [all[i] EXCEPT !.exp = TRUE] ELSE [all[i] EXCEPT !.ro = TRUE]]
Kleenex(vs) == SelectSeq(vs, LAMBDA v : v.exp)

VarCall(vs, c) ==
  CASE c[1] = "set" -> SetArgs(vs, c[2])
    [] c[1] = "shift" -> Shift(vs)
    [] c[1] = "=" -> Setvar(vs, c[2], c[3])
    [] c[1] \in {"export", "readonly"} -> Markvar(vs, c[2], c[1])
    [] c[1] = "kleenex" -> Kleenex(vs)
RECURSIVE VarCalls(_)
VarCalls(cs) == IF cs = <<>> THEN Varinit ELSE VarCall(VarCalls(Front(cs)), Last(cs))
\* what the calls mean: parameters by position, variables by name
MeantCall(m, c) ==
  CASE c[1] = "set" -> [m EXCEPT !.par = c[2]]
    [] c[1] = "shift" -> [m EXCEPT !.par = IF @ = <<>> THEN @ ELSE Tail(@)]
    [] c[1] = "=" -> IF c[2] \in m.ro THEN m ELSE [m EXCEPT !.val[c[2]] = c[3]]
    [] c[1] = "export" -> [m EXCEPT !.exp = @ \cup {c[2]}]
    [] c[1] = "readonly" -> [m EXCEPT !.ro = @ \cup {c[2]}]
    [] c[1] = "kleenex" -> [m EXCEPT !.par = <<>>, !.ro = @ \cap m.exp, !.val = [x \in DOMAIN @ |-> IF x \in m.exp THEN @[x] ELSE <<>>]]
MeantCalls(names, cs) == FoldLeft(MeantCall, [par |-> <<>>, val |-> [x \in names |-> <<>>], exp |-> {}, ro |-> {}], cs)
-----------------------------------------------------------------------------
(* Substitution: [vs, s] is the list of variables and the text; stop: ${x?y} *)
(* ended the command                                                         *)
Sub0(vs, s) == [vs |-> vs, s |-> s, stop |-> FALSE]
Pos(s, c, from) == CHOOSE p \in from..(Len(s) + 1) : (p = Len(s) + 1 \/ s[p] = c) /\ \A q \in from..(p - 1) : s[q] # c
Run(s, p, chars) == CHOOSE q \in p..(Len(s) + 1) : (q = Len(s) + 1 \/ s[q] \notin chars) /\ \A r \in p..(q - 1) : s[r] \in chars
SpecVar == {"?", "#", "$", "!", "@", "*", "-"}
\* the name that begins at p, with its braces
Readvarname(s, p) ==
  IF p > Len(s) THEN <<>>
  ELSE IF s[p] \in SpecVar THEN <<s[p]>>
  ELSE IF s[p] \in Letters THEN SubSeq(s, p, Run(s, p, Letters \cup DOMAIN Digit) - 1)
  ELSE IF s[p] \in DOMAIN Digit THEN SubSeq(s, p, Run(s, p, DOMAIN Digit) - 1)
  ELSE IF s[p] = "{" THEN SubSeq(s, p, Pos(s, "}", p + 1))
  ELSE <<>>

\* listen: what the command writes, as one line
RECURSIVE NoNewlines(_)
NoNewlines(s) == IF s # <<>> /\ s[Len(s)] = "NL" THEN NoNewlines(SubSeq(s, 1, Len(s) - 1)) ELSE s
OneLine(s) == [i \in DOMAIN s |-> IF s[i] = "NL" THEN " " ELSE s[i]]
Listen(cmd) == OneLine(NoNewlines(Outputs[Unquote(cmd)]))
RECURSIVE Cmdsub(_)
Between(s, p, q) == IF q > Len(s) THEN s ELSE SubSeq(s, 1, p - 1) \o Listen(SubSeq(s, p + 1, q - 1)) \o Cmdsub(SubSeq(s, q + 1, Len(s)))
CmdsubAt(s, p) == IF p > Len(s) THEN s ELSE Between(s, p, Pos(s, "bq", p + 1))
Cmdsub(s) == CmdsubAt(s, Pos(s, "bq", 1))

RECURSIVE Varsub(_, _)
Commanded(r) == [r EXCEPT !.s = Cmdsub(@)]
Default(r, name, c) ==
  CASE c = "=" -> [r EXCEPT !.vs = Setvar(@, name, r.s)]
    [] c = "-" -> r
    [] c = "?" -> [r EXCEPT !.stop = TRUE]
Braced(vs, name, c, word) ==
  IF Valof(vs, name) # <<>> THEN IF c = "+" THEN Commanded(Varsub(Sub0(vs, word), 1)) ELSE Sub0(vs, Valof(vs, name))
  ELSE IF c \in {"+", ""} THEN Sub0(vs, <<>>) ELSE Default(Commanded(Varsub(Sub0(vs, word), 1)), name, c)
Opat(s) == CHOOSE p \in 1..(Len(s) + 1) : (p = Len(s) + 1 \/ s[p] \in {"-", "=", "?", "+"}) /\ \A q \in 1..(p - 1) : s[q] \notin {"-", "=", "?", "+"}
BracedAt(vs, s, p) == Braced(vs, SubSeq(s, 1, p - 1), IF p > Len(s) THEN "" ELSE s[p], SubSeq(s, p + 1, Len(s)))
Getvar(vs, name) ==
  IF name = <<>> THEN Sub0(vs, <<"$">>)
  ELSE IF name[1] = "{" THEN LET s == SubSeq(name, 2, Len(name) - 1) IN BracedAt(vs, s, Opat(s))
  ELSE Sub0(vs, IF name \in {<<"*">>, <<"@">>} THEN Star(vs) ELSE Valof(vs, name))
\* what was put in is not looked at again
\* Mutant: it is.
PutInAgain(r, v, p, name) ==
  IF v.stop THEN v ELSE Varsub([v EXCEPT !.s = SubSeq(r.s, 1, p - 1) \o v.s \o SubSeq(r.s, p + Len(name) + 1, Len(r.s))], p)
PutIn(r, v, p, name) ==
  IF v.stop THEN v ELSE Varsub([v EXCEPT !.s = SubSeq(r.s, 1, p - 1) \o v.s \o SubSeq(r.s, p + Len(name) + 1, Len(r.s))], p + Len(v.s))
VarsubAt(r, p) == IF p > Len(r.s) THEN r ELSE PutIn(r, Getvar(r.vs, Readvarname(r.s, p + 1)), p, Readvarname(r.s, p + 1))
Varsub(r, from) == VarsubAt(r, Pos(r.s, "$", from))
-----------------------------------------------------------------------------
(* File names *)
Same(a, b) == Plain(a) = Plain(b)
RECURSIVE Wmatch(_, _, _)
\* the characters of [...] from i on; lc is the last, found whether one was nc; the
\* upper end of a range is passed only when nc is not below lc (*wild++)
RECURSIVE InSet(_, _, _, _, _)
InSet(nc, w, i, lc, found) ==
  IF i > Len(w) THEN [found |-> FALSE, rest |-> <<>>]
  ELSE CASE w[i] = "]" -> [found |-> found, rest |-> SubSeq(w, i + 1, Len(w))]
         [] w[i] = "-" /\ (nc = "" \/ Ord[nc] < lc) -> InSet(nc, w, i + 1, lc, found)
         [] w[i] = "-" /\ nc # "" /\ lc <= Ord[nc] -> InSet(nc, w, i + 2, lc, found \/ (i < Len(w) /\ Ord[nc] <= Ord[Plain(w[i + 1])]))
         [] OTHER -> InSet(nc, w, i + 1, Ord[Plain(w[i])], found \/ nc = w[i])
AfterSet(n, r) == r.found /\ Wmatch(Tail(n), r.rest, FALSE)
\* Mutant: a leading dot is no exception.
WmatchHidden(n, w, firstch) ==
  IF w = <<>> THEN n = <<>>
  ELSE CASE w[1] = "[" -> AfterSet(n, InSet(IF n = <<>> THEN "" ELSE n[1], w, 2, 127, FALSE))
         [] w[1] = "?" -> n # <<>> /\ n[1] # "." /\ Wmatch(Tail(n), Tail(w), FALSE)
         [] w[1] = "*" -> Len(w) = 1 \/ \E i \in DOMAIN n : Wmatch(SubSeq(n, i, Len(n)), Tail(w), FALSE)
         [] OTHER -> n # <<>> /\ Same(n[1], w[1]) /\ Wmatch(Tail(n), Tail(w), FALSE)
Wmatch(n, w, firstch) ==
  IF firstch /\ n # <<>> /\ n[1] = "." /\ (w = <<>> \/ w[1] # ".") THEN FALSE
  ELSE IF w = <<>> THEN n = <<>>
  ELSE CASE w[1] = "[" -> AfterSet(n, InSet(IF n = <<>> THEN "" ELSE n[1], w, 2, 127, FALSE))
         [] w[1] = "?" -> n # <<>> /\ n[1] # "." /\ Wmatch(Tail(n), Tail(w), FALSE)
         [] w[1] = "*" -> Len(w) = 1 \/ \E i \in DOMAIN n : Wmatch(SubSeq(n, i, Len(n)), Tail(w), FALSE)
         [] OTHER -> n # <<>> /\ Same(n[1], w[1]) /\ Wmatch(Tail(n), Tail(w), FALSE)

Path(dir, name) == IF dir = <<"/">> THEN <<"/">> \o name ELSE IF dir = <<".">> THEN name ELSE dir \o <<"/">> \o name
Dirlook(dir, w, dironly) ==
  IF dir \notin DOMAIN Dirs THEN <<>>
  ELSE LET kept == SelectSeq(Dirs[dir], LAMBDA n : (dironly => Path(dir, n) \in DOMAIN Dirs) /\ (n = Unquote(w) \/ Wmatch(n, w, TRUE))) IN
       [i \in DOMAIN kept |-> Path(dir, kept[i])]
RECURSIVE Expand(_, _)
ExpandAt(dir, w, p) ==
  IF p > Len(w) THEN Dirlook(dir, w, FALSE)
  ELSE FlattenSeq([i \in DOMAIN Dirlook(dir, SubSeq(w, 1, p - 1), TRUE) |-> Expand(Dirlook(dir, SubSeq(w, 1, p - 1), TRUE)[i], SubSeq(w, p + 1, Len(w)))])
Expand(dir, w) == ExpandAt(dir, w, Pos(w, "/", 1))
HasWild(w) == \E i \in DOMAIN w : w[i] \in {"[", "?", "*"}
Templates(w) == IF ~HasWild(w) THEN <<>> ELSE IF w[1] = "/" THEN Expand(<<"/">>, Tail(w)) ELSE Expand(<<".">>, w)
Sorted(names) == SortSeq(names, Strcomp)
Wildsub(w) == IF Templates(w) = <<>> THEN <<w>> ELSE Sorted(Templates(w))
-----------------------------------------------------------------------------
(* argcrunch *)
\* no blank is looked for, and no pattern, between double quotes
RECURSIVE Marks(_, _, _)
Marks(w, i, in) == IF i > Len(w) THEN w
  ELSE IF w[i] = "\"" THEN Marks(w, i + 1, ~in)
  ELSE Marks(IF in THEN [w EXCEPT ![i] = Quote(@)] ELSE w, i + 1, in)
RECURSIVE Split(_)
SplitAt(w, p) == IF p > Len(w) THEN <<w>> ELSE <<SubSeq(w, 1, p - 1)>> \o Split(SubSeq(w, p + 1, Len(w)))
FirstBlank(w) == CHOOSE p \in 1..(Len(w) + 1) : (p = Len(w) + 1 \/ w[p] \in Blanks) /\ \A q \in 1..(p - 1) : w[q] \notin Blanks
Split(w) == IF w # <<>> /\ w[1] \in Blanks THEN Split(Tail(w)) ELSE SplitAt(w, FirstBlank(w))

Substituted(r, w) ==
  LET x == Varsub(Sub0(r.vs, w), 1) IN
  IF r.stop THEN r ELSE IF x.stop THEN [r EXCEPT !.stop = TRUE]
  ELSE [r EXCEPT !.vs = x.vs, !.args = IF Cmdsub(x.s) = <<>> THEN @ ELSE Append(@, Cmdsub(x.s))]
SplitAll(args) == FlattenSeq([i \in DOMAIN args |-> Split(Marks(args[i], 1, FALSE))])
Globbed(args) == FlattenSeq([i \in DOMAIN args |-> Wildsub(args[i])])
Finished(args) == [i \in DOMAIN args |-> Unquote(args[i])]
Argcrunch(vs, words) ==
  LET r == FoldLeft(Substituted, [vs |-> vs, args |-> <<>>, stop |-> FALSE], words) IN
  [r EXCEPT !.args = Finished(Globbed(SplitAll(@)))]
=============================================================================

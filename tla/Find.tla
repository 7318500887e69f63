-------------------------------- MODULE Find --------------------------------
(* find (bin_cmdsrc/find.c) and the patterns of the library (gmatch.c): the  *)
(* arguments become a tree, which is computed for every file below a path.   *)
EXTENDS Integers, Sequences, SequencesExt

CONSTANTS Tokens,    \* argument -> [s, n, cs]: first character, atoi, characters
          Newest     \* the time of the file that -newer names

(* Patterns. Names and masks are sequences of characters. *)
RECURSIVE Gmatch(_, _)
RECURSIVE InClass(_, _, _, _)
\* from behind "[": low is the start of a range, or 1000 before there is one.
\* The else of a plain character belongs to the inner if, as C reads it.
InClass(name, mask, low, ok) ==
  LET c == IF mask = <<>> THEN "" ELSE Head(mask)
      rest == Tail(mask)
      m == IF name = <<>> THEN 0 ELSE Tokens[Head(name)].n
      to == IF rest = <<>> THEN 0 ELSE Tokens[Head(rest)].n IN
  CASE c = "" -> FALSE
    [] c = "]" -> ok /\ Gmatch(IF name = <<>> THEN name ELSE Tail(name), rest)
    [] c = "-" /\ low <= m -> InClass(name, IF rest = <<>> THEN rest ELSE Tail(rest), IF m <= to THEN low ELSE Tokens["-"].n,
                                      ok \/ m <= to \/ m = Tokens["-"].n)
    [] c = "-" /\ low > m -> InClass(name, rest, Tokens["-"].n, ok \/ m = Tokens["-"].n)
    [] OTHER -> InClass(name, rest, low, ok)

\* Mutant: a star takes one character at least
GmatchPlus(name, mask) ==
  CASE mask = <<>> -> name = <<>>
    [] Head(mask) = "*" -> \E k \in 1..Len(name) : Gmatch(SubSeq(name, k + 1, Len(name)), Tail(mask))
    [] OTHER -> name # <<>> /\ Head(mask) \in {"?", Head(name)} /\ Gmatch(Tail(name), Tail(mask))

\* what follows a star must match at a character of the name, not at its end
Gmatch(name, mask) ==
  LET c == IF mask = <<>> THEN "" ELSE Head(mask) IN
  CASE c = "" -> name = <<>>
    [] c = "[" -> InClass(name, Tail(mask), 1000, FALSE)
    [] c = "*" -> Tail(mask) = <<>> \/ \E k \in DOMAIN name : Gmatch(SubSeq(name, k, Len(name)), Tail(mask))
    [] c = "?" -> name # <<>> /\ Gmatch(Tail(name), Tail(mask))
    [] OTHER -> name # <<>> /\ Head(name) = c /\ Gmatch(Tail(name), Tail(mask))
-----------------------------------------------------------------------------
(* The arguments. p: next argument ai, ends met, node, last word tok.        *)
Start == [ai |-> 1, strikes |-> 0, rand |-> 0, err |-> FALSE, node |-> <<>>, tok |-> ""]
Bad(p) == [p EXCEPT !.err = TRUE]
Node(p, k, l, r) == [p EXCEPT !.node = [k |-> k, l |-> l, r |-> r]]

NxtFind(a, p) ==
  IF p.strikes = 3 THEN Bad(p)
  ELSE IF p.ai > Len(a) THEN [p EXCEPT !.strikes = @ + 1, !.ai = Len(a) + 2, !.tok = ""]
  ELSE [p EXCEPT !.ai = @ + 1, !.tok = a[p.ai]]
Back(a, p) == IF p.ai <= Len(a) + 1 THEN [p EXCEPT !.ai = @ - 1] ELSE p

\* the predicates that compare an attribute by its sign, and the others
Measures == {"-mtime", "-atime", "-ctime", "-user", "-inum", "-size", "-links"}
Others == {"-name", "-group", "-perm", "-type", "-newer"}
RECURSIVE ToSemicolon(_, _)
ToSemicolon(a, p) == LET n == NxtFind(a, p) IN IF n.err \/ n.tok = ";" THEN n ELSE ToSemicolon(a, n)

RECURSIVE Alternation(_, _)
Enclosed(w, q, close) == IF q.err \/ close.err \/ close.tok # ")" THEN Bad(w) ELSE [close EXCEPT !.node = q.node]
Inside(a, w, q) == Enclosed(w, q, NxtFind(a, q))
WithArgument(a, w, b) ==
  IF b.err THEN b
  ELSE IF w.tok \in Measures \cup Others THEN Node(b, w.tok, Tokens[b.tok], <<>>)
  ELSE IF w.tok \in {"-exec", "-ok"} THEN Node(ToSemicolon(a, b), w.tok, b.ai - 1, <<>>)
  ELSE Bad(b)
Predicate(a, w) ==
  CASE w.err -> w
    [] w.tok = "(" -> Inside(a, w, Alternation(a, [w EXCEPT !.rand = @ - 1]))
    [] w.tok = "-print" -> Node(w, "print", <<>>, <<>>)
    [] OTHER -> WithArgument(a, w, NxtFind(a, w))
Primary(a, p) == Predicate(a, NxtFind(a, p))

Inverted(q) == Node(q, "not", q.node, <<>>)
Signed(a, p, n) ==
  IF p.rand # 0 \/ n.err THEN Bad(p)
  ELSE IF n.tok = "!" THEN Inverted(Primary(a, n)) ELSE Primary(a, Back(a, n))
Negation(a, p) == Signed(a, p, NxtFind(a, [p EXCEPT !.rand = @ + 1]))

\* Mutant: an operator that follows at once is not taken for -a
JuxtaposedNot(n) == FALSE
Juxtaposed(n) == n.tok \in {"(", "!"} \/ (Tokens[n.tok].s = "-" /\ n.tok # "-o")
Joined(k, l, r) == Node(r, k, l.node, r.node)
RECURSIVE Concatenation(_, _)
AndOf(a, l, n) ==
  IF l.err \/ n.err THEN Bad(l)
  ELSE IF n.tok = "-a" \/ Juxtaposed(n)
  THEN Joined("and", l, Concatenation(a, [n EXCEPT !.rand = @ - 1, !.ai = IF n.tok = "-a" THEN @ ELSE @ - 1]))
  ELSE Back(a, n)
AndMore(a, l) == AndOf(a, l, NxtFind(a, l))
Concatenation(a, p) == AndMore(a, Negation(a, p))

OrOf(a, l, n) ==
  IF l.err \/ n.err THEN Bad(l)
  ELSE IF n.tok = "-o" THEN Joined("or", l, Alternation(a, [n EXCEPT !.rand = @ - 1])) ELSE Back(a, n)
OrMore(a, l) == OrOf(a, l, NxtFind(a, l))
Alternation(a, p) == OrMore(a, Concatenation(a, p))

\* every argument must have been read
Complete(a, p) == IF p.ai <= Len(a) THEN Bad(p) ELSE p
Parsed(a) == Complete(a, Alternation(a, Start))
-----------------------------------------------------------------------------
(* The walk. A file is [name, dir, kids, fault, of]; w holds the current     *)
(* directory, what was done, whether standard input is still the terminal.   *)
Scomp(a, arg) == CASE arg.s = "+" -> a > arg.n [] arg.s = "-" -> a < -arg.n [] OTHER -> a = arg.n
Does(w, act) == [w EXCEPT !.acts = Append(@, act), !.v = TRUE]

RECURSIVE Computed(_, _, _, _, _)
\* the status block of the file f, the name it was given, the command words a
Computed(n, f, path, a, w) ==
  LET l == Computed(n.l, f, path, a, w) IN
  CASE n.k = "and" -> IF l.v /\ ~l.over THEN Computed(n.r, f, path, a, l) ELSE l
    [] n.k = "or" -> IF l.v \/ l.over THEN l ELSE Computed(n.r, f, path, a, l)
    [] n.k = "not" -> [l EXCEPT !.v = ~@]
    [] n.k = "print" -> Does(w, <<"print", path>>)
    [] n.k \in Measures -> [w EXCEPT !.v = Scomp(f.of[n.k], n.l)]
    [] n.k = "-name" -> [w EXCEPT !.v = Gmatch(Tokens[Last(path)].cs, n.l.cs)]
    [] n.k = "-group" -> [w EXCEPT !.v = f.of[n.k] = n.l.n]
    [] n.k = "-type" -> [w EXCEPT !.v = (IF f.dir THEN "d" ELSE "f") = n.l.s]
    [] n.k = "-perm" -> [w EXCEPT !.v = IF n.l.s = "-" THEN n.l.cs \subseteq f.of[n.k] ELSE n.l.cs = f.of[n.k]]
    [] n.k = "-newer" -> [w EXCEPT !.v = f.of[n.k] > Newest]
    [] n.k = "-exec" -> [Does(w, <<a[n.l], path>>) EXCEPT !.v = a[n.l] # "false"]
    [] n.k = "-ok" -> IF ~w.tty THEN [w EXCEPT !.over = TRUE, !.v = FALSE]
                      ELSE [Does(w, <<a[n.l], path>>) EXCEPT !.v = a[n.l] # "false"]

RECURSIVE At(_, _)
\* the file that a path leads to, or none
At(f, path) == IF path = <<>> THEN {f}
               ELSE UNION {At(f.kids[k], Tail(path)) : k \in {i \in DOMAIN f.kids : f.kids[i].name = Head(path) /\ f.kids[i].fault # "gone"}}

\* Mutant: .. is entered though the directory was not
RECURSIVE DescendLeaves(_, _, _, _, _, _)
DescendLeaves(root, names, path, tree, a, w) ==
  IF names = <<>> \/ w.over THEN w
  ELSE LET hit == At(root, Append(w.cwd, Head(names)))
           f == CHOOSE x \in hit : TRUE
           x == Computed(tree, f, Append(path, Head(names)), a, w)
           in == DescendLeaves(root, [i \in DOMAIN f.kids |-> f.kids[i].name], Append(path, Head(names)), tree, a, [x EXCEPT !.cwd = Append(@, Head(names))]) IN
       IF hit = {} THEN w
       ELSE DescendLeaves(root, Tail(names), path, tree, a,
                          IF f.fault = "shut" THEN [x EXCEPT !.cwd = SubSeq(@, 1, Len(@) - 1)] ELSE IF f.dir THEN [in EXCEPT !.cwd = Front(@)] ELSE x)

RECURSIVE Descend(_, _, _, _, _, _)
\* names were read from the directory path; compare() makes their tree a list.
\* A name that cannot be looked up or entered ends the list.
Descend(root, names, path, tree, a, w) ==
  IF names = <<>> \/ w.over THEN w
  ELSE LET hit == At(root, Append(w.cwd, Head(names)))
           f == CHOOSE x \in hit : TRUE
           x == Computed(tree, f, Append(path, Head(names)), a, w)
           in == Descend(root, [i \in DOMAIN f.kids |-> f.kids[i].name], Append(path, Head(names)), tree, a,
                         [x EXCEPT !.cwd = Append(@, Head(names)), !.tty = FALSE]) IN
       IF hit = {} \/ x.over THEN IF hit = {} THEN w ELSE x
       ELSE IF f.dir /\ f.fault = "shut" THEN x
       ELSE IF f.dir /\ f.fault = "unread" THEN [x EXCEPT !.cwd = Append(@, Head(names))]
       ELSE Descend(root, Tail(names), path, tree, a, IF f.dir THEN [in EXCEPT !.cwd = Front(@)] ELSE x)

\* the acts of find top args, in a root directory
Answered(d) == [status |-> IF d.over THEN 2 ELSE 0, acts |-> d.acts]
Walked(root, top, a, p) ==
  IF p.err THEN [status |-> 1, acts |-> <<>>]
  ELSE Answered(Descend(root, <<top>>, <<>>, p.node, a, [cwd |-> <<>>, acts |-> <<>>, v |-> FALSE, tty |-> TRUE, over |-> FALSE]))
FindMain(root, top, a) == Walked(root, top, a, Parsed(a))
-----------------------------------------------------------------------------
(* The language: trees [op, l, r] over ["is", args, what, cmp, n]; op "" is  *)
(* the -a that may be left out.                                              *)
RECURSIVE Fits(_, _)
Fits(name, mask) ==
  IF mask = <<>> THEN name = <<>>
  ELSE CASE Head(mask) = "*" -> \E k \in 0..Len(name) : Fits(SubSeq(name, k + 1, Len(name)), Tail(mask))
         [] Head(mask) = "?" -> name # <<>> /\ Fits(Tail(name), Tail(mask))
         [] OTHER -> name # <<>> /\ Head(name) = Head(mask) /\ Fits(Tail(name), Tail(mask))

Grade(e) == CASE e.op = "is" -> 4 [] e.op = "!" -> 3 [] e.op \in {"", "-a"} -> 2 [] e.op = "-o" -> 1
RECURSIVE Spelled(_, _)
Spelled(e, row) ==
  LET text == CASE e.op = "is" -> e.args [] e.op = "!" -> <<"!">> \o Spelled(e.l, 4)
                [] OTHER -> Spelled(e.l, Grade(e) + 1) \o (IF e.op = "" THEN <<>> ELSE <<e.op>>) \o Spelled(e.r, Grade(e)) IN
  IF Grade(e) < row THEN <<"(">> \o text \o <<")">> ELSE text

RECURSIVE Judged(_, _, _)
\* whether the tree holds of a file, and the acts on the way
Judged(e, f, path) ==
  LET l == Judged(e.l, f, path)
      r == Judged(e.r, f, path)
      both == [v |-> r.v, acts |-> l.acts \o r.acts] IN
  CASE e.op = "!" -> [l EXCEPT !.v = ~@]
    [] e.op \in {"", "-a"} -> IF l.v THEN both ELSE l
    [] e.op = "-o" -> IF l.v THEN l ELSE both
    [] e.op = "is" /\ e.cmp = "act" -> [v |-> e.what # "false", acts |-> <<<<e.what, path>>>>]
    [] e.op = "is" /\ e.cmp # "act" ->
         [acts |-> <<>>, v |-> CASE e.cmp = ">" -> f.of[e.what] > e.n [] e.cmp = "<" -> f.of[e.what] < e.n
                                 [] e.cmp = "=" -> f.of[e.what] = e.n [] e.cmp = "dir" -> f.dir
                                 [] e.cmp = "named" -> Fits(Tokens[f.name].cs, e.mask)
                                 [] e.cmp = "has" -> e.bits \subseteq f.of["-perm"] [] e.cmp = "is" -> e.bits = f.of["-perm"]]

RECURSIVE ActsBelow(_, _, _)
ActsBelow(e, f, path) ==
  FoldLeft(LAMBDA acts, k : acts \o ActsBelow(e, k, Append(path, k.name)), Judged(e, f, path).acts, f.kids)
=============================================================================

------------------------------ MODULE ShellRun ------------------------------
(* A shell that reads a script line by line (main.c, parsex.c), what the     *)
(* script means, and how far the two agree.                                  *)
EXTENDS ShellExec

CONSTANT Scenarios   \* [lines, inter, skipex, nofork, nopipe, junk]: the fork and the pipe that fail

VARIABLES scen, sh, pos
vars == <<scen, sh, pos>>

\* the script itself is open on descriptor 3 (args.c, x_shproc)
StartFds == [i \in Fds |-> IF i \in 0..2 THEN <<"tty", "">> ELSE IF i = 3 THEN <<"script", "main">> ELSE Closed]
Fresh(sc) == [code |-> Alive, ret |-> 0, stat |-> 0, last |-> 0, dead |-> FALSE, cut |-> FALSE,
              brk |-> 0, cont |-> 0, inter |-> sc.inter, eflag |-> FALSE, tflag |-> FALSE,
              v |-> "", pos |-> <<"a", "b">>, rd |-> 1, trap |-> "", fds |-> StartFds,
              nofork |-> sc.nofork, nopipe |-> sc.nopipe, skipex |-> sc.skipex, junk |-> sc.junk, nf |-> 0, np |-> 0, kids |-> 0, who |-> <<>>,
              tr |-> <<>>, shifted |-> {}, iotxt |-> {}]

Init == /\ scen \in Scenarios
        /\ sh = Fresh(scen)
        /\ pos = 1

AtEnd == pos > Len(scen.lines) \/ sh.tflag
ReadLine == /\ Running(sh) /\ ~AtEnd
            /\ sh' = Line(sh, scen.lines[pos], TRUE)
            /\ pos' = pos + 1
            /\ UNCHANGED scen
\* main ends: the trap of signal 0, then exit
EndOfFile == /\ Running(sh) /\ AtEnd
             /\ sh' = ExitLeft(IF sh.trap = "" THEN sh ELSE Trap0(sh))
             /\ UNCHANGED <<scen, pos>>
Ended == ~Running(sh) /\ UNCHANGED vars

Next == ReadLine \/ EndOfFile \/ Ended
Spec == Init /\ [][Next]_vars
-----------------------------------------------------------------------------
(* What a script means: one stream per descriptor, no saving of processes,   *)
(* break and continue leave the loops they name.                             *)
Stopped(r) == r.over \/ r.brk > 0 \/ r.cont > 0
St(r, n) == [r EXCEPT !.st = n]
Over(r, n) == [r EXCEPT !.st = n % 256, !.over = TRUE]
\* the trace of a process that ran beside this one
Heard(r, c) == [r EXCEPT !.tr = c.tr, !.np = c.np]
Beside(r) == [r EXCEPT !.who = Append(@, r.kids + 1), !.kids = 0]

\* where the descriptors lead after the redirections; <<>> if a file cannot be opened
RECURSIVE Directed(_, _, _)
Directed(r, f, ios) ==
  IF ios = <<>> THEN f
  ELSE LET io == Head(ios)  txt == IF io.txt = "$v" THEN r.v ELSE io.txt IN
       IF io.k \in {"in", "out", "app"} /\ txt \in Missing THEN <<>>
       ELSE Directed(r, [f EXCEPT ![io.fd] = CASE io.k = "dup" -> f[io.fd2] [] io.k = "close" -> Closed
                                               [] OTHER -> <<io.k, txt>>], Tail(ios))

RECURSIVE Means(_, _)
RECURSIVE Script(_, _)
LinesAfter(t, lines) == IF t.once THEN t ELSE Script(t, lines)
Script(r, lines) == IF lines = <<>> \/ r.over THEN r ELSE LinesAfter(Means(r, Head(lines)), Tail(lines))
\* the lines of a file: a break beyond the outermost loop ends its line
File(r, lines) == FoldLeft(LAMBDA q, l : IF q.once THEN q ELSE Script([q EXCEPT !.brk = 0, !.cont = 0], <<l>>), r, lines)

Inner(r, c) == St([Heard(r, c) EXCEPT !.kids = c.kids], c.st)
Times(r, cmd) == Cardinality({i \in DOMAIN r.tr : r.tr[i].who = r.who /\ r.tr[i].args[1] = cmd})
Program(r, args, f) ==
  LET found == SelectSeq(Programs[args[1]], LAMBDA e : e # "ENOENT" /\ (e = "EACCES" => scen.skipex))
      ran == [r EXCEPT !.tr = Append(@, [who |-> r.who, args |-> args, f |-> f])] IN
  CASE f = <<>> -> St(r, 255)
    [] f # <<>> /\ found = <<>> -> St(r, IF Last(Programs[args[1]]) = "EACCES" THEN 13 ELSE 2)
    [] f # <<>> /\ found # <<>> /\ Head(found) = "ENOMEM" -> St(r, 12)
    [] f # <<>> /\ found # <<>> /\ Head(found) \in {"ENOEXEC", "EACCES"} ->
         IF args[1] \notin DOMAIN Texts THEN St(r, 255)
         ELSE Inner(r, File([r EXCEPT !.f = f, !.v = "", !.pos = Tail(args), !.st = 0, !.once = FALSE, !.piped = FALSE], Texts[args[1]]))
    [] OTHER -> St(ran, CASE args[1] = "f" -> 1 [] args[1] = "w" /\ Times(r, "w") >= 2 -> 1
                          [] args[1] = "k" -> 209 [] OTHER -> 0)

RECURSIVE Simple(_, _)
Level(args) == IF Len(args) = 1 THEN 1 ELSE Number(args[2])
Simple(r, node) ==
  LET args == SelectSeq([i \in DOMAIN node.cmd |-> IF node.cmd[i] = "$v" THEN r.v ELSE node.cmd[i]], LAMBDA w : w # "")
      f == Directed(r, r.f, node.io) IN
  IF args = <<>> THEN IF f = <<>> THEN St(r, 255) ELSE St(r, 0)
  ELSE CASE args[1] = "break" -> [St(r, 0) EXCEPT !.brk = Level(args)]
         [] args[1] = "continue" -> [St(r, 0) EXCEPT !.cont = Level(args)]
         [] args[1] = "exit" -> Over(r, IF Len(args) = 1 THEN r.st ELSE Level(args))
         [] args[1] = "exec" /\ Len(args) = 1 -> IF f = <<>> THEN St(r, 1) ELSE [St(r, 0) EXCEPT !.f = f]
         [] args[1] = "exec" /\ Len(args) > 1 -> [Simple(r, [node EXCEPT !.cmd = Tail(@)]) EXCEPT !.over = TRUE]
         [] args[1] = "login" -> [Program(r, args, f) EXCEPT !.over = TRUE]
         [] args[1] \in {"eval", "."} -> Script(St(r, 0), Texts[args[2]])
         [] args[1] = "set" -> St([r EXCEPT !.e = @ \/ args[2] = "-e", !.once = @ \/ args[2] = "-t",
                                            !.pos = IF args[2] \in {"-e", "-t"} THEN @ ELSE Tail(args)], 0)
         [] args[1] = "shift" -> [St(r, 0) EXCEPT !.pos = Tail(@)]
         [] args[1] = "read" -> IF r.rd = 0 THEN [St(r, -1) EXCEPT !.v = ""] ELSE [St(r, 0) EXCEPT !.v = "l", !.rd = 0]
         [] args[1] = "trap" -> [St(r, 0) EXCEPT !.trap = args[2]]
         [] args[1] = "cd" -> St(r, IF args[2] \in Missing THEN -1 ELSE 0)
         [] args[1] = ":" -> St(r, 0)
         [] OTHER -> Program(r, args, f)

\* a loop over turns: leave it, or go on with the next one
Left(r) == r.over \/ r.brk > 0 \/ r.cont > 1
Outside(r) == [r EXCEPT !.brk = IF @ > 0 THEN @ - 1 ELSE 0, !.cont = IF @ > 0 THEN @ - 1 ELSE 0]
Again(r) == [r EXCEPT !.cont = 0]

RECURSIVE Repeat(_, _, _)
AfterBody(b, node) == IF Left(b) THEN Outside(b) ELSE Repeat(Again(b), node, b.st)
AfterTest(c, node, st) ==
  IF c.over THEN c
  ELSE IF c.brk > 0 THEN St(Outside(c), 0)
  ELSE IF (c.st = 0) = (node.t = "until") THEN St(c, st) ELSE AfterBody(Means(c, node.do), node)
Repeat(r, node, st) == AfterTest(Means(r, node.cond), node, st)

RECURSIVE ForEach(_, _, _)
AfterWord(b, words, node) == IF b.over THEN b ELSE IF Left(b) THEN St(Outside(b), 0) ELSE ForEach(Again(b), words, node)
ForEach(r, words, node) ==
  IF words = <<>> THEN St(r, scen.junk) ELSE AfterWord(Means([r EXCEPT !.v = Head(words)], node.do), Tail(words), node)

Read(t, r) == [t EXCEPT !.f = r.f, !.piped = r.piped]
RightOf(r, c, p, node) == Means([Heard(r, c) EXCEPT !.kids = @ + 1, !.f[0] = <<"r", p>>, !.piped = TRUE], node.right)
OrElse(l, node) == IF Stopped(l) \/ (l.st = 0) = (node.t = "or") THEN l ELSE Means(l, node.right)
Either(c, node) == IF Stopped(c) THEN c ELSE Means(c, IF c.st = 0 THEN node.then ELSE node.else)
Node(r, node) ==
  CASE node.t = "simp" -> Simple(r, node)
    [] node.t = "group" -> Means(r, node.do)
    [] node.t = "sub" -> Inner(r, Means(r, node.do))
    [] node.t = "pipe" ->
         LET p == ToString(r.np + 1) IN
         Read(RightOf(r, Means([Beside(r) EXCEPT !.np = @ + 1, !.f[1] = <<"w", p>>], node.left), p, node), r)
    [] node.t \in {"and", "or"} ->
         OrElse(Means(r, node.left), node)
    [] node.t = "if" ->
         Either(Means(r, node.cond), node)
    [] node.t = "for" ->
         ForEach(r, IF node.words = <<>> THEN r.pos
                    ELSE SelectSeq([i \in DOMAIN node.words |-> IF node.words[i] = "$v" THEN r.v ELSE node.words[i]],
                                   LAMBDA w : w # ""), node)
    [] node.t \in {"while", "until"} -> Repeat(r, node, scen.junk)
    [] node.t = "case" ->
         LET w == IF node.word = "$v" THEN r.v ELSE node.word
             hit == SelectSeq(node.branches, LAMBDA b : b.keys \cap {w, "*"} # {}) IN
         IF hit = <<>> THEN St(r, 0) ELSE Means(r, Head(hit).do)

Checked(t) == IF t.e /\ t.st # 0 /\ ~t.over THEN Over(t, -1) ELSE t
Means(r, list) ==
  FoldLeft(LAMBDA q, node :
             IF Stopped(q) THEN q
             ELSE IF node.bg THEN [Heard(q, Means([Beside(q) EXCEPT !.f[0] = IF q.piped THEN @ ELSE <<"in", "null">>],
                                                  <<[node EXCEPT !.bg = FALSE]>>)) EXCEPT !.kids = @ + 1]
             ELSE Checked(Node(q, node)),
           St(r, 0), list)

Blank(sc) == [f |-> [i \in 0..2 |-> <<"tty", "">>], tr |-> <<>>, st |-> 0, v |-> "", pos |-> <<"a", "b">>, rd |-> 1,
              np |-> 0, piped |-> FALSE, kids |-> 0, who |-> <<>>, brk |-> 0, cont |-> 0, over |-> FALSE, e |-> FALSE, once |-> FALSE, trap |-> ""]
Trapped(r) == IF r.over \/ r.trap = "" THEN r ELSE Script(r, Texts[r.trap])
Meaning(sc) == Trapped(File(Blank(sc), sc.lines))
-----------------------------------------------------------------------------
(* Properties *)
Events == [i \in DOMAIN sh.tr |-> [who |-> sh.tr[i].who, args |-> sh.tr[i].args, f |-> [j \in 0..2 |-> sh.tr[i].fds[j]]]]
Finished == ~Running(sh)
Plain == ~scen.inter /\ scen.nofork = 0 /\ scen.nopipe = 0

\* A script runs the commands it names, in order, in the processes and on the
\* files and pipes it names, and each finds whether the one before succeeded:
\* the exec in place of a last command and the levels of break and continue
\* lose and add nothing (x_simple.c:69, x_andor.c:29, x_for.c:44).
RunsAsWritten == (Finished /\ Plain) => Events = Meaning(scen).tr

\* Between two lines the shell holds the descriptors it began with and no end
\* of a pipe, redirections of exec apart, though a fork or a pipe failed on the way.
FdsKept == Running(sh) => \A i \in Fds \ 0..2 : sh.fds[i] = StartFds[i]

\* A command that reads a pipe sees its end: neither it nor the shell that
\* waits for it holds the writing end (x_pipe.c:52).
ReaderSeesEnd == \A i \in DOMAIN sh.tr : LET e == sh.tr[i] IN
  e.fds[0][1] = "r" => <<"w", e.fds[0][2]>> \notin Range(e.fds) \cup Range(e.held)
=============================================================================

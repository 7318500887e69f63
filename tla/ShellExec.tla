------------------------------ MODULE ShellExec ------------------------------
(* The shell executes a parsed command list: bin_cmdsrc/sh/x_*.c, execute.c, *)
(* filehdl.c. Each function takes the state of the shell process that runs   *)
(* it and returns the state it leaves; a child is run where it is forked,    *)
(* from a copy. What the children do is noted in order in the trace tr: the  *)
(* interleaving of processes is the matter of ShellWait.                     *)
EXTENDS Integers, Sequences, FiniteSets, FiniteSetsExt, SequencesExt, TLC

CONSTANTS Fds,       \* the file descriptors of a process
          Texts,     \* name -> command lines, of scripts, eval arguments and traps
          Programs,  \* command -> what execve says of it in each directory of PATH
          Missing    \* names of files that cannot be opened

Alive == -1          \* value of code while the process runs
Signalled == 1000    \* code of a process that a signal ended, plus its number
Closed == <<"closed", "">>

Running(s) == s.code = Alive
Ret(s, v) == [s EXCEPT !.ret = v]
Exit(s, v) == [s EXCEPT !.code = v % 256]
\* the status word of wait(2)
Raw(c) == IF c.code >= Signalled THEN c.code - Signalled ELSE 256 * c.code

CanFork(s) == s.nf + 1 # s.nofork
CanPipe(s) == s.np + 1 # s.nopipe
Forked(s) == [s EXCEPT !.nf = @ + 1]
\* what the parent s knows after its child ended as c
After(s, c) == [s EXCEPT !.tr = c.tr, !.nf = c.nf, !.np = c.np]
Waited(s, c) == [After(s, c) EXCEPT !.kids = c.kids]
\* a child that the parent does not wait for has a name of its own
Apart(s) == [s EXCEPT !.who = Append(s.who, s.kids + 1), !.kids = 0]
-----------------------------------------------------------------------------
(* File descriptors *)
Lowest(fds) == Min({i \in Fds : fds[i] = Closed})
clfile(s, fd) == [s EXCEPT !.fds[fd] = Closed]
Opened(s, d) == [s EXCEPT !.fds[Lowest(s.fds)] = d]

\* dup until the wanted descriptor is hit, then close the others
RECURSIVE synon(_, _, _)
synon(s, fd1, fd2) ==
  IF fd1 = fd2 \/ s.fds[fd2] = Closed THEN s
  ELSE LET f == Lowest(s.fds)
           d == Opened(s, s.fds[fd2]) IN
       IF f = fd1 THEN d ELSE clfile(synon(d, fd1, fd2), f)

redirect(s, fd1, fd2) == synon(IF fd1 # fd2 THEN clfile(s, fd1) ELSE s, fd1, fd2)

\* the descriptor is closed before the open is tried
FileOpen(s, d, ok, fd) ==
  LET c == clfile(s, fd)  f == Lowest(c.fds) IN
  IF ~ok THEN Ret(c, -1)
  ELSE IF f = fd THEN Ret(Opened(c, d), fd)
  ELSE Ret(clfile(synon(Opened(c, d), fd, f), f), fd)

Expand(s, w) == IF w = "$v" THEN s.v ELSE w
argcrunch(s, words) == SelectSeq([i \in DOMAIN words |-> Expand(s, words[i])], LAMBDA w : w # "")

\* the text of an io node is expanded in place, once
IoText(s, io) ==
  LET old == {x \in s.iotxt : x[1] = io.id} IN
  IF old # {} THEN (CHOOSE x \in old : TRUE)[2] ELSE Expand(s, io.txt)

\* Mutant: a file that cannot be opened does not stop the command
XIoGoesOn(s, io) ==
  LET txt == IoText(s, io)
      t == [s EXCEPT !.iotxt = {x \in @ : x[1] # io.id} \cup {<<io.id, txt>>}] IN
  Ret(FileOpen(t, <<io.k, txt>>, txt \notin Missing, io.fd), TRUE)

Whether(o) == Ret(o, o.ret # -1)
XIo1(s, io) ==
  LET txt == IoText(s, io)
      t == [s EXCEPT !.iotxt = {x \in @ : x[1] # io.id} \cup {<<io.id, txt>>}] IN
  CASE io.k \in {"in", "out", "app"} ->
         Whether(FileOpen(t, <<io.k, txt>>, txt \notin Missing, io.fd))
    [] io.k = "doc" ->     \* a child writes the document into a pipe; if fork fails there is none
         LET p == Opened(t, <<"doc", IF CanFork(t) THEN txt ELSE "">>)
             r == Lowest(t.fds) IN
         Ret(clfile(redirect(Forked(p), io.fd, r), r), TRUE)
    [] io.k = "dup" -> Ret(redirect(t, io.fd, io.fd2), TRUE)
    [] io.k = "close" -> Ret(clfile(t, io.fd), TRUE)

\* the io nodes in order, up to the first that fails
XIo(s, ios) == FoldLeft(LAMBDA t, io : IF t.ret THEN XIo1(t, io) ELSE t, Ret(s, TRUE), ios)
-----------------------------------------------------------------------------
(* Commands *)
BuiltIns == {":", "cd", "break", "continue", "eval", ".", "exec", "exit", "login", "set", "trap", "read", "shift", "wait"}
Number(w) == IF w \in {"0", "1", "2", "3"} THEN CHOOSE n \in 0..3 : ToString(n) = w ELSE -1

Ran(s, cmd) == Cardinality({i \in DOMAIN s.tr : s.tr[i].who = s.who /\ s.tr[i].args[1] = cmd})
\* how a program ends: "w" succeeds twice, "k" is killed by signal 9
Outcome(s, cmd) == CASE cmd = "f" -> 1 [] cmd = "w" /\ Ran(s, cmd) >= 2 -> 1
                     [] cmd = "k" -> Signalled + 9 [] OTHER -> 0

\* execve succeeds: the program takes the descriptors of the process
Image(s, args, held) ==
  [s EXCEPT !.code = Outcome(s, args[1]),
            !.tr = Append(@, [who |-> s.who, args |-> args, fds |-> s.fds, held |-> held])]

RECURSIVE XNodes(_, _, _, _)
XCmdlist(s, list, in, out) == XNodes([s EXCEPT !.stat = 0], list, in, out)

\* one line of a file: levels are reset at the top only
Line(s, line, top) == XCmdlist(IF top THEN [s EXCEPT !.brk = 0, !.cont = 0] ELSE s, line, 0, 1)

RECURSIVE Parsex(_, _, _)
Parsex(s, lines, top) ==
  IF lines = <<>> \/ ~Running(s) THEN s
  ELSE LET t == Line(s, Head(lines), top) IN
       IF t.tflag THEN t ELSE Parsex(t, Tail(lines), top)

\* a child writes the words or the trap into a pipe that this shell reads
ReadOut(s, t) == IF Running(t) THEN [clfile(t, Lowest(s.fds)) EXCEPT !.inter = s.inter] ELSE t
FromPipe(s, lines) ==
  ReadOut(s, Parsex([Opened(Forked(s), <<"words", "">>) EXCEPT !.inter = FALSE, !.ret = 0], lines, FALSE))

Trap0(s) == IF CanFork(s) THEN FromPipe(s, Texts[s.trap]) ELSE Ret(Forked(s), 0)

\* a shell procedure; in a subshell only exported variables stay
ProcEnd(s, t) == IF Running(t) THEN [clfile(t, Lowest(s.fds)) EXCEPT !.inter = s.inter, !.dead = s.dead] ELSE t
ShProc(s, args, sub) ==
  IF args[1] \notin DOMAIN Texts THEN Ret(s, -1)
  ELSE LET old == IF sub THEN <<>> ELSE s.pos
           new == Tail(args)
           o == [Opened(s, <<"script", args[1]>>) EXCEPT
                   !.v = IF sub THEN "" ELSE @, !.inter = FALSE, !.dead = FALSE, !.ret = 0,
                   !.pos = new \o SubSeq(old, Len(new) + 1, Len(old))] IN
       ProcEnd(s, Parsex(o, Texts[args[1]], sub))

\* the directories of PATH in turn; the error of the last one counts.  A shell that
\* was given a command reads a file without the right to execute it as a procedure
RECURSIVE Search(_, _, _, _)
Search(s, args, dirs, held) ==
  CASE Head(dirs) = "ok" -> Image(s, args, held)
    [] Head(dirs) = "ENOEXEC" \/ (Head(dirs) = "EACCES" /\ s.skipex) -> ShProc(s, args, TRUE)
    [] Tail(dirs) # <<>> /\ (Head(dirs) = "ENOENT" \/ (Head(dirs) = "EACCES" /\ ~s.skipex)) -> Search(s, args, Tail(dirs), held)
    [] Tail(dirs) = <<>> /\ Head(dirs) = "ENOENT" -> Ret(s, 2)
    [] Tail(dirs) = <<>> /\ Head(dirs) = "EACCES" /\ ~s.skipex -> Ret(s, 13)
    [] Head(dirs) = "ENOMEM" -> Ret(s, 12)

Execute(s, args, sub, held) ==
  IF args = <<>> THEN Ret(s, 0)
  ELSE IF ~sub THEN ShProc(s, args, FALSE)
  ELSE Search(s, args, Programs[args[1]], held)
-----------------------------------------------------------------------------
(* Simple commands *)

\* the process becomes the command: redirections, assignments, exec
ExitLeft(e) == IF Running(e) THEN Exit(e, e.ret) ELSE e
Executed(x, args, held) == IF x.ret THEN ExitLeft(Execute(x, args, TRUE, held)) ELSE Exit(x, -1)
Become(s, io, args, in, out, held) ==
  Executed(XIo(redirect(redirect([s EXCEPT !.inter = FALSE], 0, in), 1, out), io), args, held)

ChildStatus(c) == IF c.code >= Signalled THEN 200 + c.code - Signalled ELSE c.code

Reaped(s, c) == Ret(Waited(s, c), ChildStatus(c))

\* Mutant: fork is saved whenever the process is to end after its list
SpawnexEarly(s, io, args, last, in, out) ==
  IF s.dead THEN Become(s, io, args, in, out, s.fds)
  ELSE IF ~CanFork(s) THEN Ret(Forked(s), -1)
  ELSE Reaped(s, Become(Forked(s), io, args, in, out, s.fds))

\* with nothing left to do the process need not fork
Spawnex(s, io, args, last, in, out) ==
  IF s.dead /\ last THEN Become(s, io, args, in, out, s.fds)
  ELSE IF ~CanFork(s) THEN Ret(Forked(s), -1)
  ELSE Reaped(s, Become(Forked(s), io, args, in, out, s.fds))

SetFlags(s, w) == CASE w = "-e" -> [s EXCEPT !.eflag = TRUE] [] w = "-t" -> [s EXCEPT !.tflag = TRUE] [] OTHER -> s

RECURSIVE XSimple(_, _, _, _, _)

Redirected(x) == Ret(x, IF x.ret THEN 0 ELSE 1)

\* the built-ins that decide what runs next
Control(s, node, args, in, out) ==
  LET c == args[1]
      a == Tail(args)
      n == IF a = <<>> THEN 1 ELSE Number(a[1]) IN
  CASE c = "." -> IF node.io # <<>> THEN Ret(s, -1) ELSE Execute(s, a, FALSE, s.fds)
    [] c \in {"break", "continue", "exit"} /\ a # <<>> /\ n < 0 /\ ~(c = "exit" /\ s.inter) -> Ret(s, -1)
    [] c = "break" /\ n >= 0 -> Ret([s EXCEPT !.brk = n], 0)
    [] c = "continue" /\ n >= 0 -> Ret([s EXCEPT !.cont = n], 0)
    [] c = "eval" -> IF CanFork(s) THEN FromPipe(s, Texts[a[1]])
                     ELSE Ret(Opened(Opened(Forked(s), <<"words", "">>), <<"to words", "">>), -1)
    [] c = "exec" /\ a # <<>> ->
         [XSimple([s EXCEPT !.dead = TRUE], [node EXCEPT !.cmd = Tail(@)], TRUE, in, out) EXCEPT !.cut = TRUE]
    [] c = "exec" /\ a = <<>> ->
         Redirected(XIo([s EXCEPT !.shifted = @ \cup {node.id}], node.io))
    [] c = "exit" /\ s.inter -> Ret(s, 0)
    [] c = "exit" /\ ~s.inter /\ n >= 0 -> Exit(s, IF a = <<>> THEN s.stat ELSE n)

XIntrn(s, node, args, in, out) ==
  LET c == args[1]
      a == Tail(args) IN
  CASE c = "cd" -> Ret(s, IF node.io # <<>> \/ Range(a) \cap Missing # {} THEN -1 ELSE 0)
    [] c = "set" ->
         LET opt == a # <<>> /\ a[1] \in {"-e", "-t", "-"}
             pos == IF opt THEN Tail(a) ELSE a IN
         Ret([IF opt THEN SetFlags(s, a[1]) ELSE s EXCEPT !.pos = IF pos = <<>> THEN @ ELSE pos], 0)
    [] c = "read" -> IF s.rd = 0 THEN Ret([s EXCEPT !.v = ""], -1) ELSE Ret([s EXCEPT !.v = "l", !.rd = @ - 1], 0)
    [] c = "shift" -> Ret([s EXCEPT !.pos = IF @ = <<>> THEN @ ELSE Tail(@)], 0)
    [] c = "trap" -> Ret([s EXCEPT !.trap = IF Len(a) = 1 THEN "" ELSE a[1]], 0)
    [] c \in {":", "wait"} -> Ret(s, 0)
    [] OTHER -> Control(s, node, args, in, out)

\* last: the node has no successor
XSimple(s, node, last, in, out) ==
  LET cmd == IF node.id \in s.shifted THEN <<>> ELSE node.cmd
      args == argcrunch(s, cmd) IN
  IF cmd = <<>> /\ node.io = <<>> THEN Ret(s, 0)
  ELSE IF args = <<>> \/ args[1] \notin BuiltIns THEN Spawnex(s, node.io, args, last, in, out)
  ELSE IF args[1] = "login" THEN Spawnex([s EXCEPT !.dead = TRUE], node.io, args, TRUE, in, out)
  ELSE XIntrn(s, node, args, in, out)
-----------------------------------------------------------------------------
(* Control structures; dead is kept back while anything may follow *)

\* the two ends of a pipe
ReadEnd(s) == Lowest(s.fds)
Half(s) == Opened(s, <<"r", ToString(s.np + 1)>>)
WriteEnd(s) == Lowest(Half(s).fds)
BothEnds(s) == Forked([Opened(Half(s), <<"w", ToString(s.np + 1)>>) EXCEPT !.np = @ + 1])
Writer(s, node, in) == XCmdlist([Apart(clfile(BothEnds(s), ReadEnd(s))) EXCEPT !.inter = FALSE], node.left, in, WriteEnd(s))
NoPipe(s) == Ret([IF CanPipe(s) THEN Forked(s) ELSE s EXCEPT !.np = @ + 1], -1)
Detached(p, c) == [After(p, c) EXCEPT !.kids = @ + 1]
ClosedIn(t, fds) == IF Running(t) THEN [t EXCEPT !.fds = [i \in Fds |-> IF i \in fds THEN Closed ELSE @[i]]] ELSE t

\* Mutant: the reader keeps the writing end of the pipe
XPipeHolds(s, node, in, out) ==
  IF ~(CanPipe(s) /\ CanFork(s)) THEN NoPipe(s)
  ELSE ClosedIn(XCmdlist(Detached(BothEnds(s), Writer(s, node, in)), node.right, ReadEnd(s), out), {ReadEnd(s), WriteEnd(s)})
\* Mutant: the reading end stays open in the shell
XPipeLeaks(s, node, in, out) ==
  IF ~(CanPipe(s) /\ CanFork(s)) THEN NoPipe(s)
  ELSE XCmdlist(clfile(Detached(BothEnds(s), Writer(s, node, in)), WriteEnd(s)), node.right, ReadEnd(s), out)
\* a child writes the pipe, this process reads it
XPipe(s, node, in, out) ==
  IF ~(CanPipe(s) /\ CanFork(s)) THEN NoPipe(s)
  ELSE ClosedIn(XCmdlist(clfile(Detached(BothEnds(s), Writer(s, node, in)), WriteEnd(s)), node.right, ReadEnd(s), out), {ReadEnd(s)})

Short(l, node) == (l.ret = 0) = (node.t = "or")
AndorRest(d, node, in, out) ==
  IF ~Short(d, node) THEN XCmdlist(d, node.right, in, out) ELSE IF d.dead THEN Exit(d, d.ret) ELSE d
AndorLeft(l, dead, node, in, out) ==
  IF Running(l) THEN AndorRest([l EXCEPT !.dead = dead], node, in, out) ELSE l
\* Mutant: the left member may take the place of the process
XAndorDies(s, node, in, out) == AndorLeft(XCmdlist(s, node.left, in, out), s.dead, node, in, out)
XAndor(s, node, in, out) == AndorLeft(XCmdlist([s EXCEPT !.dead = FALSE], node.left, in, out), s.dead, node, in, out)

Branch(c, node, in, out) ==
  IF c.ret # 0 /\ node.else = <<>> THEN Ret(c, 0) ELSE XCmdlist(c, IF c.ret = 0 THEN node.then ELSE node.else, in, out)
Decided(c, dead, node, in, out) == IF Running(c) THEN [Branch(c, node, in, out) EXCEPT !.dead = dead] ELSE c
XIf(s, node, in, out) == Decided(XCmdlist([s EXCEPT !.dead = FALSE], node.cond, in, out), s.dead, node, in, out)

\* Mutant: continue n leaves n loops, as break does
UnnestAll(b) == IF b.brk > 0 THEN [leave |-> TRUE, s |-> [b EXCEPT !.brk = @ - 1]]
                ELSE IF b.cont > 0 THEN [leave |-> TRUE, s |-> [b EXCEPT !.cont = @ - 1]]
                ELSE [leave |-> FALSE, s |-> b]

\* after a turn of a loop: leave it?
Unnest(b) == IF b.brk > 0 THEN [leave |-> TRUE, s |-> [b EXCEPT !.brk = @ - 1]]
             ELSE IF b.cont > 0 THEN [leave |-> b.cont > 1, s |-> [b EXCEPT !.cont = @ - 1]]
             ELSE [leave |-> FALSE, s |-> b]

\* the value is that of the last turn, and garbage without one
RECURSIVE Turns(_, _, _, _, _)
Turned(u, value, node, in, out) == IF u.leave THEN Ret(u.s, value) ELSE Turns(u.s, node, in, out, value)
Body(b, node, in, out) == IF Running(b) THEN Turned(Unnest(b), b.ret, node, in, out) ELSE b
Tested(c, node, in, out, a) ==
  IF ~Running(c) THEN c
  ELSE IF (c.ret = 0) = (node.t = "until") THEN Ret(c, a)
  ELSE Body(XCmdlist(c, node.do, in, out), node, in, out)
Turns(s, node, in, out, a) == Tested(XCmdlist(s, node.cond, in, out), node, in, out, a)

XWhile(s, node, in, out) == [Turns([s EXCEPT !.dead = FALSE], node, in, out, s.junk) EXCEPT !.dead = s.dead]
XUntil(s, node, in, out) == [Turns([s EXCEPT !.dead = FALSE], node, in, out, s.junk) EXCEPT !.dead = s.dead]

\* the end of the list returns no value at all
RECURSIVE Each(_, _, _, _, _)
EachOn(u, dead, words, node, in, out) ==
  IF u.leave THEN Ret([u.s EXCEPT !.dead = dead], 0) ELSE Each([u.s EXCEPT !.dead = dead], words, node, in, out)
EachDone(b, dead, words, node, in, out) == IF Running(b) THEN EachOn(Unnest(b), dead, words, node, in, out) ELSE b
Each(s, words, node, in, out) ==
  IF words = <<>> THEN Ret(s, s.junk)
  ELSE EachDone(XCmdlist([s EXCEPT !.v = Head(words), !.dead = FALSE], node.do, in, out), s.dead, Tail(words), node, in, out)

XFor(s, node, in, out) == Each(s, IF node.words = <<>> THEN s.pos ELSE argcrunch(s, node.words), node, in, out)

XCase(s, node, in, out) ==
  LET fits == {i \in DOMAIN node.branches : Expand(s, node.word) \in node.branches[i].keys
                                            \/ "*" \in node.branches[i].keys} IN
  IF fits = {} THEN Ret(s, 0) ELSE XCmdlist(s, node.branches[Min(fits)].do, in, out)

SubEnded(s, d) == Ret(Waited(s, d), Raw(d))
XSub(s, node, in, out) ==
  IF CanFork(s) THEN SubEnded(s, ExitLeft(XCmdlist(Forked(s), node.do, in, out))) ELSE Ret(Forked(s), -1)

XNode(s, node, last, in, out) ==
  CASE node.t = "simp" -> XSimple(s, node, last, in, out)
    [] node.t = "sub" -> XSub(s, node, in, out)
    [] node.t = "group" -> XCmdlist(s, node.do, in, out)
    [] node.t = "pipe" -> XPipe(s, node, in, out)
    [] node.t \in {"and", "or"} -> XAndor(s, node, in, out)
    [] node.t = "if" -> XIf(s, node, in, out)
    [] node.t = "for" -> XFor(s, node, in, out)
    [] node.t = "while" -> XWhile(s, node, in, out)
    [] node.t = "until" -> XUntil(s, node, in, out)
    [] node.t = "case" -> XCase(s, node, in, out)

\* the child of a background command: it dies after its node.  (/dev/null can be opened.)
Background(s, node, in, out) ==
  XNodes(FileOpen([Apart(Forked(s)) EXCEPT !.dead = TRUE], <<"in", "null">>, TRUE, 0), <<[node EXCEPT !.bg = FALSE]>>, in, out)

Going(u, cut, rest, in, out) ==
  IF u.stat # 0 /\ ~u.inter /\ u.eflag THEN Exit(u, -1) ELSE XNodes(u, IF cut THEN <<>> ELSE rest, in, out)
Onward(t, rest, in, out) ==
  IF Running(t) THEN Going([t EXCEPT !.stat = t.ret, !.last = t.ret, !.cut = FALSE], t.cut, rest, in, out) ELSE t
XNodes(s, list, in, out) ==
  IF list = <<>> THEN IF s.dead THEN Exit(s, s.stat) ELSE Ret(s, s.stat)
  ELSE IF s.cont > 0 \/ s.brk > 0 THEN Ret(s, 0)
  ELSE LET node == Head(list)  rest == Tail(list) IN
       IF ~node.bg THEN Onward(XNode(s, node, rest = <<>>, in, out), rest, in, out)
       ELSE IF CanFork(s) THEN XNodes(Detached(s, Background(s, node, in, out)), rest, in, out)
       ELSE Ret(Forked(s), -1)
=============================================================================

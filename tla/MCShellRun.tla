----------------------------- MODULE MCShellRun -----------------------------
(* Scripts of every construct over commands that succeed (t), fail (f),      *)
(* succeed twice (w), are killed (k) or print $v (p).                        *)
EXTENDS ShellRun

Cmd(words) == [t |-> "simp", id |-> 0, bg |-> FALSE, cmd |-> words, io |-> <<>>]
Io(words, ios) == [Cmd(words) EXCEPT !.io = ios]
Exec(id, io) == [Io(<<"exec">>, <<io>>) EXCEPT !.id = id]
Dir(id, k, fd, txt) == [id |-> id, k |-> k, fd |-> fd, txt |-> txt, fd2 |-> 1]
T == Cmd(<<"t">>)   F == Cmd(<<"f">>)   W == Cmd(<<"w">>)   K == Cmd(<<"k">>)   P == Cmd(<<"p", "$v">>)
Brk == Cmd(<<"break">>)   Brk2 == Cmd(<<"break", "2">>)   Cnt == Cmd(<<"continue">>)   Cnt2 == Cmd(<<"continue", "2">>)
Bg(n) == [n EXCEPT !.bg = TRUE]
Two(k, l, r) == [t |-> k, bg |-> FALSE, left |-> <<l>>, right |-> <<r>>]
Grp(k, list) == [t |-> k, bg |-> FALSE, do |-> list]
If(c, a, b) == [t |-> "if", bg |-> FALSE, cond |-> c, then |-> a, else |-> b]
Loop(k, c, d) == [t |-> k, bg |-> FALSE, cond |-> c, do |-> d]
For(ws, d) == [t |-> "for", bg |-> FALSE, words |-> ws, do |-> d]
Case(w, bs) == [t |-> "case", bg |-> FALSE, word |-> w, branches |-> bs]

MCFds == 0..9
MCMissing == {"gone", "nodir"}
Ok == <<"ok">>
MCPrograms == ("t" :> Ok) @@ ("f" :> Ok) @@ ("w" :> Ok) @@ ("k" :> Ok) @@ ("p" :> <<"ENOENT", "ok">>) @@ ("login" :> Ok)
   @@ ("n" :> <<"ENOENT", "ENOENT">>) @@ ("x" :> <<"ENOENT", "EACCES">>) @@ ("y" :> <<"EACCES", "ok">>)
   @@ ("big" :> <<"ENOMEM", "ok">>) @@ ("proc" :> <<"EACCES", "ENOEXEC">>)
MCTexts == ("proc" :> <<<<P, Cmd(<<"shift">>), For(<<>>, <<P>>)>>, <<Cmd(<<"exit", "2">>), T>>>>)
   @@ ("src" :> <<<<P, T>>, <<F>>>>) @@ ("ev" :> <<<<F, Two("and", T, P)>>>>) @@ ("evb" :> <<<<Brk>>>>) @@ ("bye" :> <<<<P>>>>)

\* pieces
Small == {T, F, W, P}
Ends == {K, Cmd(<<"exec", "t">>), Cmd(<<"exec", "n">>), Cmd(<<"exec", "cd", "gone">>), Cmd(<<"exec", "exec", "f">>), Cmd(<<"exit">>), Cmd(<<"exit", "1">>),
         Cmd(<<"n">>), Cmd(<<"x">>), Cmd(<<"y">>), Cmd(<<"big">>), Cmd(<<"proc", "c", "d">>), Cmd(<<"eval", "ev">>),
         Cmd(<<".", "src">>), Cmd(<<"login">>), Cmd(<<"exec", "eval", "ev">>), Cmd(<<"$v">>)}
Ios == {Io(<<"t">>, <<Dir(1, "in", 0, "i"), Dir(2, "out", 1, "o")>>), Io(<<"t">>, <<Dir(1, "out", 1, "o"), [Dir(2, "dup", 2, "") EXCEPT !.fd2 = 1]>>),
        Io(<<"t">>, <<[Dir(1, "dup", 2, "") EXCEPT !.fd2 = 1], Dir(2, "app", 1, "o")>>),
        Io(<<"t">>, <<Dir(1, "in", 0, "gone")>>), Io(<<>>, <<Dir(1, "out", 1, "o")>>), Io(<<"t">>, <<Dir(1, "doc", 0, "d"), Dir(2, "close", 2, "")>>),
        Io(<<"exec", "t">>, <<Dir(1, "out", 2, "o")>>), Exec(1, Dir(11, "out", 1, "o")), Exec(2, Dir(12, "doc", 0, "d"))}
Levels == {Brk, Brk2, Cnt, Cnt2}
Simples == Small \cup Ends \cup Ios

Pairs(A, B) == {<<a, b>> : a \in A, b \in B}
Compound(A) ==
  {Grp("sub", l) : l \in Pairs(A, {T, F})} \cup {Grp("group", l) : l \in Pairs({F, P}, A)}
  \cup {Two(k, a, b) : k \in {"and", "or", "pipe"}, a \in A, b \in {T, F}} \cup {Two(k, a, b) : k \in {"and", "or"}, a \in {T, F}, b \in A}
  \cup {If(<<a>>, <<P>>, <<T>>) : a \in A} \cup {If(<<T>>, <<a>>, <<>>) : a \in A} \cup {If(<<F>>, <<>>, <<a>>) : a \in A}
  \cup {Case("$v", <<[keys |-> {"x", "y"}, do |-> <<F>>], [keys |-> {"*"}, do |-> <<a>>]>>) : a \in A}
  \cup {For(<<"x", "y">>, <<a, P>>) : a \in A} \cup {Loop("while", <<W>>, <<P, a>>) : a \in A}
Piped(n) == n.t = "simp" /\ n.cmd \notin {<<>>, <<"exec">>} /\ Head(n.cmd) \notin {"eval", "."} /\ (Len(n.cmd) > 1 => n.cmd[2] # "eval")
Readers(A) == {Two("pipe", a, b) : a \in {P, K}, b \in A}
Loops(A) ==
  {For(<<"x", "y">>, <<If(<<a>>, <<b>>, <<T>>), P>>) : a \in {T, W}, b \in A}
  \cup {Loop("while", <<T, W>>, <<For(<<"x", "y">>, <<b, P>>), T>>) : b \in A}
  \cup {Loop("until", <<F>>, <<P, Loop("while", <<W>>, <<a, P>>), b>>) : a \in A, b \in {Brk}}
  \cup {Loop("while", <<W, b>>, <<P>>) : b \in {Brk}}
  \cup {For(<<"x", "y">>, <<Two("or", F, b), P>>) : b \in A} \cup {For(<<"$v", "y">>, <<Two("pipe", P, b), P>>) : b \in A}

One == {n \in Compound(Simples) : ~(n.t = "pipe" /\ ~Piped(n.left[1]))}
\* eval runs lines of its own between the turns of a loop; its pipe is not closed when its fork fails
Evals == {Cmd(<<"eval", "ev">>), Cmd(<<"exec", "eval", "ev">>)}
EvalBreaks == For(<<"x", "y">>, <<For(<<"c">>, <<Cmd(<<"eval", "evb">>), P>>), T>>)
Deep == Compound({Two("pipe", T, Two("pipe", P, F)), Two("and", F, Cmd(<<"exec", "t">>)), Grp("sub", <<F, Cmd(<<"exit">>)>>),
                  Grp("group", <<Bg(P), F>>), Exec(3, Dir(13, "in", 0, "i")), For(<<>>, <<P>>)})
Flat == {<<a, P>> : a \in Simples} \cup {<<Cmd(<<"set", "-e">>), a, P>> : a \in Simples}
\* a background child ends with the first inner list that ends in it
LosesRest(n) == n.t = "sub" /\ (n.do[1].t \in {"pipe", "group", "and", "or"} \/ n.do[1] = Cmd(<<"eval", "ev">>))
\* lines: a construct and what follows it, in the foreground or beside the shell
MCLines ==
  {<<l>> : l \in Flat} \cup {<<<<n, P>>>> : n \in One \cup Deep \cup Loops(Levels) \cup {EvalBreaks} \cup Readers({n \in Simples : Piped(n)})}
  \cup {<<<<Bg(n), P>>>> : n \in {m \in One \cup Deep : ~LosesRest(m)}} \cup {<<<<n>>, <<T>>>> : n \in Loops(Levels)}
  \cup {<<<<Cmd(<<"trap", "bye", "0">>), Cmd(<<"set", "c">>)>>, <<Cmd(<<"read">>), P>>, <<Cmd(<<"read">>), P>>>>,
        <<<<Cmd(<<"read">>), Exec(4, Dir(14, "app", 1, "$v")), P>>>>, <<<<Cmd(<<"set", "-t">>)>>, <<P>>>>, <<<<Cmd(<<"cd", "gone">>)>>, <<Cmd(<<"exit">>)>>>>}

MCScenarios ==
  {[lines |-> l, inter |-> FALSE, skipex |-> FALSE, nofork |-> 0, nopipe |-> 0, junk |-> j] : l \in MCLines, j \in {0, 1}}
  \cup {[lines |-> <<<<n, P>>, <<T>>>>, inter |-> i, skipex |-> FALSE, nofork |-> k, nopipe |-> 0, junk |-> 0] :
          n \in {m \in One : m \notin Compound(Evals)} \cup Deep \cup Loops(Levels),
          i \in BOOLEAN, k \in 1..4}
  \cup {[lines |-> <<<<n, P>>, <<T>>>>, inter |-> i, skipex |-> FALSE, nofork |-> 0, nopipe |-> k, junk |-> 0] :
          n \in {m \in One : m.t = "pipe"} \cup Deep, i \in BOOLEAN, k \in 1..2}
  \* a shell that was given the command line as its argument
  \cup {[lines |-> <<<<n, P>>>>, inter |-> FALSE, skipex |-> TRUE, nofork |-> 0, nopipe |-> 0, junk |-> 0] : n \in One}

\* exit after a subshell, or after any other command
MCStatus == {[lines |-> <<<<n, Cmd(<<"exit">>)>>>>, inter |-> FALSE, skipex |-> FALSE, nofork |-> 0, nopipe |-> 0, junk |-> 0] :
               n \in Small \cup {K} \cup {Grp(k, <<m>>) : k \in {"sub", "group"}, m \in {T, F, Cmd(<<"exit", "2">>)}}}
  \cup {[lines |-> <<<<n>>, <<m>>>>, inter |-> FALSE, skipex |-> FALSE, nofork |-> 0, nopipe |-> 0, junk |-> 0] : n \in Small, m \in Simples}
=============================================================================

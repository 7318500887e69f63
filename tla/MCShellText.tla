----------------------------- MODULE MCShellText -----------------------------
(* Lines of every construct, short texts of tokens, words, lists of calls.    *)
EXTENDS ShellText, TLC

MCAscii == <<"TAB", "NL", " ", "!", "#", "$", "*", "-", ".", "/", "0", "1", "2", "3", "4", "5", "6", "7", "8", "9", "=", "?", "@", "[", "]", "a", "b", "c", "d", "x", "y">>
MCOutputs == (<<"a">> :> <<"a", " ", "c", "NL", "NL">>) @@ (<<"b">> :> <<"b", "NL">>)
MCDirs == (<<".">> :> <<<<"b">>, <<"a", "b">>, <<"a">>, <<".", "a">>, <<"d">>>>) @@ (<<"d">> :> <<<<"b">>, <<"a">>>>)
          @@ (<<"/">> :> <<<<"d">>, <<"c">>>>) @@ (<<"/", "d">> :> <<<<"c">>>>)
Upto(A, n) == UNION {[1..k -> A] : k \in 0..n}

\* lists of commands, as trees
Simple0 == [k |-> "simple", asgn |-> <<>>, io |-> <<>>, cmd |-> <<>>]
Cmd(w) == [Simple0 EXCEPT !.cmd = <<<<w>>>>]
Io1(type, fd, arg) == [k |-> "io", type |-> type, fd |-> fd, arg |-> arg]
Ios == {Io1(<<"<">>, 0, <<"a">>), Io1(<<">", ">">>, 2, <<"b">>), Io1(<<"<", "&">>, 0, <<"1", "2">>), Io1(<<">", "&", "-">>, 1, <<>>)}
Rich == {[Simple0 EXCEPT !.asgn = a, !.io = s, !.cmd = <<<<"b">>, <<"do", "ne">>, <<"2", "a">>>>] : a \in {<<>>, <<<<<<"x">>, <<"a">>>>, <<<<"y">>, <<>>>>>>}, s \in Upto(Ios, 2)}
        \cup {[Simple0 EXCEPT !.io = <<Io1(<<"<", "<">>, 0, <<d, t>>)>>, !.cmd = <<<<"a">>>>] : d \in {<<"x">>}, t \in {<<>>, <<"b", "NL">>, <<"b", " ", "x", "NL", "a", "NL", "NL">>}}
One(c) == [k |-> "list", of |-> <<[node |-> c, back |-> FALSE]>>]
Both2(c, d, back) == [k |-> "list", of |-> <<[node |-> c, back |-> back], [node |-> d, back |-> FALSE]>>]
Lists(A) == {One(c) : c \in A} \cup {Both2(c, d, b) : c, d \in A, b \in BOOLEAN}
Ops2(A, B2) == {[k |-> o, nxt |-> NIL, left |-> l, right |-> r] : o \in {"and", "or"}, l \in A, r \in B2}
Pipes(A, B2) == {[k |-> "pipe", left |-> l, right |-> r] : l \in A, r \in B2}
WordList(ws) == [k |-> "words", of |-> ws]
Constructs(L) ==
  {[k |-> "sub", sub |-> s, do |-> l] : s \in BOOLEAN, l \in L} \cup {[k |-> w, cond |-> One(Cmd("a")), do |-> l] : w \in {"while", "until"}, l \in L}
  \cup {[k |-> "if", cond |-> l, then |-> One(Cmd("a")), else |-> e] : l \in L, e \in {NIL, One(Cmd("b"))}} \cup {[k |-> "if", cond |-> One(Cmd("a")), then |-> l, else |-> l] : l \in L}
  \cup {[k |-> "for", var |-> <<"x">>, in |-> i, do |-> l] : i \in {NIL, WordList(<<<<"in">>, <<"b">>>>)}, l \in L}
  \cup {[k |-> "case", var |-> <<"a">>, of |-> bs] : bs \in {<<>>} \cup {<<[keys |-> k, do |-> d], [keys |-> <<<<"b">>>>, do |-> NIL]>> : k \in {<<<<"a">>>>, <<<<"b">>, <<"do">>>>}, d \in L}}
Basic == {Cmd("a"), Cmd("b")}
Small == Constructs(Lists(Basic))
Nested == Constructs({One(Cmd("a")), Both2(Cmd("b"), Cmd("a"), TRUE)})
Trees == Rich \cup Small \cup Ops2(Basic \cup Pipes(Basic, Basic), Ops2(Basic, Basic) \cup Pipes(Basic, Basic)) \cup Pipes(Basic, Pipes(Nested, Basic)) \cup Ops2(Nested, Basic)
         \cup Constructs({One(c) : c \in Nested})
ListInputs == {[what |-> "list", lang |-> l, kflag |-> FALSE, first |-> f, sep |-> s, meant |-> One(t)] : l \in {"english", "swedish"}, f \in BOOLEAN, s \in {";", "NL"}, t \in Trees \ Rich}
  \cup {[what |-> "list", lang |-> "english", kflag |-> k, first |-> FALSE, sep |-> "NL", meant |-> One(t)] : k \in BOOLEAN, t \in Rich}

\* short texts of tokens
Tokens(A, n) == {FlattenSeq(s) : s \in Upto(A, n)}
After0(head, A, n) == {head \o s : s \in Tokens(A, n)}
Ones(A) == {<<c>> : c \in A}
Spaced(ws) == {w \o <<" ">> : w \in ws}
Texts == <<Tokens(Ones({"a", ";", "&", "|", "(", ")", "NL"}), 5),
  {t \in Tokens(Ones({"a", "2", "=", "<", ">", "&", "-", " "}), 4) : \A i \in 1..(Len(t) - 1) : t[i] # "<" \/ t[i + 1] # "<"},
  After0(<<"<", "&">>, Ones({"0", "2"}), 7), After0(<<"if", " ", "a", ";">>, Spaced(Ones({"then", "else", "fi", "a", ";"})), 5), After0(<<"case", " ", "a", " ">>, Spaced(Ones({"in", "a", "|", ")", "esac"}) \cup {<<";", ";">>}), 5),
  After0(<<"for", " ", "a", " ">>, Spaced(Ones({"in", "a", "do", ";"}) \cup {<<"do", "ne">>}), 5), Tokens(Spaced(Ones({"{", "}", "a", ";", "while", "do"})), 4)>>
TokenInputs == [i \in DOMAIN Texts |-> {[what |-> "tokens", lang |-> "english", kflag |-> FALSE, first |-> FALSE, text |-> t \o <<"NL">>] : t \in Texts[i]}]

\* words
P(cs) == [k |-> "plain", cs |-> cs]
V(name) == [k |-> "var", name |-> <<name>>]
Sq(cs) == [k |-> "sq", cs |-> cs]
Dq(ps) == [k |-> "dq", of |-> ps]
Esc(c) == [k |-> "esc", c |-> c]
Cm(c) == [k |-> "cmd", cmd |-> <<c>>]
Br(name, op, w) == [k |-> "brace", name |-> <<name>>, op |-> op, word |-> w]
Values == {V("x"), V("y"), V("b"), V("1"), V("*"), Cm("a"), Br("y", "=", <<"a", "b">>), Br("y", "-", <<"b">>), Br("x", "+", <<"c">>)}
Parts == Values \cup {P(<<"a">>), P(<<"*">>), P(<<"?">>), P(<<"[", "a", "-", "b", "]">>), P(<<"d", "/", "*">>), Sq(<<>>), Sq(<<"a", " ", "$", "*">>), Esc("*"), Esc(" "), Esc("$")}
         \cup {Dq(<<v>>) : v \in Values} \cup {Dq(<<>>), Dq(<<P(<<"*", " ">>), V("1")>>), P(<<"/", "*", "/", "?">>), P(<<".", "*">>)}
MCVars == VarCalls(<<<<"set", <<<<"b", " ", "c">>, <<"d">>>>>>, <<"=", <<"x">>, <<"a", " ", "b">>>>, <<"=", <<"b">>, <<"a", "*">>>>, <<"=", <<"c">>, <<"$", "x">>>>>>)
DoubleStar(w) == LET r == FoldLeft(MeantOut, [vs |-> MCVars, cs |-> <<>>, out |-> <<>>, args |-> <<>>], w).out IN
                 \E i \in 1..(Len(r) - 1) : r[i] = <<"*", FALSE>> /\ r[i + 1] = <<"*", FALSE>>
Words1 == {w \in Upto(Parts, 2) \cup {<<P(<<"a">>), p, P(<<"b">>)>> : p \in Parts} : w # <<>>}
\* a name does not run into what follows it
Apart(w) == \A i \in 1..(Len(w) - 1) : w[i].k = "var" => w[i + 1].k \notin {"plain"} \/ w[i + 1].cs[1] \notin {"a", "b", "d"} \cup DOMAIN Digit \/ w[i].name = <<"*">>
WordInputs == {[what |-> "words", lang |-> "english", kflag |-> FALSE, first |-> FALSE, vars |-> MCVars, words |-> <<<<P(<<"a">>)>>, w>>] : w \in {x \in Words1 : Apart(x) /\ ~DoubleStar(x)}}
  \cup {[what |-> "words", lang |-> "english", kflag |-> FALSE, first |-> FALSE, vars |-> MCVars, words |-> <<<<P(<<"a">>)>>, <<u>>, <<v>>, <<V("y"), P(<<"?">>)>>>>] : u, v \in Values \cup {V("c")}}

\* each [...] stands for one character
Pieces == [c \in {"a", ".", "*", "?", "set", "run", "lead", "down"} |->
  CASE c = "set" -> <<"[", "a", "b", "]">> [] c = "run" -> <<"[", "b", "-", "d", "]">> [] c = "lead" -> <<"[", "-", "b", "]">>
    [] c = "down" -> <<"[", "c", "-", "a", "]">> [] OTHER -> <<c>>]
MatchInputs == {[what |-> "match", name |-> n, wild |-> FlattenSeq([i \in DOMAIN w |-> Pieces[w[i]]])] :
  n \in {m \in Upto({"a", "b", "c", "."}, 4) : \A i \in 2..Len(m) : m[i] # "."},
  w \in {v \in Upto(DOMAIN Pieces, 3) : (\A i \in 1..(Len(v) - 1) : v[i] # "*" \/ v[i + 1] # "*") /\ \A i \in 2..Len(v) : v[i] # "."}}

\* variables
Eleven == [i \in 1..11 |-> <<"a", IF i % 2 = 0 THEN "b" ELSE "c">>]
VarOps == {<<"set", Eleven>>, <<"set", <<<<"b">>, <<>>>>>>, <<"shift">>, <<"=", <<"x">>, <<"a">>>>, <<"=", <<"b">>, <<"b">>>>, <<"export", <<"x">>>>, <<"readonly", <<"x">>>>, <<"kleenex">>}
VarInputs == {[what |-> "vars", names |-> {<<"x">>, <<"b">>}, calls |-> cs] : cs \in {s \in Upto(VarOps, 4) : \A i \in 1..Len(s) : s[i] = <<"kleenex">> => i = Len(s)}}

\* the buffers: a line is read to its end before it is cleared
LineOf(n) == [i \in 1..n |-> IF i = n THEN "NL" ELSE <<"a", "b", "c">>[(i % 3) + 1]]
Looks(n) == {<<<<"read", n>>>>} \cup {<<<<"read", k>>, <<"back", 1>>, <<"read", n + 1 - k>>>> : k \in 1..n} \cup {<<<<"read", n>>, <<"copy", k>>>> : k \in 0..n}
  \cup {<<<<"read", n>>, <<"back", k>>, <<"copy", n - k>>, <<"read", k>>>> : k \in 0..n}
BufferInputs == UNION {{[what |-> "buffer", text |-> LineOf(m) \o LineOf(n), calls |-> a \o <<<<"clear">>>> \o b \o <<<<"clear">>, <<"read", 1>>>>] :
  a \in Looks(m), b \in Looks(n)} : m \in {3, 4, 6, 8}, n \in {2, 5, 7}}
MemoryInputs == {[what |-> "memory", sizes |-> s] : s \in Upto({1, 2, 3, 6, 7, 11, 12, 13, 24, 25}, 4)}

MCInputs == TokenInputs \o <<ListInputs, WordInputs, MatchInputs, VarInputs, BufferInputs, MemoryInputs>>
=============================================================================

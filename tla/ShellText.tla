------------------------------ MODULE ShellText ------------------------------
(* What the shell makes of its input before it runs anything: the command     *)
(* buffer, the parser, the words, the variables, and the memory of a command. *)
(* An input is one line, or one list of calls, with what was meant by it.     *)
EXTENDS WordSubst

CONSTANTS Inputs,    \* a sequence of sets
          BufLen, BufNum, SegSize, PtrSize
B == INSTANCE CmdBuf
VARIABLES input, done, answer
vars == <<input, done, answer>>

Init == (\E i \in DOMAIN Inputs : input \in Inputs[i]) /\ done = FALSE /\ answer = <<>>
Answers(what, a) == input.what = what /\ ~done /\ done' = TRUE /\ answer' = a /\ UNCHANGED input
Parsed(text) == ParseLine(B!Marked(input.lang, text), input.lang, input.kflag, input.first)

\* a list written out: sep stands behind its commands, gap between two words
Join(ws) == FoldLeft(LAMBDA s, w : s \o w \o <<" ">>, <<>>, ws)
FdText(io) == IF io.fd = (IF io.type[1] = "<" THEN 0 ELSE 1) THEN <<>> ELSE Itoa(io.fd)
IoText(io) == IF io.type = <<"<", "<">> THEN io.type \o io.arg[1] \o <<"NL">> \o io.arg[2] \o io.arg[1] ELSE FdText(io) \o io.type \o io.arg
LangWord(lang, w) == Rsrvword(lang)[CHOOSE i \in DOMAIN Engwords : Engwords[i] = w]
RECURSIVE Text(_, _, _), ListText(_, _, _)
ListText(lang, sep, node) ==
  FoldLeft(LAMBDA s, c : s \o Text(lang, sep, c.node) \o (IF c.back THEN <<"&">> ELSE <<sep>>), <<>>, node.of)
Two(lang, sep, node, sign) == Text(lang, sep, node.left) \o LangWord(lang, sign) \o (IF sep = "NL" THEN <<" ">> ELSE <<>>) \o Text(lang, sep, node.right)
Text(lang, sep, node) ==
  LET L(n) == ListText(lang, sep, n) IN
  CASE node.k = "simple" -> Join([i \in DOMAIN node.asgn |-> node.asgn[i][1] \o <<"=">> \o node.asgn[i][2]]) \o Join(node.cmd)
                            \o Join([i \in DOMAIN node.io |-> IoText(node.io[i])])
    [] node.k = "and" -> Two(lang, sep, node, <<"&", "&">>)
    [] node.k = "or" -> Two(lang, sep, node, <<"|", "|">>)
    [] node.k = "pipe" -> Two(lang, sep, node, <<"|">>)
    [] node.k = "sub" -> IF node.sub THEN <<"(">> \o L(node.do) \o <<")">> ELSE LangWord(lang, <<"{">>) \o <<" ">> \o L(node.do) \o LangWord(lang, <<"}">>)
    [] node.k \in {"while", "until"} -> <<node.k, " ">> \o L(node.cond) \o <<"do", " ">> \o L(node.do) \o <<"do", "ne">>
    [] node.k = "if" -> <<"if", " ">> \o L(node.cond) \o <<"then", "NL">> \o L(node.then) \o (IF node.else = NIL THEN <<>> ELSE <<"else", " ">> \o L(node.else)) \o <<"fi">>
    [] node.k = "for" -> <<"for", " ">> \o node.var \o <<" ">> \o (IF node.in = NIL THEN <<>> ELSE <<"in", " ">> \o Join(node.in.of) \o <<sep>>) \o <<"do", " ">> \o L(node.do) \o <<"do", "ne">>
    [] node.k = "case" -> <<"case", " ">> \o node.var \o <<" ", "in", "NL">> \o FlattenSeq([i \in DOMAIN node.of |->
         FlattenSeq([j \in DOMAIN node.of[i].keys |-> (IF j > 1 THEN LangWord(lang, <<"|">>) ELSE <<>>) \o node.of[i].keys[j]]) \o <<")">>
         \o (IF node.of[i].do = NIL THEN <<>> ELSE ListText(lang, "NL", node.of[i].do)) \o <<";", ";">>]) \o <<"esac">>
-----------------------------------------------------------------------------
\* words as they are meant: parts, and what each stands for, character by character
\* with TRUE for a quoted one and "" for quotes around nothing
RECURSIVE RawParts(_)
RawPart(x) ==
  CASE x.k = "plain" -> x.cs [] x.k = "sq" -> <<"sq">> \o x.cs \o <<"sq">> [] x.k = "esc" -> <<"\\", x.c>>
    [] x.k = "dq" -> <<"\"">> \o RawParts(x.of) \o <<"\"">> [] x.k = "var" -> <<"$">> \o x.name
    [] x.k = "cmd" -> <<"bq">> \o x.cmd \o <<"bq">> [] x.k = "brace" -> <<"$", "{">> \o x.name \o <<x.op>> \o x.word \o <<"}">>
RawParts(ps) == FlattenSeq([i \in DOMAIN ps |-> RawPart(ps[i])])
As(cs, quoted) == [i \in DOMAIN cs |-> <<cs[i], quoted>>]
ValueOf(vs, name) == IF name \in {<<"*">>, <<"@">>} THEN Star(vs) ELSE Valof(vs, name)
MeantBrace(m, x) ==
  LET v == Valof(m.vs, x.name) IN
  IF v # <<>> THEN [m EXCEPT !.cs = IF x.op = "+" THEN x.word ELSE v]
  ELSE IF x.op = "+" THEN [m EXCEPT !.cs = <<>>] ELSE [m EXCEPT !.cs = x.word, !.vs = IF x.op = "=" THEN Setvar(@, x.name, x.word) ELSE @]
\* m.cs: what one part stands for, before quoting
MeantPart(m, x) ==
  CASE x.k = "plain" -> [m EXCEPT !.cs = x.cs] [] x.k = "var" -> [m EXCEPT !.cs = ValueOf(m.vs, x.name)]
    [] x.k = "cmd" -> [m EXCEPT !.cs = Listen(x.cmd)] [] x.k = "brace" -> MeantBrace(m, x)
MeantIn(m, x, quoted) == LET r == MeantPart(m, x) IN [m EXCEPT !.vs = r.vs, !.out = @ \o As(r.cs, quoted)]
MeantOut(m, x) ==
  CASE x.k = "sq" -> [m EXCEPT !.out = @ \o As(x.cs, TRUE) \o <<<<"", TRUE>>>>]
    [] x.k = "esc" -> [m EXCEPT !.out = Append(@, <<x.c, TRUE>>)]
    [] x.k = "dq" -> [FoldLeft(LAMBDA n, y : MeantIn(n, y, TRUE), m, x.of) EXCEPT !.out = Append(@, <<"", TRUE>>)]
    [] OTHER -> MeantIn(m, x, FALSE)
RECURSIVE Fields(_)
FieldEnd(cs) == CHOOSE p \in 1..(Len(cs) + 1) : (p = Len(cs) + 1 \/ (cs[p][1] \in Blanks /\ ~cs[p][2])) /\ \A q \in 1..(p - 1) : cs[q][2] \/ cs[q][1] \notin Blanks
FieldsFrom(cs, p) == (IF p = 1 THEN <<>> ELSE <<SubSeq(cs, 1, p - 1)>>) \o Fields(SubSeq(cs, p + 1, Len(cs)))
Fields(cs) == IF cs = <<>> THEN <<>> ELSE FieldsFrom(cs, FieldEnd(cs))
Chars(cs) == SelectSeq([i \in DOMAIN cs |-> cs[i][1]], LAMBDA c : c # "")
\* a name fits a pattern as a whole, a leading dot only a dot; a name with quotes
\* around some of it is no pattern
RECURSIVE Fits(_, _)
OneOf(c, p, e) == \E i \in 2..(e - 1) : p[i][1] = c \/ (i > 2 /\ p[i] = <<"-", FALSE>> /\ Ord[p[i - 1][1]] <= Ord[c] /\ Ord[c] <= Ord[p[i + 1][1]])
SetEnd(p) == CHOOSE e \in DOMAIN p : p[e] = <<"]", FALSE>>
Fits(n, p) ==
  IF p = <<>> THEN n = <<>>
  ELSE CASE p[1] = <<"*", FALSE>> -> \E i \in 1..(Len(n) + 1) : Fits(SubSeq(n, i, Len(n)), Tail(p))
         [] p[1] = <<"?", FALSE>> -> n # <<>> /\ Fits(Tail(n), Tail(p))
         [] p[1] = <<"[", FALSE>> -> n # <<>> /\ OneOf(n[1], p, SetEnd(p)) /\ Fits(Tail(n), SubSeq(p, SetEnd(p) + 1, Len(p)))
         [] OTHER -> n # <<>> /\ n[1] = p[1][1] /\ Fits(Tail(n), Tail(p))
Shown(n, p) == IF <<"", TRUE>> \in Range(p) THEN n = Chars(p) ELSE (n[1] = "." => p # <<>> /\ p[1][1] = ".") /\ Fits(n, p)
\* the paths that a pattern in two parts or one describes
Slash(cs) == CHOOSE p \in 1..(Len(cs) + 1) : (p = Len(cs) + 1 \/ cs[p] = <<"/", FALSE>>) /\ \A q \in 1..(p - 1) : cs[q] # <<"/", FALSE>>
InDir(dir, cs) == {Path(dir, n) : n \in {x \in Range(Dirs[dir]) : Shown(x, cs)}}
PathsOf(dir, cs) == IF Slash(cs) > Len(cs) THEN InDir(dir, cs)
  ELSE UNION {InDir(d, SubSeq(cs, Slash(cs) + 1, Len(cs))) : d \in {x \in InDir(dir, SubSeq(cs, 1, Slash(cs) - 1)) : x \in DOMAIN Dirs}}
Files(field) ==
  LET found == IF ~\E i \in DOMAIN field : field[i] \in {<<"*", FALSE>>, <<"?", FALSE>>, <<"[", FALSE>>} THEN {}
               ELSE IF field[1] = <<"/", FALSE>> THEN PathsOf(<<"/">>, Tail(field)) ELSE PathsOf(<<".">>, field) IN
  IF found = {} THEN <<Chars(field)>> ELSE SetToSortSeq(found, Strcomp)
MeantWord(m, w) ==
  LET r == FoldLeft(MeantOut, [m EXCEPT !.out = <<>>], w)  fields == Fields(r.out) IN
  [r EXCEPT !.args = @ \o FlattenSeq([i \in DOMAIN fields |-> Files(fields[i])])]
MeantArgs(vs, words) == LET m == FoldLeft(MeantWord, [vs |-> vs, cs |-> <<>>, out |-> <<>>, args |-> <<>>], words) IN [vs |-> m.vs, args |-> m.args, stop |-> FALSE]
-----------------------------------------------------------------------------
Line(words) == Join([i \in DOMAIN words |-> RawParts(words[i])]) \o <<"NL">>
SimpleArgs(vs, st) == Argcrunch(vs, st.node.of[1].node.cmd)
ParseList == Answers("list", Parsed(ListText(input.lang, input.sep, input.meant) \o <<"NL">>))
ParseTokens == Answers("tokens", Parsed(input.text))
CrunchWords == Answers("words", SimpleArgs(input.vars, Parsed(Line(input.words))))
MatchName == Answers("match", Wmatch(input.name, input.wild, TRUE))
CallVars == Answers("vars", VarCalls(input.calls))
ReadBuffer == Answers("buffer", B!Calls(input.text, input.calls))
TakeMemory == Answers("memory", B!Allocated(input.sizes))
Ended == done /\ UNCHANGED vars
Next == ParseList \/ ParseTokens \/ CrunchWords \/ MatchName \/ CallVars \/ ReadBuffer \/ TakeMemory \/ Ended
Spec == Init /\ [][Next]_vars
Done(what) == done /\ input.what = what

\* A list of commands is parsed as it was meant, over any of its lines, in both
\* languages: what && || | & and the constructs hold together stays together, up to
\* the end of the line (p_cmdlist.c:33, p_case.c:59, p_atom.c:44). One link is
\* excepted: what an and/or is followed by, which p_andor leaves as the memory was, so
\* that from the second command on only a list that goes on after it mends it
\* (p_andor.c:51, p_cmdlist.c:71).
RECURSIVE Relinked(_)
Relinked(n) == [f \in DOMAIN n |->
  CASE f = "nxt" -> NIL [] f \in {"left", "right", "do", "cond", "then", "else"} -> Relinked(n[f])
    [] f = "of" /\ n.k = "list" -> [i \in DOMAIN n.of |-> [n.of[i] EXCEPT !.node = Relinked(@)]]
    [] f = "of" /\ n.k = "case" -> [i \in DOMAIN n.of |-> [n.of[i] EXCEPT !.do = Relinked(@)]]
    [] OTHER -> n[f]]
Mended(list) == \A i \in DOMAIN list.of : list.of[i].node = Linked(list.of[i].node)
ParsesBack == Done("list") =>
  /\ answer.ok /\ Relinked(answer.node) = input.meant /\ \A i \in answer.at..Len(answer.cs) : answer.cs[i] = "NL"
  /\ input.first => answer.node = input.meant
  /\ input.sep = ";" => Mended(answer.node)

\* Whatever tokens a line has: if it is parsed, every word and sign of the text that
\* was taken is in the tree, once, though each routine tries, fails and goes back
\* (p_simple.c:56, p_io.c:41, p_cmd.c:44), and in order, which redirections among the
\* words do not keep. Only the ends of constructs are not in it: a stray one
\* separates, at the top (p_cmdlist.c:61). What the old link of an and/or leads to is
\* no part of the tree here.
Content(s) == SelectSeq(s, LAMBDA c : c \notin {" ", "NL", ";", ")", "}", "esac"})
SameContent(s, t) == IF Range(s) \cap {"<", ">"} = {} THEN s = t
                     ELSE \A c \in Range(s) \cup Range(t) : Len(SelectSeq(s, LAMBDA d : d = c)) = Len(SelectSeq(t, LAMBDA d : d = c))
NothingLost == Done("tokens") /\ answer.node # NIL =>
  SameContent(Content(SubSeq(answer.cs, 1, answer.at - 1)), Content(ListText(input.lang, ";", answer.node)))

\* The arguments of a command are what its words mean: variables, commands and
\* patterns are put in, values are split at their blanks, and nothing that is quoted
\* is split or looked for as a file (argcrunch.c:41, var.c:203). No value ends in a
\* blank: one that does leaves an empty argument (argcrunch.c:85).
WordsMean == Done("words") => answer = MeantArgs(input.vars, input.words)

\* A name fits a pattern when the whole of it does (wmatch.c:27).
NameFits == Done("match") => answer = ((input.name # <<>> /\ input.name[1] = "." => input.wild # <<>> /\ input.wild[1] = ".") /\ Fits(input.name, As(input.wild, FALSE)))

\* Through set, shift, assignments and the new start for a procedure the
\* parameters keep their places, past the ninth too, a variable its last value, and
\* the list its order (var.c:75, 287; x_intrn.c:84).
VarsMean == Done("vars") =>
  LET m == MeantCalls(input.names, input.calls) IN
  /\ Posparlst(answer) = m.par
  /\ \A x \in input.names : Valof(answer, x) = m.val[x]
  /\ Named(answer, <<"#">>) # <<>> => Valof(answer, <<"#">>) = Itoa(Len(m.par))
  /\ \A i \in 1..(Len(answer) - 1) : Strless(answer[i].nam, answer[i + 1].nam)

\* Reading, going back and copying in the buffers is as in the text itself, wherever
\* they end (cmdbuf.c:98, 171).
BufferFlat == Done("buffer") => answer = B!Flat(input.text, input.calls)

\* Two pieces of memory of one command have no byte in common, and each is in its
\* segment behind the link (stack.c:54).
MemoryApart == Done("memory") =>
  \A i, j \in DOMAIN answer.blocks : LET b == answer.blocks[i]  c == answer.blocks[j] IN
    /\ b[2] >= PtrSize /\ b[2] + b[3] <= answer.sizes[b[1]]
    /\ i # j /\ b[1] = c[1] => b[2] + b[3] <= c[2] \/ c[2] + c[3] <= b[2]

\* The arguments of a command, what a name in them fits and what a variable in
\* them holds: the three statements above.
ArgumentsMean == WordsMean /\ NameFits /\ VarsMean

\* The memory behind the parser: buffers of text and pieces of a segment.
StoreSound == BufferFlat /\ MemoryApart

=============================================================================

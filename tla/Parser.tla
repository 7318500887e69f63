-------------------------------- MODULE Parser --------------------------------
(* The parser of the shell (bin_cmdsrc/sh/p_*.c, rsrvword.c): recursive       *)
(* descent over the characters of the command buffer, which it goes back in.  *)
(* A character is a name; the letters of a word may be one. Each routine      *)
(* takes the state of the parser and returns it with the node it made.        *)
EXTENDS Integers, Sequences, FiniteSets, SequencesExt

NIL == [k |-> "nil"]
\* memory is clear for the first command only, then it holds what others left (getstack)
Old == [k |-> "old"]
Parsing(cs, lang, kflag, first) == [cs |-> cs, lang |-> lang, kflag |-> kflag, memory |-> IF first THEN NIL ELSE Old, at |-> 1, ok |-> TRUE, node |-> NIL, code |-> <<>>, word |-> <<>>]
At(st, p) == IF p <= Len(st.cs) THEN st.cs[p] ELSE "EOF"
Next1(st) == At(st, st.at)
Setpos(st, p) == [st EXCEPT !.at = p]
Gives(st, node) == [st EXCEPT !.node = node]
Nothing(st, p) == [st EXCEPT !.at = p, !.node = NIL]
\* unexp, fatalerr: the command is given up with a message
Unexp(st) == [st EXCEPT !.ok = FALSE, !.node = NIL]
-----------------------------------------------------------------------------
(* Reserved words and words *)
\* Mutant: do stands before done.
EngwordsDoFirst == <<<<"{">>, <<"}">>, <<"for">>, <<"while">>, <<"until">>, <<"do">>, <<"do", "ne">>, <<"case">>, <<"in">>, <<"esac">>, <<"if">>, <<"then">>, <<"else">>, <<"elif">>, <<"fi">>,
  <<"|", "|">>, <<"&", "&">>, <<"<", "<">>, <<">", ">">>, <<"<", "&", "-">>, <<">", "&", "-">>, <<"<", "&">>, <<">", "&">>, <<"(">>, <<")">>, <<"|">>, <<"&">>, <<";", ";">>, <<";">>,
  <<"<">>, <<">">>, <<"NL">>, <<"EOF">>>>
Engwords == <<<<"{">>, <<"}">>, <<"for">>, <<"while">>, <<"until">>, <<"do", "ne">>, <<"do">>, <<"case">>, <<"in">>, <<"esac">>, <<"if">>, <<"then">>, <<"else">>, <<"elif">>, <<"fi">>,
  <<"|", "|">>, <<"&", "&">>, <<"<", "<">>, <<">", ">">>, <<"<", "&", "-">>, <<">", "&", "-">>, <<"<", "&">>, <<">", "&">>, <<"(">>, <<")">>, <<"|">>, <<"&">>, <<";", ";">>, <<";">>,
  <<"<">>, <<">">>, <<"NL">>, <<"EOF">>>>
Swewords == [Engwords EXCEPT ![1] = <<"begin">>, ![2] = <<"end">>, ![16] = <<"!", "!">>, ![26] = <<"!">>]
Rsrvword(lang) == IF lang = "swedish" THEN Swewords ELSE Engwords
Specchar(lang) == {(IF lang = "swedish" THEN "!" ELSE "|"), "&", ";", "<", ">", "(", ")", "NL"}
CmdsubChar(lang) == IF lang = "swedish" THEN "#" ELSE "bq"
Delim(st, c) == c \in Specchar(st.lang) \cup {"EOF", " ", "TAB"}

RECURSIVE Skip(_, _)
Skip(st, blanks) == IF Next1(st) \in blanks THEN Skip(Setpos(st, st.at + 1), blanks) ELSE st
Skipblen(st) == Skip(st, {" ", "TAB"})
Skipblanks(st) == Skip(st, {" ", "TAB", "NL"})

Stands(st, w) == \A i \in DOMAIN w : At(st, st.at + i - 1) = w[i]
\* the first of the table that stands here; a code is its English word, <<>> is 0
Read(st, i) ==
  LET w == Rsrvword(st.lang)[i] IN
  IF w[1] \notin Specchar(st.lang) \cup {"EOF"} /\ ~Delim(st, At(st, st.at + Len(w))) THEN [st EXCEPT !.code = <<>>]
  ELSE [st EXCEPT !.at = @ + Len(w), !.code = Engwords[i]]
Standing(st) == {i \in DOMAIN Engwords : Stands(st, Rsrvword(st.lang)[i])}
Recognised(st) == IF Standing(st) = {} THEN [st EXCEPT !.code = <<>>] ELSE Read(st, CHOOSE i \in Standing(st) : \A j \in Standing(st) : i <= j)
PRsrv(st, sxlb) == Recognised(IF sxlb THEN Skipblanks(st) ELSE Skipblen(st))

\* a word goes on to an unquoted delimiter; quoted strings are passed over
RECURSIVE Closing(_, _, _)
Closing(st, p, c) == IF At(st, p) = c \/ At(st, p) = "EOF" THEN p ELSE Closing(st, p + 1, c)
RECURSIVE WordTo(_, _, _)
PassedBy(st, q, from) == IF At(st, q) = "EOF" THEN Unexp(st) ELSE WordTo(st, q + 1, from)
WordTo(st, p, from) ==
  IF Delim(st, At(st, p)) THEN [st EXCEPT !.at = p, !.word = SubSeq(st.cs, from, p - 1)]
  ELSE IF At(st, p) \in {"sq", "\"", CmdsubChar(st.lang)} THEN PassedBy(st, Closing(st, p + 1, At(st, p)), from)
  ELSE WordTo(st, p + 1, from)
WordFrom(st) == IF Next1(st) \in Specchar(st.lang) \cup {"EOF"} THEN [st EXCEPT !.word = <<>>] ELSE WordTo(st, st.at, st.at)
PWord(st) == WordFrom(Skipblen(st))

Digit == [c \in {"0", "1", "2", "3", "4", "5", "6", "7", "8", "9"} |->
  CASE c = "0" -> 0 [] c = "1" -> 1 [] c = "2" -> 2 [] c = "3" -> 3 [] c = "4" -> 4 [] c = "5" -> 5 [] c = "6" -> 6 [] c = "7" -> 7 [] c = "8" -> 8 [] c = "9" -> 9]
\* atoi, for a word without blanks; -1 when it is no number
Atoi(w) == IF \A i \in DOMAIN w : w[i] \in DOMAIN Digit THEN FoldLeft(LAMBDA n, c : 10 * n + Digit[c], 0, w) ELSE -1
Legal(fd) == fd \in 0..15
RECURSIVE DigitsTo(_, _)
DigitsTo(st, p) == IF p < st.at + 5 /\ At(st, p) \in DOMAIN Digit THEN DigitsTo(st, p + 1) ELSE p
\* p_int: the number in st.word, <<>> when there is none within the limits; of more
\* than five digits the rest stays in the text
IntTo(st, p) == IF p = st.at \/ ~Legal(Atoi(SubSeq(st.cs, st.at, p - 1))) THEN [st EXCEPT !.word = <<>>]
                ELSE [st EXCEPT !.at = p, !.word = SubSeq(st.cs, st.at, p - 1)]
PInt(st) == LET s == Skipblen(st) IN IntTo(s, DigitsTo(s, s.at))

Unquoted(w) == SelectSeq(w, LAMBDA c : c \notin {"sq", "\""})
Plain(c) == IF SubSeq(c, 1, 1) = "q" THEN SubSeq(c, 2, Len(c)) ELSE c
Unquote(w) == [i \in DOMAIN Unquoted(w) |-> Plain(Unquoted(w)[i])]
-----------------------------------------------------------------------------
(* Simple commands and redirection *)
\* lines up to one that begins with the delimiter; what follows the word << takes
\* on its line is part of the text
RECURSIVE HdocLines(_, _, _, _)
LineEnd(st, p) == CHOOSE q \in p..(Len(st.cs) + 1) : At(st, q) \in {"NL", "EOF"} /\ \A r \in p..(q - 1) : At(st, r) # "NL"
HdocDone(s, delim, start, stop, nl) ==
  IF ~s.ok THEN s
  ELSE IF Unquote(s.word) = Unquote(delim) \/ At(s, nl) = "EOF"
  THEN Gives(s, [k |-> "hdoc", delim |-> delim, text |-> Unquote([i \in 1..(stop - start) |-> At(s, start + i - 1)])])
  ELSE HdocLines(s, delim, start, s.at)
HdocLine(st, delim, start, nl) == HdocDone(PWord(Setpos(st, nl + 1)), delim, start, nl + 1, nl)
HdocLines(st, delim, start, p) == HdocLine(st, delim, start, LineEnd(st, p))
HdocFrom(st) == IF st.word = <<>> THEN Unexp(st) ELSE HdocLines(st, st.word, st.at + 1, st.at)
PHdoc(st) == LET s == PWord(st) IN IF s.ok THEN HdocFrom(s) ELSE s

Io(st, code, fd, w) ==
  Gives(st, [k |-> "io", type |-> code, fd |-> IF fd >= 0 THEN fd ELSE IF code[1] = "<" THEN 0 ELSE 1, arg |-> w])
\* Mutant: when what should follow is missing, the sign is not given back.
IoArgKeepsSign(st, code, fd, start) == IF ~st.ok THEN st ELSE IF st.word = <<>> THEN Nothing(st, st.at) ELSE Io(st, code, fd, st.word)
IoArg(st, code, fd, start) == IF ~st.ok THEN st ELSE IF st.word = <<>> THEN Nothing(st, start) ELSE Io(st, code, fd, st.word)
HdocIo(st, fd) == IF st.ok THEN Io(st, <<"<", "<">>, fd, <<st.node.delim, st.node.text>>) ELSE st
IoBy(st, fd, start) ==
  CASE st.code \in {<<"<">>, <<">">>, <<">", ">">>} -> IoArg(PWord(st), st.code, fd, start)
    [] st.code \in {<<"<", "&">>, <<">", "&">>} -> IoArg(PInt(st), st.code, fd, start)
    [] st.code \in {<<"<", "&", "-">>, <<">", "&", "-">>} -> Io(st, st.code, fd, <<>>)
    [] st.code = <<"<", "<">> -> HdocIo(PHdoc(st), fd)
    [] OTHER -> Nothing(st, start)
PIo(st, fd) == LET s == Skipblen(st) IN IoBy(PRsrv(s, FALSE), fd, s.at)

Letters == {"a", "b", "c", "x", "y", "do", "ne", "for", "in", "if", "fi", "begin", "end"}
IsVarname(w) == w # <<>> /\ w[1] \in Letters /\ \A i \in DOMAIN w : w[i] \in Letters \cup DOMAIN Digit
Equpos(w) == IF "=" \in Range(w) THEN CHOOSE i \in DOMAIN w : w[i] = "=" /\ \A j \in 1..(i - 1) : w[j] # "=" ELSE 0
Assigns(st, simp) == Equpos(st.word) > 1 /\ IsVarname(SubSeq(st.word, 1, Equpos(st.word) - 1)) /\ (simp.cmd = <<>> \/ st.kflag)
Assignment(w) == <<SubSeq(w, 1, Equpos(w) - 1), SubSeq(w, Equpos(w) + 1, Len(w))>>

RECURSIVE Simple(_, _)
\* st: what p_io left; a word that is no descriptor of it is an assignment or an argument
AfterIo(st, simp) ==
  IF ~st.ok THEN st
  ELSE IF st.node # NIL THEN Simple(st, [simp EXCEPT !.io = Append(@, st.node)])
  ELSE IF Assigns(st, simp) THEN Simple(st, [simp EXCEPT !.asgn = Append(@, Assignment(st.word))])
  ELSE IF st.word # <<>> THEN Simple(st, [simp EXCEPT !.cmd = Append(@, st.word)])
  ELSE Gives(st, simp)
Word0(st, word) == [st EXCEPT !.word = word]
AfterWord(st, simp) ==
  IF ~st.ok THEN st
  ELSE IF st.word = <<>> THEN AfterIo(Word0(PIo(st, -1), <<>>), simp)
  ELSE IF Legal(Atoi(st.word)) THEN AfterIo(Word0(PIo(st, Atoi(st.word)), st.word), simp)
  ELSE AfterIo(Gives(st, NIL), simp)
Simple(st, simp) == AfterWord(PWord(st), simp)
PSimple(st) == Simple(st, [k |-> "simple", asgn |-> <<>>, io |-> <<>>, cmd |-> <<>>])
-----------------------------------------------------------------------------
(* Lists *)
RECURSIVE PCmdlist(_, _), PAndor(_, _), PPipe(_, _), CmdlistMore(_, _, _), Caselist(_, _)
\* the routine f reads the reserved word that is here, and goes on with its code
ListNode(list) == IF list = <<>> THEN NIL ELSE [k |-> "list", of |-> list]
Listed(list, node, back) == Append(list, [node |-> node, back |-> back])
\* nodenxt is written when the list goes on; p_andor has not set it, the others have
Linked(node) == IF node.k \in {"and", "or"} THEN [node EXCEPT !.nxt = NIL] ELSE node
\* r: after the command; s: after what stands behind it. At the top the ends of
\* other constructs separate as well
Separated(s, r, level, list) ==
  CASE s.code \in {<<"&">>, <<";">>, <<"NL">>} ->
         IF level = "TOP" /\ s.code = <<"NL">> THEN Gives(s, ListNode(Listed(list, r.node, FALSE)))
         ELSE CmdlistMore(PAndor(IF level = "TOP" THEN s ELSE Skipblanks(s), FALSE), level, Listed(list, Linked(r.node), s.code = <<"&">>))
    [] s.code \in {<<";", ";">>, <<"esac">>, <<")">>, <<"}">>} /\ level # "TOP" -> Setpos(Gives(s, ListNode(Listed(list, r.node, FALSE))), r.at)
    [] s.code \in {<<";", ";">>, <<"esac">>, <<")">>, <<"}">>, <<"EOF">>} /\ level = "TOP" -> CmdlistMore(PAndor(s, FALSE), level, Listed(list, Linked(r.node), FALSE))
    [] OTHER -> Unexp(s)
CmdlistMore(r, level, list) ==
  IF ~r.ok THEN r ELSE IF r.node = NIL THEN Gives(r, ListNode(list)) ELSE Separated(PRsrv(r, FALSE), r, level, list)
CmdlistFrom(st, level) == IF Next1(st) = "EOF" THEN Nothing(st, st.at) ELSE CmdlistMore(PAndor(st, TRUE), level, <<>>)
PCmdlist(st, level) == CmdlistFrom(Skipblanks(st), level)

Both(r, left, type) == IF r.node = NIL THEN r ELSE Gives(r, [k |-> type, nxt |-> r.memory, left |-> left, right |-> r.node])
AndorRest(s, l) ==
  CASE s.code = <<"&", "&">> -> Both(PAndor(s, TRUE), l.node, "and")
    [] s.code = <<"|", "|">> -> Both(PAndor(s, TRUE), l.node, "or")
    [] OTHER -> l
AndorLeft(l) == IF l.node = NIL THEN l ELSE AndorRest(PRsrv(l, FALSE), l)
PAndor(st, must) == AndorLeft(PPipe(st, must))

PipeOut(o, i, start) == IF o.node = NIL THEN Nothing(o, start) ELSE Gives(o, [k |-> "pipe", left |-> i.node, right |-> o.node])
PipeRest(s, i, start) == IF s.code # <<"|">> THEN i ELSE PipeOut(PPipe(s, TRUE), i, start)
-----------------------------------------------------------------------------
(* Constructs. After(st, sxlb, code): the reserved word must be code         *)
Must(s, code) == IF s.code = code THEN s ELSE Unexp(s)
\* the reserved word code must follow the list c, if there was one
Then1(c, code) == IF c.node = NIL THEN c ELSE Must(PRsrv(c, TRUE), code)
Sublist(st) == IF st.ok /\ st.node # NIL THEN PCmdlist(st, "SUBCMD") ELSE st
Made(s, node) == IF s.node = NIL THEN s ELSE Gives(s, node)

Closed(c, code, closer) == Made(Then1(c, closer), [k |-> "sub", sub |-> code = <<"(">>, do |-> c.node])
Sub(s) == Closed(PCmdlist(s, "SUBCMD"), s.code, IF s.code = <<"(">> THEN <<")">> ELSE <<"}">>)

\* Then1 leaves the list of c in its node; Loop has the condition, then the body
LoopBody(d, c, kind) == Made(Then1(d, <<"do", "ne">>), [k |-> kind, cond |-> c.node, do |-> d.node])
Loop(c, kind) == LoopBody(Sublist(Then1(c, <<"do">>)), c, kind)
PWhile(s) == Loop(PCmdlist(s, "SUBCMD"), "while")
PUntil(s) == Loop(PCmdlist(s, "SUBCMD"), "until")

IfElse(e, c, t) == Made(Then1(e, <<"fi">>), [k |-> "if", cond |-> c.node, then |-> t.node, else |-> e.node])
IfRest(s, c, t) ==
  CASE s.code = <<"fi">> -> Gives(s, [k |-> "if", cond |-> c.node, then |-> t.node, else |-> NIL])
    [] s.code = <<"else">> -> IfElse(PCmdlist(s, "SUBCMD"), c, t)
    [] OTHER -> Unexp(s)
IfThen(t, c) == IF t.node = NIL THEN t ELSE IfRest(PRsrv(t, TRUE), c, t)
If1(c) == IfThen(Sublist(Then1(c, <<"then">>)), c)
PIf(s) == If1(PCmdlist(s, "SUBCMD"))

RECURSIVE Words(_, _)
WordsMore(st, ws) == IF ~st.ok THEN st ELSE IF st.word # <<>> THEN Words(st, Append(ws, st.word)) ELSE Gives(st, [k |-> "words", of |-> ws])
Words(st, ws) == WordsMore(PWord(st), ws)
WlstEnd(s, r) == IF s.code \in {<<";">>, <<"NL">>} THEN s ELSE Unexp(s)
Wlst(r) == IF ~r.ok THEN r ELSE IF r.node.of = <<>> THEN Unexp(r) ELSE WlstEnd(PRsrv(r, FALSE), r)
ForBody(d, var, wlst) == Made(Then1(d, <<"do", "ne">>), [k |-> "for", var |-> var, in |-> wlst, do |-> d.node])
ForWords(r, var) == IF ~r.ok THEN r ELSE ForBody(Sublist(Must(PRsrv(r, TRUE), <<"do">>)), var, r.node)
ForRest(s, var) ==
  CASE s.code = <<"do">> -> ForBody(PCmdlist(s, "SUBCMD"), var, NIL)
    [] s.code = <<"in">> -> ForWords(Wlst(Words(s, <<>>)), var)
    [] OTHER -> Unexp(s)
\* the word may be missing: only its address is tested
ForVar(w) == IF w.ok THEN ForRest(PRsrv(w, TRUE), w.word) ELSE w
PFor(s) == ForVar(PWord(s))

\* a pattern; a word missing after | is an error nobody is told of
RECURSIVE Pattern(_, _)
PatternRest(s, w, keys) ==
  CASE s.code = <<")">> -> Gives(s, [k |-> "words", of |-> Append(keys, w.word)])
    [] s.code = <<"|">> -> Pattern(s, Append(keys, w.word))
    [] OTHER -> Unexp(s)
PatternWord(w, keys) == IF ~w.ok THEN w ELSE IF w.word = <<>> THEN Gives(w, NIL) ELSE PatternRest(PRsrv(w, FALSE), w, keys)
Pattern(st, keys) == PatternWord(PWord(st), keys)
Branch(keys, np) == [keys |-> keys, do |-> np]
BranchEnd(s, r, brs) ==
  CASE s.code = <<"esac">> -> Caselist(Setpos(s, r.at), brs)
    [] s.code = <<";", ";">> -> Caselist(s, brs)
    [] OTHER -> Unexp(s)
BranchDo(np, brs, keys) == IF np.ok THEN BranchEnd(PRsrv(np, TRUE), np, Append(brs, Branch(keys, np.node))) ELSE np
BranchFrom(s, p, brs) ==
  IF s.code \in {<<";", ";">>, <<"esac">>} THEN BranchEnd(s, p, Append(brs, Branch(p.node.of, NIL)))
  ELSE BranchDo(PCmdlist(p, "SUBCAS"), brs, p.node.of)
Branches(p, brs) == IF p.node = NIL THEN p ELSE BranchFrom(PRsrv(p, TRUE), p, brs)
CaseBy(s, brs) ==
  CASE s.code = <<"esac">> -> Gives(s, [k |-> "branches", of |-> brs])
    [] s.code = <<>> -> Branches(Pattern(s, <<>>), brs)
    [] OTHER -> Unexp(s)
Caselist(st, brs) == CaseBy(PRsrv(st, TRUE), brs)
CaseIn(s, var) == IF s.code = <<"in">> THEN Caselist(s, <<>>) ELSE Unexp(s)
CaseNode(r, var) == IF r.node = NIL THEN r ELSE Gives(r, [k |-> "case", var |-> var, of |-> r.node.of])
CaseVar(w) == IF ~w.ok \/ w.word = <<>> THEN Unexp(w) ELSE CaseNode(CaseIn(PRsrv(w, TRUE), w.word), w.word)
PCase(s) == CaseVar(PWord(s))

CmdBy(s, start, must) ==
  CASE s.code \in {<<"(">>, <<"{">>} -> Sub(s)
    [] s.code = <<"for">> -> PFor(s)
    [] s.code = <<"while">> -> PWhile(s)
    [] s.code = <<"until">> -> PUntil(s)
    [] s.code = <<"case">> -> PCase(s)
    [] s.code = <<"if">> -> PIf(s)
    [] s.code # <<>> /\ s.code[1] \in {"<", ">"} -> PSimple(Setpos(s, start))
    [] s.code = <<>> -> PSimple(s)
    [] OTHER -> IF must THEN Unexp(s) ELSE Nothing(s, start)
PCmd(st, must) == CmdBy(PRsrv(st, FALSE), st.at, must)
PipeIn(i, start) == IF i.node = NIL THEN Nothing(i, start) ELSE PipeRest(PRsrv(i, FALSE), i, start)
PPipe(st, must) == PipeIn(PCmd(st, must), st.at)

\* one turn of parsex
ParseLine(cs, lang, kflag, first) == PCmdlist(Skipblen(Parsing(cs, lang, kflag, first)), "TOP")
=============================================================================

--------------------------------- MODULE Dd ---------------------------------
(* dd: the copy through an input and an output buffer, with its conversions. *)
(* A call is [args: <<name, value>>, reads: what read gives in turn, each    *)
(* [err, bytes], then the end of the file; old: the bytes of the output file *)
(* before, room: how many bytes it takes].                                   *)
EXTENDS Integers, SequencesExt

CONSTANTS IntBytes, MaxNumber     \* sizeof(int) and MAXNUMBER
Least2(a, b) == IF a < b THEN a ELSE b
Sized(s, n) == [k \in 1..n |-> IF k <= Len(s) THEN s[k] ELSE 0]

Ebctoasc == <<0,1,2,3,156,9,134,127,151,141,142,11,12,13,14,15,16,17,18,19,157,133,8,135,24,25,146,143,28,29,30,31,128,129,130,131,132,10,23,27,136,137,138,139,140,
    5,6,7,144,145,22,147,148,149,150,4,152,153,154,155,20,21,158,26,32,160,161,162,163,164,165,166,167,168,91,46,60,40,43,33,38,169,170,171,172,173,174,
    175,176,177,93,36,42,41,59,94,45,47,178,179,180,181,182,183,184,185,124,44,37,95,62,63,186,187,188,189,190,191,192,193,194,96,58,35,64,39,61,34,195,
    97,98,99,100,101,102,103,104,105,196,197,198,199,200,201,202,106,107,108,109,110,111,112,113,114,203,204,205,206,207,208,209,126,115,116,117,118,119,
    120,121,122,210,211,212,213,214,215,216,217,218,219,220,221,222,223,224,225,226,227,228,229,230,231,123,65,66,67,68,69,70,71,72,73,232,233,234,235,
    236,237,125,74,75,76,77,78,79,80,81,82,238,239,240,241,242,243,92,159,83,84,85,86,87,88,89,90,244,245,246,247,248,249,48,49,50,51,52,53,54,55,56,57,
    250,251,252,253,254,255>>
Asctoebc == <<0,1,2,3,55,45,46,47,22,5,37,11,12,13,14,15,16,17,18,19,60,61,50,38,24,25,63,39,28,29,30,31,64,79,127,123,91,108,80,125,77,93,92,78,107,96,75,97,240,
    241,242,243,244,245,246,247,248,249,122,94,76,126,110,111,124,193,194,195,196,197,198,199,200,201,209,210,211,212,213,214,215,216,217,226,227,228,229,
    230,231,232,233,74,224,90,95,109,121,129,130,131,132,133,134,135,136,137,145,146,147,148,149,150,151,152,153,162,163,164,165,166,167,168,169,192,106,
    208,161,7,32,33,34,35,36,21,6,23,40,41,42,43,44,9,10,27,48,49,26,51,52,53,54,8,56,57,58,59,4,20,62,225,65,66,67,68,69,70,71,72,73,81,82,83,84,85,86,
    87,88,89,98,99,100,101,102,103,104,105,112,113,114,115,116,117,118,119,120,128,138,139,140,141,142,143,144,154,155,156,157,158,159,160,170,171,172,
    173,174,175,176,177,178,179,180,181,182,183,184,185,186,187,188,189,190,191,202,203,204,205,206,207,218,219,220,221,222,223,234,235,236,237,238,239,
    250,251,252,253,254,255>>
Asctoibm == [Asctoebc EXCEPT ![34] = 90, ![92] = 173, ![94] = 189, ![125] = 79]
-----------------------------------------------------------------------------
\* getnum: digits, then letters that multiply; x and * by the number behind; -1 out of range
Digits == [c \in {"0", "1", "2", "3", "4", "5", "6", "7", "8", "9"} |->
  CASE c = "0" -> 0 [] c = "1" -> 1 [] c = "2" -> 2 [] c = "3" -> 3 [] c = "4" -> 4 [] c = "5" -> 5 [] c = "6" -> 6 [] c = "7" -> 7 [] c = "8" -> 8 [] c = "9" -> 9]
Factors == [c \in {"w", "b", "k"} |-> CASE c = "w" -> IntBytes [] c = "b" -> 512 [] c = "k" -> 1024]
Times(n, letters) == FoldLeft(LAMBDA a, c : IF c \in DOMAIN Factors THEN a * Factors[c] ELSE a, n, letters)
\* Mutant: what x is followed by is read and not multiplied by.
RECURSIVE Getnum(_)
ProductFirst(n, rest) == IF rest = <<>> THEN n ELSE LET m == Getnum(Tail(rest)) IN IF m < 0 THEN m ELSE n
Product(n, rest) == IF rest = <<>> THEN n ELSE LET m == Getnum(Tail(rest)) IN IF m < 0 THEN m ELSE n * m
Getnum(text) ==
  LET digits == CHOOSE k \in 0..Len(text) : (\A i \in 1..k : text[i] \in DOMAIN Digits) /\ (k = Len(text) \/ text[k + 1] \notin DOMAIN Digits)
      stop == CHOOSE k \in digits..Len(text) : (\A i \in (digits + 1)..k : text[i] \notin {"x", "*"}) /\ (k = Len(text) \/ text[k + 1] \in {"x", "*"})
      n == FoldLeft(LAMBDA a, c : 10 * a + Digits[c], 0, SubSeq(text, 1, digits))
      all == Product(Times(n, SubSeq(text, digits + 1, stop)), SubSeq(text, stop + 1, Len(text))) IN
  IF all > MaxNumber THEN -1 ELSE all

\* main: the parameters, the last of a name counts; bs stands for ibs and obs
Sizes == ("ibs" :> 512) @@ ("obs" :> 512) @@ [n \in {"bs", "cbs", "skip", "seek", "count", "files"} |-> 0]
Options(args) ==
  LET read == FoldLeft(LAMBDA o, a : IF a[1] = "conv" THEN [o EXCEPT !.conv = @ \cup a[2]]
                                     ELSE [o EXCEPT !.n = (a[1] :> Getnum(a[2])) @@ @], [n |-> Sizes, conv |-> {}], args) IN
  IF read.n["bs"] > 0 THEN [read EXCEPT !.n["ibs"] = read.n["bs"], !.n["obs"] = read.n["bs"]] ELSE read
Cmode(o) == IF "ascii" \in o.conv THEN "ascii" ELSE IF "ebcdic" \in o.conv THEN "ebcdic"
  ELSE IF "ibm" \in o.conv THEN "ibm" ELSE IF o.conv \cap {"lcase", "ucase"} # {} THEN "case" ELSE "raw"
OneBuffer(o) == o.n["bs"] > 0 /\ Cmode(o) = "raw"
-----------------------------------------------------------------------------
\* a copy under way; status is "run" until exit
Exit(s, status) == IF s.status = "run" THEN [s EXCEPT !.status = status] ELSE s
Emptybuf(o, s) ==
  LET fits == Least2(s.room, Len(s.ob))
      done == [s EXCEPT !.forec = IF Len(s.ob) = o.n["obs"] THEN @ + 1 ELSE @, !.porec = IF Len(s.ob) = o.n["obs"] THEN @ ELSE @ + 1,
                        !.out = Append(@, SubSeq(s.ob, 1, fits)), !.room = @ - fits, !.ob = <<>>] IN
  IF s.ob = <<>> \/ s.status # "run" THEN s ELSE IF fits < Len(s.ob) THEN Exit(done, "write") ELSE done
\* Mutant: the buffer is emptied when it has overflowed.
CrawLate(o, s, c) == LET t == [s EXCEPT !.ob = Append(@, c)] IN IF Len(t.ob) > o.n["obs"] THEN Emptybuf(o, t) ELSE t
Craw(o, s, c) == LET t == [s EXCEPT !.ob = Append(@, c)] IN IF Len(t.ob) >= o.n["obs"] THEN Emptybuf(o, t) ELSE t
Upper(o, c) == IF "ucase" \in o.conv /\ c \in 97..122 THEN c - 32 ELSE c
Cased(o, c) == LET u == Upper(o, c) IN IF "lcase" \in o.conv /\ u \in 65..90 THEN u + 32 ELSE u
Culraw(o, s, c) == Craw(o, s, Cased(o, c))
Repeated(o, s, c, n) == FoldLeft(LAMBDA a, x : Craw(o, a, x), s, [k \in 1..n |-> c])
\* spaces are held back until something follows them in the record
Casc(o, s, ch) ==
  LET c == Ebctoasc[ch + 1]
      t == IF c = 32 THEN [s EXCEPT !.spaces = @ + 1] ELSE Culraw(o, [Repeated(o, s, 32, s.spaces) EXCEPT !.spaces = 0], c) IN
  IF o.n["cbs"] = 0 THEN Culraw(o, s, c)
  ELSE IF t.cb + 1 >= o.n["cbs"] THEN [Craw(o, t, 10) EXCEPT !.cb = 0, !.spaces = 0]
  ELSE [t EXCEPT !.cb = @ + 1]
\* cebc and cibm: a line becomes a record
\* Mutant: a record ends at its size, whatever is left of the line.
CebcWraps(o, s, ch, table) ==
  LET cbs == o.n["cbs"]  t == IF s.cb >= cbs THEN [s EXCEPT !.cb = 0] ELSE s IN
  IF cbs = 0 THEN Craw(o, s, table[Cased(o, ch) + 1])
  ELSE IF ch = 10 THEN [Repeated(o, s, table[33], cbs - s.cb) EXCEPT !.cb = 0]
  ELSE Craw(o, [t EXCEPT !.cb = @ + 1], table[Cased(o, ch) + 1])
Cebc(o, s, ch, table) ==
  LET cbs == o.n["cbs"]  t == [s EXCEPT !.trec = IF s.cb = cbs THEN @ + 1 ELSE @, !.cb = @ + 1] IN
  IF cbs = 0 THEN Craw(o, s, table[Cased(o, ch) + 1])
  ELSE IF ch = 10 THEN [Repeated(o, s, table[33], cbs - s.cb) EXCEPT !.cb = 0]
  ELSE IF t.cb <= cbs THEN Craw(o, t, table[Cased(o, ch) + 1]) ELSE t
Converted(o, s, c) ==
  CASE s.status # "run" -> s
    [] s.status = "run" /\ Cmode(o) = "ascii" -> Casc(o, s, c)
    [] s.status = "run" /\ Cmode(o) = "ebcdic" -> Cebc(o, s, c, Asctoebc)
    [] s.status = "run" /\ Cmode(o) = "ibm" -> Cebc(o, s, c, Asctoibm)
    [] s.status = "run" /\ Cmode(o) = "case" -> Culraw(o, s, c)
    [] s.status = "run" /\ Cmode(o) = "raw" -> Craw(o, s, c)
-----------------------------------------------------------------------------
\* the loop of main: a read over what the buffer held, as nothing clears it;
\* only the pairs of whole words are swapped
Swab(buff, n) ==
  LET pairs == ((n \div 2) \div 2) * 2 IN
  [k \in 1..Len(buff) |-> IF k > 2 * pairs THEN buff[k] ELSE buff[IF k % 2 = 1 THEN k + 1 ELSE k - 1]]
NonZero(buff) == LET at == {k \in 1..Len(buff) : buff[k] # 0} IN IF at = {} THEN 0 ELSE (CHOOSE k \in at : \A j \in at : j <= k) - 1
Stop(o, s, status) == Exit(Emptybuf(o, s), status)
Take(o, s, n) ==   \* n characters in the input buffer
  LET len == IF "sync" \in o.conv THEN o.n["ibs"] ELSE n
      full == n = o.n["ibs"]
      u == [s EXCEPT !.firec = IF full THEN @ + 1 ELSE @, !.pirec = IF full THEN @ ELSE @ + 1,
                     !.inbuff = IF "swab" \in o.conv THEN Swab(@, len) ELSE @] IN
  IF OneBuffer(o) THEN Emptybuf(o, [u EXCEPT !.ob = SubSeq(u.inbuff, 1, len)])
  ELSE FoldLeft(LAMBDA a, c : Converted(o, a, c), u, SubSeq(u.inbuff, 1, len))
EndOf(s, n) == n = 0 /\ s.files <= 1
Reading(o, s) ==   \* what read gives, at most the block
  LET may == o.n["count"] = 0 \/ s.pirec + s.firec # o.n["count"]
      r == IF may /\ s.in # <<>> THEN Head(s.in) ELSE [err |-> FALSE, bytes |-> <<>>]
      t == [s EXCEPT !.in = IF may /\ @ # <<>> THEN Tail(@) ELSE @,
                     !.inbuff = r.bytes \o SubSeq(@, Len(r.bytes) + 1, Len(@))] IN
  [s |-> t, err |-> r.err, n |-> IF r.err THEN NonZero(t.inbuff) ELSE Len(r.bytes)]
RECURSIVE Copied(_, _)
Turn(o, r) ==
  IF r.err /\ "noerror" \notin o.conv THEN Stop(o, r.s, "read")
  ELSE IF EndOf(r.s, r.n) THEN Stop(o, r.s, "done")
  ELSE Copied(o, Take(o, IF r.n = 0 THEN [r.s EXCEPT !.files = @ - 1] ELSE r.s, r.n))
Copied(o, s) == IF s.status # "run" THEN s ELSE Turn(o, Reading(o, s))
\* skip drops reads, seek passes over records of the output file, which is
\* emptied without it
Start(o, call) ==
  LET skipped == Least2(o.n["skip"], Len(call.reads)) IN
  [in |-> SubSeq(call.reads, skipped + 1, Len(call.reads)),
   inbuff |-> FoldLeft(LAMBDA b, r : r.bytes \o SubSeq(b, Len(r.bytes) + 1, Len(b)), Sized(<<>>, o.n["ibs"]), SubSeq(call.reads, 1, skipped)),
   ob |-> <<>>, out |-> <<>>, room |-> call.room, cb |-> 0, spaces |-> 0, files |-> o.n["files"],
   firec |-> 0, pirec |-> 0, forec |-> 0, porec |-> 0, trec |-> 0, status |-> "run"]
Output(o, call, s) ==
  LET at == o.n["seek"] * o.n["obs"]  bytes == FlattenSeq(s.out) IN
  IF at = 0 THEN bytes ELSE Sized(call.old, at) \o bytes \o SubSeq(call.old, at + Len(bytes) + 1, Len(call.old))
\* a size of zero is refused after the output file was opened, and emptied without seek
DdMain(call) ==
  LET o == Options(call.args)  refused == [status |-> "args", file |-> call.old] IN
  IF \E n \in DOMAIN o.n : o.n[n] < 0 THEN refused
  ELSE IF 0 \in {o.n["ibs"], o.n["obs"]} THEN [refused EXCEPT !.file = IF o.n["seek"] = 0 THEN <<>> ELSE @]
  ELSE LET s == Copied(o, Start(o, call)) IN
       [status |-> s.status, file |-> Output(o, call, s), out |-> s.out, firec |-> s.firec, pirec |-> s.pirec,
        forec |-> s.forec, porec |-> s.porec, trec |-> s.trec]
-----------------------------------------------------------------------------
\* what the manual at the head of dd.c promises: the reads that count, and their
\* bytes converted as one text
Given(o, call) ==
  LET rest == SubSeq(call.reads, o.n["skip"] + 1, Len(call.reads))
      upto(s, P(_)) == LET at == {k \in 1..Len(s) : P(k)} IN IF at = {} THEN s ELSE SubSeq(s, 1, (CHOOSE k \in at : \A j \in at : k <= j) - 1)
      ok == upto(rest, LAMBDA k : rest[k].err)
      all == upto(ok, LAMBDA k : Cardinality({j \in 1..k : ok[j].bytes = <<>>}) >= IF o.n["files"] > 0 THEN o.n["files"] ELSE 1) IN
  IF o.n["count"] > 0 THEN SubSeq(all, 1, Least2(o.n["count"], Len(all))) ELSE all
LinesOf(s) == FoldLeft(LAMBDA ls, c : IF c = 10 THEN Append(ls, <<>>) ELSE Append(Front(ls), Append(Last(ls), c)), <<<<>>>>, s)
Chunks(s, n) == [k \in 1..((Len(s) + n - 1) \div n) |-> SubSeq(s, (k - 1) * n + 1, Least2(k * n, Len(s)))]
Mapped(table, s) == [k \in 1..Len(s) |-> table[s[k] + 1]]
CasedAll(o, s) == [k \in 1..Len(s) |-> Cased(o, s[k])]
Stripped(s) == SubSeq(s, 1, CHOOSE k \in 0..Len(s) : (k = 0 \/ s[k] # 32) /\ \A i \in (k + 1)..Len(s) : s[i] = 32)
Unblocked(s, cbs) == FlattenSeq([k \in 1..Len(Chunks(s, cbs)) |-> LET c == Chunks(s, cbs)[k] IN Stripped(c) \o IF Len(c) = cbs THEN <<10>> ELSE <<>>])
Blocked(s, cbs) == LET lines == LinesOf(s) IN
  FlattenSeq([k \in 1..Len(lines) |-> SubSeq(lines[k] \o (IF k < Len(lines) THEN [i \in 1..cbs |-> 32] ELSE <<>>), 1, Least2(cbs, IF k < Len(lines) THEN cbs ELSE Len(lines[k])))])
Promised(o, s) ==
  LET cbs == o.n["cbs"]  in == IF "swab" \in o.conv THEN [k \in 1..Len(s) |-> IF k % 2 = 0 THEN s[k - 1] ELSE IF k < Len(s) THEN s[k + 1] ELSE s[k]] ELSE s
      table == IF Cmode(o) = "ibm" THEN Asctoibm ELSE Asctoebc IN
  CASE Cmode(o) = "ascii" /\ cbs = 0 -> CasedAll(o, Mapped(Ebctoasc, in))
    [] Cmode(o) = "ascii" /\ cbs > 0 -> CasedAll(o, Unblocked(Mapped(Ebctoasc, in), cbs))
    [] Cmode(o) \in {"ebcdic", "ibm"} /\ cbs = 0 -> Mapped(table, CasedAll(o, in))
    [] Cmode(o) \in {"ebcdic", "ibm"} /\ cbs > 0 -> Mapped(table, CasedAll(o, Blocked(in, cbs)))
    [] OTHER -> CasedAll(o, in)
=============================================================================

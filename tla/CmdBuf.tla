-------------------------------- MODULE CmdBuf --------------------------------
(* The command buffer of the shell (bin_cmdsrc/sh/cmdbuf.c): what was read is *)
(* kept in buffers of BufLen characters, so that the parser can go back in it *)
(* and copy parts of it. Characters are names; a quoted one is marked.        *)
EXTENDS Integers, Sequences, SequencesExt

CONSTANTS BufLen, BufNum

Quoted(c) == "q" \o c
QuoteChar(lang) == IF lang = "swedish" THEN "%" ELSE "\\"
\* what one character makes of the text read so far: the quote character marks the
\* next and joins lines, '...' marks all that is in it
Mark(lang, t, c) ==
  CASE t.one -> IF c = "NL" THEN [t EXCEPT !.one = FALSE] ELSE [t EXCEPT !.one = FALSE, !.cs = Append(@, Quoted(c))]
    [] ~t.one /\ c = QuoteChar(lang) /\ ~t.all -> [t EXCEPT !.one = TRUE]
    [] ~t.one /\ c = "sq" -> [t EXCEPT !.all = ~@, !.cs = Append(@, c)]
    [] OTHER -> [t EXCEPT !.cs = Append(@, IF t.all THEN Quoted(c) ELSE c)]
Marked(lang, text) == FoldLeft(LAMBDA t, c : Mark(lang, t, c), [cs |-> <<>>, one |-> FALSE, all |-> FALSE], text).cs
-----------------------------------------------------------------------------
\* the buffers b.buf, where to read and where to write in them, the input left
CmdbufInit(in) == [buf |-> [i \in 0..0 |-> <<>>], readbuf |-> 0, readpos |-> 0, getbuf |-> 0, getpos |-> 0, in |-> in, got |-> ""]
Clearcmdbuf(b) == [b EXCEPT !.buf = [i \in 0..0 |-> <<>>], !.readbuf = 0, !.readpos = 0, !.getbuf = 0, !.getpos = 0]
Cmdpos(b) == BufLen * b.readbuf + b.readpos
Setcmdpos(b, n) == [b EXCEPT !.readbuf = n \div BufLen, !.readpos = n % BufLen]

Stored(b, c) == [b EXCEPT !.buf[b.getbuf] = Append(SubSeq(@, 1, b.getpos), c), !.getpos = @ + 1]
NextBuffer(b) == IF b.getpos = BufLen /\ b.getbuf < BufNum
                 THEN [b EXCEPT !.getbuf = @ + 1, !.getpos = 0, !.buf = [i \in 0..(b.getbuf + 1) |-> IF i <= b.getbuf THEN b.buf[i] ELSE <<>>]] ELSE b
\* a whole line is read, or the end of the input
RECURSIVE Fill(_)
Fill(b) == IF b.in = <<>> THEN NextBuffer(Stored(b, "EOF"))
           ELSE IF Head(b.in) = "NL" THEN [NextBuffer(Stored(b, "NL")) EXCEPT !.in = Tail(@)]
           ELSE Fill([NextBuffer(Stored(b, Head(b.in))) EXCEPT !.in = Tail(@)])
EndOfBuffer(b) == IF b.readpos = BufLen THEN [b EXCEPT !.readbuf = @ + 1, !.readpos = 0] ELSE b
Refilled(b) == IF b.readbuf = b.getbuf /\ b.readpos = b.getpos THEN Fill(b) ELSE b
Fetched(b) == [b EXCEPT !.got = b.buf[b.readbuf][b.readpos + 1], !.readpos = @ + 1]
Readchar(b) == Fetched(Refilled(EndOfBuffer(b)))

\* the characters from start up to stop
\* Mutant: the copy does not go on to the next buffer.
RECURSIVE Copied(_, _, _, _, _)
CopiedInOne(b, i, pos, stop, s) ==
  IF i * BufLen + pos >= stop \/ pos = BufLen THEN s ELSE Copied(b, i, pos + 1, stop, Append(s, b.buf[i][pos + 1]))
Copied(b, i, pos, stop, s) ==
  IF i * BufLen + pos >= stop THEN s
  ELSE IF pos = BufLen THEN Copied(b, i + 1, 0, stop, s)
  ELSE Copied(b, i, pos + 1, stop, Append(s, b.buf[i][pos + 1]))
Cmdcop(b, start, stop) == IF start = stop THEN <<>> ELSE Copied(b, start \div BufLen, start % BufLen, stop, <<>>)

\* the calls of a parser: read n characters, go back to a place it has seen, copy to there
Call(s, c) ==
  CASE c[1] = "read" -> LET b == FoldLeft(LAMBDA x, i : [b |-> Readchar(x.b), out |-> Append(x.out, Readchar(x.b).got)], [b |-> s.b, out |-> <<>>], [i \in 1..c[2] |-> i]) IN
                        [s EXCEPT !.b = b.b, !.out = Append(@, b.out)]
    [] c[1] = "back" -> [s EXCEPT !.b = Setcmdpos(@, Cmdpos(@) - c[2])]
    [] c[1] = "copy" -> [s EXCEPT !.out = Append(@, Cmdcop(s.b, Cmdpos(s.b) - c[2], Cmdpos(s.b)))]
    [] c[1] = "clear" -> [s EXCEPT !.b = Clearcmdbuf(@)]
Calls(in, cs) == FoldLeft(Call, [b |-> CmdbufInit(in), out |-> <<>>], cs).out

\* the same on the flat text: what is promised. Clearing forgets the line.
FlatCall(text, s, c) ==
  CASE c[1] = "read" -> [s EXCEPT !.at = @ + c[2], !.out = Append(@, [i \in 1..c[2] |-> IF s.at + i <= Len(text) THEN text[s.at + i] ELSE "EOF"])]
    [] c[1] = "back" -> [s EXCEPT !.at = @ - c[2]]
    [] c[1] = "copy" -> [s EXCEPT !.out = Append(@, [i \in 1..c[2] |-> IF s.at - c[2] + i <= Len(text) THEN text[s.at - c[2] + i] ELSE "EOF"])]
    [] c[1] = "clear" -> s
Flat(text, cs) == FoldLeft(LAMBDA s, c : FlatCall(text, s, c), [at |-> 0, out |-> <<>>], cs).out
-----------------------------------------------------------------------------
(* stack.c: memory for one command, taken from segments in order             *)
CONSTANTS SegSize, PtrSize    \* bytes of a segment; of the link in it, even

Stackinit == [seg |-> 1, at |-> PtrSize, sizes |-> <<SegSize>>, blocks |-> <<>>]
Aligned(n) == 2 * ((n + 1) \div 2)
\* Mutant: a large segment is given no room for its link.
GetstackNoLink(s, n) ==
  LET at == Aligned(s.at) IN
  IF SegSize - at >= n THEN [s EXCEPT !.at = at + n, !.blocks = Append(@, <<s.seg, at, n>>)]
  ELSE [s EXCEPT !.seg = @ + 1, !.sizes = Append(@, SegSize * (1 + n \div SegSize)), !.at = PtrSize + n, !.blocks = Append(@, <<s.seg + 1, PtrSize, n>>)]
Getstack(s, n) ==
  LET at == Aligned(s.at) IN
  IF SegSize - at >= n THEN [s EXCEPT !.at = at + n, !.blocks = Append(@, <<s.seg, at, n>>)]
  ELSE [s EXCEPT !.seg = @ + 1, !.sizes = Append(@, SegSize * (1 + n \div (SegSize - PtrSize))), !.at = PtrSize + n, !.blocks = Append(@, <<s.seg + 1, PtrSize, n>>)]
Allocated(sizes) == FoldLeft(Getstack, Stackinit, sizes)
=============================================================================

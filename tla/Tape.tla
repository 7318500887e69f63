-------------------------------- MODULE Tape --------------------------------
(* io.c of tar: a logical unit with two buffers and, with the option s, one  *)
(* request outstanding while the program fills or empties the other buffer.  *)
(* A unit is a record with the call that is under way; Io takes it a turn of *)
(* its loop on. Counts are of blocks of tar. The medium stands in the unit:  *)
(* the device gets to an outstanding request when it likes, with what the    *)
(* buffer holds by then.                                                     *)
EXTENDS Integers, SequencesExt

NoRequest == [fc |-> "none", buf |-> 1, n |-> 0]
Least(a, b) == IF a < b THEN a ELSE b
Overlay(s, at, t) == SubSeq(s, 1, at) \o t \o SubSeq(s, at + Len(t) + 1, Len(s))
Answer(d, i) == [d |-> d, i |-> i]

\* the device does the request that is outstanding
Performed(d) ==
  LET p == d.pend  n == IF p.fc = "write" THEN p.n ELSE Least(p.n, Len(d.medium) - d.pos) IN
  IF p.fc = "none" THEN d
  ELSE IF p.fc = "write" /\ d.pos + n > d.capacity THEN [d EXCEPT !.pend = NoRequest, !.res = -1]
  ELSE LET done == [d EXCEPT !.pend = NoRequest, !.res = n, !.pos = @ + n] IN
       IF p.fc = "write" THEN [done EXCEPT !.medium = Overlay(@, d.pos, SubSeq(d.bufs[p.buf], 1, n))]
       ELSE [done EXCEPT !.bufs[p.buf] = Overlay(@, 0, SubSeq(d.medium, d.pos + 1, d.pos + n))]
Requested(d, fc, buf, n) == [d EXCEPT !.pend = [fc |-> fc, buf |-> buf, n |-> n]]
\* Mutant: the buffers are not swapped once a request is issued.
SwappedNot(d) == [d EXCEPT !.writ = FALSE]
Swapped(d) == [d EXCEPT !.cur = 3 - @, !.writ = FALSE]

\* iosvc: with nowait the request is left outstanding and the count returned is
\* that of the one before it; req stays up in the other branch, where the code
\* computes l_stat & ~LS_REQ and drops it
Primed(d, fc, n) == IF d.req \/ fc = "write" THEN d ELSE [Requested(d, fc, 3 - d.cur, n) EXCEPT !.req = TRUE]
Outstanding(e, i, fc, n) ==
  IF i < 0 THEN Answer([e EXCEPT !.req = FALSE, !.crnd = e.pos], i)
  ELSE Answer(Swapped(Requested([e EXCEPT !.req = TRUE], fc, e.cur, n)), i)
Written(e) == Answer([e EXCEPT !.writ = FALSE], e.res)
Waited(e, fc, n) ==
  IF e.req /\ (e.res <= 0 \/ fc = "read") THEN Answer(IF e.res <= 0 THEN e ELSE Swapped(e), e.res)
  ELSE Written(Performed(Requested(e, fc, e.cur, n)))
Awaited(e, fc, n) == Outstanding(e, IF e.req THEN e.res ELSE n, fc, n)
Iosvc(d, fc, nowait, n) == IF nowait THEN Awaited(Performed(Primed(d, fc, n)), fc, n) ELSE Waited(Performed(d), fc, n)

\* ioseekblk: the buffer that holds qrnd, an updated one written before
After(r, n) == IF r.i # n THEN Answer(r.d, -1) ELSE Answer([r.d EXCEPT !.crnd = @ + n, !.bcnt = 0], r.i)
Flushed(d) == IF d.writ THEN After(Iosvc(d, "write", TRUE, d.bcnt), d.bcnt) ELSE Answer(d, 0)
Placed(d, i, fc, nowait) == Answer([d EXCEPT !.fc = <<fc, nowait>>, !.inx = d.qrnd - d.crnd, !.rnd = FALSE, !.firs = FALSE], i)
Held(r, first, fc, nowait) == IF r.i <= 0 THEN r
  ELSE Placed([r.d EXCEPT !.bcnt = r.i, !.bsz = IF first THEN r.i ELSE @], r.i, fc, nowait)
Fill(d, fc, nowait) == Held(Iosvc(d, fc, nowait, d.bsz), d.firs, fc, nowait)
Following(f, held, fc, nowait) ==
  IF f.i < 0 THEN f
  ELSE IF fc = "read" \/ f.d.crnd + f.d.inx < f.d.ernd THEN Fill([f.d EXCEPT !.crnd = @ + f.d.bcnt], fc, nowait)
  ELSE Placed(f.d, IF f.i = 0 THEN held ELSE f.i, fc, nowait)
Ioseekblk(d, fc, nowait) ==
  LET held == IF fc = "read" THEN d.bcnt ELSE d.bsz IN
  IF d.firs /\ fc = "read" THEN Fill(d, fc, nowait)
  ELSE IF d.qrnd - d.crnd \in 0..(held - 1) THEN Placed(d, held, fc, nowait)
  ELSE Following(Flushed(d), held, fc, nowait)

\* iodoseek: tar seeks only within the buffer it read last
Sought(d, fc) ==
  LET to == (d.qrnd \div d.bsz) * d.bsz IN
  IF d.qrnd - d.crnd \in 0..(d.bsz - 1) THEN Answer([d EXCEPT !.rnd = FALSE, !.pos = IF fc = "write" THEN d.crnd ELSE @], d.crnd)
  ELSE IF d.writ THEN Answer(d, -1)
  ELSE Answer([d EXCEPT !.crnd = to, !.rnd = FALSE, !.pos = to], to)
Ended(e, fc) == IF e.res < 0 THEN Answer([e EXCEPT !.req = FALSE], e.res) ELSE Sought([e EXCEPT !.req = FALSE, !.pos = @ - e.bsz], fc)
Iodoseek(d, fc) == IF d.req THEN Ended(Performed(d), fc) ELSE Sought(d, fc)

\* a call: F_READ or F_WRITE of n blocks, the number of blocks left, F_CLOSE; it is
\* over with done, and then i is its value; crnd is that of the unit when it began
NoCall == [op |-> "none", fc |-> "read", n |-> 0, i |-> 0, nowait |-> FALSE, data |-> <<>>, crnd |-> 0, done |-> TRUE]
Called(d, op, fc, nowait, data, n) == [d EXCEPT !.call = [op |-> op, fc |-> fc, n |-> n, i |-> 0, nowait |-> nowait, data |-> data, crnd |-> d.crnd, done |-> FALSE]]
Returned(d, i) == [d EXCEPT !.call.done = TRUE, !.call.i = i]

\* iordwr: a turn of its loop, from the data of the call or to it; and what io does
\* about an error and about the end of the file
Counted(d, n) ==
  IF d.inx < d.bcnt \/ d.call.i = n
  THEN Returned([d EXCEPT !.bcnt = IF d.inx < @ THEN @ ELSE d.inx, !.ernd = IF d.qrnd > @ THEN d.qrnd ELSE @], d.call.i)
  ELSE [d EXCEPT !.bcnt = d.inx]
Moved(r, c, i) == Counted(
  [r EXCEPT !.inx = @ + i, !.qrnd = @ + i, !.writ = @ \/ c.fc = "write", !.call.i = @ + i,
     !.bufs[r.cur] = IF c.fc = "write" THEN Overlay(@, r.inx, SubSeq(c.data, c.i + 1, c.i + i)) ELSE @,
     !.call.data = IF c.fc = "read" THEN @ \o SubSeq(r.bufs[r.cur], r.inx + 1, r.inx + i) ELSE @], c.n)
Failed(d, i) == Returned([d EXCEPT !.qrnd = d.call.crnd, !.writ = FALSE, !.rnd = TRUE], i)
Reached(s) == IF s.i < 0 THEN Failed(s.d, s.i) ELSE s.d
Transferred(r, c) ==
  IF r.i < 0 THEN Failed(r.d, r.i) ELSE IF r.i = 0 THEN Returned(r.d, c.i)
  ELSE Moved(r.d, c, Least(c.n - c.i, (IF c.fc = "write" THEN r.d.bsz ELSE r.d.bcnt) - r.d.inx))
Iordwr(d) ==
  LET c == d.call IN
  IF c.n = 0 THEN Returned(d, 0)
  ELSE IF d.rnd THEN Reached(Iodoseek(d, c.fc))
  ELSE Transferred(Ioseekblk(d, c.fc, c.nowait), c)
\* Mutant: the seek starts at the buffer and not at the block asked for last.
SeekBuffer(d, by) == [d EXCEPT !.qrnd = d.crnd + d.bsz + 2 * by, !.rnd = TRUE]
Seek(d, by) == [d EXCEPT !.qrnd = @ + by, !.rnd = TRUE]

\* iourdwr: the blocks left in the buffer; 0 stands for the loop at the end of
\* the medium that never ends
Renewed(r) == Returned(r.d, r.i)
Iourdwr(d) ==
  LET left == (IF d.call.fc = "write" THEN d.bsz ELSE d.bcnt) - d.inx IN
  IF left > 0 THEN Returned(d, left) ELSE Renewed(Ioseekblk(d, d.fc[1], d.fc[2]))

\* ioopcre: the buffers and their sizes stay from the medium before
NoUnit(bsz, capacity) == [capacity |-> capacity, bsz |-> bsz, bcnt |-> 0, bufs |-> <<[k \in 1..bsz |-> <<>>], [k \in 1..bsz |-> <<>>]>>, cur |-> 1]
Ioopcre(d, medium) ==
  [capacity |-> d.capacity, bsz |-> d.bsz, bcnt |-> d.bcnt, bufs |-> d.bufs, cur |-> d.cur, inx |-> 0, crnd |-> 0, qrnd |-> 0, ernd |-> 0,
   rnd |-> FALSE, writ |-> FALSE, firs |-> TRUE, req |-> FALSE, fc |-> <<"read", FALSE>>,
   call |-> NoCall, pend |-> NoRequest, res |-> 0, pos |-> 0, medium |-> medium]
\* ioclose: the last buffer goes without nowait; what is outstanding is waited for
Closed(r) == Returned([Performed(r.d) EXCEPT !.writ = FALSE], IF r.i < 0 THEN r.i ELSE 0)
Ioclose(d) == Closed(IF d.writ /\ d.inx > 0 THEN Iosvc(d, "write", FALSE, d.inx) ELSE Answer(d, 0))
\* io
Io(d) == CASE d.call.op = "transfer" -> Iordwr(d) [] d.call.op = "left" -> Iourdwr(d) [] d.call.op = "close" -> Ioclose(d)
=============================================================================

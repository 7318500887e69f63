----------------------------- MODULE TarProofs -----------------------------
(***************************************************************************)
(* What an archive held stays in place while r and u append to it, for any *)
(* archive, size of the blocks of the tape, place of its end in a block,   *)
(* and whenever the device gets to a request: ArchiveKept.                 *)
(*                                                                         *)
(* m is the archive on the medium and e its end. A unit goes through five  *)
(* states: Reading m up to its end; Turned, back over the end; Aimed, with *)
(* the device back at the block in which m ends; Writing, where the blocks *)
(* of the medium, of the request that is outstanding and of the buffer     *)
(* that is being filled agree with m before e; and Dead, where nothing     *)
(* reaches the medium any more. The first parts of the module show what a  *)
(* turn of io.c makes of each; Phase ties them to where the program is.    *)
(***************************************************************************)
EXTENDS Tar, FiniteSetTheorems, TLAPS

-----------------------------------------------------------------------------
(* Sequences, whatever they hold *)

IsSeq(s) == \E S : s \in Seq(S)

LEMMA OneSet ==
  ASSUME NEW s, NEW u, IsSeq(s), IsSeq(u)
  PROVE  \E S : s \in Seq(S) /\ u \in Seq(S)
<1>1. PICK A : s \in Seq(A) BY DEF IsSeq
<1>2. PICK B : u \in Seq(B) BY DEF IsSeq
<1>3. s \in Seq(A \cup B) BY <1>1
<1>4. u \in Seq(A \cup B) BY <1>2
<1> QED BY <1>3, <1>4

LEMMA PartSeq ==
  ASSUME NEW s, IsSeq(s), NEW from \in Int, NEW to \in Int
  PROVE  /\ IsSeq(SubSeq(s, from, to))
         /\ Len(SubSeq(s, from, to)) = IF from <= to THEN to - from + 1 ELSE 0
         /\ \A k \in 1..(to - from + 1) : SubSeq(s, from, to)[k] = s[from + k - 1]
<1>1. PICK S : s \in Seq(S) BY DEF IsSeq
<1> DEFINE T == S \cup {s[k] : k \in Int}
           r == SubSeq(s, from, to)
<1>2. r \in Seq(T) /\ Len(r) = (IF from <= to THEN to - from + 1 ELSE 0)
      /\ \A k \in 1..(to - from + 1) : r[k] = s[from + k - 1]
  BY <1>1
<1> QED BY <1>2 DEF IsSeq

LEMMA SliceSeq ==
  ASSUME NEW s, IsSeq(s), NEW at \in Int, NEW n \in Nat
  PROVE  LET p == SubSeq(s, at + 1, at + n) IN
         IsSeq(p) /\ Len(p) = n /\ \A k \in 1..n : p[k] = s[at + k]
<1> DEFINE from == at + 1
           to == at + n
           p == SubSeq(s, from, to)
<1>1. from \in Int /\ to \in Int /\ from = at + 1 /\ to = at + n
  OBVIOUS
<1> HIDE DEF from, to
<1>2. /\ IsSeq(p) /\ Len(p) = (IF from <= to THEN to - from + 1 ELSE 0)
      /\ \A k \in 1..(to - from + 1) : p[k] = s[from + k - 1]
  BY <1>1, PartSeq
<1>3. Len(p) = n
  BY <1>1, <1>2
<1>4. \A k \in 1..n : p[k] = s[at + k]
  BY <1>1, <1>2
<1> QED BY <1>1, <1>2, <1>3, <1>4

LEMMA JoinSeq ==
  ASSUME NEW s, NEW u, IsSeq(s), IsSeq(u)
  PROVE  /\ IsSeq(s \o u) /\ Len(s) \in Nat /\ Len(u) \in Nat
         /\ Len(s \o u) = Len(s) + Len(u)
         /\ \A k \in 1..Len(s) : (s \o u)[k] = s[k]
         /\ \A k \in 1..Len(u) : (s \o u)[Len(s) + k] = u[k]
<1>1. PICK S : s \in Seq(S) /\ u \in Seq(S) BY OneSet
<1>2. s \o u \in Seq(S) BY <1>1
<1> QED BY <1>1, <1>2 DEF IsSeq

\* What is laid over a sequence, and that the rest of it stays.
LEMMA OverlayIs ==
  ASSUME NEW s, NEW u, IsSeq(s), IsSeq(u), NEW at \in Int
  PROVE  LET o == Overlay(s, at, u) IN
         /\ IsSeq(o) /\ Len(o) \in Nat
         /\ at \in Nat =>
              /\ Len(o) >= at + Len(u) /\ Len(o) >= Len(s) /\ (at + Len(u) <= Len(s) => Len(o) = Len(s))
              /\ \A k \in 1..at : o[k] = s[k]
              /\ \A k \in 1..Len(u) : o[at + k] = u[k]
              /\ \A k \in (at + Len(u) + 1)..Len(s) : o[k] = s[k]
<1> DEFINE a == SubSeq(s, 1, at)
           b == a \o u
           c == SubSeq(s, at + Len(u) + 1, Len(s))
           o == b \o c
<1>1. Len(s) \in Nat /\ Len(u) \in Nat
  BY JoinSeq
<1>2. IsSeq(a) /\ (at \in Nat => Len(a) = at /\ \A k \in 1..at : a[k] = s[k])
  <2>1. IsSeq(a) /\ (1 <= at => Len(a) = at) /\ (~(1 <= at) => Len(a) = 0)
    BY PartSeq
  <2>2. \A k \in 1..(at - 1 + 1) : a[k] = s[1 + k - 1]
    BY PartSeq
  <2> QED BY <2>1, <2>2
<1>3. IsSeq(b) /\ Len(a) \in Nat /\ Len(b) = Len(a) + Len(u)
      /\ (\A k \in 1..Len(a) : b[k] = a[k]) /\ \A k \in 1..Len(u) : b[Len(a) + k] = u[k]
  BY <1>2, JoinSeq
<1> HIDE DEF b, a
<1>4. IsSeq(c) /\ Len(c) = (IF at + Len(u) + 1 <= Len(s) THEN Len(s) - at - Len(u) ELSE 0)
      /\ \A k \in 1..(Len(s) - at - Len(u)) : c[k] = s[at + Len(u) + k]
  <2>1. at + Len(u) + 1 \in Int
    BY <1>1
  <2>2. /\ IsSeq(c)
        /\ Len(c) = (IF at + Len(u) + 1 <= Len(s) THEN Len(s) - (at + Len(u) + 1) + 1 ELSE 0)
        /\ \A k \in 1..(Len(s) - (at + Len(u) + 1) + 1) : c[k] = s[at + Len(u) + 1 + k - 1]
    BY <1>1, <2>1, PartSeq
  <2> QED BY <1>1, <2>2
<1> HIDE DEF c
<1>5. IsSeq(o) /\ Len(b) \in Nat /\ Len(c) \in Nat /\ Len(o) = Len(b) + Len(c)
      /\ (\A k \in 1..Len(b) : o[k] = b[k]) /\ \A k \in 1..Len(c) : o[Len(b) + k] = c[k]
  <2>1. IsSeq(b) /\ IsSeq(c)
    BY <1>3, <1>4
  <2> QED BY <2>1, JoinSeq
<1> HIDE DEF o
<1>6. ASSUME at \in Nat
      PROVE  /\ Len(o) >= at + Len(u) /\ Len(o) >= Len(s) /\ (at + Len(u) <= Len(s) => Len(o) = Len(s))
             /\ \A k \in 1..at : o[k] = s[k]
             /\ \A k \in 1..Len(u) : o[at + k] = u[k]
             /\ \A k \in (at + Len(u) + 1)..Len(s) : o[k] = s[k]
  <2>1. Len(b) = at + Len(u) /\ Len(a) = at
    BY <1>2, <1>3, <1>6
  <2>2. Len(o) >= at + Len(u) /\ Len(o) >= Len(s) /\ (at + Len(u) <= Len(s) => Len(o) = Len(s))
    <3>1. /\ at + Len(u) + 1 <= Len(s) => Len(c) = Len(s) - at - Len(u)
          /\ ~(at + Len(u) + 1 <= Len(s)) => Len(c) = 0
      BY <1>4
    <3>2. Len(o) = at + Len(u) + Len(c)
      BY <1>5, <2>1
    <3> QED BY <1>1, <3>1, <3>2, <1>6
  <2>3. \A k \in 1..at : o[k] = s[k]
    BY <1>1, <1>2, <1>3, <1>5, <2>1, <1>6
  <2>4. \A k \in 1..Len(u) : o[at + k] = u[k]
    <3> TAKE k \in 1..Len(u)
    <3>1. at + k \in 1..Len(b) /\ b[at + k] = u[k]
      BY <1>1, <1>3, <2>1, <1>6
    <3> QED BY <3>1, <1>5
  <2>5. \A k \in (at + Len(u) + 1)..Len(s) : o[k] = s[k]
    <3> TAKE k \in (at + Len(u) + 1)..Len(s)
    <3> DEFINE j == k - at - Len(u)
    <3>1. j \in 1..Len(c) /\ j \in 1..(Len(s) - at - Len(u)) /\ k = Len(b) + j /\ k = at + Len(u) + j
      BY <1>1, <1>4, <2>1, <1>6
    <3>2. o[Len(b) + j] = c[j] /\ c[j] = s[at + Len(u) + j]
      BY <3>1, <1>4, <1>5
    <3> QED BY <3>1, <3>2
  <2> QED BY <2>2, <2>3, <2>4, <2>5
<1>7. Overlay(s, at, u) = o
  BY DEF Overlay, o, b, c, a
<1>8. Len(o) \in Nat
  BY <1>5
<1> QED BY <1>5, <1>6, <1>7, <1>8

-----------------------------------------------------------------------------
(* The types of a unit, whatever it is used for *)

UnitFields == {"capacity", "bsz", "bcnt", "bufs", "cur", "inx", "crnd", "qrnd", "ernd", "rnd",
               "writ", "firs", "req", "fc", "call", "pend", "res", "pos", "medium"}
CallFields == {"op", "fc", "n", "i", "nowait", "data", "crnd", "done"}
Counts(d) ==
  /\ d.bsz \in Nat \ {0} /\ d.capacity \in Int /\ d.bcnt \in Int /\ d.inx \in Int /\ d.crnd \in Int
  /\ d.qrnd \in Int /\ d.ernd \in Int /\ d.res \in Int /\ d.pos \in Int
  /\ d.fc[1] \in {"read", "write"}
Pending(p) == p \in [fc : {"none", "read", "write"}, buf : {1, 2}, n : Int]
Calling(c) == DOMAIN c = CallFields /\ c.fc \in {"read", "write"} /\ c.n \in Int /\ c.i \in Int /\ c.crnd \in Int /\ IsSeq(c.data)
Buffers(bufs) == DOMAIN bufs = {1, 2} /\ IsSeq(bufs[1]) /\ IsSeq(bufs[2])
Typed(d) ==
  /\ DOMAIN d = UnitFields
  /\ Counts(d) /\ d.cur \in {1, 2}
  /\ Pending(d.pend) /\ Calling(d.call) /\ Buffers(d.bufs) /\ IsSeq(d.medium)
TypedAnswer(r) == Typed(r.d) /\ r.i \in Int

LEMMA PerformedTyped ==
  ASSUME NEW d, Typed(d)
  PROVE  Typed(Performed(d))
<1> DEFINE p == d.pend
           n == IF p.fc = "write" THEN p.n ELSE Least(p.n, Len(d.medium) - d.pos)
           done == [d EXCEPT !.pend = NoRequest, !.res = n, !.pos = @ + n]
           buf == d.bufs[p.buf]
           wrote == Overlay(d.medium, d.pos, SubSeq(buf, 1, n))
           got == Overlay(buf, 0, SubSeq(d.medium, d.pos + 1, d.pos + n))
<1>1. p.buf \in {1, 2} /\ p.n \in Int /\ IsSeq(buf) /\ IsSeq(d.medium) /\ d.pos \in Int
  BY DEF Typed, Pending, Buffers, Counts
<1>2. Len(d.medium) \in Nat
  BY <1>1, JoinSeq
<1>3. n \in Int
  BY <1>1, <1>2 DEF Least
<1> HIDE DEF n
<1>4. IsSeq(wrote)
  <2>1. IsSeq(SubSeq(buf, 1, n))
    BY <1>1, <1>3, PartSeq
  <2> QED BY <1>1, <2>1, OverlayIs
<1>5. IsSeq(got)
  <2>1. IsSeq(SubSeq(d.medium, d.pos + 1, d.pos + n))
    BY <1>1, <1>3, PartSeq
  <2> QED BY <1>1, <2>1, OverlayIs
<1> HIDE DEF wrote, got
<1>6. Pending(NoRequest)
  BY DEF Pending, NoRequest
<1>7. Typed([done EXCEPT !.medium = wrote])
  BY <1>3, <1>4, <1>6 DEF Typed, UnitFields, Counts
<1>8. Typed([done EXCEPT !.bufs[p.buf] = got])
  <2>1. Typed(done) /\ done.bufs = d.bufs
    BY <1>3, <1>6 DEF Typed, UnitFields, Counts
  <2>2. Buffers([d.bufs EXCEPT ![p.buf] = got])
    BY <1>1, <1>5 DEF Typed, Buffers
  <2> HIDE DEF done
  <2>3. Typed([done EXCEPT !.bufs = [d.bufs EXCEPT ![p.buf] = got]])
    BY <2>1, <2>2 DEF Typed, UnitFields, Counts
  <2> QED BY <2>1, <2>3
<1>9. Typed([d EXCEPT !.pend = NoRequest, !.res = -1])
  BY <1>6 DEF Typed, UnitFields, Counts
<1>10. Performed(d) \in {d, [d EXCEPT !.pend = NoRequest, !.res = -1], [done EXCEPT !.medium = wrote],
                         [done EXCEPT !.bufs[p.buf] = got]}
  BY DEF Performed, n, wrote, got
<1> QED BY <1>7, <1>8, <1>9, <1>10

LEMMA RequestedTyped ==
  ASSUME NEW d, Typed(d), NEW fc \in {"read", "write"}, NEW buf \in {1, 2}, NEW n \in Int
  PROVE  Typed(Requested(d, fc, buf, n))
<1>1. Pending([fc |-> fc, buf |-> buf, n |-> n])
  BY DEF Pending
<1> QED BY <1>1 DEF Typed, Requested, UnitFields, Counts

\* A change of counts and flags alone.
LEMMA SwappedTyped ==
  ASSUME NEW d, Typed(d)
  PROVE  Typed(Swapped(d))
BY DEF Typed, Swapped, UnitFields, Counts

LEMMA IosvcTyped ==
  ASSUME NEW d, Typed(d), NEW fc \in {"read", "write"}, NEW nowait, NEW n \in Int
  PROVE  TypedAnswer(Iosvc(d, fc, nowait, n))
<1>1. Typed(Performed(Primed(d, fc, n)))
  <2>1. Typed(Primed(d, fc, n))
    <3>1. 3 - d.cur \in {1, 2}
      BY DEF Typed
    <3>2. Typed(Requested(d, fc, 3 - d.cur, n))
      BY <3>1, RequestedTyped
    <3>3. ASSUME NEW e, Typed(e) PROVE Typed([e EXCEPT !.req = TRUE])
      BY <3>3 DEF Typed, UnitFields, Counts
    <3> QED BY <3>2, <3>3 DEF Primed
  <2> QED BY <2>1, PerformedTyped
<1>2. ASSUME NEW e, Typed(e), NEW i \in Int
      PROVE  TypedAnswer(Outstanding(e, i, fc, n))
  <2>1. Typed([e EXCEPT !.req = FALSE, !.crnd = e.pos])
    BY <1>2 DEF Typed, UnitFields, Counts
  <2>2. Typed([e EXCEPT !.req = TRUE])
    BY <1>2 DEF Typed, UnitFields, Counts
  <2>3. Typed(Swapped(Requested([e EXCEPT !.req = TRUE], fc, e.cur, n)))
    <3>1. e.cur \in {1, 2}
      BY <1>2 DEF Typed
    <3> QED BY <2>2, <3>1, RequestedTyped, SwappedTyped
  <2> QED BY <1>2, <2>1, <2>3 DEF Outstanding, TypedAnswer, Answer
<1>3. ASSUME NEW e, Typed(e) PROVE TypedAnswer(Awaited(e, fc, n))
  BY <1>2, <1>3 DEF Awaited, Typed, Counts
<1>4. ASSUME NEW e, Typed(e) PROVE TypedAnswer(Written(e))
  BY <1>4 DEF Written, TypedAnswer, Answer, Typed, UnitFields, Counts
<1>5. ASSUME NEW e, Typed(e) PROVE TypedAnswer(Waited(e, fc, n))
  <2>1. Typed(Requested(e, fc, e.cur, n))
    <3>1. e.cur \in {1, 2}
      BY <1>5 DEF Typed
    <3> QED BY <1>5, <3>1, RequestedTyped
  <2>2. TypedAnswer(Written(Performed(Requested(e, fc, e.cur, n))))
    BY <2>1, <1>4, PerformedTyped
  <2>3. TypedAnswer(Answer(e, e.res)) /\ TypedAnswer(Answer(Swapped(e), e.res))
    BY <1>5, SwappedTyped DEF TypedAnswer, Answer, Typed, Counts
  <2> QED BY <2>2, <2>3 DEF Waited
<1> QED BY <1>1, <1>3, <1>5, PerformedTyped DEF Iosvc

\* fc is that of a call, or one of fc of the unit.
LEMMA FillTyped ==
  ASSUME NEW d, Typed(d), NEW fc \in {"read", "write"}, NEW nowait
  PROVE  TypedAnswer(Fill(d, fc, nowait))
<1>1. TypedAnswer(Iosvc(d, fc, nowait, d.bsz))
  <2>1. d.bsz \in Int
    BY DEF Typed, Counts
  <2> QED BY <2>1, IosvcTyped
<1>2. ASSUME NEW r, TypedAnswer(r), NEW first
      PROVE  TypedAnswer(Held(r, first, fc, nowait))
  <2>1. CASE r.i <= 0
    BY <1>2, <2>1 DEF Held
  <2>2. CASE ~(r.i <= 0)
    <3> DEFINE e == [r.d EXCEPT !.bcnt = r.i, !.bsz = IF first THEN r.i ELSE @]
    <3>1. Typed(e)
      BY <1>2, <2>2 DEF TypedAnswer, Typed, UnitFields, Counts
    <3> HIDE DEF e
    <3>2. Typed([e EXCEPT !.fc = <<fc, nowait>>, !.inx = e.qrnd - e.crnd, !.rnd = FALSE, !.firs = FALSE])
      BY <3>1 DEF Typed, UnitFields, Counts
    <3>3. TypedAnswer(Placed(e, r.i, fc, nowait))
      BY <1>2, <3>2 DEF Placed, TypedAnswer, Answer
    <3> QED BY <2>2, <3>3 DEF Held, e
  <2> QED BY <2>1, <2>2
<1> QED BY <1>1, <1>2 DEF Fill

LEMMA PlacedTyped ==
  ASSUME NEW d, Typed(d), NEW i \in Int, NEW fc \in {"read", "write"}, NEW nowait
  PROVE  TypedAnswer(Placed(d, i, fc, nowait))
<1>1. Typed([d EXCEPT !.fc = <<fc, nowait>>, !.inx = d.qrnd - d.crnd, !.rnd = FALSE, !.firs = FALSE])
  BY DEF Typed, UnitFields, Counts
<1> QED BY <1>1 DEF Placed, TypedAnswer, Answer

LEMMA FlushedTyped ==
  ASSUME NEW d, Typed(d)
  PROVE  TypedAnswer(Flushed(d))
<1>1. d.bcnt \in Int /\ "write" \in {"read", "write"}
  BY DEF Typed, Counts
<1>2. TypedAnswer(Iosvc(d, "write", TRUE, d.bcnt))
  BY <1>1, IosvcTyped
<1>3. ASSUME NEW r, TypedAnswer(r), NEW n \in Int
      PROVE  TypedAnswer(After(r, n))
  <2>1. Typed([r.d EXCEPT !.crnd = @ + n, !.bcnt = 0])
    BY <1>3 DEF TypedAnswer, Typed, UnitFields, Counts
  <2>2. TypedAnswer(Answer(r.d, -1))
    BY <1>3 DEF TypedAnswer, Answer
  <2>3. TypedAnswer(Answer([r.d EXCEPT !.crnd = @ + n, !.bcnt = 0], r.i))
    BY <1>3, <2>1 DEF TypedAnswer, Answer
  <2> QED BY <2>2, <2>3 DEF After
<1>4. TypedAnswer(After(Iosvc(d, "write", TRUE, d.bcnt), d.bcnt))
  BY <1>1, <1>2, <1>3
<1>5. TypedAnswer(Answer(d, 0))
  BY DEF TypedAnswer, Answer
<1> QED BY <1>4, <1>5 DEF Flushed

LEMMA IoseekblkTyped ==
  ASSUME NEW d, Typed(d), NEW fc \in {"read", "write"}, NEW nowait
  PROVE  TypedAnswer(Ioseekblk(d, fc, nowait))
<1> DEFINE held == IF fc = "read" THEN d.bcnt ELSE d.bsz
<1>1. held \in Int
  BY DEF Typed, Counts
<1> HIDE DEF held
<1>2. ASSUME NEW f, TypedAnswer(f)
      PROVE  TypedAnswer(Following(f, held, fc, nowait))
  <2>1. Typed([f.d EXCEPT !.crnd = @ + f.d.bcnt])
    BY <1>2 DEF TypedAnswer, Typed, UnitFields, Counts
  <2>2. TypedAnswer(Fill([f.d EXCEPT !.crnd = @ + f.d.bcnt], fc, nowait))
    BY <2>1, FillTyped
  <2>3. (IF f.i = 0 THEN held ELSE f.i) \in Int
    BY <1>1, <1>2 DEF TypedAnswer
  <2>4. TypedAnswer(Placed(f.d, IF f.i = 0 THEN held ELSE f.i, fc, nowait))
    BY <1>2, <2>3, PlacedTyped DEF TypedAnswer
  <2> QED BY <1>2, <2>2, <2>4 DEF Following
<1> QED BY <1>1, <1>2, FillTyped, PlacedTyped, FlushedTyped DEF Ioseekblk, held

LEMMA IodoseekTyped ==
  ASSUME NEW d, Typed(d), NEW fc
  PROVE  TypedAnswer(Iodoseek(d, fc))
<1>1. ASSUME NEW e, Typed(e)
      PROVE  TypedAnswer(Sought(e, fc))
  <2> DEFINE to == (e.qrnd \div e.bsz) * e.bsz
  <2>1. to \in Int /\ e.crnd \in Int
    BY <1>1 DEF Typed, Counts
  <2> HIDE DEF to
  <2>2. Typed([e EXCEPT !.rnd = FALSE, !.pos = IF fc = "write" THEN e.crnd ELSE @])
    BY <1>1 DEF Typed, UnitFields, Counts
  <2>3. Typed([e EXCEPT !.crnd = to, !.rnd = FALSE, !.pos = to])
    BY <1>1, <2>1 DEF Typed, UnitFields, Counts
  <2> QED BY <1>1, <2>1, <2>2, <2>3 DEF Sought, TypedAnswer, Answer, to
<1>2. ASSUME NEW e, Typed(e)
      PROVE  TypedAnswer(Ended(e, fc))
  <2>1. Typed([e EXCEPT !.req = FALSE])
    BY <1>2 DEF Typed, UnitFields, Counts
  <2>2. Typed([e EXCEPT !.req = FALSE, !.pos = @ - e.bsz])
    BY <1>2 DEF Typed, UnitFields, Counts
  <2>3. e.res \in Int
    BY <1>2 DEF Typed, Counts
  <2> QED BY <1>1, <2>1, <2>2, <2>3 DEF Ended, TypedAnswer, Answer
<1> QED BY <1>1, <1>2, PerformedTyped DEF Iodoseek

LEMMA ReturnedTyped ==
  ASSUME NEW d, Typed(d), NEW i \in Int
  PROVE  Typed(Returned(d, i))
<1>1. Calling([[d.call EXCEPT !.done = TRUE] EXCEPT !.i = i])
  BY DEF Typed, Calling, CallFields
<1>2. Typed([d EXCEPT !.call = [[d.call EXCEPT !.done = TRUE] EXCEPT !.i = i]])
  BY <1>1 DEF Typed, UnitFields, Counts
<1>3. Returned(d, i) = [d EXCEPT !.call = [[d.call EXCEPT !.done = TRUE] EXCEPT !.i = i]]
  BY DEF Returned, Typed, UnitFields
<1> QED BY <1>2, <1>3

\* A turn of iordwr.
LEMMA MovedTyped ==
  ASSUME NEW d, Typed(d), NEW c, Calling(c), NEW i \in Int
  PROVE  Typed(Moved(d, c, i))
<1> DEFINE e0 == [d EXCEPT !.inx = d.inx + i, !.qrnd = d.qrnd + i, !.writ = d.writ \/ c.fc = "write"]
           e1 == [e0 EXCEPT !.call.i = d.call.i + i]
           new == IF c.fc = "write" THEN Overlay(d.bufs[d.cur], d.inx, SubSeq(c.data, c.i + 1, c.i + i)) ELSE d.bufs[d.cur]
           e2 == [e1 EXCEPT !.bufs[d.cur] = new]
           got == IF c.fc = "read" THEN d.call.data \o SubSeq(d.bufs[d.cur], d.inx + 1, d.inx + i) ELSE d.call.data
           e == [e2 EXCEPT !.call.data = got]
<1>1. Moved(d, c, i) = Counted(e, c.n)
  BY DEF Moved
<1>2. Typed(e0) /\ e0.bufs = d.bufs /\ e0.call = d.call
  BY DEF Typed, UnitFields, Counts
<1> HIDE DEF e0
<1>3. Typed(e1) /\ e1.bufs = d.bufs /\ e1.call.data = d.call.data
  <2>1. Calling([d.call EXCEPT !.i = d.call.i + i]) /\ [d.call EXCEPT !.i = d.call.i + i].data = d.call.data
    BY DEF Typed, Calling, CallFields
  <2>2. Typed([e0 EXCEPT !.call = [d.call EXCEPT !.i = d.call.i + i]])
    BY <1>2, <2>1 DEF Typed, UnitFields, Counts
  <2> QED BY <1>2, <2>1, <2>2 DEF Typed, UnitFields
<1> HIDE DEF e1
<1>4. IsSeq(d.bufs[d.cur]) /\ IsSeq(c.data) /\ IsSeq(d.call.data) /\ d.inx \in Int /\ c.i \in Int /\ c.n \in Int
  BY DEF Typed, Buffers, Calling, Counts
<1>5. IsSeq(new)
  <2>1. IsSeq(SubSeq(c.data, c.i + 1, c.i + i))
    BY <1>4, PartSeq
  <2> QED BY <1>3, <1>4, <2>1, OverlayIs
<1> HIDE DEF new
<1>6. Typed(e2) /\ e2.call.data = d.call.data
  <2>1. Buffers([e1.bufs EXCEPT ![d.cur] = new])
    BY <1>3, <1>5 DEF Typed, Buffers
  <2>2. Typed([e1 EXCEPT !.bufs = [e1.bufs EXCEPT ![d.cur] = new]])
    BY <1>3, <2>1 DEF Typed, UnitFields, Counts
  <2> QED BY <1>3, <2>2 DEF Typed, UnitFields
<1> HIDE DEF e2
<1>7. Typed(e)
  <2>1. IsSeq(SubSeq(d.bufs[d.cur], d.inx + 1, d.inx + i))
    BY <1>4, PartSeq
  <2>2. IsSeq(got)
    BY <1>4, <1>6, <2>1, JoinSeq
  <2> HIDE DEF got
  <2>3. Calling([e2.call EXCEPT !.data = got])
    BY <1>6, <2>2 DEF Typed, Calling, CallFields
  <2>4. Typed([e2 EXCEPT !.call = [e2.call EXCEPT !.data = got]])
    BY <1>6, <2>3 DEF Typed, UnitFields, Counts
  <2> QED BY <2>4
<1> HIDE DEF e
<1>8. Typed(Counted(e, c.n))
  <2>1. ASSUME NEW b \in Int, NEW q \in Int
        PROVE  Typed([e EXCEPT !.bcnt = b, !.ernd = q]) /\ Typed([e EXCEPT !.bcnt = b])
    BY <1>7 DEF Typed, UnitFields, Counts
  <2>2. /\ e.inx \in Int /\ e.qrnd \in Int /\ e.bcnt \in Int /\ e.ernd \in Int /\ e.call.i \in Int
        /\ DOMAIN e = UnitFields /\ c.n \in Int
    BY <1>7, <1>4 DEF Typed, Counts, Calling
  <2> DEFINE b == IF e.inx < e.bcnt THEN e.bcnt ELSE e.inx
             q == IF e.qrnd > e.ernd THEN e.qrnd ELSE e.ernd
  <2>3. b \in Int /\ q \in Int
    BY <2>2
  <2> HIDE DEF b, q
  <2>4. Typed([e EXCEPT !.bcnt = b, !.ernd = q]) /\ Typed([e EXCEPT !.bcnt = e.inx])
    BY <2>1, <2>2, <2>3
  <2>5. Typed(Returned([e EXCEPT !.bcnt = b, !.ernd = q], e.call.i))
    BY <2>2, <2>4, ReturnedTyped
  <2> QED BY <2>2, <2>4, <2>5 DEF Counted, b, q, UnitFields
<1> QED BY <1>1, <1>8

LEMMA FailedTyped ==
  ASSUME NEW d, Typed(d), NEW i \in Int
  PROVE  Typed(Failed(d, i))
<1>1. Typed([d EXCEPT !.qrnd = d.call.crnd, !.writ = FALSE, !.rnd = TRUE])
  BY DEF Typed, UnitFields, Counts, Calling
<1> QED BY <1>1, ReturnedTyped DEF Failed

LEMMA IoTyped ==
  ASSUME NEW d, Typed(d), d.call.op \in {"transfer", "left", "close"}
  PROVE  Typed(Io(d))
<1> DEFINE c == d.call
<1>1. c.fc \in {"read", "write"} /\ d.fc[1] \in {"read", "write"} /\ c.n \in Int /\ c.i \in Int /\ d.inx \in Int
  BY DEF Typed, Calling, Counts
<1>2. Typed(Iordwr(d))
  <2>1. Typed(Reached(Iodoseek(d, c.fc)))
    BY IodoseekTyped, FailedTyped DEF Reached, TypedAnswer
  <2>2. ASSUME NEW r, TypedAnswer(r) PROVE Typed(Transferred(r, c))
    <3> DEFINE i == Least(c.n - c.i, (IF c.fc = "write" THEN r.d.bsz ELSE r.d.bcnt) - r.d.inx)
    <3>1. i \in Int
      BY <1>1, <2>2 DEF TypedAnswer, Typed, Counts, Least
    <3> HIDE DEF i
    <3>2. Typed(Moved(r.d, c, i))
      BY <2>2, <3>1, MovedTyped DEF TypedAnswer, Typed
    <3>3. Typed(Failed(r.d, r.i)) /\ Typed(Returned(r.d, c.i))
      BY <1>1, <2>2, FailedTyped, ReturnedTyped DEF TypedAnswer
    <3> QED BY <2>2, <3>2, <3>3 DEF Transferred, i
  <2>3. TypedAnswer(Ioseekblk(d, c.fc, c.nowait))
    BY <1>1, IoseekblkTyped
  <2> QED BY <1>1, <2>1, <2>2, <2>3, ReturnedTyped DEF Iordwr
<1>3. Typed(Iourdwr(d))
  <2>1. TypedAnswer(Ioseekblk(d, d.fc[1], d.fc[2]))
    BY <1>1, IoseekblkTyped
  <2>2. Typed(Renewed(Ioseekblk(d, d.fc[1], d.fc[2])))
    BY <2>1, ReturnedTyped DEF Renewed, TypedAnswer
  <2> DEFINE left == (IF d.call.fc = "write" THEN d.bsz ELSE d.bcnt) - d.inx
  <2>3. left \in Int
    BY DEF Typed, Counts
  <2> HIDE DEF left
  <2>4. Typed(Returned(d, left))
    BY <2>3, ReturnedTyped
  <2> QED BY <2>2, <2>4 DEF Iourdwr, left
<1>4. Typed(Ioclose(d))
  <2>1. TypedAnswer(Iosvc(d, "write", FALSE, d.inx))
    <3>1. "write" \in {"read", "write"}
      OBVIOUS
    <3> QED BY <1>1, <3>1, IosvcTyped
  <2>3. TypedAnswer(Answer(d, 0))
    BY DEF TypedAnswer, Answer
  <2>2. ASSUME NEW r, TypedAnswer(r) PROVE Typed(Closed(r))
    <3>1. Typed(Performed(r.d)) /\ r.i \in Int
      BY <2>2, PerformedTyped DEF TypedAnswer
    <3>2. Typed([Performed(r.d) EXCEPT !.writ = FALSE])
      BY <3>1 DEF Typed, UnitFields, Counts
    <3> QED BY <3>1, <3>2, ReturnedTyped DEF Closed
  <2> QED BY <2>1, <2>2, <2>3 DEF Ioclose
<1> QED BY <1>2, <1>3, <1>4 DEF Io

-----------------------------------------------------------------------------
(* The device and one request *)

\* What the device does not touch.
Rest(r, d) ==
  /\ r.capacity = d.capacity /\ r.bsz = d.bsz /\ r.bcnt = d.bcnt /\ r.cur = d.cur /\ r.inx = d.inx
  /\ r.crnd = d.crnd /\ r.qrnd = d.qrnd /\ r.ernd = d.ernd /\ r.rnd = d.rnd /\ r.writ = d.writ
  /\ r.firs = d.firs /\ r.req = d.req /\ r.fc = d.fc /\ r.call = d.call
Loaded(buf, m, at, n) == \A k \in 1..n : buf[k] = m[at + k]
Room(d) == Len(d.bufs[1]) \in Nat /\ Len(d.bufs[2]) \in Nat /\ Len(d.bufs[1]) >= d.bsz /\ Len(d.bufs[2]) >= d.bsz

LEMMA PerformedIs ==
  ASSUME NEW d, Typed(d)
  PROVE  LET r == Performed(d) IN Rest(r, d) /\ r.pend.fc = "none" /\ (d.pend.fc = "none" => r = d)
<1> USE DEF Typed, UnitFields
<1>1. CASE d.pend.fc = "none"
  BY <1>1 DEF Performed, Rest
<1>2. CASE d.pend.fc # "none"
  BY <1>2 DEF Performed, Rest, NoRequest, Pending
<1> QED BY <1>1, <1>2

LEMMA PerformedWrite ==
  ASSUME NEW d, Typed(d), d.pend.fc = "write"
  PROVE  LET r == Performed(d)  n == d.pend.n  buf == d.bufs[d.pend.buf] IN
         /\ r.bufs = d.bufs
         /\ d.pos + n > d.capacity => r.res = -1 /\ r.pos = d.pos /\ r.medium = d.medium
         /\ ~(d.pos + n > d.capacity) => /\ r.res = n /\ r.pos = d.pos + n
                                         /\ r.medium = Overlay(d.medium, d.pos, SubSeq(buf, 1, n))
<1> USE DEF Typed, UnitFields
<1>1. CASE d.pos + d.pend.n > d.capacity
  BY <1>1 DEF Performed
<1>2. CASE ~(d.pos + d.pend.n > d.capacity)
  BY <1>2 DEF Performed
<1> QED BY <1>1, <1>2

LEMMA PerformedRead ==
  ASSUME NEW d, Typed(d), d.pend.fc = "read", d.pend.n \in Nat, d.pos \in 0..Len(d.medium),
         Least(d.pend.n, Len(d.medium) - d.pos) <= Len(d.bufs[d.pend.buf])
  PROVE  LET r == Performed(d)  b == d.pend.buf  n == Least(d.pend.n, Len(d.medium) - d.pos) IN
         /\ r.res = n /\ r.pos = d.pos + n /\ r.medium = d.medium /\ n \in Nat
         /\ r.bufs[3 - b] = d.bufs[3 - b]
         /\ Len(r.bufs[b]) = Len(d.bufs[b]) /\ Loaded(r.bufs[b], d.medium, d.pos, n)
<1> DEFINE b == d.pend.buf
           n == Least(d.pend.n, Len(d.medium) - d.pos)
           part == SubSeq(d.medium, d.pos + 1, d.pos + n)
           got == Overlay(d.bufs[b], 0, part)
           r == Performed(d)
<1>1. b \in {1, 2} /\ IsSeq(d.bufs[b]) /\ IsSeq(d.medium) /\ d.pos \in Int /\ DOMAIN d.bufs = {1, 2}
  BY DEF Typed, Pending, Buffers, Counts
<1>2. Len(d.medium) \in Nat /\ Len(d.bufs[b]) \in Nat
  BY <1>1, JoinSeq
<1>3. n \in Nat
  BY <1>2 DEF Least
<1>4. /\ r.res = n /\ r.pos = d.pos + n /\ r.medium = d.medium
      /\ r.bufs = [d.bufs EXCEPT ![b] = got]
  BY DEF Performed, Typed, UnitFields
<1> HIDE DEF n, r
<1>5. IsSeq(part) /\ Len(part) = n /\ \A k \in 1..n : part[k] = d.medium[d.pos + k]
  BY <1>1, <1>3, SliceSeq
<1> HIDE DEF part
<1>6. Len(got) = Len(d.bufs[b]) /\ \A k \in 1..n : got[k] = part[k]
  <2>1. n <= Len(d.bufs[b])
    BY DEF n
  <2>2. /\ 0 + Len(part) <= Len(d.bufs[b]) => Len(got) = Len(d.bufs[b])
        /\ \A k \in 1..Len(part) : got[0 + k] = part[k]
    <3>1. 0 \in Int /\ 0 \in Nat
      OBVIOUS
    <3>2. IsSeq(d.bufs[b]) /\ IsSeq(part)
      BY <1>1, <1>5
    <3> QED BY <3>1, <3>2, OverlayIs
  <2> QED BY <1>2, <1>3, <1>5, <2>1, <2>2
<1> HIDE DEF got
<1>7. r.bufs[3 - b] = d.bufs[3 - b] /\ r.bufs[b] = got
  BY <1>1, <1>4
<1> QED BY <1>3, <1>4, <1>5, <1>6, <1>7 DEF Loaded, n, r

-----------------------------------------------------------------------------
(* Reading an archive m: the buffer of the program holds a part of it, and  *)
(* the other one, when it was asked for, the part that follows.             *)

Quiet(d, m) == Typed(d) /\ d.medium = m /\ ~d.writ /\ Room(d) /\ d.pend.fc \in {"none", "read"}
Prefetched(d, m, nxt) ==
  /\ nxt \in 0..Len(m)
  /\ d.req /\ d.pend.fc = "read" =>
       /\ d.pend.buf = 3 - d.cur /\ d.pos = nxt /\ d.pend.n \in Nat
       /\ d.pend.n = d.bsz \/ nxt = Len(m)
  /\ d.req /\ d.pend.fc = "none" =>
       /\ d.res = Least(d.bsz, Len(m) - nxt) /\ d.pos = nxt + d.res
       /\ Loaded(d.bufs[3 - d.cur], m, nxt, d.res)
  /\ ~d.req => d.pend.fc = "none" /\ d.pos = nxt

LEMMA LeastIs ==
  ASSUME NEW a \in Int, NEW b \in Int
  PROVE  Least(a, b) \in {a, b} /\ Least(a, b) <= a /\ Least(a, b) <= b
BY DEF Least

LEMMA SameLengths ==
  ASSUME NEW f, NEW g, NEW b \in {1, 2}, f[3 - b] = g[3 - b], Len(f[b]) = Len(g[b])
  PROVE  Len(f[1]) = Len(g[1]) /\ Len(f[2]) = Len(g[2])
<1>1. CASE b = 1
  BY <1>1
<1>2. CASE b = 2
  BY <1>2
<1> QED BY <1>1, <1>2

LEMMA PerformedAhead ==
  ASSUME NEW d, NEW m, NEW nxt, Quiet(d, m), Prefetched(d, m, nxt)
  PROVE  LET r == Performed(d) IN
         /\ Quiet(r, m) /\ Prefetched(r, m, nxt) /\ r.pend.fc = "none" /\ Rest(r, d)
         /\ r.bufs[d.cur] = d.bufs[d.cur]
<1> DEFINE r == Performed(d)
<1>1. Typed(r) /\ Rest(r, d) /\ r.pend.fc = "none" /\ d.cur \in {1, 2} /\ d.bsz \in Nat
  BY PerformedTyped, PerformedIs DEF Quiet, Typed, Counts
<1>2. CASE d.pend.fc = "none"
  <2>1. r = d
    BY <1>2, PerformedIs DEF Quiet
  <2> QED BY <1>1, <1>2, <2>1
<1>3. CASE d.pend.fc = "read"
  <2> DEFINE b == d.pend.buf
             n == Least(d.pend.n, Len(m) - nxt)
  <2>1. b = 3 - d.cur /\ d.pos = nxt /\ d.pend.n \in Nat /\ d.req /\ (d.pend.n = d.bsz \/ nxt = Len(m)) /\ d.medium = m
    BY <1>3 DEF Prefetched, Quiet
  <2>2. Len(m) \in Nat /\ nxt \in 0..Len(m)
    <3>1. IsSeq(m)
      BY DEF Quiet, Typed
    <3> QED BY <3>1, JoinSeq DEF Prefetched
  <2>3. n = Least(d.bsz, Len(m) - nxt) /\ n <= d.bsz
    BY <1>1, <2>1, <2>2 DEF Least
  <2>4. n <= Len(d.bufs[b])
    <3>1. Len(d.bufs[1]) \in Nat /\ Len(d.bufs[2]) \in Nat /\ Len(d.bufs[1]) >= d.bsz /\ Len(d.bufs[2]) >= d.bsz
      BY DEF Quiet, Room
    <3>2. n \in Int
      BY <2>1, <2>2 DEF Least
    <3> QED BY <1>1, <2>1, <2>3, <3>1, <3>2
  <2> HIDE DEF n, r
  <2>5. /\ r.res = n /\ r.pos = nxt + n /\ r.medium = m /\ n \in Nat
        /\ r.bufs[3 - b] = d.bufs[3 - b]
        /\ Len(r.bufs[b]) = Len(d.bufs[b]) /\ Loaded(r.bufs[b], m, nxt, n)
    <3>1. Typed(d)
      BY DEF Quiet
    <3> QED BY <1>3, <2>1, <2>2, <2>4, <3>1, PerformedRead DEF n, r
  <2>6. 3 - b = d.cur /\ b \in {1, 2}
    BY <1>1, <2>1
  <2>7. Room(r)
    <3>1. Len(r.bufs[1]) = Len(d.bufs[1]) /\ Len(r.bufs[2]) = Len(d.bufs[2])
      BY <2>5, <2>6, SameLengths
    <3> QED BY <1>1, <3>1 DEF Quiet, Room, Rest
  <2>8. Quiet(r, m)
    BY <1>1, <2>5, <2>7 DEF Quiet, Rest
  <2>9. Prefetched(r, m, nxt)
    BY <1>1, <2>1, <2>2, <2>3, <2>5 DEF Prefetched, Rest
  <2> QED BY <1>1, <2>5, <2>6, <2>8, <2>9 DEF r
<1> QED BY <1>2, <1>3 DEF Quiet

\* The next part of the archive, from a prefetched buffer or by a read of its own.
LEMMA FillIs ==
  ASSUME NEW d, NEW m, NEW nowait \in BOOLEAN, Quiet(d, m), Prefetched(d, m, d.crnd),
         d.crnd < Len(m), d.qrnd = d.crnd, d.req => nowait
  PROVE  LET q == Fill(d, "read", nowait)  r == q.d IN
         /\ Quiet(r, m) /\ Prefetched(r, m, r.crnd + r.bcnt) /\ (r.req => nowait)
         /\ q.i \in 1..r.bsz /\ r.bcnt = q.i /\ r.inx = 0 /\ ~r.firs
         /\ Loaded(r.bufs[r.cur], m, r.crnd, r.bcnt)
         /\ r.crnd = d.crnd /\ r.qrnd = d.qrnd /\ r.ernd = d.ernd /\ r.call = d.call /\ ~r.rnd
<1> DEFINE nxt == d.crnd
           n == d.bsz
           k == Least(n, Len(m) - nxt)
           s == Iosvc(d, "read", nowait, n)
<1>1. Typed(d) /\ IsSeq(m) /\ Len(m) \in Nat /\ nxt \in 0..Len(m) /\ n \in Nat \ {0} /\ d.cur \in {1, 2} /\ 3 - d.cur \in {1, 2}
  <2>1. Typed(d) /\ IsSeq(m)
    BY DEF Quiet, Typed
  <2>2. Len(m) \in Nat
    BY <2>1, JoinSeq
  <2> QED BY <2>1, <2>2 DEF Typed, Counts, Prefetched
<1>2. k \in Nat \ {0} /\ k <= n
  BY <1>1 DEF Least
<1>0. "read" \in {"read", "write"} /\ n \in Int
  BY <1>1
<1>3. /\ Quiet(s.d, m) /\ s.i = k /\ (s.d.req => nowait)
      /\ Loaded(s.d.bufs[s.d.cur], m, nxt, k)
      /\ s.d.crnd = nxt /\ s.d.qrnd = d.qrnd /\ s.d.ernd = d.ernd /\ s.d.call = d.call /\ s.d.bsz = n /\ s.d.firs = d.firs
      /\ s.d.req => s.d.pend.fc = "read" /\ s.d.pend.buf = 3 - s.d.cur /\ s.d.pos = nxt + k /\ s.d.pend.n = n
      /\ ~s.d.req => s.d.pend.fc = "none" /\ s.d.pos = nxt + k
  <2>1. CASE nowait
    <3> DEFINE p == Primed(d, "read", n)
               e == Performed(p)
    <3>1. Quiet(p, m) /\ Prefetched(p, m, nxt) /\ p.req /\ p.crnd = nxt /\ p.qrnd = d.qrnd /\ p.ernd = d.ernd
          /\ p.call = d.call /\ p.bsz = n /\ p.cur = d.cur /\ p.firs = d.firs
      <4>1. CASE d.req
        BY <4>1 DEF Primed
      <4>2. CASE ~d.req
        <5> DEFINE o == Requested(d, "read", 3 - d.cur, n)
        <5>1. Typed(o)
          BY <1>0, <1>1, RequestedTyped
        <5>2. Typed(p) /\ p = [o EXCEPT !.req = TRUE]
          BY <4>2, <5>1 DEF Primed, Typed, UnitFields, Counts
        <5>3. /\ p.pend = [fc |-> "read", buf |-> 3 - d.cur, n |-> n] /\ p.req /\ p.medium = d.medium /\ p.writ = d.writ
              /\ p.bufs = d.bufs /\ p.bsz = d.bsz /\ p.cur = d.cur /\ p.pos = d.pos /\ p.crnd = nxt /\ p.qrnd = d.qrnd
              /\ p.ernd = d.ernd /\ p.call = d.call /\ p.firs = d.firs
          BY <5>2 DEF Requested, Quiet, Typed, UnitFields
        <5> HIDE DEF p, o
        <5>4. Quiet(p, m)
          BY <5>2, <5>3 DEF Quiet, Room
        <5>5. Prefetched(p, m, nxt)
          BY <1>1, <4>2, <5>3 DEF Prefetched
        <5> QED BY <5>3, <5>4, <5>5
      <4> QED BY <4>1, <4>2
    <3> HIDE DEF p
    <3>2. /\ Quiet(e, m) /\ Prefetched(e, m, nxt) /\ e.pend.fc = "none" /\ e.req /\ e.cur = d.cur /\ e.crnd = nxt
          /\ e.qrnd = d.qrnd /\ e.ernd = d.ernd /\ e.call = d.call /\ e.bsz = n /\ e.firs = d.firs
      BY <3>1, PerformedAhead DEF Rest
    <3>3. e.res = k /\ e.pos = nxt + k /\ Loaded(e.bufs[3 - e.cur], m, nxt, k)
      BY <3>2 DEF Prefetched
    <3> HIDE DEF e, k
    <3> DEFINE f == [e EXCEPT !.req = TRUE]
               g == Requested(f, "read", e.cur, n)
    <3>4. s = Answer(Swapped(g), k)
      BY <1>2, <2>1, <3>2, <3>3 DEF Iosvc, Awaited, Outstanding, p, e
    <3>5. Typed(f) /\ f.cur = d.cur
      BY <3>2 DEF Quiet, Typed, UnitFields, Counts
    <3> HIDE DEF f, s
    <3>6. Typed(g)
      BY <1>0, <1>1, <3>5, <3>2, RequestedTyped
    <3>7. s.i = k /\ Typed(s.d) /\ s.d = Swapped(g)
      <4> HIDE DEF g
      <4>1. s.i = k /\ s.d = Swapped(g)
        BY <3>4 DEF Answer
      <4> QED BY <4>1, <3>6, SwappedTyped
    <3>8. /\ s.d.pend = [fc |-> "read", buf |-> e.cur, n |-> n] /\ s.d.req /\ s.d.medium = e.medium /\ ~s.d.writ
          /\ s.d.bufs = e.bufs /\ s.d.bsz = e.bsz /\ s.d.cur = 3 - e.cur /\ s.d.pos = e.pos /\ s.d.crnd = e.crnd /\ s.d.qrnd = e.qrnd
          /\ s.d.ernd = e.ernd /\ s.d.call = e.call /\ s.d.firs = e.firs
      <4>1. /\ f.medium = e.medium /\ f.bufs = e.bufs /\ f.bsz = e.bsz /\ f.cur = e.cur /\ f.pos = e.pos /\ f.crnd = e.crnd
            /\ f.qrnd = e.qrnd /\ f.ernd = e.ernd /\ f.call = e.call /\ f.firs = e.firs /\ f.req /\ DOMAIN f = UnitFields
        BY <3>2 DEF Quiet, Typed, UnitFields, f
      <4>2. /\ g.medium = e.medium /\ g.bufs = e.bufs /\ g.bsz = e.bsz /\ g.cur = e.cur /\ g.pos = e.pos /\ g.crnd = e.crnd
            /\ g.qrnd = e.qrnd /\ g.ernd = e.ernd /\ g.call = e.call /\ g.firs = e.firs /\ g.req /\ DOMAIN g = UnitFields
            /\ g.pend = [fc |-> "read", buf |-> e.cur, n |-> n]
        BY <4>1 DEF Requested, UnitFields
      <4> HIDE DEF g
      <4> QED BY <4>2, <3>7 DEF Swapped, UnitFields
    <3>9. Quiet(s.d, m)
      BY <3>2, <3>7, <3>8 DEF Quiet, Room
    <3> QED BY <1>1, <2>1, <3>2, <3>3, <3>7, <3>8, <3>9
  <2>2. CASE ~nowait
    <3> DEFINE g == Requested(d, "read", d.cur, n)
               e == Performed(g)
    <3>1. ~d.req /\ d.pend.fc = "none" /\ d.pos = nxt
      BY <2>2 DEF Prefetched, Quiet
    <3>2. Performed(d) = d
      BY <1>1, <3>1, PerformedIs
    <3>3. s = Written(e)
      BY <2>2, <3>1, <3>2 DEF Iosvc, Waited
    <3>4. Typed(g)
      BY <1>0, <1>1, RequestedTyped
    <3>5. /\ g.pend = [fc |-> "read", buf |-> d.cur, n |-> n] /\ g.req = d.req /\ g.medium = d.medium
          /\ g.bufs = d.bufs /\ g.bsz = d.bsz /\ g.cur = d.cur /\ g.pos = d.pos /\ g.crnd = nxt /\ g.qrnd = d.qrnd
          /\ g.ernd = d.ernd /\ g.call = d.call /\ g.firs = d.firs
      BY <3>4 DEF Requested, Quiet, Typed, UnitFields
    <3> HIDE DEF g, k
    <3>6. k <= Len(g.bufs[g.pend.buf])
      <4>1. Len(d.bufs[1]) \in Nat /\ Len(d.bufs[2]) \in Nat /\ Len(d.bufs[1]) >= d.bsz /\ Len(d.bufs[2]) >= d.bsz
        BY DEF Quiet, Room
      <4> QED BY <1>1, <1>2, <3>5, <4>1
    <3>7. /\ e.res = k /\ e.pos = nxt + k /\ e.medium = m
          /\ e.bufs[3 - d.cur] = d.bufs[3 - d.cur]
          /\ Len(e.bufs[d.cur]) = Len(d.bufs[d.cur]) /\ Loaded(e.bufs[d.cur], m, nxt, k)
      <4>1. d.medium = m
        BY DEF Quiet
      <4>2. g.pend.fc = "read" /\ g.pend.n = n /\ g.pend.buf = d.cur /\ g.medium = m /\ g.pos = nxt /\ g.bufs = d.bufs
        BY <3>1, <3>5, <4>1
      <4>3. Least(g.pend.n, Len(g.medium) - g.pos) = k
        BY <4>2 DEF k
      <4>4. g.pend.n \in Nat /\ g.pos \in 0..Len(g.medium)
        BY <1>1, <4>2
      <4> QED BY <3>4, <3>6, <4>2, <4>3, <4>4, PerformedRead DEF e
    <3>8. Typed(e) /\ Rest(e, g) /\ e.pend.fc = "none"
      BY <3>4, PerformedTyped, PerformedIs
    <3> HIDE DEF e, s
    <3>9. s.i = k /\ s.d = [e EXCEPT !.writ = FALSE]
      BY <3>3, <3>7 DEF Written, Answer
    <3>10. /\ Typed(s.d) /\ ~s.d.writ /\ s.d.medium = m /\ s.d.bufs = e.bufs /\ s.d.bsz = n /\ s.d.cur = d.cur /\ s.d.pos = nxt + k
           /\ s.d.crnd = nxt /\ s.d.qrnd = d.qrnd /\ s.d.ernd = d.ernd /\ s.d.call = d.call /\ s.d.firs = d.firs
           /\ ~s.d.req /\ s.d.pend.fc = "none"
      <4>1. Typed([e EXCEPT !.writ = FALSE])
        BY <3>8 DEF Typed, UnitFields, Counts
      <4> QED BY <4>1, <3>1, <3>5, <3>7, <3>8, <3>9 DEF Rest, Typed, UnitFields
    <3>11. Room(s.d)
      <4>1. Len(e.bufs[1]) = Len(d.bufs[1]) /\ Len(e.bufs[2]) = Len(d.bufs[2])
        BY <1>1, <3>7, SameLengths
      <4> QED BY <3>10, <4>1 DEF Room, Quiet
    <3>12. Quiet(s.d, m)
      BY <3>10, <3>11 DEF Quiet
    <3> QED BY <3>7, <3>9, <3>10, <3>12
  <2> QED BY <2>1, <2>2
<1> DEFINE first == d.firs
           h == [s.d EXCEPT !.bcnt = s.i, !.bsz = IF first THEN s.i ELSE @]
           q == Fill(d, "read", nowait)
<1>4. q = Placed(h, k, "read", nowait)
  BY <1>2, <1>3 DEF Fill, Held
<1> HIDE DEF s, k
<1>5. /\ Typed(h) /\ h.bcnt = k /\ h.bsz = (IF first THEN k ELSE n) /\ h.bufs = s.d.bufs /\ h.cur = s.d.cur /\ h.medium = s.d.medium
      /\ h.writ = s.d.writ /\ h.pend = s.d.pend /\ h.req = s.d.req /\ h.pos = s.d.pos /\ h.res = s.d.res /\ h.crnd = nxt /\ h.qrnd = d.qrnd
      /\ h.ernd = d.ernd /\ h.call = d.call
  <2>1. Typed(s.d)
    BY <1>3 DEF Quiet
  <2>2. Typed(h)
    BY <1>2, <1>3, <2>1 DEF Typed, UnitFields, Counts
  <2> QED BY <1>3, <2>1, <2>2 DEF Typed, UnitFields
<1> HIDE DEF h
<1> DEFINE r == q.d
<1>6. /\ q.i = k /\ Typed(r) /\ r.bcnt = k /\ r.bsz = h.bsz /\ r.bufs = s.d.bufs /\ r.cur = s.d.cur /\ r.medium = s.d.medium
      /\ r.writ = s.d.writ /\ r.pend = s.d.pend /\ r.req = s.d.req /\ r.pos = s.d.pos /\ r.res = s.d.res /\ r.crnd = nxt /\ r.qrnd = d.qrnd
      /\ r.ernd = d.ernd /\ r.call = d.call /\ r.inx = 0 /\ ~r.firs /\ ~r.rnd
  <2>1. Typed([h EXCEPT !.fc = <<"read", nowait>>, !.inx = h.qrnd - h.crnd, !.rnd = FALSE, !.firs = FALSE])
    BY <1>5 DEF Typed, UnitFields, Counts
  <2>2. h.qrnd - h.crnd = 0
    BY <1>1, <1>5
  <2> HIDE DEF q
  <2>3. q.i = k /\ q.d = [h EXCEPT !.fc = <<"read", nowait>>, !.inx = h.qrnd - h.crnd, !.rnd = FALSE, !.firs = FALSE]
    BY <1>4 DEF Placed, Answer
  <2> QED BY <1>5, <2>1, <2>2, <2>3 DEF Typed, UnitFields
<1> HIDE DEF q
<1>7. Quiet(r, m)
  <2>1. Room(r)
    <3>1. Room(s.d) /\ s.d.bsz = n
      BY <1>3 DEF Quiet
    <3>2. r.bsz <= n /\ r.bsz \in Int /\ r.bufs = s.d.bufs
      BY <1>1, <1>2, <1>5, <1>6
    <3> QED BY <1>1, <3>1, <3>2 DEF Room
  <2> QED BY <1>3, <1>6, <2>1 DEF Quiet
<1>8. q.i \in 1..r.bsz /\ nxt + k \in 0..Len(m) /\ (k = n \/ nxt + k = Len(m))
  <2>1. k <= n /\ k <= Len(m) - nxt /\ (k = n \/ k = Len(m) - nxt)
    BY <1>1 DEF Least, k
  <2> QED BY <1>1, <1>2, <1>5, <1>6, <2>1
<1>9. Prefetched(r, m, r.crnd + r.bcnt)
  <2>1. r.req => r.pend.fc = "read" /\ r.pend.buf = 3 - r.cur /\ r.pos = nxt + k /\ r.pend.n = n
    BY <1>3, <1>6
  <2>2. ~r.req => r.pend.fc = "none" /\ r.pos = nxt + k
    BY <1>3, <1>6
  <2>3. r.bsz = n \/ nxt + k = Len(m)
    BY <1>5, <1>6, <1>8
  <2> QED BY <1>1, <1>6, <1>8, <2>1, <2>2, <2>3 DEF Prefetched
<1> QED BY <1>3, <1>6, <1>7, <1>8, <1>9 DEF q

-----------------------------------------------------------------------------
(* What a turn of iordwr moves *)

SameCall(r, c) == r.op = c.op /\ r.fc = c.fc /\ r.n = c.n /\ r.nowait = c.nowait

LEMMA ReturnedIs ==
  ASSUME NEW d, Typed(d), NEW i \in Int
  PROVE  LET r == Returned(d, i) IN
         /\ \A f \in UnitFields \ {"call"} : r[f] = d[f]
         /\ SameCall(r.call, d.call) /\ r.call.data = d.call.data /\ r.call.i = i /\ r.call.done
<1>1. Returned(d, i) = [d EXCEPT !.call = [[d.call EXCEPT !.done = TRUE] EXCEPT !.i = i]]
  BY DEF Returned, Typed, UnitFields
<1> HIDE DEF Returned
<1>2. DOMAIN d = UnitFields /\ DOMAIN d.call = CallFields
  BY DEF Typed, Calling
<1>3. Returned(d, i).call = [[d.call EXCEPT !.done = TRUE] EXCEPT !.i = i]
  BY <1>1, <1>2 DEF UnitFields
<1>4. \A f \in UnitFields \ {"call"} : Returned(d, i)[f] = d[f]
  BY <1>1, <1>2
<1> QED BY <1>2, <1>3, <1>4 DEF SameCall, CallFields

LEMMA MovedIs ==
  ASSUME NEW d, Typed(d), NEW c, Calling(c), NEW i \in Int
  PROVE  LET r == Moved(d, c, i)
             buf == d.bufs[d.cur] IN
         /\ r.medium = d.medium /\ r.pend = d.pend /\ r.res = d.res /\ r.pos = d.pos /\ r.crnd = d.crnd
         /\ r.rnd = d.rnd /\ r.firs = d.firs /\ r.req = d.req /\ r.fc = d.fc /\ r.bsz = d.bsz /\ r.cur = d.cur
         /\ r.capacity = d.capacity /\ r.inx = d.inx + i /\ r.qrnd = d.qrnd + i
         /\ r.writ = (d.writ \/ c.fc = "write")
         /\ r.bufs[3 - d.cur] = d.bufs[3 - d.cur]
         /\ r.bufs[d.cur] = IF c.fc = "write" THEN Overlay(buf, d.inx, SubSeq(c.data, c.i + 1, c.i + i)) ELSE buf
         /\ r.bcnt = (IF d.inx + i < d.bcnt THEN d.bcnt ELSE d.inx + i)
         /\ r.ernd \in {d.ernd, d.qrnd + i}
         /\ SameCall(r.call, d.call) /\ r.call.i = d.call.i + i
         /\ r.call.data = IF c.fc = "read" THEN d.call.data \o SubSeq(buf, d.inx + 1, d.inx + i) ELSE d.call.data
         /\ IF d.inx + i < d.bcnt \/ d.call.i + i = c.n THEN r.call.done ELSE r.call.done = d.call.done
<1> DEFINE e0 == [d EXCEPT !.inx = d.inx + i, !.qrnd = d.qrnd + i, !.writ = d.writ \/ c.fc = "write"]
           e1 == [e0 EXCEPT !.call.i = d.call.i + i]
           new == IF c.fc = "write" THEN Overlay(d.bufs[d.cur], d.inx, SubSeq(c.data, c.i + 1, c.i + i)) ELSE d.bufs[d.cur]
           e2 == [e1 EXCEPT !.bufs[d.cur] = new]
           got == IF c.fc = "read" THEN d.call.data \o SubSeq(d.bufs[d.cur], d.inx + 1, d.inx + i) ELSE d.call.data
           e == [e2 EXCEPT !.call.data = got]
           rest == UnitFields \ {"inx", "qrnd", "writ", "call", "bufs"}
<1>1. Moved(d, c, i) = Counted(e, c.n)
  BY DEF Moved
<1>2. /\ DOMAIN e0 = UnitFields /\ (\A f \in rest : e0[f] = d[f]) /\ e0.bufs = d.bufs /\ e0.call = d.call
      /\ e0.inx = d.inx + i /\ e0.qrnd = d.qrnd + i /\ e0.writ = (d.writ \/ c.fc = "write")
  BY DEF Typed, UnitFields
<1> HIDE DEF e0
<1>3. /\ DOMAIN e1 = UnitFields /\ (\A f \in UnitFields \ {"call"} : e1[f] = e0[f])
      /\ e1.call = [d.call EXCEPT !.i = d.call.i + i]
  BY <1>2 DEF UnitFields
<1> HIDE DEF e1, new, got
<1>4. /\ DOMAIN e2 = UnitFields /\ (\A f \in UnitFields \ {"bufs"} : e2[f] = e1[f])
      /\ e2.bufs = [d.bufs EXCEPT ![d.cur] = new]
  BY <1>2, <1>3 DEF UnitFields
<1> HIDE DEF e2
<1>5. /\ DOMAIN e = UnitFields /\ (\A f \in UnitFields \ {"call"} : e[f] = e2[f])
      /\ e.call = [[d.call EXCEPT !.i = d.call.i + i] EXCEPT !.data = got]
  BY <1>3, <1>4 DEF UnitFields
<1> HIDE DEF e
<1>6. /\ \A f \in rest : e[f] = d[f]
      /\ e.inx = d.inx + i /\ e.qrnd = d.qrnd + i /\ e.writ = (d.writ \/ c.fc = "write")
      /\ e.bufs = [d.bufs EXCEPT ![d.cur] = new]
  BY <1>2, <1>3, <1>4, <1>5 DEF UnitFields
<1>7. /\ SameCall(e.call, d.call) /\ e.call.i = d.call.i + i /\ e.call.data = got /\ e.call.done = d.call.done
      /\ DOMAIN e.call = CallFields
  BY <1>5 DEF Typed, Calling, CallFields, SameCall
<1>8. e.bufs[3 - d.cur] = d.bufs[3 - d.cur] /\ e.bufs[d.cur] = new
  BY <1>6 DEF Typed, Buffers
<1>9. /\ d.inx \in Int /\ d.bcnt \in Int /\ d.qrnd \in Int /\ d.ernd \in Int /\ d.call.i \in Int /\ c.n \in Int
      /\ e.bcnt = d.bcnt /\ e.ernd = d.ernd
  BY <1>6 DEF Typed, Counts, Calling, UnitFields
<1> DEFINE r == Moved(d, c, i)
           over == e.inx < e.bcnt \/ e.call.i = c.n
           g == [e EXCEPT !.bcnt = IF e.inx < @ THEN @ ELSE e.inx, !.ernd = IF e.qrnd > @ THEN e.qrnd ELSE @]
<1>10. /\ \A f \in UnitFields \ {"bcnt", "ernd", "call"} : r[f] = e[f]
       /\ r.bcnt = (IF d.inx + i < d.bcnt THEN d.bcnt ELSE d.inx + i)
       /\ r.ernd \in {d.ernd, d.qrnd + i}
       /\ SameCall(r.call, e.call) /\ r.call.data = e.call.data /\ r.call.i = e.call.i
       /\ IF over THEN r.call.done ELSE r.call.done = e.call.done
  <2>1. CASE over
    <3>1. r = Returned(g, e.call.i)
      BY <1>1, <2>1 DEF Counted
    <3>2. /\ DOMAIN g = UnitFields /\ \A f \in UnitFields \ {"bcnt", "ernd"} : g[f] = e[f]
      BY <1>5 DEF UnitFields
    <3>3. g.bcnt = (IF d.inx + i < d.bcnt THEN d.bcnt ELSE d.inx + i) /\ g.ernd \in {d.ernd, d.qrnd + i}
      BY <1>5, <1>6, <1>9 DEF UnitFields
    <3> HIDE DEF g, r
    <3>4. r = [g EXCEPT !.call = [[g.call EXCEPT !.done = TRUE] EXCEPT !.i = e.call.i]]
      BY <3>1, <3>2 DEF Returned, UnitFields
    <3>5. (\A f \in UnitFields \ {"call"} : r[f] = g[f]) /\ r.call = [[g.call EXCEPT !.done = TRUE] EXCEPT !.i = e.call.i]
      BY <3>2, <3>4 DEF UnitFields
    <3>6. g.call = e.call
      BY <3>2 DEF UnitFields
    <3>7. SameCall(r.call, e.call) /\ r.call.data = e.call.data /\ r.call.i = e.call.i /\ r.call.done
      BY <1>7, <3>5, <3>6 DEF SameCall, CallFields
    <3> QED BY <2>1, <3>2, <3>3, <3>5, <3>7 DEF UnitFields
  <2>2. CASE ~over
    <3>1. r = [e EXCEPT !.bcnt = e.inx]
      BY <1>1, <2>2 DEF Counted
    <3> HIDE DEF r
    <3>2. (\A f \in UnitFields \ {"bcnt"} : r[f] = e[f]) /\ r.bcnt = e.inx
      BY <1>5, <3>1 DEF UnitFields
    <3> QED BY <1>6, <1>9, <2>2, <3>2 DEF UnitFields, SameCall
  <2> QED BY <2>1, <2>2
<1> HIDE DEF r
<1>11. /\ r.medium = d.medium /\ r.pend = d.pend /\ r.res = d.res /\ r.pos = d.pos /\ r.crnd = d.crnd
       /\ r.rnd = d.rnd /\ r.firs = d.firs /\ r.req = d.req /\ r.fc = d.fc /\ r.bsz = d.bsz /\ r.cur = d.cur
       /\ r.capacity = d.capacity /\ r.inx = d.inx + i /\ r.qrnd = d.qrnd + i /\ r.writ = (d.writ \/ c.fc = "write")
       /\ r.bufs = e.bufs
  BY <1>6, <1>10 DEF UnitFields
<1>12. SameCall(r.call, d.call) /\ r.call.i = d.call.i + i /\ r.call.data = got
       /\ IF d.inx + i < d.bcnt \/ d.call.i + i = c.n THEN r.call.done ELSE r.call.done = d.call.done
  BY <1>6, <1>7, <1>9, <1>10 DEF SameCall
<1> QED BY <1>8, <1>10, <1>11, <1>12 DEF new, got, r

Window(d, m) ==
  /\ ~d.firs /\ d.crnd \in Nat /\ d.bcnt \in 1..d.bsz
  /\ Loaded(d.bufs[d.cur], m, d.crnd, d.bcnt)
  /\ d.inx \in 0..d.bcnt /\ d.qrnd = d.crnd + d.inx /\ d.ernd <= d.qrnd
  /\ Prefetched(d, m, d.crnd + d.bcnt)
AtStart(d, m) == d.firs /\ d.crnd = 0 /\ d.qrnd = 0 /\ d.inx = 0 /\ d.ernd = 0 /\ Prefetched(d, m, 0)
Reading(d, m, nowait) == Quiet(d, m) /\ ~d.rnd /\ (d.req => nowait) /\ (AtStart(d, m) \/ Window(d, m))
\* the call reads what follows start and does not go beyond the end
Reads(d, m, nowait) ==
  LET c == d.call IN
  /\ c.op = "transfer" /\ c.fc = "read" /\ c.nowait = nowait
  /\ c.i \in 0..c.n /\ d.qrnd + c.n - c.i <= Len(m)
  /\ Len(c.data) = c.i /\ Loaded(c.data, m, d.qrnd - c.i, c.i)
  /\ IF c.done THEN c.i = c.n ELSE c.i < c.n \/ c.n = 0
  /\ c.i > 0 => Window(d, m) /\ d.inx > 0

LEMMA SeekRead ==
  ASSUME NEW d, NEW m, NEW nowait \in BOOLEAN, Reading(d, m, nowait), d.qrnd < Len(m)
  PROVE  LET q == Ioseekblk(d, "read", nowait) IN
         /\ q.i \in Nat \ {0} /\ Reading(q.d, m, nowait) /\ Window(q.d, m) /\ q.d.inx < q.d.bcnt
         /\ q.d.qrnd = d.qrnd /\ q.d.call = d.call
<1> DEFINE q == Ioseekblk(d, "read", nowait)
<1>1. Typed(d) /\ d.crnd \in Int /\ d.qrnd \in Int /\ d.bcnt \in Int /\ d.inx \in Int /\ d.bsz \in Nat \ {0} /\ d.ernd \in Int
  BY DEF Reading, Quiet, Typed, Counts
<1>2. Len(m) \in Nat
  <2>1. IsSeq(m)
    BY DEF Reading, Quiet, Typed
  <2> QED BY <2>1, JoinSeq
<1>3. ASSUME NEW f, Quiet(f, m), Prefetched(f, m, f.crnd), f.crnd < Len(m), f.qrnd = f.crnd, f.req => nowait,
             f.ernd <= f.qrnd, f.crnd \in Nat, f.qrnd = d.qrnd, f.call = d.call
      PROVE  LET g == Fill(f, "read", nowait) IN
             /\ g.i \in Nat \ {0} /\ Reading(g.d, m, nowait) /\ Window(g.d, m) /\ g.d.inx < g.d.bcnt
             /\ g.d.qrnd = d.qrnd /\ g.d.call = d.call
  <2> DEFINE g == Fill(f, "read", nowait)
  <2>1. /\ Quiet(g.d, m) /\ Prefetched(g.d, m, g.d.crnd + g.d.bcnt) /\ (g.d.req => nowait)
        /\ g.i \in 1..g.d.bsz /\ g.d.bcnt = g.i /\ g.d.inx = 0 /\ ~g.d.firs
        /\ Loaded(g.d.bufs[g.d.cur], m, g.d.crnd, g.d.bcnt)
        /\ g.d.crnd = f.crnd /\ g.d.qrnd = f.qrnd /\ g.d.ernd = f.ernd /\ g.d.call = f.call /\ ~g.d.rnd
    BY <1>3, FillIs
  <2> HIDE DEF g
  <2>2. g.d.bsz \in Nat
    BY <2>1 DEF Quiet, Typed, Counts
  <2>3. Window(g.d, m)
    <3>0. /\ g.i \in 1..g.d.bsz /\ g.d.bcnt = g.i /\ g.d.inx = 0 /\ g.d.crnd = f.crnd /\ g.d.qrnd = f.qrnd
          /\ g.d.ernd = f.ernd /\ f.ernd <= f.qrnd /\ f.crnd \in Nat /\ f.qrnd = f.crnd
      BY <1>3, <2>1
    <3>1. g.d.crnd \in Nat /\ g.d.bcnt \in 1..g.d.bsz /\ g.d.inx \in 0..g.d.bcnt /\ g.d.qrnd = g.d.crnd + g.d.inx
          /\ g.d.ernd <= g.d.qrnd
      BY <2>2, <3>0
    <3> QED BY <2>1, <3>1 DEF Window
  <2> QED BY <1>3, <2>1, <2>2, <2>3 DEF Reading, g
<1>4. CASE AtStart(d, m)
  <2>1. q = Fill(d, "read", nowait)
    BY <1>4 DEF Ioseekblk, AtStart
  <2>2. Quiet(d, m) /\ Prefetched(d, m, d.crnd) /\ d.crnd < Len(m) /\ d.qrnd = d.crnd /\ (d.req => nowait)
        /\ d.ernd <= d.qrnd /\ d.crnd \in Nat
    BY <1>4 DEF Reading, AtStart
  <2> HIDE DEF q
  <2> QED BY <1>3, <2>1, <2>2 DEF q
<1>5. CASE Window(d, m) /\ d.inx < d.bcnt
  <2> DEFINE e == [d EXCEPT !.fc = <<"read", nowait>>, !.inx = d.qrnd - d.crnd, !.rnd = FALSE, !.firs = FALSE]
  <2>1. d.qrnd - d.crnd \in 0..(d.bcnt - 1) /\ ~d.firs /\ d.qrnd - d.crnd = d.inx
    BY <1>1, <1>5 DEF Window
  <2>2. q = Placed(d, d.bcnt, "read", nowait)
    BY <2>1 DEF Ioseekblk
  <2> HIDE DEF q
  <2>3. q.d = e /\ q.i = d.bcnt
    BY <2>2 DEF Placed, Answer
  <2>4. Typed(e) /\ \A f \in UnitFields \ {"fc", "inx", "rnd", "firs"} : e[f] = d[f]
    <3>1. TypedAnswer(q)
      BY <1>1, <2>2, PlacedTyped
    <3>2. DOMAIN d = UnitFields
      BY <1>1 DEF Typed
    <3>3. \A f \in UnitFields \ {"fc", "inx", "rnd", "firs"} : e[f] = d[f]
      BY <3>2
    <3> QED BY <2>3, <3>1, <3>3 DEF TypedAnswer
  <2>5. e.inx = d.inx /\ ~e.rnd /\ ~e.firs
    BY <1>1, <2>1 DEF Typed, UnitFields
  <2> HIDE DEF e
  <2>6. /\ e.medium = d.medium /\ e.writ = d.writ /\ e.bufs = d.bufs /\ e.bsz = d.bsz /\ e.pend = d.pend /\ e.cur = d.cur
        /\ e.req = d.req /\ e.pos = d.pos /\ e.res = d.res /\ e.crnd = d.crnd /\ e.qrnd = d.qrnd /\ e.ernd = d.ernd
        /\ e.call = d.call /\ e.bcnt = d.bcnt
    BY <2>4 DEF UnitFields
  <2>7. Quiet(e, m)
    BY <2>4, <2>6 DEF Reading, Quiet, Room
  <2>8. Window(e, m)
    BY <1>5, <2>5, <2>6 DEF Window, Prefetched
  <2>9. d.bcnt \in Nat \ {0}
    BY <1>1, <1>5 DEF Window
  <2>10. Reading(e, m, nowait)
    BY <2>5, <2>6, <2>7, <2>8 DEF Reading
  <2> QED BY <1>5, <2>3, <2>5, <2>6, <2>8, <2>9, <2>10 DEF q
<1>6. CASE Window(d, m) /\ ~(d.inx < d.bcnt)
  <2> DEFINE f == [d EXCEPT !.crnd = @ + d.bcnt]
  <2>1. d.inx = d.bcnt /\ ~d.firs /\ d.qrnd = d.crnd + d.bcnt /\ d.qrnd - d.crnd \notin 0..(d.bcnt - 1)
    BY <1>1, <1>6 DEF Window
  <2>2. Flushed(d) = Answer(d, 0)
    BY DEF Flushed, Reading, Quiet
  <2>3. q = Fill(f, "read", nowait)
    BY <2>1, <2>2 DEF Ioseekblk, Following, Answer
  <2> HIDE DEF q
  <2>4. Typed(f) /\ (\A x \in UnitFields \ {"crnd"} : f[x] = d[x]) /\ f.crnd = d.crnd + d.bcnt
    BY <1>1 DEF Typed, UnitFields, Counts
  <2> HIDE DEF f
  <2>5. /\ f.medium = d.medium /\ f.writ = d.writ /\ f.bufs = d.bufs /\ f.bsz = d.bsz /\ f.pend = d.pend /\ f.cur = d.cur
        /\ f.req = d.req /\ f.pos = d.pos /\ f.res = d.res /\ f.qrnd = d.qrnd /\ f.ernd = d.ernd
        /\ f.call = d.call /\ f.bcnt = d.bcnt
    BY <2>4 DEF UnitFields
  <2>6. Quiet(f, m)
    BY <2>4, <2>5 DEF Reading, Quiet, Room
  <2>7. Prefetched(f, m, f.crnd)
    BY <1>6, <2>4, <2>5 DEF Window, Prefetched
  <2>8. f.crnd < Len(m) /\ f.qrnd = f.crnd /\ (f.req => nowait) /\ f.ernd <= f.qrnd /\ f.crnd \in Nat
    BY <1>1, <1>6, <2>1, <2>4, <2>5 DEF Window, Reading
  <2> QED BY <1>3, <2>3, <2>5, <2>6, <2>7, <2>8 DEF q
<1> QED BY <1>4, <1>5, <1>6 DEF Reading

\* A turn of iordwr that reads: the call comes nearer to its end and the data
\* are those of the archive.
LEMMA ReadTurn ==
  ASSUME NEW d, NEW m, NEW nowait \in BOOLEAN, Reading(d, m, nowait), Reads(d, m, nowait), ~d.call.done
  PROVE  LET r == Io(d) IN
         /\ Reading(r, m, nowait) /\ Reads(r, m, nowait) /\ SameCall(r.call, d.call)
         /\ r.qrnd - r.call.i = d.qrnd - d.call.i
<1> DEFINE c == d.call
           r == Io(d)
           q == Ioseekblk(d, "read", nowait)
<1>1. Typed(d) /\ Calling(c) /\ c.n \in Int /\ c.i \in Int /\ c.i \in 0..c.n /\ d.qrnd \in Int /\ d.qrnd >= 0
  BY DEF Reading, Quiet, Typed, Counts, Calling, Reads, AtStart, Window
<1>2. Io(d) = Iordwr(d)
  BY DEF Io, Reads
<1>3. CASE c.n = 0
  <2>1. r = Returned(d, 0) /\ c.i = 0
    BY <1>1, <1>2, <1>3 DEF Iordwr
  <2> HIDE DEF r
  <2>2. /\ \A f \in UnitFields \ {"call"} : r[f] = d[f]
        /\ SameCall(r.call, d.call) /\ r.call.data = d.call.data /\ r.call.i = 0 /\ r.call.done
    BY <1>1, <2>1, ReturnedIs
  <2>3. Typed(r)
    BY <1>1, <2>1, ReturnedTyped
  <2>4. Reading(r, m, nowait)
    BY <2>2, <2>3 DEF Reading, Quiet, Room, AtStart, Window, Prefetched, UnitFields
  <2>5. Reads(r, m, nowait) /\ r.qrnd = d.qrnd
    <3>1. ~(0 > 0)
      OBVIOUS
    <3> QED BY <1>3, <2>1, <2>2, <3>1 DEF Reads, SameCall, UnitFields
  <2> QED BY <2>1, <2>2, <2>4, <2>5 DEF r
<1>4. CASE c.n # 0
  <2>1. c.i < c.n /\ d.qrnd < Len(m) /\ Len(m) \in Nat /\ IsSeq(m) /\ d.qrnd + c.n - c.i <= Len(m)
    <3>1. IsSeq(m)
      BY DEF Reading, Quiet, Typed
    <3>2. Len(m) \in Nat
      BY <3>1, JoinSeq
    <3> QED BY <1>1, <1>4, <3>1, <3>2 DEF Reads
  <2>2. /\ q.i \in Nat \ {0} /\ Reading(q.d, m, nowait) /\ Window(q.d, m) /\ q.d.inx < q.d.bcnt
        /\ q.d.qrnd = d.qrnd /\ q.d.call = d.call
    BY <2>1, SeekRead
  <2> DEFINE e == q.d
             k == Least(c.n - c.i, e.bcnt - e.inx)
  <2>3. r = Moved(e, c, k)
    <3>1. ~d.rnd /\ c.fc = "read" /\ c.nowait = nowait
      BY DEF Reading, Reads
    <3>2. r = Transferred(q, c)
      BY <1>2, <1>4, <3>1 DEF Iordwr
    <3> HIDE DEF q
    <3> QED BY <2>2, <3>1, <3>2 DEF Transferred
  <2> HIDE DEF r, q
  <2>4. /\ Typed(e) /\ e.inx \in Nat /\ e.bcnt \in Nat /\ e.crnd \in Nat /\ e.bsz \in Nat /\ e.qrnd = e.crnd + e.inx /\ e.bcnt <= e.bsz
        /\ e.ernd \in Int /\ e.ernd <= e.qrnd /\ e.cur \in {1, 2}
        /\ e.inx < e.bcnt /\ e.qrnd = d.qrnd /\ e.call = c /\ Reading(e, m, nowait) /\ Window(e, m)
    BY <2>2 DEF Reading, Quiet, Typed, Counts, Window
  <2>0. c.fc = "read" /\ ~e.writ /\ ~c.done
    BY <2>4 DEF Reads, Reading, Quiet
  <2> HIDE DEF e, c
  <2>5. k \in Nat \ {0} /\ k <= c.n - c.i /\ k <= e.bcnt - e.inx
    <3>1. c.n \in Int /\ c.i \in Int /\ c.i < c.n /\ e.bcnt \in Nat /\ e.inx \in Nat /\ e.inx < e.bcnt
      BY <1>1, <2>1, <2>4
    <3>2. c.n - c.i \in Nat \ {0}
      BY <3>1
    <3>3. e.bcnt - e.inx \in Nat \ {0}
      BY <3>1
    <3> QED BY <3>2, <3>3 DEF Least
  <2>6. k = c.n - c.i \/ k = e.bcnt - e.inx
    BY DEF Least
  <2> HIDE DEF k
  <2> DEFINE buf == e.bufs[e.cur]
  <2>7. /\ r.medium = e.medium /\ r.pend = e.pend /\ r.res = e.res /\ r.pos = e.pos /\ r.crnd = e.crnd
        /\ r.rnd = e.rnd /\ r.firs = e.firs /\ r.req = e.req /\ r.bsz = e.bsz /\ r.cur = e.cur
        /\ r.inx = e.inx + k /\ r.qrnd = e.qrnd + k
        /\ r.writ = (e.writ \/ c.fc = "write")
        /\ r.bufs[3 - e.cur] = e.bufs[3 - e.cur]
        /\ r.bufs[e.cur] = IF c.fc = "write" THEN Overlay(buf, e.inx, SubSeq(c.data, c.i + 1, c.i + k)) ELSE buf
        /\ r.bcnt = (IF e.inx + k < e.bcnt THEN e.bcnt ELSE e.inx + k)
        /\ r.ernd \in {e.ernd, e.qrnd + k}
        /\ SameCall(r.call, e.call) /\ r.call.i = e.call.i + k
        /\ r.call.data = IF c.fc = "read" THEN e.call.data \o SubSeq(buf, e.inx + 1, e.inx + k) ELSE e.call.data
        /\ IF e.inx + k < e.bcnt \/ e.call.i + k = c.n THEN r.call.done ELSE r.call.done = e.call.done
    <3>1. Typed(e) /\ Calling(c) /\ k \in Int /\ k \in Nat
      BY <1>1, <2>4, <2>5
    <3> QED BY <2>3, <3>1, MovedIs
  <2>8. Typed(r)
    BY <1>1, <2>3, <2>4, <2>5, MovedTyped
  <2>9. c.fc = "read" /\ e.call = c /\ r.bcnt = e.bcnt /\ r.bufs[e.cur] = buf /\ ~r.writ
    <3>1. ~(e.inx + k < e.bcnt) => e.inx + k = e.bcnt
      <4>1. e.inx \in Nat /\ e.bcnt \in Nat /\ k \in Nat /\ k <= e.bcnt - e.inx
        BY <2>4, <2>5
      <4> QED BY <4>1
    <3>2. e.call = c
      BY <2>4
    <3>3. r.bcnt = e.bcnt
      BY <2>7, <3>1
    <3>4. r.bufs[e.cur] = buf
      BY <2>0, <2>7
    <3>6. ~r.writ
      BY <2>0, <2>7
    <3> QED BY <2>0, <3>2, <3>3, <3>4, <3>6
  <2>10. r.bufs[1] = e.bufs[1] /\ r.bufs[2] = e.bufs[2] /\ r.bufs[3 - r.cur] = e.bufs[3 - r.cur]
    <3>1. CASE e.cur = 1
      BY <2>7, <2>9, <3>1
    <3>2. CASE e.cur = 2
      BY <2>7, <2>9, <3>2
    <3> QED BY <2>4, <3>1, <3>2
  <2>11. Quiet(r, m)
    BY <2>4, <2>7, <2>8, <2>9, <2>10 DEF Reading, Quiet, Room
  <2>12. Window(r, m)
    <3>1. Prefetched(r, m, r.crnd + r.bcnt)
      BY <2>4, <2>7, <2>9, <2>10 DEF Window, Prefetched
    <3>2. Loaded(r.bufs[r.cur], m, r.crnd, r.bcnt)
      BY <2>4, <2>7, <2>9 DEF Window
    <3>4. /\ e.inx \in Nat /\ e.bcnt \in Nat /\ k \in Nat /\ k <= e.bcnt - e.inx /\ e.crnd \in Nat /\ e.ernd \in Int
          /\ e.ernd <= e.qrnd /\ e.qrnd = e.crnd + e.inx
          /\ r.inx = e.inx + k /\ r.bcnt = e.bcnt /\ r.qrnd = e.qrnd + k /\ r.crnd = e.crnd /\ r.ernd \in {e.ernd, e.qrnd + k}
      BY <2>4, <2>5, <2>7, <2>9
    <3>3. r.inx \in 0..r.bcnt /\ r.qrnd = r.crnd + r.inx /\ r.ernd <= r.qrnd
      BY <3>4
    <3> QED BY <2>4, <2>7, <2>9, <3>1, <3>2, <3>3 DEF Window
  <2>13. Reading(r, m, nowait)
    BY <2>4, <2>7, <2>11, <2>12 DEF Reading
  <2>14. Len(r.call.data) = r.call.i /\ Loaded(r.call.data, m, r.qrnd - r.call.i, r.call.i)
    <3> DEFINE part == SubSeq(buf, e.inx + 1, e.inx + k)
    <3>1. IsSeq(buf) /\ IsSeq(c.data)
      BY <1>1, <2>4 DEF Typed, Buffers, Calling, c
    <3>2. IsSeq(part) /\ Len(part) = k /\ \A j \in 1..k : part[j] = buf[e.inx + j]
      BY <2>4, <2>5, <3>1, SliceSeq
    <3> HIDE DEF part
    <3>3. r.call.data = c.data \o part /\ Len(c.data) = c.i /\ Loaded(c.data, m, d.qrnd - c.i, c.i)
      BY <2>7, <2>9 DEF part, Reads, c
    <3>4. /\ Len(r.call.data) = c.i + k
          /\ \A j \in 1..c.i : r.call.data[j] = c.data[j]
          /\ \A j \in 1..k : r.call.data[c.i + j] = part[j]
      <4>1. /\ Len(c.data \o part) = Len(c.data) + Len(part)
            /\ \A j \in 1..Len(c.data) : (c.data \o part)[j] = c.data[j]
            /\ \A j \in 1..Len(part) : (c.data \o part)[Len(c.data) + j] = part[j]
        BY <3>1, <3>2, JoinSeq
      <4> QED BY <3>2, <3>3, <4>1
    <3>5. r.call.i = c.i + k /\ r.qrnd - r.call.i = d.qrnd - c.i
      BY <1>1, <2>4, <2>5, <2>7
    <3>6. \A j \in 1..(c.i + k) : r.call.data[j] = m[d.qrnd - c.i + j]
      <4> TAKE j \in 1..(c.i + k)
      <4>1. CASE j <= c.i
        BY <1>1, <2>5, <3>3, <3>4, <4>1 DEF Loaded
      <4>2. CASE ~(j <= c.i)
        <5> DEFINE l == j - c.i
        <5>1. l \in 1..k /\ j = c.i + l /\ e.inx + l \in 1..e.bcnt
          BY <1>1, <2>4, <2>5, <4>2
        <5>2. r.call.data[j] = part[l] /\ part[l] = buf[e.inx + l]
          BY <3>2, <3>4, <5>1
        <5>3. buf[e.inx + l] = m[e.crnd + (e.inx + l)]
          BY <2>4, <5>1 DEF Window, Loaded
        <5>4. e.crnd + (e.inx + l) = d.qrnd - c.i + j
          BY <1>1, <2>4, <5>1
        <5> QED BY <5>2, <5>3, <5>4
      <4> QED BY <4>1, <4>2
    <3> QED BY <3>4, <3>5, <3>6 DEF Loaded
  <2>15. r.call.i = c.i + k /\ r.qrnd = d.qrnd + k /\ r.call.n = c.n
    BY <2>4, <2>7, <2>9 DEF SameCall
  <2>16. Reads(r, m, nowait)
    <3>1. r.call.i \in 0..r.call.n /\ r.qrnd + r.call.n - r.call.i <= Len(m)
      BY <1>1, <2>1, <2>5, <2>15
    <3>2. IF r.call.done THEN r.call.i = r.call.n ELSE r.call.i < r.call.n
      <4>1. c.n \in Int /\ c.i \in Int /\ k \in Int /\ e.inx \in Int /\ e.bcnt \in Int /\ k <= c.n - c.i
        BY <1>1, <2>4, <2>5
      <4>2. c.i + k # c.n => c.i + k < c.n /\ ~(e.inx + k < e.bcnt)
        BY <2>6, <4>1
      <4>3. c.i + k = c.n => r.call.done
        BY <2>7, <2>9
      <4>4. c.i + k # c.n => ~r.call.done
        BY <2>0, <2>7, <2>9, <4>2
      <4> QED BY <2>15, <4>2, <4>3, <4>4
    <3>3. r.inx > 0
      <4>1. r.inx = e.inx + k
        BY <2>7
      <4> QED BY <2>4, <2>5, <4>1
    <3> QED BY <2>7, <2>9, <2>12, <2>14, <3>1, <3>2, <3>3 DEF Reads, SameCall, c
  <2>17. r.qrnd - r.call.i = d.qrnd - c.i
    BY <1>1, <2>5, <2>15
  <2>18. SameCall(r.call, c)
    BY <2>7, <2>9
  <2> QED BY <2>13, <2>16, <2>17, <2>18 DEF r, c
<1> QED BY <1>3, <1>4

-----------------------------------------------------------------------------
(* The end of an archive *)

\* The first of the numbers up to N for which something fails.
LEMMA FirstOf ==
  ASSUME NEW N \in Nat, NEW S, S \subseteq 0..N, S # {}
  PROVE  \E x \in S : \A y \in S : x <= y
<1> DEFINE F == {0..(x - 1) : x \in S}
<1>1. F \subseteq FiniteSubsetsOf(0..N) /\ F # {}
  <2>1. ASSUME NEW x \in S PROVE 0..(x - 1) \subseteq 0..N /\ IsFiniteSet(0..(x - 1))
    BY FS_Interval
  <2> QED
    BY <2>1 DEF FiniteSubsetsOf
<1>2. PICK T \in F : \A U \in F : <<U, T>> \notin StrictSubsetOrdering(0..N)
  BY <1>1, FS_StrictSubsetOrderingWellFounded, WFMin
<1>3. PICK x \in S : T = 0..(x - 1)
  OBVIOUS
<1>4. ASSUME NEW y \in S, y < x PROVE FALSE
  <2>1. 0..(y - 1) \subseteq 0..N /\ 0..(x - 1) \subseteq 0..N /\ 0..(y - 1) \subseteq 0..(x - 1)
    BY <1>4
  <2>2. y \in 0..(x - 1) /\ y \notin 0..(y - 1)
    BY <1>4
  <2>3. 0..(y - 1) \in F
    OBVIOUS
  <2> HIDE DEF F
  <2> QED
    BY <1>2, <1>3, <2>1, <2>2, <2>3 DEF StrictSubsetOrdering
<1> QED
  BY <1>4

LEMMA BlocksNat ==
  ASSUME NEW x \in Nat
  PROVE  Blocks(x) \in Nat
<1>1. BlkSiz \in Nat \ {0}
  BY TarAssumption
<1> DEFINE y == x + BlkSiz - 1
<1>2. y \in Nat
  BY <1>1
<1> HIDE DEF y
<1>3. y \div BlkSiz \in Nat
  BY <1>1, <1>2
<1> QED BY <1>3 DEF Blocks, y

LEMMA AheadNat ==
  ASSUME NEW b, Header(b)
  PROVE  Ahead(b) \in Nat
BY BlocksNat DEF Ahead, Header

Heads(m, k) == k < Len(m) /\ Header(m[k + 1])
Jump(m, k) == k + 1 + Ahead(m[k + 1])
Steps(m, f, k) == f[k] = IF Heads(m, k) THEN f[Jump(m, k)] ELSE k

LEMMA JumpsOn ==
  ASSUME NEW m, NEW k \in Nat, Heads(m, k)
  PROVE  Jump(m, k) \in Nat /\ Jump(m, k) > k
BY AheadNat DEF Heads, Jump

\* The definition of From by recursion is sound: headers lead on, and past the
\* last block there is none.
LEMMA FromIs ==
  ASSUME NEW m, IsSeq(m)
  PROVE  \A k \in Nat : Steps(m, From(m), k)
<1>1. Len(m) \in Nat
  BY JoinSeq
<1> DEFINE Right(g, j) == g \in [Nat -> Nat] /\ \A k \in Nat : k + j >= Len(m) => Steps(m, g, k)
           Wrong == {j \in 0..Len(m) : ~\E g : Right(g, j)}
<1>2. \E g : Right(g, 0)
  <2> DEFINE g == [k \in Nat |-> k]
  <2>1. Right(g, 0)
    BY <1>1 DEF Steps, Heads
  <2> QED BY <2>1
<1>3. ASSUME NEW j \in Nat, j < Len(m), NEW g, Right(g, j)
      PROVE  \E h : Right(h, j + 1)
  <2> DEFINE n == Len(m) - (j + 1)
             h == [g EXCEPT ![n] = IF Heads(m, n) THEN g[Jump(m, n)] ELSE n]
  <2>1. n \in Nat
    BY <1>1, <1>3
  <2>2. Heads(m, n) => g[Jump(m, n)] \in Nat
    BY <2>1, <1>3, JumpsOn
  <2>3. h \in [Nat -> Nat] /\ h[n] = (IF Heads(m, n) THEN g[Jump(m, n)] ELSE n) /\ \A k \in Nat : k # n => h[k] = g[k]
    BY <1>3, <2>1, <2>2
  <2> HIDE DEF h
  <2>4. ASSUME NEW k \in Nat, k + (j + 1) >= Len(m)
        PROVE  Steps(m, h, k)
    <3>1. Heads(m, k) => Jump(m, k) \in Nat /\ Jump(m, k) > k
      BY JumpsOn
    <3>2. k >= n
      BY <1>1, <2>4
    <3> HIDE DEF n
    <3>3. CASE k = n
      BY <2>1, <2>3, <3>1, <3>3 DEF Steps
    <3>4. CASE k # n
      <4>1. Steps(m, g, k)
        BY <1>1, <1>3, <2>4, <3>2, <3>4 DEF n
      <4>2. Heads(m, k) => h[Jump(m, k)] = g[Jump(m, k)]
        BY <2>1, <2>3, <3>1, <3>2
      <4> QED BY <2>3, <3>4, <4>1, <4>2 DEF Steps
    <3> QED BY <3>3, <3>4
  <2> QED BY <2>3, <2>4
<1>4. Wrong = {}
  <2> SUFFICES ASSUME Wrong # {} PROVE FALSE
    OBVIOUS
  <2>1. PICK j \in Wrong : \A y \in Wrong : j <= y
    BY <1>1, FirstOf
  <2>2. j # 0 /\ j \in 0..Len(m)
    BY <1>2, <2>1
  <2> DEFINE i == j - 1
  <2>3. i \in 0..Len(m) /\ ~(j <= i) /\ i < Len(m) /\ i \in Nat /\ i + 1 = j
    BY <1>1, <2>2
  <2> HIDE DEF i, Right
  <2>4. \E g : Right(g, i)
    <3>1. i \notin Wrong
      <4> HIDE DEF Wrong
      <4> QED BY <2>1, <2>3
    <3> QED BY <2>3, <3>1
  <2>5. \E h : Right(h, i + 1)
    BY <1>3, <2>3, <2>4
  <2> QED BY <2>1, <2>3, <2>5
<1>5. PICK g : Right(g, Len(m))
  <2>1. Len(m) \in 0..Len(m)
    BY <1>1
  <2> HIDE DEF Right
  <2> QED BY <1>4, <2>1
<1> DEFINE Body(f) == [k \in Nat |-> IF k < Len(m) /\ Header(m[k + 1]) THEN f[k + 1 + Ahead(m[k + 1])] ELSE k]
<1>6. g = Body(g)
  BY <1>1, <1>5 DEF Steps, Heads, Jump
<1>7. From(m) = CHOOSE f : f = Body(f)
  BY DEF From
<1> HIDE DEF Body
<1>8. From(m) = Body(From(m))
  BY <1>6, <1>7
<1> QED BY <1>8 DEF Body, Steps, Heads, Jump

LEMMA FromGrows ==
  ASSUME NEW m, IsSeq(m), NEW n \in Nat
  PROVE  From(m)[n] \in Nat /\ From(m)[n] >= n
<1>1. Len(m) \in Nat
  BY JoinSeq
<1> DEFINE f == From(m)
           Right(k) == f[k] \in Nat /\ f[k] >= k
           Wrong == {j \in 0..Len(m) : \E k \in Nat : k + j >= Len(m) /\ ~Right(k)}
<1>2. \A k \in Nat : Steps(m, f, k)
  BY FromIs
<1> HIDE DEF f
<1>3. Wrong = {}
  <2> SUFFICES ASSUME Wrong # {} PROVE FALSE
    OBVIOUS
  <2>1. PICK j \in Wrong : \A y \in Wrong : j <= y
    BY <1>1, FirstOf
  <2>2. PICK k \in Nat : k + j >= Len(m) /\ ~Right(k)
    BY <2>1
  <2>3. j \in 0..Len(m)
    BY <2>1
  <2>4. Heads(m, k)
    BY <1>2, <2>2 DEF Steps
  <2>5. Jump(m, k) \in Nat /\ Jump(m, k) > k /\ f[k] = f[Jump(m, k)]
    BY <1>2, <2>4, JumpsOn DEF Steps
  <2>6. j # 0
    BY <1>1, <2>2, <2>4 DEF Heads
  <2>7. j - 1 \in 0..Len(m) /\ j - 1 \notin Wrong
    <3>1. j - 1 \in 0..Len(m) /\ ~(j <= j - 1)
      BY <1>1, <2>3, <2>6
    <3> HIDE DEF Wrong
    <3> QED BY <2>1, <3>1
  <2>8. Jump(m, k) + (j - 1) >= Len(m)
    BY <1>1, <2>2, <2>3, <2>5, <2>6
  <2>9. Right(Jump(m, k))
    BY <2>5, <2>7, <2>8
  <2> QED BY <2>2, <2>5, <2>9
<1>4. n + Len(m) >= Len(m) /\ Len(m) \in 0..Len(m) /\ Len(m) \notin Wrong
  BY <1>1, <1>3
<1> QED BY <1>4 DEF f

-----------------------------------------------------------------------------
(* Writing over the end e of an archive m: what comes before the end is the *)
(* same on the medium and in the two buffers.                               *)

Agrees(buf, at, n, m, e) == \A k \in 1..n : at + k <= e => buf[k] = m[at + k]
Stays(medium, m, e) == e \in 0..Len(medium) /\ \A k \in 1..e : medium[k] = m[k]
\* the block before that of the program is on the medium, on its way or refused
Queue(d, m, e) ==
  /\ d.pend.fc \in {"none", "write"}
  /\ d.pend.fc = "write" =>
       /\ d.req /\ d.pend.buf = 3 - d.cur /\ d.pend.n = d.bsz
       /\ d.pos \in Nat /\ d.pos + d.bsz = d.crnd /\ Agrees(d.bufs[3 - d.cur], d.pos, d.bsz, m, e)
  /\ d.pend.fc = "none" /\ d.req =>
       \/ d.res = d.bsz /\ d.pos = d.crnd
       \/ d.res = -1 /\ d.pos + d.bsz > d.capacity
  /\ ~d.req => d.pend.fc = "none" /\ d.pos = d.crnd
Filling(d, m, e) ==
  /\ Typed(d) /\ ~d.rnd /\ d.fc[1] = "write" /\ d.crnd \in Nat /\ d.inx \in 0..d.bsz /\ d.qrnd = d.crnd + d.inx
  /\ d.bcnt \in 0..d.bsz /\ e <= d.qrnd /\ d.ernd <= d.qrnd + 1
  /\ Agrees(d.bufs[d.cur], d.crnd, d.bsz, m, e) /\ Stays(d.medium, m, e) /\ Queue(d, m, e)
Writing(d, m, e) == Filling(d, m, e) /\ d.inx <= d.bcnt /\ d.ernd <= d.qrnd /\ (d.inx > 0 => d.writ)
\* nothing reaches the medium any more: what is left in the buffer has no room
Dead(d, m, e) ==
  /\ Typed(d) /\ Stays(d.medium, m, e) /\ d.pend.fc # "write"
  /\ d.writ => d.pend.fc = "none" /\ ~d.req /\ d.pos + d.inx > d.capacity

LEMMA LaidOver ==
  ASSUME NEW s, NEW buf, NEW m, IsSeq(s), IsSeq(buf), NEW e \in Nat, NEW at \in Nat, NEW n \in Nat,
         Stays(s, m, e), Agrees(buf, at, n, m, e)
  PROVE  Stays(Overlay(s, at, SubSeq(buf, 1, n)), m, e)
<1> DEFINE u == SubSeq(buf, 1, n)
           o == Overlay(s, at, u)
<1>1. IsSeq(u) /\ Len(u) = n /\ \A k \in 1..n : u[k] = buf[k]
  <2>1. IsSeq(u) /\ Len(u) = (IF 1 <= n THEN n - 1 + 1 ELSE 0) /\ \A k \in 1..(n - 1 + 1) : u[k] = buf[1 + k - 1]
    BY PartSeq
  <2> HIDE DEF u
  <2> QED BY <2>1
<1> HIDE DEF u
<1>2. Len(s) \in Nat
  BY JoinSeq
<1>3. /\ Len(o) \in Nat /\ Len(o) >= Len(s)
      /\ \A k \in 1..at : o[k] = s[k]
      /\ \A k \in 1..n : o[at + k] = u[k]
      /\ \A k \in (at + n + 1)..Len(s) : o[k] = s[k]
  <2>1. at \in Int /\ IsSeq(s) /\ IsSeq(u)
    BY <1>1
  <2>2. /\ Len(o) \in Nat /\ Len(o) >= Len(s)
        /\ \A k \in 1..at : o[k] = s[k]
        /\ \A k \in 1..Len(u) : o[at + k] = u[k]
        /\ \A k \in (at + Len(u) + 1)..Len(s) : o[k] = s[k]
    BY <2>1, OverlayIs
  <2> HIDE DEF o
  <2> QED BY <1>1, <2>2
<1> HIDE DEF o
<1>4. ASSUME NEW k \in 1..e PROVE o[k] = m[k]
  <2>1. s[k] = m[k] /\ k \in 1..Len(s)
    BY <1>2 DEF Stays
  <2>2. CASE k <= at
    BY <1>3, <2>1, <2>2
  <2>3. CASE k > at /\ k <= at + n
    <3> DEFINE j == k - at
    <3>1. j \in 1..n /\ at + j = k /\ at + j <= e
      BY <2>3
    <3> HIDE DEF j
    <3> QED BY <1>1, <1>3, <3>1 DEF Agrees
  <2>4. CASE k > at + n
    <3>1. k \in (at + n + 1)..Len(s)
      BY <1>2, <2>1, <2>4
    <3> QED BY <1>3, <2>1, <3>1
  <2> QED BY <2>2, <2>3, <2>4
<1> QED BY <1>2, <1>3, <1>4 DEF Stays, o, u

LEMMA QueueDone ==
  ASSUME NEW d, NEW m, NEW e \in Nat, Typed(d), d.crnd \in Nat, Queue(d, m, e), Stays(d.medium, m, e)
  PROVE  LET r == Performed(d) IN
         Typed(r) /\ Rest(r, d) /\ r.bufs = d.bufs /\ r.pend.fc = "none" /\ Queue(r, m, e) /\ Stays(r.medium, m, e)
<1> DEFINE r == Performed(d)
<1>1. Typed(r) /\ Rest(r, d) /\ r.pend.fc = "none" /\ (d.pend.fc = "none" => r = d)
  BY PerformedTyped, PerformedIs
<1>2. CASE d.pend.fc = "none"
  BY <1>1, <1>2
<1>3. CASE d.pend.fc = "write"
  <2> DEFINE n == d.pend.n
             buf == d.bufs[d.pend.buf]
  <2>1. n = d.bsz /\ d.req /\ d.pend.buf = 3 - d.cur /\ d.pos \in Nat /\ d.pos + d.bsz = d.crnd /\ Agrees(buf, d.pos, n, m, e)
    BY <1>3 DEF Queue
  <2>2. n \in Nat /\ IsSeq(buf) /\ IsSeq(d.medium)
    BY <2>1 DEF Typed, Counts, Buffers, Pending
  <2>3. Stays(Overlay(d.medium, d.pos, SubSeq(buf, 1, n)), m, e)
    BY <2>1, <2>2, LaidOver
  <2>4. /\ r.bufs = d.bufs
        /\ d.pos + n > d.capacity => r.res = -1 /\ r.pos = d.pos /\ r.medium = d.medium
        /\ ~(d.pos + n > d.capacity) => /\ r.res = n /\ r.pos = d.pos + n
                                        /\ r.medium = Overlay(d.medium, d.pos, SubSeq(buf, 1, n))
    BY <1>3, PerformedWrite
  <2> HIDE DEF r, n, buf
  <2>5. Stays(r.medium, m, e)
    BY <2>3, <2>4
  <2>6. Queue(r, m, e)
    BY <1>1, <2>1, <2>4 DEF Queue, Rest
  <2> QED BY <1>1, <2>4, <2>5, <2>6 DEF r
<1> QED BY <1>2, <1>3 DEF Queue

\* The buffer of d is the request that is outstanding in g; and g is where d was.
Passed(g, d) ==
  /\ g.pos = d.crnd /\ g.pend = [fc |-> "write", buf |-> d.cur, n |-> d.bsz] /\ g.cur = 3 - d.cur /\ g.bufs = d.bufs
  /\ g.medium = Performed(d).medium /\ Performed(d).pos = d.crnd
There(g, d) ==
  /\ g.pos = d.pos /\ g.pend = d.pend /\ g.cur = d.cur /\ g.bufs = d.bufs /\ g.medium = d.medium
  /\ g.crnd = d.crnd /\ g.inx = d.inx

\* A full block goes to the device, or the one before it was refused.
LEMMA FlushFull ==
  ASSUME NEW d, NEW m, NEW e \in Nat, Writing(d, m, e), d.inx = d.bsz
  PROVE  LET f == Flushed(d)  g == f.d IN
         /\ Typed(g) /\ g.call = d.call /\ g.bsz = d.bsz /\ g.inx = g.bsz /\ Stays(g.medium, m, e)
         /\ \/ f.i = -1 /\ Dead(g, m, e) /\ g.writ
            \/ /\ f.i = d.bsz /\ ~g.writ /\ ~g.rnd /\ g.crnd = d.qrnd /\ g.qrnd = d.qrnd /\ g.ernd = d.ernd /\ g.bcnt = 0
               /\ Queue(g, m, e) /\ Passed(g, d)
<1> DEFINE n == d.bcnt
           p == Performed(d)
           s == Iosvc(d, "write", TRUE, n)
<1>1. /\ Typed(d) /\ d.writ /\ n = d.bsz /\ n \in Nat \ {0} /\ d.crnd \in Nat /\ d.qrnd = d.crnd + n /\ Queue(d, m, e)
      /\ Stays(d.medium, m, e) /\ d.cur \in {1, 2} /\ "write" \in {"read", "write"} /\ ~d.rnd
      /\ Agrees(d.bufs[d.cur], d.crnd, n, m, e)
  BY DEF Writing, Filling, Typed, Counts
<1>2. Typed(p) /\ Rest(p, d) /\ p.bufs = d.bufs /\ p.pend.fc = "none" /\ Queue(p, m, e) /\ Stays(p.medium, m, e)
  BY <1>1, QueueDone
<1>3. Flushed(d) = After(s, n) /\ s = Outstanding(p, IF p.req THEN p.res ELSE n, "write", n)
  BY <1>1 DEF Flushed, Iosvc, Primed, Awaited
<1>4. TypedAnswer(s) /\ TypedAnswer(Flushed(d))
  <2>1. n \in Int
    BY <1>1
  <2> HIDE DEF n
  <2> QED BY <1>1, <2>1, IosvcTyped, FlushedTyped
<1> HIDE DEF p, s, n
<1>5. CASE p.req /\ p.res # n
  <2>1. p.res = -1 /\ p.pos + p.bsz > p.capacity /\ -1 < 0
    BY <1>1, <1>2, <1>5 DEF Queue, Rest
  <2>2. s = Answer([p EXCEPT !.req = FALSE, !.crnd = p.pos], -1)
    BY <1>3, <1>5, <2>1 DEF Outstanding
  <2> DEFINE g == [p EXCEPT !.req = FALSE, !.crnd = p.pos]
  <2>3. s.d = g /\ s.i = -1
    BY <2>2 DEF Answer
  <2>4. Flushed(d) = Answer(g, -1)
    BY <1>1, <1>3, <2>3 DEF After
  <2>5. /\ g.call = p.call /\ g.bsz = p.bsz /\ g.inx = p.inx /\ g.medium = p.medium /\ g.pend = p.pend /\ ~g.req
        /\ g.pos = p.pos /\ g.capacity = p.capacity /\ g.writ = p.writ
    BY <1>2 DEF Typed, UnitFields
  <2> HIDE DEF g
  <2>6. Typed(g)
    BY <1>4, <2>3 DEF TypedAnswer
  <2>7. g.call = d.call /\ g.bsz = d.bsz /\ g.inx = g.bsz /\ g.writ
    BY <1>1, <1>2, <2>5 DEF Rest
  <2>8. Dead(g, m, e)
    BY <1>2, <2>1, <2>5, <2>6, <2>7 DEF Dead
  <2> QED BY <2>4, <2>6, <2>7, <2>8 DEF Answer, Dead
<1>6. CASE ~(p.req /\ p.res # n)
  <2>1. (IF p.req THEN p.res ELSE n) = n /\ p.pos = p.crnd /\ ~(n < 0)
    BY <1>1, <1>2, <1>6 DEF Queue, Rest
  <2> DEFINE o == [p EXCEPT !.req = TRUE]
             a == Requested(o, "write", p.cur, n)
             w == Swapped(a)
             g == [w EXCEPT !.crnd = w.crnd + n, !.bcnt = 0]
  <2>2. s = Answer(w, n)
    <3>1. o.cur = p.cur
      BY <1>2 DEF Typed, UnitFields
    <3> QED BY <1>3, <2>1 DEF Outstanding
  <2>3. s.d = w /\ s.i = n
    BY <2>2 DEF Answer
  <2>4. Flushed(d) = Answer(g, n)
    BY <1>3, <2>3 DEF After
  <2>5. Typed(g)
    BY <1>4, <2>4 DEF TypedAnswer, Answer
  <2>6. /\ DOMAIN o = UnitFields /\ o.req /\ \A x \in UnitFields \ {"req"} : o[x] = p[x]
    BY <1>2 DEF Typed, UnitFields
  <2> HIDE DEF o
  <2>7. /\ DOMAIN a = UnitFields /\ a.req /\ a.pend = [fc |-> "write", buf |-> p.cur, n |-> n]
        /\ \A x \in UnitFields \ {"req", "pend"} : a[x] = p[x]
    BY <2>6 DEF Requested, UnitFields
  <2> HIDE DEF a
  <2>8. /\ DOMAIN w = UnitFields /\ w.req /\ w.pend = [fc |-> "write", buf |-> p.cur, n |-> n] /\ w.cur = 3 - p.cur /\ ~w.writ
        /\ \A x \in UnitFields \ {"req", "pend", "cur", "writ"} : w[x] = p[x]
    BY <2>7 DEF Swapped, UnitFields
  <2> HIDE DEF w
  <2>9. /\ g.req /\ g.pend = [fc |-> "write", buf |-> p.cur, n |-> n] /\ g.cur = 3 - p.cur /\ ~g.writ
        /\ g.crnd = p.crnd + n /\ g.bcnt = 0 /\ g.call = p.call /\ g.bsz = p.bsz /\ g.inx = p.inx /\ g.medium = p.medium
        /\ g.rnd = p.rnd /\ g.qrnd = p.qrnd /\ g.ernd = p.ernd /\ g.pos = p.pos /\ g.bufs = p.bufs
    BY <2>8 DEF UnitFields
  <2> HIDE DEF g
  <2>10. /\ g.pend = [fc |-> "write", buf |-> d.cur, n |-> n] /\ g.cur = 3 - d.cur
         /\ g.crnd = d.crnd + n /\ g.call = d.call /\ g.bsz = d.bsz /\ g.inx = d.inx /\ g.medium = p.medium
         /\ g.rnd = d.rnd /\ g.qrnd = d.qrnd /\ g.ernd = d.ernd /\ g.pos = d.crnd /\ g.bufs = d.bufs
    BY <1>2, <2>1, <2>9 DEF Rest
  <2>11. 3 - g.cur = d.cur
    BY <1>1, <2>10
  <2>12. Queue(g, m, e)
    BY <1>1, <2>9, <2>10, <2>11 DEF Queue
  <2>13. Passed(g, d)
    BY <1>1, <1>2, <2>1, <2>10 DEF Passed, Rest, p
  <2> QED BY <1>1, <1>2, <2>4, <2>5, <2>9, <2>10, <2>12, <2>13 DEF Answer
<1> QED BY <1>5, <1>6

\* r differs from d in the call alone.
Apart(r, d) == Typed(r) /\ \A f \in UnitFields \ {"call"} : r[f] = d[f]
\* back over the end of the archive, which stands in the buffer read last
Turned(d, m, e) ==
  /\ Quiet(d, m) /\ d.rnd /\ d.crnd \in Nat /\ d.bcnt \in 1..d.bsz /\ Loaded(d.bufs[d.cur], m, d.crnd, d.bcnt)
  /\ d.qrnd = e /\ d.crnd <= e /\ e < d.crnd + d.bcnt /\ d.ernd <= e + 1 /\ Prefetched(d, m, d.crnd + d.bcnt)
\* the device is back at that block, which will be written
Aimed(d, m, e) ==
  /\ Typed(d) /\ ~d.rnd /\ ~d.writ /\ ~d.req /\ d.pend.fc = "none" /\ d.crnd \in Nat /\ d.pos = d.crnd
  /\ d.bcnt \in 0..d.bsz /\ d.qrnd = e /\ d.crnd <= e /\ e < d.crnd + d.bsz /\ d.ernd <= e + 1
  /\ Agrees(d.bufs[d.cur], d.crnd, d.bsz, m, e) /\ Stays(d.medium, m, e)

LEMMA ApartKeeps ==
  ASSUME NEW d, NEW r, NEW m, NEW e, Apart(r, d)
  PROVE  /\ Writing(d, m, e) => Writing(r, m, e)
         /\ Dead(d, m, e) => Dead(r, m, e)
         /\ Turned(d, m, e) => Turned(r, m, e)
         /\ Aimed(d, m, e) => Aimed(r, m, e)
<1>1. /\ Typed(r) /\ r.capacity = d.capacity /\ r.bsz = d.bsz /\ r.bcnt = d.bcnt /\ r.cur = d.cur /\ r.inx = d.inx
      /\ r.crnd = d.crnd /\ r.qrnd = d.qrnd /\ r.ernd = d.ernd /\ r.rnd = d.rnd /\ r.writ = d.writ
      /\ r.firs = d.firs /\ r.req = d.req /\ r.fc = d.fc /\ r.pend = d.pend /\ r.res = d.res /\ r.pos = d.pos
      /\ r.medium = d.medium /\ r.bufs = d.bufs
  BY DEF Apart, UnitFields
<1>2. Writing(d, m, e) => Writing(r, m, e)
  BY <1>1 DEF Writing, Filling, Queue
<1>3. Dead(d, m, e) => Dead(r, m, e)
  BY <1>1 DEF Dead
<1>4. Turned(d, m, e) => Turned(r, m, e)
  BY <1>1 DEF Turned, Quiet, Room, Prefetched
<1>5. Aimed(d, m, e) => Aimed(r, m, e)
  BY <1>1 DEF Aimed
<1> QED BY <1>2, <1>3, <1>4, <1>5

LEMMA ReturnedApart ==
  ASSUME NEW d, Typed(d), NEW i \in Int
  PROVE  LET r == Returned(d, i) IN
         Apart(r, d) /\ SameCall(r.call, d.call) /\ r.call.i = i /\ r.call.done
BY ReturnedIs, ReturnedTyped DEF Apart

LEMMA CalledApart ==
  ASSUME NEW d, Typed(d), NEW op, NEW fc \in {"read", "write"}, NEW nowait, NEW data, IsSeq(data), NEW n \in Int
  PROVE  LET r == Called(d, op, fc, nowait, data, n) IN
         Apart(r, d) /\ r.call = [op |-> op, fc |-> fc, n |-> n, i |-> 0, nowait |-> nowait, data |-> data, crnd |-> d.crnd, done |-> FALSE]
<1> DEFINE c == [op |-> op, fc |-> fc, n |-> n, i |-> 0, nowait |-> nowait, data |-> data, crnd |-> d.crnd, done |-> FALSE]
           r == [d EXCEPT !.call = c]
<1>1. Calling(c)
  BY DEF Calling, CallFields, Typed, Counts
<1> HIDE DEF c
<1>2. Typed(r) /\ (\A f \in UnitFields \ {"call"} : r[f] = d[f]) /\ r.call = c
  BY <1>1 DEF Typed, UnitFields, Counts
<1> QED BY <1>2 DEF Apart, Called, c

LEMMA PlacedIs ==
  ASSUME NEW d, Typed(d), NEW i, NEW fc, NEW nowait
  PROVE  LET q == Placed(d, i, fc, nowait)  r == q.d IN
         /\ q.i = i /\ r.fc[1] = fc /\ r.inx = d.qrnd - d.crnd /\ ~r.rnd /\ ~r.firs
         /\ r.capacity = d.capacity /\ r.bsz = d.bsz /\ r.bcnt = d.bcnt /\ r.cur = d.cur
         /\ r.crnd = d.crnd /\ r.qrnd = d.qrnd /\ r.ernd = d.ernd /\ r.writ = d.writ
         /\ r.req = d.req /\ r.pend = d.pend /\ r.res = d.res /\ r.pos = d.pos
         /\ r.medium = d.medium /\ r.bufs = d.bufs /\ r.call = d.call
<1> DEFINE e == [d EXCEPT !.fc = <<fc, nowait>>, !.inx = d.qrnd - d.crnd, !.rnd = FALSE, !.firs = FALSE]
<1>1. Placed(d, i, fc, nowait).d = e /\ Placed(d, i, fc, nowait).i = i
  BY DEF Placed, Answer
<1>2. DOMAIN d = UnitFields
  BY DEF Typed
<1>3. \A f \in UnitFields \ {"fc", "inx", "rnd", "firs"} : e[f] = d[f]
  BY <1>2
<1>4. e.fc[1] = fc /\ e.inx = d.qrnd - d.crnd /\ ~e.rnd /\ ~e.firs
  BY <1>2 DEF UnitFields
<1> HIDE DEF e
<1> QED BY <1>1, <1>3, <1>4 DEF UnitFields

\* The buffer that the next block goes to.
LEMMA SeekWrite ==
  ASSUME NEW d, NEW m, NEW e \in Nat, NEW nowait, Writing(d, m, e)
  PROVE  LET q == Ioseekblk(d, "write", nowait) IN
         /\ q.d.call = d.call /\ q.i \in Int
         /\ \/ q.i = -1 /\ Dead(q.d, m, e) /\ q.d.writ /\ q.d.inx = q.d.bsz
            \/ /\ q.i > 0 /\ q.i = q.d.bsz /\ Writing(q.d, m, e) /\ q.d.inx < q.d.bsz /\ q.d.qrnd = d.qrnd /\ q.d.bsz = d.bsz
               /\ There(q.d, d) \/ (d.inx = d.bsz /\ q.d.inx = 0 /\ q.d.crnd = d.qrnd /\ Passed(q.d, d))
<1> DEFINE q == Ioseekblk(d, "write", nowait)
<1>1. /\ Typed(d) /\ d.bsz \in Nat \ {0} /\ d.crnd \in Nat /\ d.inx \in 0..d.bsz /\ d.qrnd = d.crnd + d.inx /\ d.ernd \in Int
      /\ d.ernd <= d.qrnd /\ "write" \in {"read", "write"} /\ e <= d.qrnd
  BY DEF Writing, Filling, Typed, Counts
<1>2. CASE d.inx < d.bsz
  <2>1. q = Placed(d, d.bsz, "write", nowait)
    <3>1. d.qrnd - d.crnd \in 0..(d.bsz - 1)
      BY <1>1, <1>2
    <3> QED BY <3>1 DEF Ioseekblk
  <2>2. Typed(q.d)
    <3>1. d.bsz \in Int
      BY <1>1
    <3> QED BY <1>1, <2>1, <3>1, PlacedTyped DEF TypedAnswer
  <2>3. d.qrnd - d.crnd = d.inx
    BY <1>1
  <2> HIDE DEF q
  <2>4. /\ Writing(q.d, m, e) /\ q.d.call = d.call /\ q.i = d.bsz /\ q.d.inx = d.inx /\ q.d.bsz = d.bsz
        /\ q.d.qrnd = d.qrnd /\ There(q.d, d)
    BY <1>1, <2>1, <2>2, <2>3, PlacedIs DEF Writing, Filling, Queue, There
  <2> QED BY <1>1, <1>2, <2>4 DEF q
<1>3. CASE ~(d.inx < d.bsz)
  <2> DEFINE f == Flushed(d)
             g == f.d
  <2>1. d.inx = d.bsz
    BY <1>1, <1>3
  <2>2. q = Following(f, d.bsz, "write", nowait)
    <3>1. d.qrnd - d.crnd \notin 0..(d.bsz - 1)
      BY <1>1, <2>1
    <3> QED BY <3>1 DEF Ioseekblk
  <2>3. /\ Typed(g) /\ g.call = d.call /\ g.bsz = d.bsz /\ g.inx = g.bsz /\ Stays(g.medium, m, e)
        /\ \/ f.i = -1 /\ Dead(g, m, e) /\ g.writ
           \/ /\ f.i = d.bsz /\ ~g.writ /\ ~g.rnd /\ g.crnd = d.qrnd /\ g.qrnd = d.qrnd /\ g.ernd = d.ernd /\ g.bcnt = 0
              /\ Queue(g, m, e) /\ Passed(g, d)
    BY <2>1, FlushFull
  <2> HIDE DEF f, q
  <2>4. CASE f.i = -1
    <3>1. q = f
      BY <2>2, <2>4 DEF Following
    <3>2. f.i # d.bsz
      BY <1>1, <2>4
    <3> QED BY <2>3, <2>4, <3>1, <3>2 DEF q
  <2>5. CASE f.i # -1
    <3>1. /\ f.i = d.bsz /\ ~g.writ /\ ~g.rnd /\ g.crnd = d.qrnd /\ g.qrnd = d.qrnd /\ g.ernd = d.ernd /\ g.bcnt = 0
          /\ Queue(g, m, e) /\ Passed(g, d)
      BY <2>3, <2>5
    <3>2. ~(f.i < 0) /\ f.i # 0 /\ ~(g.crnd + g.inx < g.ernd)
      BY <1>1, <2>1, <2>3, <3>1
    <3>3. q = Placed(g, f.i, "write", nowait)
      BY <2>2, <3>2 DEF Following
    <3>4. Typed(q.d)
      <4>1. f.i \in Int
        BY <1>1, <3>1
      <4> QED BY <1>1, <2>3, <3>3, <4>1, PlacedTyped DEF TypedAnswer
    <3>5. g.qrnd - g.crnd = 0 /\ d.qrnd \in Nat
      BY <1>1, <3>1
    <3> HIDE DEF g
    <3>6. /\ q.i = f.i /\ q.d.fc[1] = "write" /\ q.d.inx = 0 /\ ~q.d.rnd
          /\ q.d.capacity = g.capacity /\ q.d.bsz = g.bsz /\ q.d.bcnt = 0 /\ q.d.cur = g.cur
          /\ q.d.crnd = d.qrnd /\ q.d.qrnd = d.qrnd /\ q.d.ernd = d.ernd /\ q.d.req = g.req /\ q.d.pend = g.pend
          /\ q.d.res = g.res /\ q.d.pos = g.pos /\ q.d.medium = g.medium /\ q.d.bufs = g.bufs /\ q.d.call = d.call
      BY <2>3, <3>1, <3>3, <3>5, PlacedIs
    <3>7. Agrees(q.d.bufs[q.d.cur], q.d.crnd, q.d.bsz, m, e)
      BY <1>1, <2>3, <3>5, <3>6 DEF Agrees
    <3>8. Queue(q.d, m, e)
      BY <3>1, <3>6 DEF Queue
    <3>9. Writing(q.d, m, e)
      BY <1>1, <2>3, <3>1, <3>4, <3>5, <3>6, <3>7, <3>8 DEF Writing, Filling
    <3>10. Passed(q.d, d)
      BY <3>1, <3>6 DEF Passed
    <3> QED BY <1>1, <2>1, <2>3, <3>1, <3>6, <3>9, <3>10 DEF q
  <2> QED BY <2>4, <2>5
<1> QED BY <1>2, <1>3

\* the call writes; over without an error it wrote all
WriteCall(c) ==
  /\ c.op = "transfer" /\ c.fc = "write" /\ c.n \in Nat /\ c.i \in 0..c.n
  /\ IF c.done THEN c.i = c.n ELSE c.i < c.n \/ c.n = 0

LEMMA WriteMoved ==
  ASSUME NEW d, NEW m, NEW e \in Nat, Filling(d, m, e), d.inx < d.bsz,
         WriteCall(d.call), ~d.call.done, d.call.i < d.call.n
  PROVE  LET c == d.call
             r == Moved(d, c, Least(c.n - c.i, d.bsz - d.inx)) IN
         Writing(r, m, e) /\ WriteCall(r.call)
<1> DEFINE c == d.call
           k == Least(c.n - c.i, d.bsz - d.inx)
           r == Moved(d, c, k)
           buf == d.bufs[d.cur]
           o == Overlay(buf, d.inx, SubSeq(c.data, c.i + 1, c.i + k))
<1>1. /\ Typed(d) /\ Calling(c) /\ c.fc = "write" /\ c.op = "transfer" /\ ~c.done
      /\ IsSeq(buf) /\ IsSeq(c.data) /\ d.cur \in {1, 2}
  BY DEF Filling, Typed, WriteCall, Calling, Buffers
<1>2. /\ c.n \in Nat /\ c.i \in Nat /\ c.i < c.n /\ d.inx \in Nat /\ d.bsz \in Nat /\ d.inx < d.bsz /\ d.crnd \in Nat
      /\ d.bcnt \in Nat /\ d.bcnt <= d.bsz /\ d.qrnd = d.crnd + d.inx /\ e <= d.qrnd /\ d.ernd \in Int /\ d.ernd <= d.qrnd + 1
  BY DEF Filling, WriteCall, Typed, Counts
<1>3. k \in Nat \ {0} /\ k <= c.n - c.i /\ k <= d.bsz - d.inx /\ (k = c.n - c.i \/ k = d.bsz - d.inx)
  <2>1. c.n - c.i \in Nat \ {0} /\ d.bsz - d.inx \in Nat \ {0}
    BY <1>2
  <2> QED BY <2>1 DEF Least
<1> HIDE DEF k, c
<1>4. k \in Int /\ c.i + 1 \in Int /\ c.i + k \in Int /\ d.inx \in Int
  BY <1>2, <1>3
<1>5. Typed(r)
  BY <1>1, <1>4, MovedTyped
<1>6. /\ r.medium = d.medium /\ r.pend = d.pend /\ r.res = d.res /\ r.pos = d.pos /\ r.crnd = d.crnd
      /\ r.rnd = d.rnd /\ r.firs = d.firs /\ r.req = d.req /\ r.fc = d.fc /\ r.bsz = d.bsz /\ r.cur = d.cur
      /\ r.capacity = d.capacity /\ r.inx = d.inx + k /\ r.qrnd = d.qrnd + k
      /\ r.writ = (d.writ \/ c.fc = "write")
      /\ r.bufs[3 - d.cur] = d.bufs[3 - d.cur]
      /\ r.bufs[d.cur] = IF c.fc = "write" THEN o ELSE buf
      /\ r.bcnt = (IF d.inx + k < d.bcnt THEN d.bcnt ELSE d.inx + k)
      /\ r.ernd \in {d.ernd, d.qrnd + k}
      /\ SameCall(r.call, d.call) /\ r.call.i = d.call.i + k
      /\ IF d.inx + k < d.bcnt \/ d.call.i + k = c.n THEN r.call.done ELSE r.call.done = d.call.done
  BY <1>1, <1>4, MovedIs
<1> HIDE DEF r, o, buf
<1>7. r.writ /\ r.bufs[d.cur] = o
  BY <1>1, <1>6
<1>8. \A j \in 1..d.inx : o[j] = buf[j]
  <2> DEFINE u == SubSeq(c.data, c.i + 1, c.i + k)
  <2>1. IsSeq(u)
    BY <1>1, <1>4, PartSeq
  <2> HIDE DEF u
  <2>2. d.inx \in Nat => \A j \in 1..d.inx : Overlay(buf, d.inx, u)[j] = buf[j]
    BY <1>1, <1>4, <2>1, OverlayIs
  <2> QED BY <1>2, <2>2 DEF o, u
<1>9. Agrees(r.bufs[r.cur], r.crnd, r.bsz, m, e)
  <2>1. Agrees(buf, d.crnd, d.bsz, m, e)
    BY DEF Filling, buf
  <2>2. ASSUME NEW j \in 1..d.bsz, d.crnd + j <= e PROVE o[j] = m[d.crnd + j]
    <3>1. j \in 1..d.inx
      BY <1>2, <2>2
    <3> QED BY <1>8, <2>1, <2>2, <3>1 DEF Agrees
  <2> QED BY <1>6, <1>7, <2>2 DEF Agrees
<1>10. Queue(r, m, e)
  <2>1. Queue(d, m, e)
    BY DEF Filling
  <2> QED BY <1>6, <2>1 DEF Queue
<1>11. /\ r.inx \in 0..r.bsz /\ r.qrnd = r.crnd + r.inx /\ r.bcnt \in 0..r.bsz /\ e <= r.qrnd /\ r.ernd <= r.qrnd
       /\ r.ernd <= r.qrnd + 1 /\ r.inx <= r.bcnt /\ r.crnd \in Nat
  <2>1. /\ r.inx = d.inx + k /\ r.qrnd = d.qrnd + k /\ r.crnd = d.crnd /\ r.bsz = d.bsz
        /\ d.inx + k < d.bcnt => r.bcnt = d.bcnt
        /\ ~(d.inx + k < d.bcnt) => r.bcnt = d.inx + k
        /\ r.ernd \in {d.ernd, d.qrnd + k}
    BY <1>6
  <2> QED BY <1>2, <1>3, <2>1
<1>12. Writing(r, m, e)
  <2>1. ~r.rnd /\ r.fc[1] = "write" /\ Stays(r.medium, m, e)
    BY <1>6 DEF Filling
  <2> QED BY <1>5, <1>7, <1>9, <1>10, <1>11, <2>1 DEF Writing, Filling
<1>13. WriteCall(r.call)
  <2>1. r.call.op = "transfer" /\ r.call.fc = "write" /\ r.call.n = c.n /\ r.call.i = c.i + k
    BY <1>1, <1>6 DEF SameCall, c
  <2>2. c.i + k \in 0..c.n
    BY <1>2, <1>3
  <2>3. c.i + k # c.n => ~(d.inx + k < d.bcnt) /\ c.i + k < c.n
    BY <1>2, <1>3
  <2>4. c.i + k = c.n => r.call.done
    BY <1>6 DEF c
  <2>5. c.i + k # c.n => ~r.call.done
    BY <1>1, <1>6, <2>3 DEF c
  <2> QED BY <1>2, <2>1, <2>2, <2>3, <2>4, <2>5 DEF WriteCall
<1> QED BY <1>12, <1>13 DEF r, k, c

\* The first turn after the seek brings the device back to the block of the end.
LEMMA AimTurn ==
  ASSUME NEW d, NEW m, NEW e \in Nat, Turned(d, m, e), WriteCall(d.call), ~d.call.done, d.call.n # 0
  PROVE  LET r == Io(d) IN Aimed(r, m, e) /\ r.call = d.call
<1> DEFINE q == Iodoseek(d, "write")
           r == Io(d)
           p == Performed(d)
<1>1. /\ Typed(d) /\ d.rnd /\ d.crnd \in Nat /\ d.bsz \in Nat \ {0} /\ d.bcnt \in 1..d.bsz /\ d.qrnd = e /\ d.ernd <= e + 1
      /\ d.crnd <= e /\ e < d.crnd + d.bcnt /\ Quiet(d, m) /\ Prefetched(d, m, d.crnd + d.bcnt) /\ IsSeq(m)
  BY DEF Turned, Quiet, Typed, Counts
<1>2. r = Reached(q)
  BY <1>1 DEF Io, Iordwr, WriteCall
<1>3. ASSUME NEW x, Typed(x), x.medium = m, ~x.writ, ~x.req, x.pend.fc = "none", x.bsz = d.bsz, x.bcnt = d.bcnt,
             x.crnd = d.crnd, x.qrnd = d.qrnd, x.ernd = d.ernd, x.call = d.call, x.cur = d.cur, x.bufs[d.cur] = p.bufs[d.cur]
      PROVE  LET y == Sought(x, "write") IN Aimed(y.d, m, e) /\ y.d.call = d.call /\ ~(y.i < 0)
  <2> DEFINE g == [x EXCEPT !.rnd = FALSE, !.pos = x.crnd]
  <2>1. Sought(x, "write") = Answer(g, d.crnd)
    <3>1. x.qrnd - x.crnd \in 0..(x.bsz - 1)
      BY <1>1, <1>3
    <3> QED BY <1>3, <3>1 DEF Sought
  <2>2. Typed(g) /\ ~g.rnd /\ g.pos = x.crnd /\ \A f \in UnitFields \ {"rnd", "pos"} : g[f] = x[f]
    BY <1>3 DEF Typed, UnitFields, Counts
  <2> HIDE DEF g
  <2>3. /\ g.medium = m /\ ~g.writ /\ ~g.req /\ g.pend.fc = "none" /\ g.bsz = d.bsz /\ g.bcnt = d.bcnt
        /\ g.crnd = d.crnd /\ g.qrnd = d.qrnd /\ g.ernd = d.ernd /\ g.call = d.call /\ g.cur = d.cur /\ g.bufs = x.bufs
        /\ g.pos = d.crnd
    BY <1>3, <2>2 DEF UnitFields
  <2>4. Agrees(g.bufs[g.cur], g.crnd, g.bsz, m, e)
    <3>1. p.bufs[d.cur] = d.bufs[d.cur]
      BY <1>1, PerformedAhead
    <3>2. Loaded(d.bufs[d.cur], m, d.crnd, d.bcnt)
      BY DEF Turned
    <3>3. ASSUME NEW j \in 1..d.bsz, d.crnd + j <= e PROVE j \in 1..d.bcnt
      BY <1>1, <3>3
    <3> HIDE DEF p
    <3> QED BY <1>3, <2>3, <3>1, <3>2, <3>3 DEF Agrees, Loaded
  <2>5. Stays(g.medium, m, e)
    <3>1. Len(m) \in Nat
      BY <1>1, JoinSeq
    <3>2. d.crnd + d.bcnt \in 0..Len(m)
      BY <1>1 DEF Prefetched
    <3>3. e \in 0..Len(m)
      BY <1>1, <3>1, <3>2
    <3> QED BY <2>3, <3>3 DEF Stays
  <2>6. e < d.crnd + d.bsz
    BY <1>1
  <2>7. Aimed(g, m, e)
    BY <1>1, <2>2, <2>3, <2>4, <2>5, <2>6 DEF Aimed
  <2> QED BY <1>1, <2>1, <2>3, <2>7 DEF Answer
<1>4. Aimed(q.d, m, e) /\ q.d.call = d.call /\ ~(q.i < 0)
  <2>1. CASE d.req
    <3> DEFINE x == [p EXCEPT !.req = FALSE, !.pos = p.pos - p.bsz]
    <3>1. Quiet(p, m) /\ Prefetched(p, m, d.crnd + d.bcnt) /\ p.pend.fc = "none" /\ Rest(p, d) /\ p.bufs[d.cur] = d.bufs[d.cur]
      BY <1>1, PerformedAhead
    <3>2. ~(p.res < 0)
      <4>1. p.res = Least(p.bsz, Len(m) - (d.crnd + d.bcnt))
        BY <2>1, <3>1 DEF Prefetched, Rest
      <4>2. Len(m) \in Nat /\ d.crnd + d.bcnt \in 0..Len(m) /\ p.bsz \in Nat
        BY <1>1, <3>1, JoinSeq DEF Prefetched, Rest
      <4>3. Len(m) - (d.crnd + d.bcnt) \in Nat
        BY <1>1, <4>2
      <4> QED BY <4>1, <4>2, <4>3 DEF Least
    <3>3. q = Sought(x, "write")
      BY <2>1, <3>2 DEF Iodoseek, Ended
    <3> HIDE DEF q, p
    <3>4. Typed(x) /\ ~x.req /\ \A f \in UnitFields \ {"req", "pos"} : x[f] = p[f]
      <4>1. Typed(p) /\ p.pos \in Int /\ p.bsz \in Int
        BY <3>1 DEF Quiet, Typed, Counts
      <4> DEFINE v == p.pos - p.bsz
      <4>2. v \in Int
        BY <4>1
      <4> HIDE DEF v
      <4>3. Typed([p EXCEPT !.req = FALSE, !.pos = v])
        BY <4>1, <4>2 DEF Typed, UnitFields, Counts
      <4>4. x = [p EXCEPT !.req = FALSE, !.pos = v]
        BY DEF v
      <4> QED BY <4>1, <4>3, <4>4 DEF Typed, UnitFields
    <3> HIDE DEF x
    <3>5. /\ x.medium = p.medium /\ x.writ = p.writ /\ x.pend = p.pend /\ x.bsz = p.bsz /\ x.bcnt = p.bcnt
          /\ x.crnd = p.crnd /\ x.qrnd = p.qrnd /\ x.ernd = p.ernd /\ x.call = p.call /\ x.cur = p.cur /\ x.bufs = p.bufs
      BY <3>4 DEF UnitFields
    <3>6. /\ x.medium = m /\ ~x.writ /\ x.pend.fc = "none" /\ x.bsz = d.bsz /\ x.bcnt = d.bcnt
          /\ x.crnd = d.crnd /\ x.qrnd = d.qrnd /\ x.ernd = d.ernd /\ x.call = d.call /\ x.cur = d.cur
          /\ x.bufs[d.cur] = p.bufs[d.cur]
      BY <3>1, <3>5 DEF Rest, Quiet
    <3> QED BY <1>3, <3>3, <3>4, <3>6
  <2>2. CASE ~d.req
    <3>1. d.pend.fc = "none" /\ p = d
      <4>1. d.pend.fc = "none"
        BY <1>1, <2>2 DEF Prefetched
      <4> QED BY <1>1, <4>1, PerformedIs
    <3>2. q = Sought(d, "write")
      BY <2>2 DEF Iodoseek
    <3>3. d.medium = m /\ ~d.writ
      BY <1>1 DEF Quiet
    <3> HIDE DEF q, p
    <3> QED BY <1>1, <1>3, <2>2, <3>1, <3>2, <3>3
  <2> QED BY <2>1, <2>2
<1> HIDE DEF q, r
<1> QED BY <1>2, <1>4 DEF Reached, r

\* the call was told that the medium is full, before it wrote all
Refused(c) == c.op = "transfer" /\ c.fc = "write" /\ c.done /\ c.i # c.n

LEMMA FailedDead ==
  ASSUME NEW d, NEW m, NEW e \in Nat, Dead(d, m, e), NEW i \in Int
  PROVE  LET r == Failed(d, i) IN
         Dead(r, m, e) /\ SameCall(r.call, d.call) /\ r.call.i = i /\ r.call.done
<1> DEFINE g == [d EXCEPT !.qrnd = d.call.crnd, !.writ = FALSE, !.rnd = TRUE]
           r == Failed(d, i)
<1>1. Typed(d) /\ r = Returned(g, i)
  BY DEF Dead, Failed
<1>2. Typed(g) /\ ~g.writ /\ \A f \in UnitFields \ {"qrnd", "writ", "rnd"} : g[f] = d[f]
  BY <1>1 DEF Typed, UnitFields, Counts, Calling
<1> HIDE DEF g, r
<1>3. Dead(g, m, e) /\ g.call = d.call
  BY <1>2 DEF Dead, UnitFields
<1>4. Apart(r, g) /\ SameCall(r.call, g.call) /\ r.call.i = i /\ r.call.done
  BY <1>1, <1>2, ReturnedApart
<1> QED BY <1>3, <1>4, ApartKeeps DEF r

LEMMA AimedPlaced ==
  ASSUME NEW d, NEW m, NEW e \in Nat, NEW nowait, Aimed(d, m, e)
  PROVE  LET q == Ioseekblk(d, "write", nowait) IN
         q.i > 0 /\ q.d.call = d.call /\ Filling(q.d, m, e) /\ q.d.inx < q.d.bsz
<1> DEFINE q == Ioseekblk(d, "write", nowait)
<1>1. /\ Typed(d) /\ d.bsz \in Nat \ {0} /\ d.crnd \in Nat /\ d.qrnd = e /\ d.crnd <= e /\ e < d.crnd + d.bsz /\ d.bcnt \in 0..d.bsz
      /\ d.ernd \in Int /\ d.ernd <= e + 1 /\ "write" \in {"read", "write"} /\ d.bsz \in Int
  BY DEF Aimed, Typed, Counts
<1>2. q = Placed(d, d.bsz, "write", nowait)
  <2>1. d.qrnd - d.crnd \in 0..(d.bsz - 1)
    BY <1>1
  <2> QED BY <2>1 DEF Ioseekblk
<1>3. Typed(q.d)
  BY <1>1, <1>2, PlacedTyped DEF TypedAnswer
<1> HIDE DEF q
<1>4. /\ q.i = d.bsz /\ q.d.fc[1] = "write" /\ q.d.inx = d.qrnd - d.crnd /\ ~q.d.rnd
      /\ q.d.bsz = d.bsz /\ q.d.bcnt = d.bcnt /\ q.d.cur = d.cur
      /\ q.d.crnd = d.crnd /\ q.d.qrnd = d.qrnd /\ q.d.ernd = d.ernd /\ q.d.req = d.req /\ q.d.pend = d.pend
      /\ q.d.pos = d.pos /\ q.d.medium = d.medium /\ q.d.bufs = d.bufs /\ q.d.call = d.call
  BY <1>1, <1>2, PlacedIs
<1>5. /\ q.d.inx \in 0..q.d.bsz /\ q.d.inx < q.d.bsz /\ q.d.qrnd = q.d.crnd + q.d.inx /\ e <= q.d.qrnd /\ q.d.ernd <= q.d.qrnd + 1
      /\ q.d.bcnt \in 0..q.d.bsz
  BY <1>1, <1>4
<1>6. Queue(q.d, m, e)
  BY <1>4 DEF Aimed, Queue
<1>7. Filling(q.d, m, e)
  BY <1>3, <1>4, <1>5, <1>6 DEF Aimed, Filling
<1> QED BY <1>1, <1>4, <1>5, <1>7 DEF q

\* A turn of iordwr that writes.
LEMMA WriteTurn ==
  ASSUME NEW d, NEW m, NEW e \in Nat, WriteCall(d.call), ~d.call.done,
         Writing(d, m, e) \/ (Aimed(d, m, e) /\ d.call.n # 0)
  PROVE  LET r == Io(d) IN
         \/ Writing(r, m, e) /\ WriteCall(r.call)
         \/ Dead(r, m, e) /\ Refused(r.call)
<1> DEFINE c == d.call
           q == Ioseekblk(d, "write", c.nowait)
           r == Io(d)
<1>1. Typed(d) /\ ~d.rnd /\ c.fc = "write" /\ c.op = "transfer" /\ c.n \in Nat /\ c.i \in 0..c.n /\ (c.i < c.n \/ c.n = 0)
  BY DEF Writing, Filling, Aimed, WriteCall
<1>2. CASE c.n = 0
  <2>1. r = Returned(d, 0) /\ 0 \in Int
    BY <1>1, <1>2 DEF Io, Iordwr
  <2>2. Apart(r, d) /\ SameCall(r.call, c) /\ r.call.i = 0 /\ r.call.done
    BY <1>1, <2>1, ReturnedApart
  <2>3. Writing(r, m, e)
    BY <1>2, <2>2, ApartKeeps
  <2>4. WriteCall(r.call)
    BY <1>1, <1>2, <2>2 DEF SameCall, WriteCall
  <2> QED BY <2>3, <2>4
<1>3. CASE c.n # 0
  <2>1. r = Transferred(q, c)
    BY <1>1, <1>3 DEF Io, Iordwr
  <2> HIDE DEF r
  <2>2. \/ q.i = -1 /\ Dead(q.d, m, e)
        \/ q.i > 0 /\ Filling(q.d, m, e) /\ q.d.inx < q.d.bsz
    BY <1>3, SeekWrite, AimedPlaced DEF Writing
  <2>3. q.d.call = c
    BY <1>3, SeekWrite, AimedPlaced
  <2> HIDE DEF q
  <2>4. CASE q.i = -1 /\ Dead(q.d, m, e)
    <3>1. r = Failed(q.d, -1) /\ -1 \in Int
      BY <2>1, <2>4 DEF Transferred
    <3>2. Dead(r, m, e)
      BY <2>4, <3>1, FailedDead DEF Dead
    <3>3. SameCall(r.call, c) /\ r.call.i = -1 /\ r.call.done
      BY <2>3, <2>4, <3>1, FailedDead
    <3>4. r.call.n = c.n /\ -1 # c.n
      BY <1>1, <3>3 DEF SameCall
    <3>5. Refused(r.call)
      BY <1>1, <3>3, <3>4 DEF SameCall, Refused
    <3> QED BY <3>2, <3>5 DEF r
  <2>5. CASE q.i > 0 /\ Filling(q.d, m, e) /\ q.d.inx < q.d.bsz
    <3>1. r = Moved(q.d, c, Least(c.n - c.i, q.d.bsz - q.d.inx))
      <4>1. ~(q.i < 0) /\ q.i # 0
        <5>1. q.i \in Int
          <6>1. c.nowait = c.nowait /\ "write" \in {"read", "write"}
            OBVIOUS
          <6> QED BY <1>1, <6>1, IoseekblkTyped DEF q, TypedAnswer
        <5> QED BY <2>5, <5>1
      <4> QED BY <1>1, <2>1, <4>1 DEF Transferred
    <3>2. c.i < c.n
      BY <1>1, <1>3
    <3> HIDE DEF c
    <3>3. WriteCall(q.d.call) /\ ~q.d.call.done /\ q.d.call.i < q.d.call.n
      BY <2>3, <3>2 DEF c
    <3> QED BY <2>3, <2>5, <3>1, <3>3, WriteMoved DEF r
  <2> QED BY <2>2, <2>4, <2>5
<1> QED BY <1>2, <1>3

LEMMA LeftTurn ==
  ASSUME NEW d, NEW m, NEW e \in Nat, Writing(d, m, e), d.call.op = "left", d.call.fc = "write"
  PROVE  LET r == Io(d) IN
         /\ r.call.op = "left" /\ r.call.fc = "write" /\ r.call.done
         /\ \/ /\ Writing(r, m, e) /\ r.call.i > 0 /\ r.call.i = r.bsz - r.inx /\ r.qrnd = d.qrnd /\ r.bsz = d.bsz
               /\ There(r, d) \/ (d.inx = d.bsz /\ r.inx = 0 /\ r.crnd = d.qrnd /\ Passed(r, d))
            \/ Dead(r, m, e) /\ r.call.i <= 0 /\ r.writ /\ r.inx = r.bsz
<1> DEFINE left == d.bsz - d.inx
           q == Ioseekblk(d, "write", d.fc[2])
           r == Io(d)
<1>1. Typed(d) /\ d.fc[1] = "write" /\ left \in Int
  BY DEF Writing, Filling, Typed, Counts
<1>2. r = IF left > 0 THEN Returned(d, left) ELSE Renewed(q)
  BY <1>1 DEF Io, Iourdwr
<1> HIDE DEF left, r
<1>3. CASE left > 0
  <2>1. Apart(r, d) /\ SameCall(r.call, d.call) /\ r.call.i = left /\ r.call.done
    BY <1>1, <1>2, <1>3, ReturnedApart
  <2>2. There(r, d) /\ r.bsz = d.bsz /\ r.qrnd = d.qrnd
    BY <2>1 DEF Apart, UnitFields, There
  <2>3. r.call.i = r.bsz - r.inx
    BY <2>1, <2>2 DEF There, left
  <2> QED BY <1>3, <2>1, <2>2, <2>3, ApartKeeps DEF SameCall, r
<1>4. CASE ~(left > 0)
  <2>1. /\ q.d.call = d.call /\ q.i \in Int
        /\ \/ q.i = -1 /\ Dead(q.d, m, e) /\ q.d.writ /\ q.d.inx = q.d.bsz
           \/ /\ q.i > 0 /\ q.i = q.d.bsz /\ Writing(q.d, m, e) /\ q.d.inx < q.d.bsz /\ q.d.qrnd = d.qrnd /\ q.d.bsz = d.bsz
              /\ There(q.d, d) \/ (d.inx = d.bsz /\ q.d.inx = 0 /\ q.d.crnd = d.qrnd /\ Passed(q.d, d))
    BY SeekWrite
  <2> HIDE DEF q
  <2>2. Typed(q.d)
    BY <2>1 DEF Dead, Writing, Filling
  <2>3. Apart(r, q.d) /\ SameCall(r.call, d.call) /\ r.call.i = q.i /\ r.call.done
    BY <1>2, <1>4, <2>1, <2>2, ReturnedApart DEF Renewed
  <2>4. /\ r.qrnd = q.d.qrnd /\ r.bsz = q.d.bsz /\ r.inx = q.d.inx /\ r.crnd = q.d.crnd /\ r.writ = q.d.writ
        /\ There(q.d, d) => There(r, d)
        /\ Passed(q.d, d) => Passed(r, d)
    BY <2>3 DEF Apart, UnitFields, There, Passed
  <2>5. CASE q.i = -1 /\ Dead(q.d, m, e) /\ q.d.writ /\ q.d.inx = q.d.bsz
    BY <2>3, <2>4, <2>5, ApartKeeps DEF SameCall, r
  <2>6. ASSUME q.i > 0, q.i = q.d.bsz, Writing(q.d, m, e), q.d.inx < q.d.bsz, q.d.qrnd = d.qrnd, q.d.bsz = d.bsz,
               There(q.d, d) \/ (d.inx = d.bsz /\ q.d.inx = 0 /\ q.d.crnd = d.qrnd /\ Passed(q.d, d))
        PROVE  /\ Writing(r, m, e) /\ r.call.i > 0 /\ r.call.i = r.bsz - r.inx /\ r.qrnd = d.qrnd /\ r.bsz = d.bsz
               /\ There(r, d) \/ (d.inx = d.bsz /\ r.inx = 0 /\ r.crnd = d.qrnd /\ Passed(r, d))
    <3>1. Writing(r, m, e)
      BY <2>3, <2>6, ApartKeeps
    <3>2. d.inx \in 0..d.bsz /\ d.bsz \in Nat /\ left <= 0 /\ d.inx = d.bsz
      BY <1>4 DEF Writing, Filling, Typed, Counts, left
    <3>3. q.d.inx = 0
      BY <2>6, <3>2 DEF There
    <3> QED BY <2>3, <2>4, <2>6, <3>1, <3>2, <3>3
  <2> QED BY <2>1, <2>3, <2>5, <2>6 DEF SameCall, r
<1> QED BY <1>3, <1>4

\* What the device does once nothing is to be written.
LEMMA DeadDevice ==
  ASSUME NEW d, NEW m, NEW e \in Nat, Dead(d, m, e)
  PROVE  LET r == Performed(d) IN Dead(r, m, e) /\ r.pend.fc = "none" /\ r.call = d.call
<1> DEFINE r == Performed(d)
<1>1. Typed(d) /\ d.pend.fc \in {"none", "read"}
  BY DEF Dead, Typed, Pending
<1>2. Typed(r) /\ Rest(r, d) /\ r.pend.fc = "none" /\ (d.pend.fc = "none" => r = d)
  BY <1>1, PerformedTyped, PerformedIs
<1>3. r.medium = d.medium
  <2>1. CASE d.pend.fc = "none"
    BY <1>2, <2>1
  <2>2. CASE d.pend.fc = "read"
    BY <1>1, <2>2 DEF Performed, Typed, UnitFields
  <2> QED BY <1>1, <2>1, <2>2
<1> HIDE DEF r
<1> QED BY <1>1, <1>2, <1>3 DEF Dead, Rest, r

LEMMA CloseEnds ==
  ASSUME NEW s, NEW m, NEW e \in Nat, TypedAnswer(s), Stays(Performed(s.d).medium, m, e)
  PROVE  LET r == Closed(s) IN
         Dead(r, m, e) /\ ~r.writ /\ r.pend.fc = "none" /\ SameCall(r.call, s.d.call) /\ r.call.done
<1> DEFINE p == Performed(s.d)
           g == [p EXCEPT !.writ = FALSE]
           i == IF s.i < 0 THEN s.i ELSE 0
           r == Closed(s)
<1>1. Typed(p) /\ p.pend.fc = "none" /\ p.call = s.d.call /\ i \in Int /\ r = Returned(g, i)
  BY PerformedTyped, PerformedIs DEF TypedAnswer, Closed, Rest
<1> HIDE DEF p, i, r
<1>2. Typed(g) /\ ~g.writ /\ \A f \in UnitFields \ {"writ"} : g[f] = p[f]
  BY <1>1 DEF Typed, UnitFields, Counts
<1> HIDE DEF g
<1>3. Dead(g, m, e) /\ g.call = p.call /\ g.pend = p.pend
  BY <1>1, <1>2 DEF Dead, UnitFields, p
<1>4. Apart(r, g) /\ SameCall(r.call, g.call) /\ r.call.done
  BY <1>1, <1>2, ReturnedApart
<1>5. ~r.writ /\ r.pend.fc = "none"
  BY <1>1, <1>2, <1>3, <1>4 DEF Apart, UnitFields
<1> QED BY <1>1, <1>3, <1>4, <1>5, ApartKeeps DEF r

-----------------------------------------------------------------------------
(* A turn of a call does not change what was called *)

LEMMA CallIosvc ==
  ASSUME NEW d, Typed(d), NEW fc \in {"read", "write"}, NEW nowait, NEW n \in Int
  PROVE  Iosvc(d, fc, nowait, n).d.call = d.call
<1> DEFINE Kept(x) == Typed(x) /\ x.call = d.call
<1>1. ASSUME NEW x, Kept(x) PROVE Kept(Performed(x))
  BY <1>1, PerformedTyped, PerformedIs DEF Rest
<1>2. ASSUME NEW x, Kept(x), NEW b \in {1, 2} PROVE Kept(Requested(x, fc, b, n))
  <2>1. Typed(Requested(x, fc, b, n))
    BY <1>2, RequestedTyped
  <2> QED BY <1>2, <2>1 DEF Requested, Typed, UnitFields
<1>3. Kept(Primed(d, fc, n))
  <2>1. 3 - d.cur \in {1, 2}
    BY DEF Typed
  <2>2. Kept(Requested(d, fc, 3 - d.cur, n))
    BY <1>2, <2>1
  <2>3. ASSUME NEW x, Kept(x) PROVE Kept([x EXCEPT !.req = TRUE])
    BY <2>3 DEF Typed, UnitFields, Counts
  <2> QED BY <2>2, <2>3 DEF Primed
<1>4. ASSUME NEW x, Kept(x), NEW i PROVE Outstanding(x, i, fc, n).d.call = d.call
  <2>1. [x EXCEPT !.req = FALSE, !.crnd = x.pos].call = d.call
    BY <1>4 DEF Typed, UnitFields
  <2> DEFINE o == [x EXCEPT !.req = TRUE]
  <2>2. Kept(o)
    BY <1>4 DEF Typed, UnitFields, Counts
  <2> HIDE DEF o
  <2>3. Kept(Requested(o, fc, x.cur, n))
    BY <1>2, <1>4, <2>2 DEF Typed
  <2>4. ASSUME NEW y, Kept(y) PROVE Swapped(y).call = d.call
    BY <2>4 DEF Swapped, Typed, UnitFields
  <2>5. Swapped(Requested(o, fc, x.cur, n)).call = d.call
    BY <2>3, <2>4
  <2> QED BY <2>1, <2>5 DEF Outstanding, Answer, o
<1>5. ASSUME NEW x, Kept(x) PROVE Waited(x, fc, n).d.call = d.call
  <2>1. Swapped(x).call = d.call
    BY <1>5 DEF Swapped, Typed, UnitFields
  <2>2. Kept(Performed(Requested(x, fc, x.cur, n)))
    BY <1>1, <1>2, <1>5 DEF Typed
  <2>3. ASSUME NEW y, Kept(y) PROVE Written(y).d.call = d.call
    BY <2>3 DEF Written, Answer, Typed, UnitFields
  <2>4. Written(Performed(Requested(x, fc, x.cur, n))).d.call = d.call
    BY <2>2, <2>3
  <2> QED BY <1>5, <2>1, <2>4 DEF Waited, Answer
<1>6. Kept(Performed(d)) /\ Kept(Performed(Primed(d, fc, n)))
  BY <1>1, <1>3
<1> HIDE DEF Kept
<1> QED BY <1>4, <1>5, <1>6 DEF Iosvc, Awaited

LEMMA CallSought ==
  ASSUME NEW d, Typed(d), NEW fc
  PROVE  Iodoseek(d, fc).d.call = d.call
<1>1. ASSUME NEW x, DOMAIN x = UnitFields, x.call = d.call PROVE Sought(x, fc).d.call = d.call
  <2>1. [x EXCEPT !.rnd = FALSE, !.pos = IF fc = "write" THEN x.crnd ELSE @].call = d.call
    BY <1>1 DEF UnitFields
  <2>2. ASSUME NEW to PROVE [x EXCEPT !.crnd = to, !.rnd = FALSE, !.pos = to].call = d.call
    BY <1>1 DEF UnitFields
  <2> QED BY <1>1, <2>1, <2>2 DEF Sought, Answer
<1>2. Typed(Performed(d)) /\ Performed(d).call = d.call
  BY PerformedTyped, PerformedIs DEF Rest
<1>3. ASSUME NEW x, Typed(x), x.call = d.call PROVE Ended(x, fc).d.call = d.call
  <2>1. [x EXCEPT !.req = FALSE].call = d.call
    BY <1>3 DEF Typed, UnitFields
  <2> DEFINE y == [x EXCEPT !.req = FALSE, !.pos = @ - x.bsz]
  <2>2. DOMAIN y = UnitFields /\ y.call = d.call
    BY <1>3 DEF Typed, UnitFields
  <2> HIDE DEF y
  <2>3. Sought(y, fc).d.call = d.call
    BY <1>1, <2>2
  <2> QED BY <2>1, <2>3 DEF Ended, Answer, y
<1> QED BY <1>1, <1>2, <1>3 DEF Iodoseek, Typed

LEMMA CallSeek ==
  ASSUME NEW d, Typed(d), NEW fc \in {"read", "write"}, NEW nowait
  PROVE  Ioseekblk(d, fc, nowait).d.call = d.call
<1> DEFINE Kept(x) == Typed(x) /\ x.call = d.call
<1>1. ASSUME NEW x, Kept(x), NEW i PROVE Placed(x, i, fc, nowait).d.call = d.call
  BY <1>1, PlacedIs
<1>2. ASSUME NEW x, Kept(x) PROVE Fill(x, fc, nowait).d.call = d.call
  <2> DEFINE s == Iosvc(x, fc, nowait, x.bsz)
  <2>1. x.bsz \in Int
    BY <1>2 DEF Typed, Counts
  <2>2. Kept(s.d) /\ s.i \in Int
    BY <1>2, <2>1, IosvcTyped, CallIosvc DEF TypedAnswer
  <2> HIDE DEF s
  <2>3. CASE s.i <= 0
    BY <2>2, <2>3 DEF Fill, Held, s
  <2>4. CASE ~(s.i <= 0)
    <3> DEFINE y == [s.d EXCEPT !.bcnt = s.i, !.bsz = IF x.firs THEN s.i ELSE @]
    <3>1. Kept(y)
      BY <2>2, <2>4 DEF Typed, UnitFields, Counts
    <3> HIDE DEF y
    <3>2. Placed(y, s.i, fc, nowait).d.call = d.call
      BY <1>1, <3>1
    <3> QED BY <2>4, <3>2 DEF Fill, Held, s, y
  <2> QED BY <2>3, <2>4
<1>3. Kept(Flushed(d).d)
  <2>1. Typed(Flushed(d).d)
    BY FlushedTyped DEF TypedAnswer
  <2>2. Flushed(d).d.call = d.call
    <3> DEFINE s == Iosvc(d, "write", TRUE, d.bcnt)
    <3>1. d.bcnt \in Int /\ "write" \in {"read", "write"}
      BY DEF Typed, Counts
    <3>2. Kept(s.d)
      BY <3>1, IosvcTyped, CallIosvc DEF TypedAnswer
    <3> HIDE DEF s
    <3>3. [s.d EXCEPT !.crnd = s.d.crnd + d.bcnt, !.bcnt = 0].call = d.call
      BY <3>2 DEF Typed, UnitFields
    <3> QED BY <3>2, <3>3 DEF Flushed, After, Answer, s
  <2> QED BY <2>1, <2>2
<1>4. ASSUME NEW f, Kept(f.d), NEW held PROVE Following(f, held, fc, nowait).d.call = d.call
  <2> DEFINE y == [f.d EXCEPT !.crnd = f.d.crnd + f.d.bcnt]
  <2>1. Kept(y)
    BY <1>4 DEF Typed, UnitFields, Counts
  <2> HIDE DEF y, Kept
  <2>2. Fill(y, fc, nowait).d.call = d.call
    BY <1>2, <2>1
  <2>3. \A i : Placed(f.d, i, fc, nowait).d.call = d.call
    BY <1>1, <1>4
  <2>4. f.d.call = d.call
    BY <1>4 DEF Kept
  <2> QED BY <2>2, <2>3, <2>4 DEF Following, y
<1>5. Kept(d)
  OBVIOUS
<1> HIDE DEF Kept
<1> QED BY <1>1, <1>2, <1>3, <1>4, <1>5 DEF Ioseekblk

LEMMA LastBuffer ==
  ASSUME NEW d, Typed(d)
  PROVE  LET s == IF d.writ /\ d.inx > 0 THEN Iosvc(d, "write", FALSE, d.inx) ELSE Answer(d, 0) IN
         TypedAnswer(s) /\ s.d.call = d.call
<1>1. d.inx \in Int /\ "write" \in {"read", "write"}
  BY DEF Typed, Counts
<1>2. TypedAnswer(Iosvc(d, "write", FALSE, d.inx)) /\ Iosvc(d, "write", FALSE, d.inx).d.call = d.call
  BY <1>1, IosvcTyped, CallIosvc
<1>3. TypedAnswer(Answer(d, 0)) /\ Answer(d, 0).d.call = d.call
  BY DEF TypedAnswer, Answer
<1> QED BY <1>2, <1>3

LEMMA IoCall ==
  ASSUME NEW d, Typed(d), d.call.op \in {"transfer", "left", "close"}
  PROVE  SameCall(Io(d).call, d.call)
<1> DEFINE c == d.call
<1>1. c.fc \in {"read", "write"} /\ d.fc[1] \in {"read", "write"} /\ c.n \in Int /\ c.i \in Int /\ Calling(c)
  BY DEF Typed, Calling, Counts
<1>2. ASSUME NEW x, Typed(x), x.call = c, NEW i \in Int
      PROVE  SameCall(Returned(x, i).call, c) /\ SameCall(Failed(x, i).call, c)
  <2>1. SameCall(Returned(x, i).call, c)
    BY <1>2, ReturnedIs
  <2> DEFINE g == [x EXCEPT !.qrnd = x.call.crnd, !.writ = FALSE, !.rnd = TRUE]
  <2>2. Typed(g) /\ g.call = c
    BY <1>2 DEF Typed, UnitFields, Counts, Calling
  <2> HIDE DEF g
  <2>3. SameCall(Returned(g, i).call, c)
    BY <1>2, <2>2, ReturnedIs
  <2> QED BY <2>1, <2>3 DEF Failed, g
<1>3. SameCall(Iordwr(d).call, c)
  <2>1. SameCall(Returned(d, 0).call, c)
    BY <1>2
  <2>2. SameCall(Reached(Iodoseek(d, c.fc)).call, c)
    <3>1. TypedAnswer(Iodoseek(d, c.fc)) /\ Iodoseek(d, c.fc).d.call = c
      BY IodoseekTyped, CallSought
    <3> QED BY <1>2, <3>1 DEF Reached, TypedAnswer, SameCall
  <2>3. SameCall(Transferred(Ioseekblk(d, c.fc, c.nowait), c).call, c)
    <3> DEFINE q == Ioseekblk(d, c.fc, c.nowait)
               i == Least(c.n - c.i, (IF c.fc = "write" THEN q.d.bsz ELSE q.d.bcnt) - q.d.inx)
    <3>1. TypedAnswer(q) /\ q.d.call = c
      BY <1>1, IoseekblkTyped, CallSeek
    <3> HIDE DEF q
    <3>2. i \in Int
      BY <1>1, <3>1 DEF TypedAnswer, Typed, Counts, Least
    <3> HIDE DEF i
    <3>3. SameCall(Moved(q.d, c, i).call, c)
      BY <1>1, <3>1, <3>2, MovedIs DEF TypedAnswer
    <3>4. SameCall(Failed(q.d, q.i).call, c) /\ SameCall(Returned(q.d, c.i).call, c)
      BY <1>1, <1>2, <3>1 DEF TypedAnswer
    <3> QED BY <3>3, <3>4 DEF Transferred, q, i
  <2> QED BY <2>1, <2>2, <2>3 DEF Iordwr
<1>4. SameCall(Iourdwr(d).call, c)
  <2> DEFINE left == (IF c.fc = "write" THEN d.bsz ELSE d.bcnt) - d.inx
             q == Ioseekblk(d, d.fc[1], d.fc[2])
  <2>1. left \in Int
    BY DEF Typed, Counts
  <2> HIDE DEF left
  <2>2. SameCall(Returned(d, left).call, c)
    BY <1>2, <2>1
  <2>3. TypedAnswer(q) /\ q.d.call = c
    BY <1>1, IoseekblkTyped, CallSeek
  <2> HIDE DEF q
  <2>4. SameCall(Renewed(q).call, c)
    BY <1>2, <2>3 DEF Renewed, TypedAnswer
  <2> QED BY <2>2, <2>4 DEF Iourdwr, left, q
<1>5. SameCall(Ioclose(d).call, c)
  <2> DEFINE s == IF d.writ /\ d.inx > 0 THEN Iosvc(d, "write", FALSE, d.inx) ELSE Answer(d, 0)
             p == Performed(s.d)
             g == [p EXCEPT !.writ = FALSE]
             i == IF s.i < 0 THEN s.i ELSE 0
  <2>2. TypedAnswer(s) /\ s.d.call = c
    BY LastBuffer
  <2>3. Ioclose(d) = Returned(g, i)
    BY DEF Ioclose, Closed
  <2> HIDE DEF s
  <2>4. Typed(p) /\ p.call = c /\ i \in Int
    BY <2>2, PerformedTyped, PerformedIs DEF TypedAnswer, Rest
  <2> HIDE DEF p, i
  <2>5. Typed(g) /\ g.call = c
    BY <2>4 DEF Typed, UnitFields, Counts
  <2> HIDE DEF g
  <2> QED BY <1>2, <2>3, <2>4, <2>5
<1> QED BY <1>3, <1>4, <1>5 DEF Io

LEMMA CloseTurn ==
  ASSUME NEW d, NEW m, NEW e \in Nat, Writing(d, m, e), d.call.op = "close"
  PROVE  LET r == Io(d) IN
         Dead(r, m, e) /\ ~r.writ /\ r.pend.fc = "none" /\ r.call.op = "close" /\ r.call.done
<1> DEFINE p == Performed(d)
           s == IF d.writ /\ d.inx > 0 THEN Iosvc(d, "write", FALSE, d.inx) ELSE Answer(d, 0)
           r == Io(d)
<1>1. /\ Typed(d) /\ d.crnd \in Nat /\ Queue(d, m, e) /\ Stays(d.medium, m, e) /\ d.inx \in 0..d.bsz /\ d.bsz \in Nat
      /\ Agrees(d.bufs[d.cur], d.crnd, d.bsz, m, e) /\ d.cur \in {1, 2} /\ "write" \in {"read", "write"}
  BY DEF Writing, Filling, Typed, Counts
<1>2. r = Closed(s)
  BY DEF Io, Ioclose
<1>3. /\ Typed(p) /\ Rest(p, d) /\ p.bufs = d.bufs /\ p.pend.fc = "none" /\ Queue(p, m, e) /\ Stays(p.medium, m, e)
  BY <1>1, QueueDone
<1> HIDE DEF r
<1>4. TypedAnswer(s) /\ Stays(Performed(s.d).medium, m, e) /\ s.d.call = d.call
  <2>1. CASE ~(d.writ /\ d.inx > 0)
    <3>1. s = Answer(d, 0)
      BY <2>1
    <3> HIDE DEF s
    <3> QED BY <1>1, <1>3, <3>1 DEF TypedAnswer, Answer
  <2>2. CASE d.writ /\ d.inx > 0
    <3> DEFINE n == d.inx
    <3>1. s = Waited(p, "write", n) /\ n \in Nat /\ n <= d.bsz
      BY <1>1, <2>2 DEF Iosvc
    <3>2. TypedAnswer(s)
      <4>1. n \in Int
        BY <3>1
      <4> HIDE DEF n
      <4>2. TypedAnswer(Iosvc(d, "write", FALSE, n))
        BY <1>1, <4>1, IosvcTyped
      <4> QED BY <2>2, <4>2 DEF n
    <3> HIDE DEF s, n, p
    <3>3. CASE p.req /\ p.res <= 0
      <4>1. s = Answer(p, p.res)
        BY <3>1, <3>3 DEF Waited
      <4>2. Performed(p) = p
        BY <1>3, PerformedIs
      <4> QED BY <1>3, <3>2, <4>1, <4>2 DEF Answer, Rest
    <3>4. CASE ~(p.req /\ p.res <= 0)
      <4> DEFINE g == Requested(p, "write", p.cur, n)
                 w == Performed(g)
                 x == [w EXCEPT !.writ = FALSE]
      <4>1. s = Written(w)
        BY <3>1, <3>4 DEF Waited
      <4>2. p.pos = d.crnd
        BY <1>3, <3>4 DEF Queue, Rest
      <4>3. p.cur \in {1, 2} /\ n \in Int
        BY <1>1, <1>3, <3>1 DEF Rest
      <4>4. Typed(g)
        BY <1>1, <1>3, <4>3, RequestedTyped
      <4>5. /\ g.pend = [fc |-> "write", buf |-> p.cur, n |-> n]
            /\ g.medium = p.medium /\ g.bufs = d.bufs /\ g.pos = d.crnd /\ g.call = d.call /\ g.cur = d.cur
        BY <1>3, <4>2 DEF Requested, Typed, UnitFields, Rest
      <4> HIDE DEF g
      <4>6. g.pend.fc = "write" /\ g.pend.n = n /\ g.pend.buf = d.cur
        BY <1>3, <4>5 DEF Rest
      <4>7. w.medium = g.medium \/ w.medium = Overlay(g.medium, g.pos, SubSeq(g.bufs[d.cur], 1, n))
        BY <4>4, <4>6, PerformedWrite
      <4>8. Stays(Overlay(g.medium, g.pos, SubSeq(g.bufs[d.cur], 1, n)), m, e)
        <5>1. Agrees(g.bufs[d.cur], d.crnd, n, m, e)
          BY <1>1, <3>1, <4>5 DEF Agrees
        <5>2. IsSeq(g.medium) /\ IsSeq(g.bufs[d.cur])
          BY <1>1, <4>4 DEF Typed, Buffers
        <5> QED BY <1>1, <1>3, <3>1, <4>5, <5>1, <5>2, LaidOver
      <4>9. Stays(w.medium, m, e)
        BY <1>3, <4>5, <4>7, <4>8
      <4>10. Typed(w) /\ w.pend.fc = "none" /\ w.call = d.call
        BY <4>4, <4>5, PerformedTyped, PerformedIs DEF Rest
      <4> HIDE DEF w
      <4>11. Typed(x) /\ x.medium = w.medium /\ x.pend = w.pend /\ x.call = w.call
        BY <4>10 DEF Typed, UnitFields, Counts
      <4>12. s.d = x
        BY <4>1 DEF Written, Answer
      <4> HIDE DEF x
      <4>13. Performed(x) = x
        BY <4>10, <4>11, PerformedIs
      <4> QED BY <3>2, <4>9, <4>10, <4>11, <4>12, <4>13
    <3> QED BY <3>3, <3>4
  <2> QED BY <2>1, <2>2
<1> HIDE DEF s
<1>5. Dead(r, m, e) /\ ~r.writ /\ r.pend.fc = "none" /\ SameCall(r.call, d.call) /\ r.call.done
  BY <1>2, <1>4, CloseEnds
<1> QED BY <1>5 DEF SameCall, r

\* What is left to do about an archive that is given up writes nothing.
LEMMA DeadTurn ==
  ASSUME NEW d, NEW m, NEW e \in Nat, Dead(d, m, e),
         d.call.op = "close" \/ (d.call.op = "transfer" /\ d.call.n = 0)
  PROVE  LET r == Io(d) IN
         /\ Dead(r, m, e) /\ SameCall(r.call, d.call) /\ r.call.done
         /\ d.call.op = "transfer" => r.call.i = 0
<1> DEFINE r == Io(d)
<1>1. Typed(d) /\ Stays(d.medium, m, e)
  BY DEF Dead
<1>2. CASE d.call.op = "transfer" /\ d.call.n = 0
  <2>1. r = Returned(d, 0) /\ 0 \in Int
    BY <1>2 DEF Io, Iordwr
  <2> QED BY <1>1, <1>2, <2>1, ReturnedApart, ApartKeeps
<1>3. CASE d.call.op = "close"
  <2> DEFINE s == IF d.writ /\ d.inx > 0 THEN Iosvc(d, "write", FALSE, d.inx) ELSE Answer(d, 0)
  <2>1. r = Closed(s)
    BY <1>3 DEF Io, Ioclose
  <2> HIDE DEF r
  <2>2. TypedAnswer(s) /\ Stays(Performed(s.d).medium, m, e) /\ s.d.call = d.call
    <3>1. CASE ~(d.writ /\ d.inx > 0)
      <4>1. s = Answer(d, 0)
        BY <3>1
      <4> HIDE DEF s
      <4> QED BY <1>1, <4>1, DeadDevice DEF TypedAnswer, Answer, Dead
    <3>2. CASE d.writ /\ d.inx > 0
      <4> DEFINE n == d.inx
                 g == Requested(d, "write", d.cur, n)
                 w == Performed(g)
                 x == [w EXCEPT !.writ = FALSE]
      <4>1. d.pend.fc = "none" /\ ~d.req /\ d.pos + n > d.capacity
        BY <3>2 DEF Dead
      <4>2. Performed(d) = d
        BY <1>1, <4>1, PerformedIs
      <4>3. s = Written(w)
        BY <3>2, <4>1, <4>2 DEF Iosvc, Waited
      <4>4. d.cur \in {1, 2} /\ n \in Int /\ "write" \in {"read", "write"}
        BY <1>1 DEF Typed, Counts
      <4>5. TypedAnswer(s)
        <5>1. TypedAnswer(Iosvc(d, "write", FALSE, d.inx))
          BY <1>1, <4>4, IosvcTyped
        <5> QED BY <3>2, <5>1
      <4> HIDE DEF s, n
      <4>6. Typed(g)
        BY <1>1, <4>4, RequestedTyped
      <4>7. g.pend = [fc |-> "write", buf |-> d.cur, n |-> n] /\ g.medium = d.medium /\ g.pos = d.pos /\ g.capacity = d.capacity /\ g.call = d.call
        BY <1>1 DEF Requested, Typed, UnitFields
      <4> HIDE DEF g
      <4>8. g.pend.fc = "write" /\ g.pend.n = n
        BY <4>7
      <4>9. w.medium = d.medium
        BY <4>1, <4>6, <4>7, <4>8, PerformedWrite DEF n
      <4>10. Typed(w) /\ w.pend.fc = "none" /\ w.call = d.call
        BY <4>6, <4>7, PerformedTyped, PerformedIs DEF Rest
      <4> HIDE DEF w
      <4>11. Typed(x) /\ x.medium = w.medium /\ x.pend = w.pend /\ x.call = w.call
        BY <4>10 DEF Typed, UnitFields, Counts
      <4>12. s.d = x
        BY <4>3 DEF Written, Answer
      <4> HIDE DEF x
      <4>13. Performed(x) = x
        BY <4>10, <4>11, PerformedIs
      <4> QED BY <1>1, <4>5, <4>9, <4>10, <4>11, <4>12, <4>13
    <3> QED BY <3>1, <3>2
  <2> HIDE DEF s
  <2>3. Dead(r, m, e) /\ SameCall(r.call, s.d.call) /\ r.call.done
    BY <2>1, <2>2, CloseEnds
  <2> QED BY <1>3, <2>2, <2>3 DEF r
<1> QED BY <1>2, <1>3

\* After a close nothing is outstanding and nothing to be written.
LEMMA CloseSettles ==
  ASSUME NEW d, Typed(d), d.call.op = "close"
  PROVE  LET r == Io(d) IN ~r.writ /\ r.pend.fc = "none" /\ r.call.op = "close" /\ r.call.done
<1> DEFINE s == IF d.writ /\ d.inx > 0 THEN Iosvc(d, "write", FALSE, d.inx) ELSE Answer(d, 0)
<1>1. Io(d) = Closed(s)
  BY DEF Io, Ioclose
<1>3. TypedAnswer(s)
  BY LastBuffer
<1>4. Stays(Performed(s.d).medium, s, 0) /\ 0 \in Nat
  <2>1. Len(Performed(s.d).medium) \in Nat
    BY <1>3, PerformedTyped, JoinSeq DEF TypedAnswer, Typed
  <2> HIDE DEF s
  <2> QED BY <2>1 DEF Stays
<1>5. s.d.call = d.call
  BY LastBuffer
<1> HIDE DEF s
<1> QED BY <1>1, <1>3, <1>4, <1>5, CloseEnds DEF SameCall

-----------------------------------------------------------------------------
(* The device at work, and a call that begins, in each phase *)

LEMMA ReadingDevice ==
  ASSUME NEW d, NEW m, NEW nowait, Reading(d, m, nowait)
  PROVE  LET r == Performed(d) IN
         /\ Reading(r, m, nowait) /\ r.call = d.call /\ r.qrnd = d.qrnd
         /\ Reads(d, m, nowait) => Reads(r, m, nowait)
<1> DEFINE r == Performed(d)
<1>1. PICK nxt : /\ Prefetched(d, m, nxt)
                 /\ (d.firs => nxt = 0) /\ (~d.firs => nxt = d.crnd + d.bcnt)
  BY DEF Reading, AtStart, Window
<1>2. Quiet(r, m) /\ Prefetched(r, m, nxt) /\ r.pend.fc = "none" /\ Rest(r, d) /\ r.bufs[d.cur] = d.bufs[d.cur]
  BY <1>1, PerformedAhead DEF Reading
<1> HIDE DEF r
<1>3. Window(d, m) => Window(r, m)
  BY <1>1, <1>2 DEF Window, Rest
<1>4. AtStart(d, m) => AtStart(r, m)
  BY <1>1, <1>2 DEF AtStart, Rest
<1>5. Reading(r, m, nowait)
  BY <1>2, <1>3, <1>4 DEF Reading, Rest
<1>6. r.call = d.call /\ r.qrnd = d.qrnd /\ r.inx = d.inx
  BY <1>2 DEF Rest
<1>7. Reads(d, m, nowait) => Reads(r, m, nowait)
  BY <1>3, <1>6 DEF Reads
<1> QED BY <1>5, <1>6, <1>7 DEF r

LEMMA ReadingApart ==
  ASSUME NEW d, NEW r, NEW m, NEW nowait, Reading(d, m, nowait), Apart(r, d)
  PROVE  Reading(r, m, nowait) /\ r.qrnd = d.qrnd
<1>1. /\ Typed(r) /\ r.capacity = d.capacity /\ r.bsz = d.bsz /\ r.bcnt = d.bcnt /\ r.cur = d.cur /\ r.inx = d.inx
      /\ r.crnd = d.crnd /\ r.qrnd = d.qrnd /\ r.ernd = d.ernd /\ r.rnd = d.rnd /\ r.writ = d.writ
      /\ r.firs = d.firs /\ r.req = d.req /\ r.fc = d.fc /\ r.pend = d.pend /\ r.res = d.res /\ r.pos = d.pos
      /\ r.medium = d.medium /\ r.bufs = d.bufs
  BY DEF Apart, UnitFields
<1> QED BY <1>1 DEF Reading, Quiet, Room, AtStart, Window, Prefetched

LEMMA TurnedDevice ==
  ASSUME NEW d, NEW m, NEW e, Turned(d, m, e)
  PROVE  LET r == Performed(d) IN Turned(r, m, e) /\ r.call = d.call
<1> DEFINE r == Performed(d)
<1>1. Quiet(r, m) /\ Prefetched(r, m, d.crnd + d.bcnt) /\ Rest(r, d) /\ r.bufs[d.cur] = d.bufs[d.cur]
  BY PerformedAhead DEF Turned
<1> HIDE DEF r
<1> QED BY <1>1 DEF Turned, Rest, r

LEMMA WritingDevice ==
  ASSUME NEW d, NEW m, NEW e \in Nat, Writing(d, m, e)
  PROVE  LET r == Performed(d) IN Writing(r, m, e) /\ r.call = d.call
<1> DEFINE r == Performed(d)
<1>1. Typed(r) /\ Rest(r, d) /\ r.bufs = d.bufs /\ Queue(r, m, e) /\ Stays(r.medium, m, e)
  BY QueueDone DEF Writing, Filling
<1> HIDE DEF r
<1> QED BY <1>1 DEF Writing, Filling, Rest, r

\* A read of an archive that is given up, or that comes to its end.
LEMMA ReadingDead ==
  ASSUME NEW d, NEW m, NEW nowait, NEW e \in 0..Len(m), Reading(d, m, nowait)
  PROVE  Dead(d, m, e)
BY DEF Reading, Quiet, Dead, Stays

LEMMA ReadingStarts ==
  ASSUME NEW d, NEW m, NEW nowait, Reading(d, m, nowait), d.qrnd \in Nat, NEW n \in Nat, d.qrnd + n <= Len(m)
  PROVE  LET r == Called(d, "transfer", "read", nowait, <<>>, n) IN
         Reading(r, m, nowait) /\ Reads(r, m, nowait) /\ r.qrnd = d.qrnd /\ r.call.n = n /\ r.call.i = 0
<1> DEFINE r == Called(d, "transfer", "read", nowait, <<>>, n)
<1>1. Typed(d) /\ "read" \in {"read", "write"} /\ n \in Int
  BY DEF Reading, Quiet
<1>2. IsSeq(<<>>) /\ Len(<<>>) = 0
  <2>1. <<>> \in Seq({})
    OBVIOUS
  <2> QED BY <2>1 DEF IsSeq
<1>3. Apart(r, d) /\ r.call = [op |-> "transfer", fc |-> "read", n |-> n, i |-> 0, nowait |-> nowait, data |-> <<>>, crnd |-> d.crnd, done |-> FALSE]
  BY <1>1, <1>2, CalledApart
<1> HIDE DEF r
<1>4. Reading(r, m, nowait) /\ r.qrnd = d.qrnd
  BY <1>3, ReadingApart
<1>5. r.call.op = "transfer" /\ r.call.fc = "read" /\ r.call.n = n /\ r.call.i = 0 /\ r.call.nowait = nowait /\ r.call.data = <<>> /\ ~r.call.done
  BY <1>3
<1>6. r.call.i \in 0..r.call.n /\ r.qrnd + r.call.n - r.call.i <= Len(m) /\ (0 < n \/ n = 0) /\ ~(0 > 0)
  BY <1>4, <1>5
<1>7. Loaded(<<>>, m, r.qrnd - 0, 0)
  BY DEF Loaded
<1>8. Reads(r, m, nowait)
  BY <1>2, <1>5, <1>6, <1>7 DEF Reads
<1> QED BY <1>4, <1>5, <1>8 DEF r

\* The last block that was read is that of the end: the unit goes back over it.
LEMMA ReadingTurns ==
  ASSUME NEW d, NEW m, NEW nowait, NEW e \in Nat, Reading(d, m, nowait), Reads(d, m, nowait), d.call.done, d.call.i > 0,
         d.qrnd = e + 1
  PROVE  LET r == Seek(d, -1) IN Turned(r, m, e) /\ r.call = d.call
<1> DEFINE q == d.qrnd + (-1)
           r == [d EXCEPT !.qrnd = q, !.rnd = TRUE]
<1>1. Typed(d) /\ Window(d, m) /\ d.inx > 0 /\ d.qrnd \in Int /\ d.bsz \in Nat /\ d.ernd \in Int
  BY DEF Reading, Quiet, Reads, Typed, Counts
<1>2. q \in Int /\ q = e
  BY <1>1
<1>3. Seek(d, -1) = r
  BY DEF Seek
<1> HIDE DEF q
<1>4. Typed(r) /\ r.rnd /\ r.qrnd = e /\ \A f \in UnitFields \ {"qrnd", "rnd"} : r[f] = d[f]
  BY <1>1, <1>2 DEF Typed, UnitFields, Counts
<1> HIDE DEF r
<1>5. /\ r.bsz = d.bsz /\ r.bcnt = d.bcnt /\ r.cur = d.cur /\ r.crnd = d.crnd /\ r.ernd = d.ernd /\ r.writ = d.writ
      /\ r.req = d.req /\ r.pend = d.pend /\ r.res = d.res /\ r.pos = d.pos
      /\ r.medium = d.medium /\ r.bufs = d.bufs /\ r.call = d.call
  BY <1>4 DEF UnitFields
<1>6. Quiet(r, m)
  BY <1>4, <1>5 DEF Reading, Quiet, Room
<1>7. Prefetched(r, m, r.crnd + r.bcnt)
  BY <1>1, <1>5 DEF Window, Prefetched
<1>8. /\ d.crnd \in Nat /\ d.bcnt \in 1..d.bsz /\ d.inx \in 0..d.bcnt /\ d.qrnd = d.crnd + d.inx /\ d.ernd <= d.qrnd
      /\ Loaded(d.bufs[d.cur], m, d.crnd, d.bcnt)
  BY <1>1 DEF Window
<1>9. d.crnd <= e /\ e < d.crnd + d.bcnt /\ d.ernd <= e + 1
  BY <1>1, <1>8
<1>10. Turned(r, m, e)
  BY <1>4, <1>5, <1>6, <1>7, <1>8, <1>9 DEF Turned
<1> QED BY <1>3, <1>5, <1>10

LEMMA OpcreReads ==
  ASSUME NEW b \in Nat \ {0}, NEW capacity \in Int, NEW m, IsSeq(m), NEW nowait
  PROVE  LET d == Ioopcre(NoUnit(b, capacity), m) IN
         Reading(d, m, nowait) /\ d.qrnd = 0 /\ d.call = NoCall
<1> DEFINE buf == [k \in 1..b |-> <<>>]
           d == Ioopcre(NoUnit(b, capacity), m)
<1>1. buf \in Seq({<<>>}) /\ Len(buf) = b
  OBVIOUS
<1>2. IsSeq(buf)
  BY <1>1 DEF IsSeq
<1>3. IsSeq(<<>>)
  <2>1. <<>> \in Seq({})
    OBVIOUS
  <2> QED BY <2>1 DEF IsSeq
<1>4. Calling(NoCall) /\ Pending(NoRequest) /\ NoRequest.fc = "none"
  BY <1>3 DEF Calling, CallFields, NoCall, Pending, NoRequest
<1>5. /\ DOMAIN d = UnitFields /\ d.capacity = capacity /\ d.bsz = b /\ d.bcnt = 0 /\ d.bufs = <<buf, buf>> /\ d.cur = 1 /\ d.inx = 0 /\ d.crnd = 0
      /\ d.qrnd = 0 /\ d.ernd = 0 /\ ~d.rnd /\ ~d.writ /\ d.firs /\ ~d.req /\ d.fc = <<"read", FALSE>> /\ d.call = NoCall
      /\ d.pend = NoRequest /\ d.res = 0 /\ d.pos = 0 /\ d.medium = m
  BY DEF Ioopcre, NoUnit, UnitFields
<1> HIDE DEF d, buf
<1>6. Buffers(<<buf, buf>>)
  BY <1>2 DEF Buffers
<1>7. Typed(d)
  BY <1>4, <1>5, <1>6 DEF Typed, Counts
<1>8. Quiet(d, m)
  BY <1>1, <1>4, <1>5, <1>7 DEF Quiet, Room
<1>9. Prefetched(d, m, 0)
  <2>1. Len(m) \in Nat
    BY JoinSeq
  <2>2. 0 \in 0..Len(m)
    BY <2>1
  <2> QED BY <1>4, <1>5, <2>2 DEF Prefetched
<1> QED BY <1>5, <1>8, <1>9 DEF Reading, AtStart, d

LEMMA OpcreTyped ==
  ASSUME NEW u, Typed(u), NEW m, IsSeq(m)
  PROVE  LET d == Ioopcre(u, m) IN Typed(d) /\ d.call = NoCall
<1> DEFINE d == Ioopcre(u, m)
<1>1. IsSeq(<<>>)
  <2>1. <<>> \in Seq({})
    OBVIOUS
  <2> QED BY <2>1 DEF IsSeq
<1>2. Calling(NoCall) /\ Pending(NoRequest)
  BY <1>1 DEF Calling, CallFields, NoCall, Pending, NoRequest
<1>3. /\ DOMAIN d = UnitFields /\ d.capacity = u.capacity /\ d.bsz = u.bsz /\ d.bcnt = u.bcnt /\ d.bufs = u.bufs /\ d.cur = u.cur /\ d.inx = 0
      /\ d.crnd = 0 /\ d.qrnd = 0 /\ d.ernd = 0 /\ d.fc = <<"read", FALSE>> /\ d.call = NoCall
      /\ d.pend = NoRequest /\ d.res = 0 /\ d.pos = 0 /\ d.medium = m
  BY DEF Ioopcre, UnitFields
<1> HIDE DEF d
<1>4. Typed(d)
  BY <1>2, <1>3 DEF Typed, Counts
<1> QED BY <1>3, <1>4 DEF d

-----------------------------------------------------------------------------
(* The inductive invariant of tar *)

WritePcs == {"next", "put", "head", "data", "chunk", "end", "fill", "filled", "volume", "shut", "mount", "over", "closed"}
TFields == {"pc", "job", "args", "walk", "tfile", "ihead", "began", "tblkmax", "tblkpos", "at", "term", "status", "last",
            "path", "st", "dir", "off", "noblks", "ext", "bytes", "lu"}
World ==
  /\ \A p \in DOMAIN tree : tree[p] \in DOMAIN version
  /\ \A i \in DOMAIN version : <<i, version[i].of>> \in DOMAIN Bytes
Media == DOMAIN vols \subseteq Nat /\ \A v \in DOMAIN vols : IsSeq(vols[v])
Running == jobs \in Seq(TarCall) /\ (t.pc # "idle" => DOMAIN t = TFields /\ t.job \in TarCall)
Numbers ==
  /\ t.pc \in WritePcs \cup {"seek", "seen"}
  /\ t.at \in Nat /\ t.at >= t.job.from
  /\ t.tblkmax \in Int /\ t.tblkpos \in Int /\ t.off \in Int /\ t.noblks \in Int /\ t.bytes \in Int
\* the file that is written is one of the tree's
InFile == t.pc \in {"head", "data", "chunk", "end", "volume", "shut", "mount"} \/ (t.pc \in {"fill", "filled"} /\ ~t.last)
HasFile == InFile => t.st.ino \in DOMAIN version
UnitOk == Typed(unit) /\ (unit.call.done \/ unit.call.op \in {"transfer", "left", "close"})
CloseOk == t.pc \in {"mount", "closed"} => unit.call.op = "close" /\ (unit.call.done => ~unit.writ /\ unit.pend.fc = "none")

\* on the way to the end of the archive
Seeking(d, m, e, s) ==
  /\ Reading(d, m, s) /\ (d.call = NoCall \/ Reads(d, m, s))
  /\ d.qrnd + d.call.n - d.call.i \in Nat /\ From(m)[d.qrnd + d.call.n - d.call.i] = e
Looking(d, m, e, s) ==
  Reading(d, m, s) /\ Reads(d, m, s) /\ d.call.n = 1 /\ d.qrnd - d.call.i \in Nat /\ From(m)[d.qrnd - d.call.i] = e
\* over the end, and nothing written yet; then with the first blocks under way
Ending(d, m, e) == Turned(d, m, e) /\ d.call.done /\ d.call.fc = "read"
Starting(d, m, e) == (Turned(d, m, e) \/ Aimed(d, m, e)) /\ WriteCall(d.call) /\ ~d.call.done /\ d.call.n # 0
LeftCall(pc, c) == c.op = "left" /\ c.fc = "write" /\ (IF c.done THEN c.i > 0 ELSE pc \in {"chunk", "filled"})
Going(pc, d, m, e) ==
  Writing(d, m, e) /\ IF pc \in {"mount", "closed"} THEN d.call.op = "close" /\ ~d.call.done
                      ELSE WriteCall(d.call) \/ LeftCall(pc, d.call)
\* given up
Stopped(pc, c) ==
  \/ pc = "over" /\ c.done
  \/ pc \in WritePcs \ {"mount", "closed"} /\ Refused(c)
  \/ pc \in {"chunk", "filled"} /\ c.op = "left" /\ c.fc = "write" /\ c.done /\ c.i <= 0
  \/ pc \in {"shut", "over"} /\ c.op = "transfer" /\ c.fc = "write" /\ c.n = 0 /\ (c.done => c.i = 0)
  \/ pc \in {"mount", "closed"} /\ c.op = "close"
Phase(pc, d, m, e, s) ==
  \/ pc = "seek" /\ Seeking(d, m, e, s)
  \/ pc = "seen" /\ Looking(d, m, e, s)
  \/ pc \in {"next", "put", "head", "volume"} /\ Ending(d, m, e)
  \/ pc \in {"next", "data", "fill"} /\ Starting(d, m, e)
  \/ pc \in WritePcs /\ Going(pc, d, m, e)
  \/ Dead(d, m, e) /\ Stopped(pc, d.call)
KeptOk == Appends /\ Whole(vols[t.at]) => Phase(t.pc, unit, vols[t.at], End(vols[t.at]), t.job.s)
TarInv == World /\ Media /\ Running /\ (Writes => Numbers /\ HasFile /\ UnitOk /\ CloseOk) /\ KeptOk

-----------------------------------------------------------------------------
(* Each phase as the device, the calls and the program go on *)

LEMMA SameCallIs ==
  ASSUME NEW r, NEW c, SameCall(r, c)
  PROVE  r.op = c.op /\ r.fc = c.fc /\ r.n = c.n /\ r.nowait = c.nowait
BY DEF SameCall

\* A turn of the call that is under way.
LEMMA PhaseTurn ==
  ASSUME NEW pc, NEW d, NEW m, NEW e \in Nat, NEW s \in BOOLEAN, Phase(pc, d, m, e, s), ~d.call.done
  PROVE  Phase(pc, Io(d), m, e, s)
<1> DEFINE r == Io(d)
<1>1. CASE pc = "seek" /\ Seeking(d, m, e, s)
  <2>1. Reading(d, m, s) /\ Reads(d, m, s)
    BY <1>1 DEF Seeking, NoCall
  <2>2. Reading(r, m, s) /\ Reads(r, m, s) /\ r.call.n = d.call.n /\ r.qrnd - r.call.i = d.qrnd - d.call.i
    BY <2>1, ReadTurn, SameCallIs
  <2>3. /\ d.qrnd \in Int /\ d.call.i \in Int /\ d.call.n \in Int
        /\ r.qrnd \in Int /\ r.call.i \in Int
    BY <2>1, <2>2 DEF Reading, Quiet, Typed, Counts, Calling
  <2>4. r.qrnd + r.call.n - r.call.i = d.qrnd + d.call.n - d.call.i
    BY <2>2, <2>3
  <2> QED BY <1>1, <2>2, <2>4 DEF Phase, Seeking
<1>2. CASE pc = "seen" /\ Looking(d, m, e, s)
  <2>1. Reading(d, m, s) /\ Reads(d, m, s)
    BY <1>2 DEF Looking
  <2>2. Reading(r, m, s) /\ Reads(r, m, s) /\ r.call.n = d.call.n /\ r.qrnd - r.call.i = d.qrnd - d.call.i
    BY <2>1, ReadTurn, SameCallIs
  <2> QED BY <1>2, <2>2 DEF Phase, Looking
<1>3. CASE pc \in {"next", "data", "fill"} /\ Starting(d, m, e)
  <2>1. CASE Turned(d, m, e)
    <3>1. Aimed(r, m, e) /\ r.call = d.call
      BY <1>3, <2>1, AimTurn DEF Starting
    <3> QED BY <1>3, <3>1 DEF Phase, Starting
  <2>2. CASE Aimed(d, m, e)
    <3>1. (Writing(r, m, e) /\ WriteCall(r.call)) \/ (Dead(r, m, e) /\ Refused(r.call))
      BY <1>3, <2>2, WriteTurn DEF Starting
    <3> QED BY <1>3, <3>1 DEF Phase, Going, Stopped, WritePcs
  <2> QED BY <1>3, <2>1, <2>2 DEF Starting
<1>4. CASE pc \in WritePcs /\ Going(pc, d, m, e)
  <2>1. CASE pc \in {"mount", "closed"}
    <3>1. Dead(r, m, e) /\ r.call.op = "close"
      BY <1>4, <2>1, CloseTurn DEF Going
    <3> QED BY <2>1, <3>1 DEF Phase, Stopped
  <2>2. CASE pc \notin {"mount", "closed"} /\ WriteCall(d.call)
    <3>1. (Writing(r, m, e) /\ WriteCall(r.call)) \/ (Dead(r, m, e) /\ Refused(r.call))
      BY <1>4, <2>2, WriteTurn DEF Going
    <3> QED BY <1>4, <2>2, <3>1 DEF Phase, Going, Stopped
  <2>3. CASE pc \notin {"mount", "closed"} /\ LeftCall(pc, d.call)
    <3>1. pc \in {"chunk", "filled"} /\ Writing(d, m, e) /\ d.call.op = "left" /\ d.call.fc = "write"
      BY <1>4, <2>3 DEF LeftCall, Going
    <3>2. /\ r.call.op = "left" /\ r.call.fc = "write" /\ r.call.done
          /\ (Writing(r, m, e) /\ r.call.i > 0) \/ (Dead(r, m, e) /\ r.call.i <= 0)
      BY <3>1, LeftTurn
    <3>3. CASE Writing(r, m, e) /\ r.call.i > 0
      BY <1>4, <3>1, <3>2, <3>3 DEF Phase, Going, LeftCall
    <3>4. CASE Dead(r, m, e) /\ r.call.i <= 0
      BY <1>4, <3>1, <3>2, <3>4 DEF Phase, Stopped
    <3> QED BY <3>2, <3>3, <3>4
  <2> QED BY <1>4, <2>1, <2>2, <2>3 DEF Going
<1>5. CASE Dead(d, m, e) /\ Stopped(pc, d.call)
  <2>1. \/ pc \in {"shut", "over"} /\ d.call.op = "transfer" /\ d.call.fc = "write" /\ d.call.n = 0
        \/ pc \in {"mount", "closed"} /\ d.call.op = "close"
    BY <1>5 DEF Stopped, Refused
  <2>2. Dead(r, m, e) /\ SameCall(r.call, d.call) /\ (d.call.op = "transfer" => r.call.i = 0)
    BY <1>5, <2>1, DeadTurn
  <2>3. r.call.op = d.call.op /\ r.call.fc = d.call.fc /\ r.call.n = d.call.n
    BY <2>2, SameCallIs
  <2> QED BY <2>1, <2>2, <2>3 DEF Phase, Stopped
<1> QED BY <1>1, <1>2, <1>3, <1>4, <1>5 DEF Phase, Ending

\* The device gets to the request.
LEMMA PhaseDevice ==
  ASSUME NEW pc, NEW d, NEW m, NEW e \in Nat, NEW s, Phase(pc, d, m, e, s)
  PROVE  Phase(pc, Performed(d), m, e, s)
<1> DEFINE r == Performed(d)
<1>1. CASE pc = "seek" /\ Seeking(d, m, e, s)
  <2>1. Reading(r, m, s) /\ r.call = d.call /\ r.qrnd = d.qrnd /\ (Reads(d, m, s) => Reads(r, m, s))
    BY <1>1, ReadingDevice DEF Seeking
  <2> QED BY <1>1, <2>1 DEF Phase, Seeking
<1>2. CASE pc = "seen" /\ Looking(d, m, e, s)
  <2>1. Reading(r, m, s) /\ r.call = d.call /\ r.qrnd = d.qrnd /\ (Reads(d, m, s) => Reads(r, m, s))
    BY <1>2, ReadingDevice DEF Looking
  <2> QED BY <1>2, <2>1 DEF Phase, Looking
<1>3. Turned(d, m, e) => Turned(r, m, e) /\ r.call = d.call
  BY TurnedDevice
<1>4. Aimed(d, m, e) => Aimed(r, m, e) /\ r.call = d.call
  BY PerformedIs DEF Aimed
<1>5. Writing(d, m, e) => Writing(r, m, e) /\ r.call = d.call
  BY WritingDevice
<1>6. Dead(d, m, e) => Dead(r, m, e) /\ r.call = d.call
  BY DeadDevice
<1>7. CASE pc \in {"next", "put", "head", "volume"} /\ Ending(d, m, e)
  BY <1>3, <1>7 DEF Phase, Ending
<1>8. CASE pc \in {"next", "data", "fill"} /\ Starting(d, m, e)
  BY <1>3, <1>4, <1>8 DEF Phase, Starting
<1>9. CASE pc \in WritePcs /\ Going(pc, d, m, e)
  BY <1>5, <1>9 DEF Phase, Going
<1>10. CASE Dead(d, m, e) /\ Stopped(pc, d.call)
  BY <1>6, <1>10 DEF Phase
<1> QED BY <1>1, <1>2, <1>7, <1>8, <1>9, <1>10 DEF Phase

\* What a phase is once the call of io has returned and the program goes on.
LEMMA PhaseReady ==
  ASSUME NEW pc \in WritePcs \ {"mount", "closed", "over"}, NEW d, NEW m, NEW e \in Nat, NEW s, Phase(pc, d, m, e, s),
         d.call.done, ~Refused(d.call)
  PROVE  \/ pc \in {"next", "put", "head", "volume"} /\ Ending(d, m, e)
         \/ Writing(d, m, e) /\ (WriteCall(d.call) \/ LeftCall(pc, d.call))
         \/ Dead(d, m, e) /\ pc \in {"chunk", "filled"} /\ d.call.op = "left" /\ d.call.i <= 0
         \/ Dead(d, m, e) /\ pc = "shut"
<1>1. pc \notin {"seek", "seen"}
  BY DEF WritePcs
<1>2. ~Starting(d, m, e)
  BY DEF Starting
<1>3. CASE pc \in {"next", "put", "head", "volume"} /\ Ending(d, m, e)
  BY <1>3
<1>4. CASE Going(pc, d, m, e)
  BY <1>4 DEF Going
<1>5. CASE Dead(d, m, e) /\ Stopped(pc, d.call)
  BY <1>5 DEF Stopped
<1> QED BY <1>1, <1>2, <1>3, <1>4, <1>5 DEF Phase

\* The program goes on without a call.
LEMMA PhaseStay ==
  ASSUME NEW pc \in {"next", "put", "data", "chunk", "end"}, NEW to \in {"next", "put", "head", "volume", "end"},
         NEW d, NEW m, NEW e \in Nat, NEW s, Phase(pc, d, m, e, s), d.call.done, ~Refused(d.call),
         pc = "chunk" => d.call.i > 0, to = "end" => pc \in {"data", "chunk"}
  PROVE  Phase(to, d, m, e, s)
<1>1. pc \in WritePcs \ {"mount", "closed", "over"} /\ to \in WritePcs \ {"mount", "closed"}
  BY DEF WritePcs
<1>2. CASE pc \in {"next", "put", "head", "volume"} /\ Ending(d, m, e)
  BY <1>2 DEF Phase
<1>3. CASE Writing(d, m, e) /\ (WriteCall(d.call) \/ LeftCall(pc, d.call))
  BY <1>1, <1>3 DEF Phase, Going, LeftCall
<1>4. d.call.i \in Int \/ ~Dead(d, m, e)
  BY DEF Dead, Typed, Calling
<1>5. ~(Dead(d, m, e) /\ pc \in {"chunk", "filled"} /\ d.call.op = "left" /\ d.call.i <= 0)
  BY <1>4
<1> QED BY <1>1, <1>2, <1>3, <1>5, PhaseReady

\* The program writes blocks.
LEMMA PhaseWrite ==
  ASSUME NEW pc \in {"next", "head", "volume", "chunk", "end", "filled"}, NEW to \in WritePcs \ {"mount", "closed"},
         NEW d, NEW m, NEW e \in Nat, NEW s, Phase(pc, d, m, e, s), d.call.done, ~Refused(d.call),
         NEW data, IsSeq(data), NEW n \in Nat,
         pc = "chunk" => d.call.i > 0,
         pc \in {"next", "head", "volume"} => n # 0 /\ to \in {"next", "data", "fill"},
         pc = "filled" => to \in {"shut", "over"} /\ (d.call.i <= 0 => n = 0)
  PROVE  Phase(to, Called(d, "transfer", "write", s, data, n), m, e, s)
<1> DEFINE r == Called(d, "transfer", "write", s, data, n)
           c == [op |-> "transfer", fc |-> "write", n |-> n, i |-> 0, nowait |-> s, data |-> data, crnd |-> d.crnd, done |-> FALSE]
<1>1. pc \in WritePcs \ {"mount", "closed", "over"}
  BY DEF WritePcs
<1>2. Typed(d) => Apart(r, d) /\ r.call = c
  <2>1. "write" \in {"read", "write"} /\ n \in Int
    OBVIOUS
  <2> HIDE DEF r
  <2> QED BY <2>1, CalledApart DEF r
<1>3. WriteCall(c) /\ ~c.done /\ c.n = n
  BY DEF WriteCall
<1> HIDE DEF r, c
<1>4. CASE pc \in {"next", "put", "head", "volume"} /\ Ending(d, m, e)
  <2>1. Typed(d) /\ Turned(d, m, e)
    BY <1>4 DEF Ending, Turned, Quiet
  <2>2. Turned(r, m, e) /\ r.call = c
    BY <1>2, <2>1, ApartKeeps
  <2>3. n # 0 /\ to \in {"next", "data", "fill"}
    BY <1>4
  <2> QED BY <1>3, <2>2, <2>3 DEF Phase, Starting, r
<1>5. CASE Writing(d, m, e) /\ (WriteCall(d.call) \/ LeftCall(pc, d.call))
  <2>1. Typed(d)
    BY <1>5 DEF Writing, Filling
  <2>2. Writing(r, m, e) /\ r.call = c
    BY <1>2, <1>5, <2>1, ApartKeeps
  <2> QED BY <1>3, <2>2 DEF Phase, Going, r
<1>6. CASE Dead(d, m, e) /\ pc \in {"chunk", "filled"} /\ d.call.op = "left" /\ d.call.i <= 0
  <2>1. Typed(d) /\ d.call.i \in Int
    BY <1>6 DEF Dead, Typed, Calling
  <2>2. Dead(r, m, e) /\ r.call = c
    BY <1>2, <1>6, <2>1, ApartKeeps
  <2>3. n = 0 /\ to \in {"shut", "over"}
    BY <1>6, <2>1
  <2> QED BY <2>2, <2>3 DEF Phase, Stopped, r, c
<1> QED BY <1>1, <1>4, <1>5, <1>6, PhaseReady DEF r

\* The program asks how much the buffer takes.
LEMMA PhaseLeft ==
  ASSUME NEW pc \in {"data", "fill"}, NEW to \in {"chunk", "filled"},
         NEW d, NEW m, NEW e \in Nat, NEW s, Phase(pc, d, m, e, s), d.call.done, ~Refused(d.call)
  PROVE  Phase(to, Called(d, "left", "write", s, <<>>, 0), m, e, s)
<1> DEFINE r == Called(d, "left", "write", s, <<>>, 0)
<1>1. pc \in WritePcs \ {"mount", "closed", "over"} /\ to \in WritePcs \ {"mount", "closed"}
  BY DEF WritePcs
<1>2. Writing(d, m, e)
  BY <1>1, PhaseReady
<1>3. Typed(d) /\ IsSeq(<<>>) /\ "write" \in {"read", "write"} /\ 0 \in Int
  <2>1. <<>> \in Seq(Int)
    OBVIOUS
  <2> QED BY <1>2, <2>1 DEF Writing, Filling, IsSeq
<1>4. Apart(r, d) /\ r.call = [op |-> "left", fc |-> "write", n |-> 0, i |-> 0, nowait |-> s, data |-> <<>>, crnd |-> d.crnd, done |-> FALSE]
  BY <1>3, CalledApart
<1> HIDE DEF r
<1>5. Writing(r, m, e) /\ LeftCall(to, r.call)
  BY <1>2, <1>4, ApartKeeps DEF LeftCall
<1> QED BY <1>1, <1>5 DEF Phase, Going, r

\* The program closes the unit.
LEMMA PhaseClose ==
  ASSUME NEW pc \in {"shut", "over"}, NEW to \in {"mount", "closed"},
         NEW d, NEW m, NEW e \in Nat, NEW s, Phase(pc, d, m, e, s), d.call.done
  PROVE  Phase(to, Called(d, "close", "write", s, <<>>, 0), m, e, s)
<1> DEFINE r == Called(d, "close", "write", s, <<>>, 0)
<1>1. to \in WritePcs
  BY DEF WritePcs
<1>2. Writing(d, m, e) \/ Dead(d, m, e)
  BY DEF Phase, Going
<1>3. Typed(d) /\ IsSeq(<<>>) /\ "write" \in {"read", "write"} /\ 0 \in Int
  <2>1. <<>> \in Seq(Int)
    OBVIOUS
  <2> QED BY <1>2, <2>1 DEF Writing, Filling, Dead, IsSeq
<1>4. Apart(r, d) /\ r.call = [op |-> "close", fc |-> "write", n |-> 0, i |-> 0, nowait |-> s, data |-> <<>>, crnd |-> d.crnd, done |-> FALSE]
  BY <1>3, CalledApart
<1> HIDE DEF r
<1>5. (Writing(r, m, e) \/ Dead(r, m, e)) /\ r.call.op = "close" /\ ~r.call.done
  BY <1>2, <1>4, ApartKeeps
<1> QED BY <1>1, <1>5 DEF Phase, Going, Stopped, r

\* The program was told that the medium is full, and ends.
LEMMA PhaseOver ==
  ASSUME NEW pc \in WritePcs \cup {"seek", "seen"}, NEW d, NEW m, NEW e \in Nat, NEW s, Phase(pc, d, m, e, s), d.call.done,
         Refused(d.call) \/ (pc = "chunk" /\ d.call.i <= 0)
  PROVE  Phase("over", d, m, e, s)
<1>1. CASE Refused(d.call)
  <2>1. ~Seeking(d, m, e, s)
    BY <1>1 DEF Seeking, NoCall, Reads, Refused
  <2>2. ~Looking(d, m, e, s)
    BY <1>1 DEF Looking, Reads, Refused
  <2>3. ~Ending(d, m, e) /\ ~Starting(d, m, e)
    BY <1>1 DEF Ending, Starting, Refused
  <2>4. ~Going(pc, d, m, e)
    BY <1>1 DEF Going, Refused, WriteCall, LeftCall
  <2>5. Dead(d, m, e)
    BY <2>1, <2>2, <2>3, <2>4 DEF Phase
  <2> QED BY <2>5 DEF Phase, Stopped
<1>2. CASE pc = "chunk" /\ d.call.i <= 0 /\ ~Refused(d.call)
  <2>1. pc \in WritePcs \ {"mount", "closed", "over"} /\ "over" \in WritePcs
    BY <1>2 DEF WritePcs
  <2>2. CASE Writing(d, m, e) /\ WriteCall(d.call)
    BY <2>1, <2>2 DEF Phase, Going
  <2>3. CASE Writing(d, m, e) /\ LeftCall(pc, d.call)
    <3>1. d.call.i \in Int
      BY <2>3 DEF Writing, Filling, Typed, Calling
    <3> QED BY <1>2, <2>3, <3>1 DEF LeftCall
  <2>4. CASE Dead(d, m, e)
    BY <2>4 DEF Phase, Stopped
  <2> QED BY <1>2, <2>1, <2>2, <2>3, <2>4, PhaseReady
<1> QED BY <1>1, <1>2


-----------------------------------------------------------------------------
(* The way to the end of the archive *)

LEMMA SeekBegins ==
  ASSUME NEW b \in Nat \ {0}, NEW capacity \in Int, NEW m, IsSeq(m), NEW s
  PROVE  Phase("seek", Ioopcre(NoUnit(b, capacity), m), m, End(m), s)
<1> DEFINE d == Ioopcre(NoUnit(b, capacity), m)
<1>1. Reading(d, m, s) /\ d.qrnd = 0 /\ d.call = NoCall
  BY OpcreReads
<1>2. d.call.n = 0 /\ d.call.i = 0
  BY <1>1 DEF NoCall
<1> HIDE DEF d
<1>3. d.qrnd + d.call.n - d.call.i = 0
  BY <1>1, <1>2
<1> QED BY <1>1, <1>3 DEF Phase, Seeking, End, d

\* The next block is there to be read.
LEMMA SeekLooks ==
  ASSUME NEW d, NEW m, IsSeq(m), NEW e \in Nat, e < Len(m), NEW s, Phase("seek", d, m, e, s), d.call.done, ~Refused(d.call)
  PROVE  Phase("seen", Called(d, "transfer", "read", s, <<>>, 1), m, e, s)
<1>1. Seeking(d, m, e, s)
  BY DEF Phase, Going, Stopped, WritePcs
<1>2. Reading(d, m, s) /\ d.qrnd \in Int /\ Len(m) \in Nat
  BY <1>1, JoinSeq DEF Seeking, Reading, Quiet, Typed, Counts
<1>3. d.call.i = d.call.n /\ d.call.n \in Int
  <2>1. CASE d.call = NoCall
    BY <2>1 DEF NoCall
  <2>2. CASE Reads(d, m, s)
    BY <1>2, <2>2 DEF Reads, Reading, Quiet, Typed, Calling
  <2> QED BY <1>1, <2>1, <2>2 DEF Seeking
<1>4. d.qrnd + d.call.n - d.call.i = d.qrnd
  BY <1>2, <1>3
<1>5. d.qrnd \in Nat /\ From(m)[d.qrnd] = e
  BY <1>1, <1>4 DEF Seeking
<1>6. e >= d.qrnd
  BY <1>5, FromGrows
<1>7. 1 \in Nat /\ d.qrnd + 1 <= Len(m)
  BY <1>2, <1>5, <1>6
<1> DEFINE r == Called(d, "transfer", "read", s, <<>>, 1)
<1>8. Reading(r, m, s) /\ Reads(r, m, s) /\ r.qrnd = d.qrnd /\ r.call.n = 1 /\ r.call.i = 0
  BY <1>2, <1>5, <1>7, ReadingStarts
<1> HIDE DEF r
<1>9. r.qrnd - r.call.i = d.qrnd
  BY <1>2, <1>8
<1> QED BY <1>5, <1>8, <1>9 DEF Phase, Looking, r

\* The block that was read is one before the end of the archive, or that of the end.
LEMMA SeekSees ==
  ASSUME NEW d, NEW m, IsSeq(m), NEW e \in Nat, e < Len(m), NEW s, Looking(d, m, e, s), d.call.done
  PROVE  /\ d.call.i = 1 /\ d.qrnd - 1 \in Nat /\ d.qrnd - 1 < Len(m)
         /\ d.call.data[1] = m[d.qrnd] /\ From(m)[d.qrnd - 1] = e
<1>1. d.qrnd \in Int /\ Len(m) \in Nat
  BY JoinSeq DEF Looking, Reading, Quiet, Typed, Counts
<1>2. Reads(d, m, s) /\ d.call.i = 1 /\ d.call.n = 1
  BY DEF Looking, Reads
<1>3. d.qrnd + 1 - 1 <= Len(m) /\ Loaded(d.call.data, m, d.qrnd - 1, 1)
  BY <1>2 DEF Reads
<1>4. d.call.data[1] = m[(d.qrnd - 1) + 1] /\ (d.qrnd - 1) + 1 = d.qrnd
  BY <1>1, <1>3 DEF Loaded
<1> QED BY <1>1, <1>2, <1>3, <1>4 DEF Looking

\* A header: the archive ends behind what it announces.
LEMMA SeekJumps ==
  ASSUME NEW d, NEW m, IsSeq(m), NEW e \in Nat, e < Len(m), NEW s, Looking(d, m, e, s), d.call.done, Header(d.call.data[1])
  PROVE  Phase("seek", Called(d, "transfer", "read", s, <<>>, Ahead(d.call.data[1])), m, e, s)
<1> DEFINE h == d.call.data[1]
           k == d.qrnd - 1
           a == Ahead(h)
<1>1. k \in Nat /\ k < Len(m) /\ From(m)[k] = e /\ Len(m) \in Nat
  BY SeekSees, JoinSeq
<1>2. d.qrnd \in Int /\ Reading(d, m, s)
  BY DEF Looking, Reading, Quiet, Typed, Counts
<1>3. m[k + 1] = h
  <2>1. k + 1 = d.qrnd
    BY <1>2
  <2> QED BY <2>1, SeekSees
<1>4. a \in Nat
  BY AheadNat
<1>5. k + 1 = d.qrnd
  BY <1>2
<1> HIDE DEF h, k, a
<1>6. Heads(m, k) /\ Jump(m, k) = d.qrnd + a
  BY <1>1, <1>3, <1>5 DEF Heads, Jump, h, a
<1>7. From(m)[d.qrnd + a] = e
  BY <1>1, <1>6, FromIs DEF Steps
<1>8. d.qrnd \in Nat /\ d.qrnd + a \in Nat
  BY <1>1, <1>4, <1>5
<1>9. e >= d.qrnd + a
  BY <1>7, <1>8, FromGrows
<1>10. d.qrnd + a <= Len(m)
  BY <1>1, <1>8, <1>9
<1> DEFINE r == Called(d, "transfer", "read", s, <<>>, a)
<1>11. Reading(r, m, s) /\ Reads(r, m, s) /\ r.qrnd = d.qrnd /\ r.call.n = a /\ r.call.i = 0
  BY <1>2, <1>4, <1>8, <1>10, ReadingStarts
<1> HIDE DEF r
<1>12. r.qrnd + r.call.n - r.call.i = d.qrnd + a
  BY <1>4, <1>8, <1>11
<1> QED BY <1>7, <1>8, <1>11, <1>12 DEF Phase, Seeking, r, a, h

\* An empty block is that of the end, and the unit goes back over it.
LEMMA SeekTurns ==
  ASSUME NEW d, NEW m, IsSeq(m), NEW e \in Nat, e < Len(m), NEW s, Looking(d, m, e, s), d.call.done,
         d.call.data[1].kind = "zero"
  PROVE  Phase("next", Seek(d, -1), m, e, s)
<1> DEFINE k == d.qrnd - 1
           r == Seek(d, -1)
<1>1. k \in Nat /\ k < Len(m) /\ From(m)[k] = e /\ d.call.i = 1
  BY SeekSees
<1>2. d.qrnd \in Int /\ Reading(d, m, s) /\ Reads(d, m, s)
  BY DEF Looking, Reading, Quiet, Typed, Counts
<1>3. k + 1 = d.qrnd
  BY <1>2
<1>4. m[k + 1].kind = "zero"
  BY <1>3, SeekSees
<1>5. ~Heads(m, k)
  BY <1>4 DEF Heads, Header
<1> HIDE DEF k
<1>6. k = e
  BY <1>1, <1>5, FromIs DEF Steps
<1>7. d.qrnd = e + 1 /\ d.call.i > 0
  BY <1>1, <1>3, <1>6
<1>8. Turned(r, m, e) /\ r.call = d.call
  BY <1>2, <1>7, ReadingTurns
<1>9. d.call.fc = "read"
  BY <1>2 DEF Reads
<1> QED BY <1>8, <1>9 DEF Phase, Ending

\* The search is given up.
LEMMA SeekGivesUp ==
  ASSUME NEW d, NEW m, IsSeq(m), NEW e \in Nat, e < Len(m), NEW s, Looking(d, m, e, s), d.call.done
  PROVE  Phase("over", d, m, e, s)
<1>1. e \in 0..Len(m)
  BY JoinSeq
<1>2. Dead(d, m, e)
  BY <1>1, ReadingDead DEF Looking
<1> QED BY <1>2 DEF Phase, Stopped

LEMMA LookingIs ==
  ASSUME NEW d, NEW m, NEW e \in Nat, NEW s, Phase("seen", d, m, e, s), ~Refused(d.call)
  PROVE  Looking(d, m, e, s)
BY DEF Phase, Going, Stopped, WritePcs

-----------------------------------------------------------------------------
(* The blocks that are written *)

LEMMA EmptyIs ==
  ASSUME NEW n \in Int
  PROVE  IsSeq(Empty(n)) /\ Len(Empty(n)) \in Nat /\ (n >= 0 => Len(Empty(n)) = n) /\ (n <= 0 => Len(Empty(n)) = 0)
<1> DEFINE r == Empty(n)
<1>1. n >= 0 => IsSeq(r) /\ Len(r) = n
  <2> SUFFICES ASSUME n \in Nat PROVE IsSeq(r) /\ Len(r) = n
    OBVIOUS
  <2>1. [k \in 1..n |-> Zero] \in Seq({Zero}) /\ Len([k \in 1..n |-> Zero]) = n
    OBVIOUS
  <2> QED BY <2>1 DEF IsSeq, Empty
<1>2. n < 0 => IsSeq(r) /\ Len(r) = 0
  <2> SUFFICES ASSUME n < 0 PROVE IsSeq(r) /\ Len(r) = 0
    OBVIOUS
  <2>1. 1..n = 1..0
    OBVIOUS
  <2>2. r = [k \in 1..0 |-> Zero]
    BY <2>1 DEF Empty
  <2>3. [k \in 1..0 |-> Zero] \in Seq({Zero}) /\ Len([k \in 1..0 |-> Zero]) = 0
    OBVIOUS
  <2> HIDE DEF r
  <2> QED BY <2>2, <2>3 DEF IsSeq
<1> HIDE DEF r
<1>3. IsSeq(r) /\ Len(r) \in Nat /\ (n >= 0 => Len(r) = n) /\ (n <= 0 => Len(r) = 0)
  BY <1>1, <1>2
<1> QED BY <1>3 DEF r

LEMMA CutSeq ==
  ASSUME NEW x, IsSeq(x)
  PROVE  IsSeq(Cut(x)) /\ Len(Cut(x)) \in Nat
<1>1. Blocks(Len(x)) \in Nat
  BY BlocksNat, JoinSeq
<1> DEFINE n == Blocks(Len(x))
           f(b) == [kind |-> "data", bytes |-> Padded(Slice(x, (b - 1) * BlkSiz, BlkSiz), BlkSiz)]
           S == {f(b) : b \in 1..n}
<1>2. Cut(x) = [b \in 1..n |-> f(b)]
  BY DEF Cut
<1>3. n \in Nat /\ \A b \in 1..n : f(b) \in S
  BY <1>1
<1> HIDE DEF n, f, S
<1>4. [b \in 1..n |-> f(b)] \in Seq(S) /\ Len([b \in 1..n |-> f(b)]) = n
  BY <1>3
<1> QED BY <1>2, <1>3, <1>4 DEF IsSeq

LEMMA ContentSeq ==
  ASSUME World, NEW ino \in DOMAIN version
  PROVE  Content(ino) \in Seq(Int)
BY TarAssumption DEF World, Content

LEMMA SliceIs ==
  ASSUME NEW x \in Seq(Int), NEW from \in Int, NEW n \in Int
  PROVE  IsSeq(Slice(x, from, n)) /\ Len(Slice(x, from, n)) \in Nat
<1> DEFINE a == from + 1
           b == Least(from + n, Len(x))
<1>1. IsSeq(x)
  BY DEF IsSeq
<1>2. a \in Int /\ b \in Int
  BY DEF Least
<1> HIDE DEF a, b
<1>3. IsSeq(SubSeq(x, a, b))
  BY <1>1, <1>2, PartSeq
<1> QED BY <1>3, JoinSeq DEF Slice, a, b

LEMMA OneSeq ==
  ASSUME NEW x
  PROVE  IsSeq(<<x>>) /\ Len(<<x>>) = 1
<1>1. <<x>> \in Seq({x}) /\ Len(<<x>>) = 1
  OBVIOUS
<1> QED BY <1>1 DEF IsSeq
-----------------------------------------------------------------------------
(* The steps of tar *)

LEMMA TarStep ==
  ASSUME TarInv, t.pc # "idle", UNCHANGED <<tree, version, jobs, vols>>, DOMAIN t' = TFields, t'.job = t.job,
         Writes => /\ t'.at = t.at /\ Numbers' /\ HasFile' /\ UnitOk' /\ CloseOk'
                   /\ \A m : \A e \in Nat : IsSeq(m) /\ e < Len(m) /\ Phase(t.pc, unit, m, e, t.job.s) => Phase(t'.pc, unit', m, e, t.job.s)
  PROVE  TarInv'
<1>1. World' /\ Media' /\ Running'
  BY DEF TarInv, World, Media, Running
<1>2. Writes' => Writes
  BY DEF Writes
<1>3. Writes' => Numbers' /\ HasFile' /\ UnitOk' /\ CloseOk'
  BY <1>2
<1>4. KeptOk'
  <2> SUFFICES ASSUME Appends', Whole(vols[t.at])' PROVE Phase(t.pc, unit, vols[t.at], End(vols[t.at]), t.job.s)'
    BY DEF KeptOk
  <2>1. Writes /\ t'.at = t.at
    BY <1>2 DEF Appends
  <2>2. Appends /\ vols'[t'.at] = vols[t.at]
    BY <2>1 DEF Appends
  <2> DEFINE m == vols[t.at]
             e == End(m)
  <2>3. Whole(m) /\ Phase(t.pc, unit, m, e, t.job.s)
    BY <2>1, <2>2 DEF TarInv, KeptOk, Whole, End
  <2>4. IsSeq(m)
    BY <2>2 DEF TarInv, Media, Appends
  <2>5. e \in Nat /\ e < Len(m)
    <3>1. 0 \in Nat
      OBVIOUS
    <3> QED BY <2>3, <2>4, <3>1, FromGrows DEF Whole, End
  <2>6. End(vols'[t'.at]) = e
    BY <2>2 DEF End
  <2> HIDE DEF m, e
  <2>7. Phase(t'.pc, unit', m, e, t.job.s)
    BY <2>1, <2>3, <2>4, <2>5
  <2> QED BY <2>2, <2>6, <2>7 DEF m, e
<1> QED BY <1>1, <1>3, <1>4 DEF TarInv

\* The program reads or writes, or asks for what is left.
LEMMA CallStep ==
  ASSUME Typed(unit), NEW op \in {"transfer", "left", "close"}, NEW fc \in {"read", "write"}, NEW data, IsSeq(data), NEW n \in Int,
         Call(op, fc, data, n)
  PROVE  UnitOk' /\ unit' = Called(unit, op, fc, t.job.s, data, n) /\ unit'.call.op = op /\ ~unit'.call.done
<1>1. unit' = Called(unit, op, fc, t.job.s, data, n)
  BY DEF Call
<1>2. Apart(unit', unit) /\ unit'.call = [op |-> op, fc |-> fc, n |-> n, i |-> 0, nowait |-> t.job.s, data |-> data, crnd |-> unit.crnd, done |-> FALSE]
  BY <1>1, CalledApart
<1> QED BY <1>1, <1>2 DEF UnitOk, Apart

LEMMA AtIs ==
  ASSUME NEW pc, At(pc)
  PROVE  unit.call.done /\ ~Refused(unit.call) /\ t.pc = pc
BY DEF At, Ready, Failing, Back, Refused

\* What most steps leave of the running tar.
Carried ==
  /\ t'.at = t.at /\ t'.tblkmax = t.tblkmax /\ t'.tblkpos = t.tblkpos /\ t'.off = t.off /\ t'.noblks = t.noblks
  /\ t'.bytes = t.bytes /\ t'.st = t.st /\ t'.last = t.last

LEMMA SeekStep ==
  ASSUME TarInv, SeekEnd
  PROVE  TarInv'
<1>1. t.pc \in {"seek", "seen"} /\ unit.call.done /\ ~Refused(unit.call) /\ UNCHANGED <<tree, version, jobs, vols>>
  BY AtIs DEF SeekEnd
<1>2. DOMAIN t = TFields
  BY <1>1 DEF TarInv, Running
<1> DEFINE h == Got
           on == [t EXCEPT !.pc = "seek", !.tfile = @ \cup {[name |-> h.name, mtime |-> h.mtime]}]
           over(status) == [t EXCEPT !.pc = "over", !.status = status]
<1>3. \/ t.pc = "seek" /\ Read(1) /\ t' = [t EXCEPT !.pc = "seen"]
      \/ t.pc = "seen" /\ UNCHANGED unit /\ \E status : t' = over(status)
      \/ t.pc = "seen" /\ Header(h) /\ Read(Ahead(h)) /\ t' = on
      \/ t.pc = "seen" /\ h.kind = "zero" /\ unit' = Seek(unit, -1) /\ t' = [t EXCEPT !.pc = "next"]
  <2>1. CASE At("seek") /\ Read(1) /\ t' = [t EXCEPT !.pc = "seen"]
    BY <2>1, AtIs
  <2>2. CASE At("seen") /\ UNCHANGED unit /\ \E status : t' = Over(status)
    BY <2>2, AtIs DEF Over
  <2>3. CASE At("seen") /\ Header(h) /\ Forwfile(h, on)
    <3>1. t.pc = "seen"
      BY <2>3, AtIs
    <3> HIDE DEF h, on
    <3> QED BY <2>3, <3>1 DEF Forwfile, Over
  <2>4. CASE At("seen") /\ h.kind = "zero" /\ unit' = Seek(unit, -1) /\ t' = [t EXCEPT !.pc = "next"]
    BY <2>4, AtIs
  <2> QED BY <2>1, <2>2, <2>3, <2>4 DEF SeekEnd
<1>4. /\ DOMAIN t' = TFields /\ t'.job = t.job /\ Carried /\ t'.pc \in {"seek", "seen", "next", "over"}
  BY <1>2, <1>3 DEF TFields, Carried
<1>5. ASSUME Writes
      PROVE  t'.at = t.at /\ Numbers' /\ HasFile' /\ CloseOk'
  <2>1. Numbers
    BY <1>5 DEF TarInv
  <2> QED BY <1>4, <2>1 DEF Numbers, Carried, HasFile, InFile, CloseOk, WritePcs
<1>6. ASSUME Writes
      PROVE  UnitOk'
  <2>1. Typed(unit)
    BY <1>6 DEF TarInv, UnitOk
  <2>2. "transfer" \in {"transfer", "left", "close"} /\ "read" \in {"read", "write"} /\ IsSeq(<<>>) /\ 1 \in Int
    <3>1. <<>> \in Seq(Int)
      OBVIOUS
    <3> QED BY <3>1 DEF IsSeq
  <2>3. CASE Read(1)
    BY <2>1, <2>2, <2>3, CallStep DEF Read
  <2>4. CASE Header(h) /\ Read(Ahead(h))
    <3>1. Ahead(h) \in Int
      BY <2>4, AheadNat
    <3> HIDE DEF h
    <3> QED BY <2>1, <2>2, <2>4, <3>1, CallStep DEF Read
  <2>5. CASE unit' = Seek(unit, -1)
    BY <1>1, <2>1, <2>5 DEF Seek, UnitOk, Typed, UnitFields, Counts
  <2>6. CASE UNCHANGED unit
    BY <1>1, <2>1, <2>6 DEF UnitOk
  <2> QED BY <1>3, <2>3, <2>4, <2>5, <2>6
<1>7. ASSUME NEW m, NEW e \in Nat, IsSeq(m), e < Len(m), Phase(t.pc, unit, m, e, t.job.s)
      PROVE  Phase(t'.pc, unit', m, e, t.job.s)
  <2>1. CASE t.pc = "seek" /\ Read(1) /\ t' = [t EXCEPT !.pc = "seen"]
    <3>1. t'.pc = "seen" /\ unit' = Called(unit, "transfer", "read", t.job.s, <<>>, 1)
      BY <1>2, <2>1 DEF Read, Call, TFields
    <3> QED BY <1>1, <1>7, <2>1, <3>1, SeekLooks
  <2>2. CASE t.pc = "seen"
    <3>1. Looking(unit, m, e, t.job.s)
      BY <1>1, <1>7, <2>2, LookingIs
    <3>2. h = unit.call.data[1]
      <4>1. unit.call.i = 1
        BY <1>1, <1>7, <3>1, SeekSees
      <4> QED BY <4>1 DEF Got, Back
    <3> HIDE DEF h
    <3>3. CASE UNCHANGED unit /\ \E status : t' = over(status)
      <4>1. t'.pc = "over"
        BY <1>2, <3>3 DEF TFields, over
      <4>2. Phase("over", unit, m, e, t.job.s)
        BY <1>1, <1>7, <3>1, SeekGivesUp
      <4> QED BY <3>3, <4>1, <4>2
    <3>4. CASE Header(h) /\ Read(Ahead(h)) /\ t' = on
      <4>1. t'.pc = "seek"
        <5> USE DEF on
        <5> QED BY <1>2, <3>4 DEF TFields
      <4>2. unit' = Called(unit, "transfer", "read", t.job.s, <<>>, Ahead(h))
        BY <3>4 DEF Read, Call
      <4>3. Header(unit.call.data[1])
        BY <3>2, <3>4
      <4>4. Phase("seek", Called(unit, "transfer", "read", t.job.s, <<>>, Ahead(unit.call.data[1])), m, e, t.job.s)
        BY <1>1, <1>7, <3>1, <4>3, SeekJumps
      <4> QED BY <3>2, <4>1, <4>2, <4>4
    <3>5. CASE h.kind = "zero" /\ unit' = Seek(unit, -1) /\ t' = [t EXCEPT !.pc = "next"]
      <4>1. t'.pc = "next"
        BY <1>2, <3>5 DEF TFields
      <4> QED BY <1>1, <1>7, <3>1, <3>2, <3>5, <4>1, SeekTurns
    <3> QED BY <1>3, <2>2, <3>3, <3>4, <3>5
  <2> QED BY <1>3, <2>1, <2>2
<1> QED BY <1>1, <1>4, <1>5, <1>6, <1>7, TarStep

\* The program goes on without a call of io.
LEMMA StayStep ==
  ASSUME TarInv, UNCHANGED <<tree, version, jobs, vols, unit>>, DOMAIN t' = TFields, t'.job = t.job,
         unit.call.done, ~Refused(unit.call),
         t.pc \in {"next", "put", "data", "chunk", "end"}, t'.pc \in {"next", "put", "head", "volume", "end"},
         t.pc = "chunk" => unit.call.i > 0, t'.pc = "end" => t.pc \in {"data", "chunk"},
         Writes => t'.at = t.at /\ Numbers' /\ HasFile'
  PROVE  TarInv'
<1>1. ASSUME Writes
      PROVE  UnitOk' /\ CloseOk'
  <2>1. UnitOk
    BY <1>1 DEF TarInv
  <2> QED BY <2>1 DEF UnitOk, CloseOk
<1>2. ASSUME NEW m, NEW e \in Nat, IsSeq(m), e < Len(m), Phase(t.pc, unit, m, e, t.job.s)
      PROVE  Phase(t'.pc, unit', m, e, t.job.s)
  <2>1. Phase(t'.pc, unit, m, e, t.job.s)
    BY <1>2, PhaseStay
  <2> QED BY <2>1
<1>3. t.pc # "idle"
  OBVIOUS
<1> QED BY <1>1, <1>2, <1>3, TarStep

\* The program writes blocks.
LEMMA WriteStep ==
  ASSUME TarInv, UNCHANGED <<tree, version, jobs, vols>>, DOMAIN t' = TFields, t'.job = t.job,
         unit.call.done, ~Refused(unit.call), NEW data, IsSeq(data), Len(data) \in Nat, Write(data),
         t.pc \in {"next", "head", "volume", "chunk", "end", "filled"}, t'.pc \in WritePcs \ {"mount", "closed"},
         t.pc = "chunk" => unit.call.i > 0,
         t.pc \in {"next", "head", "volume"} => Len(data) # 0 /\ t'.pc \in {"next", "data", "fill"},
         t.pc = "filled" => t'.pc \in {"shut", "over"} /\ (unit.call.i <= 0 => Len(data) = 0),
         Writes => t'.at = t.at /\ Numbers' /\ HasFile'
  PROVE  TarInv'
<1>1. ASSUME Writes
      PROVE  UnitOk' /\ CloseOk'
  <2>1. Typed(unit)
    BY <1>1 DEF TarInv, UnitOk
  <2>2. "transfer" \in {"transfer", "left", "close"} /\ "write" \in {"read", "write"} /\ Len(data) \in Int
    OBVIOUS
  <2>3. UnitOk'
    BY <2>1, <2>2, CallStep DEF Write
  <2> QED BY <2>3 DEF CloseOk
<1>2. ASSUME NEW m, NEW e \in Nat, IsSeq(m), e < Len(m), Phase(t.pc, unit, m, e, t.job.s)
      PROVE  Phase(t'.pc, unit', m, e, t.job.s)
  <2>1. unit' = Called(unit, "transfer", "write", t.job.s, data, Len(data))
    BY DEF Write, Call
  <2> DEFINE n == Len(data)
  <2>2. n \in Nat
    OBVIOUS
  <2> HIDE DEF n
  <2>3. Phase(t'.pc, Called(unit, "transfer", "write", t.job.s, data, n), m, e, t.job.s)
    BY <1>2, <2>2, PhaseWrite DEF n
  <2> QED BY <2>1, <2>3 DEF n
<1>3. t.pc # "idle"
  OBVIOUS
<1> QED BY <1>1, <1>2, <1>3, TarStep

LEMMA NextFileStep ==
  ASSUME TarInv, NextFile
  PROVE  TarInv'
<1>1. t.pc = "next" /\ unit.call.done /\ ~Refused(unit.call) /\ UNCHANGED <<tree, version, jobs, vols>>
  BY AtIs DEF NextFile
<1>2. DOMAIN t = TFields
  BY <1>1 DEF TarInv, Running
<1> DEFINE top == Last(t.walk)
           entries == Dirs[top.dir]
           put == [t EXCEPT !.pc = "put"]
<1>3. \/ UNCHANGED unit /\ t' = [t EXCEPT !.walk = Front(@)]
      \/ UNCHANGED unit /\ t' = [put EXCEPT !.walk = Append(Front(@), [top EXCEPT !.i = @ + 1]), !.path = entries[top.i]]
      \/ UNCHANGED unit /\ t' = [put EXCEPT !.args = Tail(@), !.path = Head(t.args)]
      \/ t' = [t EXCEPT !.pc = "fill", !.last = TRUE] /\ Write(Empty(1))
  BY DEF NextFile
<1>4. CASE /\ UNCHANGED unit
           /\ \/ t' = [t EXCEPT !.walk = Front(@)]
              \/ t' = [put EXCEPT !.walk = Append(Front(@), [top EXCEPT !.i = @ + 1]), !.path = entries[top.i]]
              \/ t' = [put EXCEPT !.args = Tail(@), !.path = Head(t.args)]
  <2> HIDE DEF top, entries
  <2>1. DOMAIN t' = TFields /\ t'.job = t.job /\ Carried /\ t'.pc \in {"next", "put"}
    BY <1>1, <1>2, <1>4 DEF TFields, Carried
  <2>2. Writes => t'.at = t.at /\ Numbers' /\ HasFile'
    <3>1. Writes => Numbers
      BY DEF TarInv
    <3> QED BY <2>1, <3>1 DEF Numbers, Carried, HasFile, InFile, WritePcs
  <2> QED BY <1>1, <1>4, <2>1, <2>2, StayStep
<1>5. CASE t' = [t EXCEPT !.pc = "fill", !.last = TRUE] /\ Write(Empty(1))
  <2>1. DOMAIN t' = TFields /\ t'.job = t.job /\ t'.pc = "fill" /\ t'.last /\ t'.at = t.at /\ t'.tblkmax = t.tblkmax
        /\ t'.tblkpos = t.tblkpos /\ t'.off = t.off /\ t'.noblks = t.noblks /\ t'.bytes = t.bytes
    BY <1>2, <1>5 DEF TFields
  <2>2. Writes => t'.at = t.at /\ Numbers' /\ HasFile'
    <3>1. Writes => Numbers
      BY DEF TarInv
    <3> QED BY <2>1, <3>1 DEF Numbers, HasFile, InFile, WritePcs
  <2>3. IsSeq(Empty(1)) /\ Len(Empty(1)) \in Nat /\ Len(Empty(1)) # 0
    BY EmptyIs
  <2>4. t'.pc \in WritePcs \ {"mount", "closed"}
    BY <2>1 DEF WritePcs
  <2> DEFINE data == Empty(1)
  <2> HIDE DEF data
  <2> QED BY <1>1, <1>5, <2>1, <2>2, <2>3, <2>4, WriteStep DEF data
<1> QED BY <1>3, <1>4, <1>5

\* The program asks how much the buffer takes.
LEMMA LeftStep ==
  ASSUME TarInv, UNCHANGED <<tree, version, jobs, vols>>, DOMAIN t' = TFields, t'.job = t.job, Carried,
         unit.call.done, ~Refused(unit.call), Left("write"),
         (t.pc = "fill" /\ t'.pc = "filled") \/ (t.pc = "data" /\ t'.pc = "chunk")
  PROVE  TarInv'
<1>1. ASSUME Writes
      PROVE  t'.at = t.at /\ Numbers' /\ HasFile' /\ UnitOk' /\ CloseOk'
  <2>1. Typed(unit) /\ Numbers /\ HasFile
    BY <1>1 DEF TarInv, UnitOk
  <2>2. "left" \in {"transfer", "left", "close"} /\ "write" \in {"read", "write"} /\ IsSeq(<<>>) /\ 0 \in Int
    <3>1. <<>> \in Seq(Int)
      OBVIOUS
    <3> QED BY <3>1 DEF IsSeq
  <2>3. UnitOk'
    BY <2>1, <2>2, CallStep DEF Left
  <2>4. t'.at = t.at /\ Numbers' /\ HasFile'
    BY <2>1 DEF Numbers, HasFile, InFile, Carried, WritePcs
  <2> QED BY <2>3, <2>4 DEF CloseOk
<1>2. ASSUME NEW m, NEW e \in Nat, IsSeq(m), e < Len(m), Phase(t.pc, unit, m, e, t.job.s)
      PROVE  Phase(t'.pc, unit', m, e, t.job.s)
  <2>1. unit' = Called(unit, "left", "write", t.job.s, <<>>, 0)
    BY DEF Left, Call
  <2>2. Phase(t'.pc, Called(unit, "left", "write", t.job.s, <<>>, 0), m, e, t.job.s)
    BY <1>2, PhaseLeft
  <2> QED BY <2>1, <2>2
<1>3. t.pc # "idle"
  OBVIOUS
<1> QED BY <1>1, <1>2, <1>3, TarStep

\* The program closes the unit, at the end of a volume or of its own.
LEMMA CloseStep ==
  ASSUME TarInv, UNCHANGED <<tree, version, jobs, vols>>, DOMAIN t' = TFields, t'.job = t.job, Carried,
         unit.call.done, Call("close", "write", <<>>, 0),
         (t.pc = "shut" /\ t'.pc = "mount") \/ (t.pc = "over" /\ t'.pc = "closed")
  PROVE  TarInv'
<1>1. ASSUME Writes
      PROVE  t'.at = t.at /\ Numbers' /\ HasFile' /\ UnitOk' /\ CloseOk'
  <2>1. Typed(unit) /\ Numbers /\ HasFile
    BY <1>1 DEF TarInv, UnitOk
  <2>2. "close" \in {"transfer", "left", "close"} /\ "write" \in {"read", "write"} /\ IsSeq(<<>>) /\ 0 \in Int
    <3>1. <<>> \in Seq(Int)
      OBVIOUS
    <3> QED BY <3>1 DEF IsSeq
  <2>3. UnitOk' /\ unit'.call.op = "close" /\ ~unit'.call.done
    BY <2>1, <2>2, CallStep
  <2>4. t'.at = t.at /\ Numbers' /\ HasFile'
    BY <2>1 DEF Numbers, HasFile, InFile, Carried, WritePcs
  <2> QED BY <2>3, <2>4 DEF CloseOk
<1>2. ASSUME NEW m, NEW e \in Nat, IsSeq(m), e < Len(m), Phase(t.pc, unit, m, e, t.job.s)
      PROVE  Phase(t'.pc, unit', m, e, t.job.s)
  <2>1. unit' = Called(unit, "close", "write", t.job.s, <<>>, 0)
    BY DEF Call
  <2>2. Phase(t'.pc, Called(unit, "close", "write", t.job.s, <<>>, 0), m, e, t.job.s)
    BY <1>2, PhaseClose
  <2> QED BY <2>1, <2>2
<1>3. t.pc # "idle"
  OBVIOUS
<1> QED BY <1>1, <1>2, <1>3, TarStep

LEMMA CloseVolumeStep ==
  ASSUME TarInv, CloseVolume
  PROVE  TarInv'
<1>1. t.pc \in {"volume", "fill", "filled", "shut"} /\ unit.call.done /\ ~Refused(unit.call) /\ UNCHANGED <<tree, version, jobs, vols>>
  BY AtIs DEF CloseVolume
<1>2. DOMAIN t = TFields
  BY <1>1 DEF TarInv, Running
<1>3. Writes => Numbers /\ HasFile /\ Typed(unit)
  BY DEF TarInv, UnitOk
<1>4. CASE At("volume") /\ Write(Empty(1)) /\ t' = [t EXCEPT !.pc = "fill"]
  <2>1. t.pc = "volume"
    BY <1>4, AtIs
  <2>2. DOMAIN t' = TFields /\ t'.job = t.job /\ t'.pc = "fill" /\ Carried
    BY <1>2, <1>4 DEF TFields, Carried
  <2>3. Writes => t'.at = t.at /\ Numbers' /\ HasFile'
    BY <1>1, <1>3, <2>1, <2>2 DEF Numbers, Carried, HasFile, InFile, WritePcs
  <2>4. IsSeq(Empty(1)) /\ Len(Empty(1)) \in Nat /\ Len(Empty(1)) # 0
    BY EmptyIs
  <2>5. t'.pc \in WritePcs \ {"mount", "closed"}
    BY <2>2 DEF WritePcs
  <2> DEFINE data == Empty(1)
  <2> HIDE DEF data
  <2> QED BY <1>1, <1>4, <2>1, <2>2, <2>3, <2>4, <2>5, WriteStep DEF data
<1>5. CASE At("fill") /\ Left("write") /\ t' = [t EXCEPT !.pc = "filled"]
  <2>1. t.pc = "fill"
    BY <1>5, AtIs
  <2>2. DOMAIN t' = TFields /\ t'.job = t.job /\ t'.pc = "filled" /\ Carried
    BY <1>2, <1>5 DEF TFields, Carried
  <2> QED BY <1>1, <1>5, <2>1, <2>2, LeftStep
<1>6. CASE At("filled") /\ Write(Empty(Back.i)) /\ t' = IF t.last THEN Over(0) ELSE [t EXCEPT !.pc = "shut"]
  <2>1. t.pc = "filled"
    BY <1>6, AtIs
  <2>2. CASE ~Writes
    <3>1. DOMAIN t' = TFields /\ t'.job = t.job
      BY <1>2, <1>6 DEF TFields, Over
    <3> QED BY <1>1, <2>1, <2>2, <3>1, TarStep
  <2>3. CASE Writes
    <3>1. DOMAIN t' = TFields /\ t'.job = t.job /\ t'.pc \in {"shut", "over"} /\ Carried /\ (t'.pc = "shut" => ~t.last)
      <4>1. CASE t.last
        BY <1>2, <1>6, <4>1 DEF TFields, Carried, Over
      <4>2. CASE ~t.last
        BY <1>2, <1>6, <4>2 DEF TFields, Carried
      <4> QED BY <4>1, <4>2
    <3>2. t'.at = t.at /\ Numbers' /\ HasFile'
      BY <1>1, <1>3, <2>1, <2>3, <3>1 DEF Numbers, Carried, HasFile, InFile, WritePcs
    <3> DEFINE data == Empty(unit.call.i)
    <3>3. IsSeq(data) /\ Len(data) \in Nat /\ (unit.call.i <= 0 => Len(data) = 0)
      <4>1. unit.call.i \in Int
        BY <1>3, <2>3 DEF Typed, Calling
      <4> QED BY <4>1, EmptyIs
    <3>4. t'.pc \in WritePcs \ {"mount", "closed"}
      BY <3>1 DEF WritePcs
    <3>5. Write(data)
      BY <1>6 DEF Back
    <3> HIDE DEF data
    <3> QED BY <1>1, <2>1, <3>1, <3>2, <3>3, <3>4, <3>5, WriteStep
  <2> QED BY <2>2, <2>3
<1>7. CASE At("shut") /\ Call("close", "write", <<>>, 0) /\ t' = [t EXCEPT !.pc = "mount"]
  <2>1. t.pc = "shut"
    BY <1>7, AtIs
  <2>2. DOMAIN t' = TFields /\ t'.job = t.job /\ t'.pc = "mount" /\ Carried
    BY <1>2, <1>7 DEF TFields, Carried
  <2> QED BY <1>1, <1>7, <2>1, <2>2, CloseStep
<1> QED BY <1>4, <1>5, <1>6, <1>7 DEF CloseVolume

LEMMA PutHeadStep ==
  ASSUME TarInv, PutHead
  PROVE  TarInv'
<1>1. t.pc = "head" /\ unit.call.done /\ ~Refused(unit.call) /\ UNCHANGED <<tree, version, jobs, vols>>
  BY AtIs DEF PutHead
<1>2. DOMAIN t = TFields
  BY <1>1 DEF TarInv, Running
<1>3. t' = [t EXCEPT !.pc = IF t.dir.link # <<>> THEN "next" ELSE "data", !.tblkpos = @ + 1] /\ Write(<<t.dir>>)
  BY DEF PutHead
<1>4. /\ DOMAIN t' = TFields /\ t'.job = t.job /\ t'.pc \in {"next", "data"} /\ t'.at = t.at /\ t'.tblkmax = t.tblkmax
      /\ t'.tblkpos = t.tblkpos + 1 /\ t'.off = t.off /\ t'.noblks = t.noblks /\ t'.bytes = t.bytes /\ t'.st = t.st
  BY <1>2, <1>3 DEF TFields
<1>5. Writes => t'.at = t.at /\ Numbers' /\ HasFile'
  <2>1. Writes => Numbers /\ HasFile
    BY DEF TarInv
  <2> QED BY <1>1, <1>4, <2>1 DEF Numbers, HasFile, InFile, WritePcs
<1> DEFINE data == <<t.dir>>
<1>6. IsSeq(data) /\ Len(data) \in Nat /\ Len(data) # 0
  BY OneSeq
<1>7. t'.pc \in WritePcs \ {"mount", "closed"}
  BY <1>4 DEF WritePcs
<1> HIDE DEF data
<1> QED BY <1>1, <1>3, <1>4, <1>5, <1>6, <1>7, WriteStep DEF data

LEMMA PutDataStep ==
  ASSUME TarInv, PutData
  PROVE  TarInv'
<1>1. t.pc \in {"data", "chunk"} /\ unit.call.done /\ ~Refused(unit.call) /\ UNCHANGED <<tree, version, jobs, vols>>
  BY AtIs DEF PutData
<1>2. DOMAIN t = TFields
  BY <1>1 DEF TarInv, Running
<1>3. Writes => Numbers /\ HasFile /\ Typed(unit)
  BY DEF TarInv, UnitOk
<1> DEFINE x == Slice(Content(t.st.ino), t.off, Least(t.noblks, Back.i) * BlkSiz)
           data == Cut(x)
           n == Len(data)
           on == [t EXCEPT !.pc = "data", !.off = @ + Len(x), !.noblks = @ - n, !.tblkpos = @ + n]
<1>4. CASE At("data") /\ Left("write") /\ t' = [t EXCEPT !.pc = "chunk"]
  <2>1. t.pc = "data"
    BY <1>4, AtIs
  <2>2. DOMAIN t' = TFields /\ t'.job = t.job /\ t'.pc = "chunk" /\ Carried
    BY <1>2, <1>4 DEF TFields, Carried
  <2> QED BY <1>1, <1>4, <2>1, <2>2, LeftStep
<1>5. CASE UNCHANGED unit /\ t' = [t EXCEPT !.pc = "end"] /\ (t.pc = "chunk" => ~(unit.call.i <= 0))
  <2>1. DOMAIN t' = TFields /\ t'.job = t.job /\ t'.pc = "end" /\ Carried
    BY <1>2, <1>5 DEF TFields, Carried
  <2>2. CASE ~Writes
    BY <1>1, <2>1, <2>2, TarStep
  <2>3. CASE Writes
    <3>1. t'.at = t.at /\ Numbers' /\ HasFile'
      BY <1>1, <1>3, <2>1, <2>3 DEF Numbers, HasFile, InFile, WritePcs, Carried
    <3>2. t.pc = "chunk" => unit.call.i > 0
      <4>1. unit.call.i \in Int
        BY <1>3, <2>3 DEF Typed, Calling
      <4> QED BY <1>5, <4>1
    <3> QED BY <1>1, <1>5, <2>1, <3>1, <3>2, StayStep
  <2> QED BY <2>2, <2>3
<1>6. CASE t.pc = "chunk" /\ unit.call.i <= 0 /\ t' = Over(1) /\ UNCHANGED unit
  <2>1. DOMAIN t' = TFields /\ t'.job = t.job /\ t'.pc = "over" /\ Carried
    BY <1>2, <1>6 DEF TFields, Carried, Over
  <2>2. ASSUME Writes
        PROVE  t'.at = t.at /\ Numbers' /\ HasFile' /\ UnitOk' /\ CloseOk'
    <3>1. UnitOk
      BY <2>2 DEF TarInv
    <3> QED BY <1>1, <1>3, <1>6, <2>1, <2>2, <3>1 DEF Numbers, HasFile, InFile, WritePcs, Carried, CloseOk, UnitOk
  <2>3. ASSUME NEW m, NEW e \in Nat, IsSeq(m), e < Len(m), Phase(t.pc, unit, m, e, t.job.s)
        PROVE  Phase(t'.pc, unit', m, e, t.job.s)
    <3>1. t.pc \in WritePcs \cup {"seek", "seen"}
      BY <1>6 DEF WritePcs
    <3>2. Phase("over", unit, m, e, t.job.s)
      BY <1>1, <1>6, <2>3, <3>1, PhaseOver
    <3> QED BY <1>6, <2>1, <3>2
  <2> QED BY <1>1, <2>1, <2>2, <2>3, TarStep
<1>7. CASE t.pc = "chunk" /\ ~(unit.call.i <= 0) /\ Write(data) /\ t' = on
  <2>1. CASE ~Writes
    <3>1. DOMAIN t' = TFields /\ t'.job = t.job
      BY <1>2, <1>7 DEF TFields
    <3> QED BY <1>1, <2>1, <3>1, TarStep
  <2>2. CASE Writes
    <3>1. unit.call.i \in Int /\ unit.call.i > 0 /\ t.noblks \in Int /\ t.off \in Int /\ t.tblkpos \in Int
      BY <1>3, <1>7, <2>2 DEF Numbers, Typed, Calling
    <3>2. IsSeq(x) /\ Len(x) \in Nat
      <4>1. t.st.ino \in DOMAIN version
        BY <1>3, <1>7, <2>2 DEF HasFile, InFile
      <4>2. Content(t.st.ino) \in Seq(Int)
        BY <4>1, ContentSeq DEF TarInv
      <4> DEFINE k == Least(t.noblks, Back.i) * BlkSiz
      <4>3. k \in Int
        BY <3>1, TarAssumption DEF Back, Least
      <4> HIDE DEF k
      <4> QED BY <3>1, <4>2, <4>3, SliceIs DEF k
    <3> HIDE DEF x
    <3>3. IsSeq(data) /\ n \in Nat
      BY <3>2, CutSeq
    <3> HIDE DEF data
    <3>4. /\ DOMAIN t' = TFields /\ t'.job = t.job /\ t'.pc = "data" /\ t'.at = t.at /\ t'.tblkmax = t.tblkmax
          /\ t'.tblkpos = t.tblkpos + n /\ t'.off = t.off + Len(x) /\ t'.noblks = t.noblks - n /\ t'.bytes = t.bytes /\ t'.st = t.st
      BY <1>2, <1>7 DEF TFields
    <3>5. t'.at = t.at /\ Numbers' /\ HasFile'
      BY <1>1, <1>3, <1>7, <2>2, <3>1, <3>2, <3>3, <3>4 DEF Numbers, HasFile, InFile, WritePcs
    <3>6. t'.pc \in WritePcs \ {"mount", "closed"}
      BY <3>4 DEF WritePcs
    <3> QED BY <1>1, <1>7, <3>1, <3>3, <3>4, <3>5, <3>6, WriteStep
  <2> QED BY <2>1, <2>2
<1>8. \/ At("data") /\ Left("write") /\ t' = [t EXCEPT !.pc = "chunk"]
      \/ UNCHANGED unit /\ t' = [t EXCEPT !.pc = "end"] /\ (t.pc = "chunk" => ~(unit.call.i <= 0))
      \/ t.pc = "chunk" /\ unit.call.i <= 0 /\ t' = Over(1) /\ UNCHANGED unit
      \/ t.pc = "chunk" /\ ~(unit.call.i <= 0) /\ Write(data) /\ t' = on
  <2>1. CASE At("data")
    <3>1. t.pc = "data" /\ ~At("chunk")
      BY <2>1, AtIs DEF At
    <3> QED BY <2>1, <3>1 DEF PutData
  <2>2. CASE At("chunk")
    <3>1. t.pc = "chunk" /\ ~At("data")
      BY <2>2, AtIs DEF At
    <3>2. Back.i = unit.call.i
      BY DEF Back
    <3> QED BY <2>2, <3>1, <3>2 DEF PutData
  <2> QED BY <2>1, <2>2 DEF PutData
<1> QED BY <1>4, <1>5, <1>6, <1>7, <1>8

LEMMA WriteFailsStep ==
  ASSUME TarInv, WriteFails
  PROVE  TarInv'
<1>1. /\ unit.call.done /\ Refused(unit.call) /\ t.pc \notin {"idle", "over", "closed"} /\ t' = Over(2)
      /\ UNCHANGED <<tree, version, jobs, unit, vols>>
  BY DEF WriteFails, Failing, Ready, Back, Refused
<1>2. DOMAIN t = TFields
  BY <1>1 DEF TarInv, Running
<1>3. DOMAIN t' = TFields /\ t'.job = t.job /\ t'.pc = "over" /\ Carried
  BY <1>1, <1>2 DEF TFields, Carried, Over
<1>4. ASSUME Writes
      PROVE  t'.at = t.at /\ Numbers' /\ HasFile' /\ UnitOk' /\ CloseOk'
  <2>1. UnitOk /\ Numbers
    BY <1>4 DEF TarInv
  <2> QED BY <1>1, <1>3, <2>1 DEF Numbers, HasFile, InFile, WritePcs, Carried, CloseOk, UnitOk
<1>5. ASSUME Writes, NEW m, NEW e \in Nat, IsSeq(m), e < Len(m), Phase(t.pc, unit, m, e, t.job.s)
      PROVE  Phase(t'.pc, unit', m, e, t.job.s)
  <2>1. t.pc \in WritePcs \cup {"seek", "seen"}
    BY <1>5 DEF TarInv, Numbers
  <2>2. Phase("over", unit, m, e, t.job.s)
    BY <1>1, <1>5, <2>1, PhaseOver
  <2> QED BY <1>1, <1>3, <2>2
<1> QED BY <1>1, <1>3, <1>4, <1>5, TarStep

LEMMA BlocksInt ==
  ASSUME NEW x \in Int
  PROVE  Blocks(x) \in Int
<1>1. BlkSiz \in Nat \ {0}
  BY TarAssumption
<1> DEFINE y == x + BlkSiz - 1
<1>2. y \in Int
  BY <1>1
<1> HIDE DEF y
<1>3. y \div BlkSiz \in Int
  BY <1>1, <1>2
<1> QED BY <1>3 DEF Blocks, y

LEMMA PutEndStep ==
  ASSUME TarInv, PutEnd
  PROVE  TarInv'
<1>1. t.pc = "end" /\ unit.call.done /\ ~Refused(unit.call) /\ UNCHANGED <<tree, version, jobs, vols>>
  BY AtIs DEF PutEnd
<1>2. DOMAIN t = TFields
  BY <1>1 DEF TarInv, Running
<1>3. Writes => Numbers /\ HasFile
  BY DEF TarInv
<1> DEFINE i == t.ext + 1
           s == IF i = t.dir.extotal THEN t.bytes ELSE (t.tblkmax - 1) * BlkSiz
<1>4. \/ Write(Shortfall) /\ t' = [t EXCEPT !.pc = "next", !.tblkpos = @ + t.noblks]
      \/ UNCHANGED unit /\ t' = [t EXCEPT !.pc = "next"]
      \/ UNCHANGED unit /\ t' = [t EXCEPT !.pc = "volume", !.ext = i, !.bytes = @ - s, !.noblks = Blocks(s), !.dir.size = s, !.dir.extno = i]
  BY DEF PutEnd
<1>5. Writes => s \in Int
  <2>1. BlkSiz \in Int
    BY TarAssumption
  <2> QED BY <1>3, <2>1 DEF Numbers
<1> HIDE DEF i, s
<1>6. CASE ~Writes
  <2>1. DOMAIN t' = TFields /\ t'.job = t.job
    BY <1>2, <1>4 DEF TFields
  <2> QED BY <1>1, <1>6, <2>1, TarStep
<1>7. CASE Writes /\ Write(Shortfall) /\ t' = [t EXCEPT !.pc = "next", !.tblkpos = @ + t.noblks]
  <2>1. /\ DOMAIN t' = TFields /\ t'.job = t.job /\ t'.pc = "next" /\ t'.at = t.at /\ t'.tblkmax = t.tblkmax
        /\ t'.tblkpos = t.tblkpos + t.noblks /\ t'.off = t.off /\ t'.noblks = t.noblks /\ t'.bytes = t.bytes
    BY <1>2, <1>7 DEF TFields
  <2>2. t'.at = t.at /\ Numbers' /\ HasFile'
    BY <1>3, <1>7, <2>1 DEF Numbers, HasFile, InFile, WritePcs
  <2>3. IsSeq(Shortfall) /\ Len(Shortfall) \in Nat
    BY <1>3, <1>7, EmptyIs DEF Shortfall, Numbers
  <2>4. t'.pc \in WritePcs \ {"mount", "closed"}
    BY <2>1 DEF WritePcs
  <2> QED BY <1>1, <1>7, <2>1, <2>2, <2>3, <2>4, WriteStep
<1>8. CASE Writes /\ UNCHANGED unit /\ t' = [t EXCEPT !.pc = "next"]
  <2>1. DOMAIN t' = TFields /\ t'.job = t.job /\ t'.pc = "next" /\ Carried
    BY <1>2, <1>8 DEF TFields, Carried
  <2>2. t'.at = t.at /\ Numbers' /\ HasFile'
    BY <1>3, <1>8, <2>1 DEF Numbers, HasFile, InFile, WritePcs, Carried
  <2> QED BY <1>1, <1>8, <2>1, <2>2, StayStep
<1>9. CASE /\ Writes /\ UNCHANGED unit
           /\ t' = [t EXCEPT !.pc = "volume", !.ext = i, !.bytes = @ - s, !.noblks = Blocks(s), !.dir.size = s, !.dir.extno = i]
  <2>1. /\ DOMAIN t' = TFields /\ t'.job = t.job /\ t'.pc = "volume" /\ t'.at = t.at /\ t'.tblkmax = t.tblkmax
        /\ t'.tblkpos = t.tblkpos /\ t'.off = t.off /\ t'.noblks = Blocks(s) /\ t'.bytes = t.bytes - s /\ t'.st = t.st
    BY <1>2, <1>9 DEF TFields
  <2>2. Blocks(s) \in Int
    BY <1>5, <1>9, BlocksInt
  <2>3. t'.at = t.at /\ Numbers' /\ HasFile'
    BY <1>1, <1>3, <1>5, <1>9, <2>1, <2>2 DEF Numbers, HasFile, InFile, WritePcs
  <2> QED BY <1>1, <1>9, <2>1, <2>3, StayStep
<1> QED BY <1>4, <1>6, <1>7, <1>8, <1>9

\* The volume that was written goes away, and with it what it held before.
LEMMA NewVolumeStep ==
  ASSUME TarInv, NewVolume
  PROVE  TarInv'
<1>1. /\ t.pc = "mount" /\ unit.call.done /\ Writes /\ UNCHANGED <<tree, version, jobs>>
      /\ vols' = Shelved
  BY AtIs DEF NewVolume
<1>2. /\ DOMAIN t = TFields /\ t.job \in TarCall /\ jobs \in Seq(TarCall) /\ Numbers /\ HasFile /\ Typed(unit) /\ Media
      /\ ~unit.writ /\ unit.pend.fc = "none"
  BY <1>1 DEF TarInv, Running, UnitOk, CloseOk
<1>3. \/ UNCHANGED unit /\ \E status : t' = Over(status)
      \/ unit' = Ioopcre(unit, <<>>) /\ t' = [t EXCEPT !.pc = "head", !.at = @ + 1, !.tblkpos = 0]
  BY DEF NewVolume
<1>4. World'
  BY <1>1 DEF TarInv, World
<1>5. DOMAIN vols' = {t.at} \cup DOMAIN vols /\ vols'[t.at] = unit.medium /\ \A v \in DOMAIN vols \ {t.at} : vols'[v] = vols[v]
  BY <1>1 DEF Shelved
<1>6. Media'
  <2>1. IsSeq(unit.medium) /\ t.at \in Nat
    BY <1>2 DEF Typed, Numbers
  <2> QED BY <1>2, <1>5, <2>1 DEF Media
<1>7. CASE UNCHANGED unit /\ \E status : t' = Over(status)
  <2>1. DOMAIN t' = TFields /\ t'.job = t.job /\ t'.pc = "over" /\ Carried
    BY <1>2, <1>7 DEF TFields, Carried, Over
  <2>2. Running' /\ Numbers' /\ HasFile' /\ UnitOk' /\ CloseOk'
    BY <1>1, <1>2, <1>7, <2>1 DEF Running, Numbers, HasFile, InFile, WritePcs, Carried, CloseOk, UnitOk
  <2>3. KeptOk'
    <3> SUFFICES ASSUME Appends', Whole(vols[t.at])' PROVE Phase(t.pc, unit, vols[t.at], End(vols[t.at]), t.job.s)'
      BY DEF KeptOk
    <3> DEFINE m == unit.medium
               e == End(m)
    <3>1. vols'[t'.at] = m
      BY <1>5, <2>1 DEF Carried
    <3>2. IsSeq(m)
      BY <1>2 DEF Typed
    <3>3. Whole(m) /\ Len(m) \in Nat
      BY <3>1, <3>2, JoinSeq DEF Whole, End
    <3>4. e \in Nat /\ e < Len(m)
      <4>1. 0 \in Nat
        OBVIOUS
      <4> QED BY <3>2, <3>3, <4>1, FromGrows DEF Whole, End
    <3>5. Stays(unit.medium, m, e)
      BY <3>3, <3>4 DEF Stays
    <3>6. End(vols'[t'.at]) = e
      BY <3>1 DEF End
    <3> HIDE DEF m, e
    <3>7. Dead(unit, m, e)
      BY <1>2, <3>5 DEF Dead
    <3>8. Phase("over", unit, m, e, t.job.s)
      BY <1>1, <3>7 DEF Phase, Stopped
    <3> QED BY <1>7, <2>1, <3>1, <3>6, <3>8
  <2> QED BY <1>4, <1>6, <2>2, <2>3 DEF TarInv
<1>8. CASE unit' = Ioopcre(unit, <<>>) /\ t' = [t EXCEPT !.pc = "head", !.at = @ + 1, !.tblkpos = 0]
  <2>1. /\ DOMAIN t' = TFields /\ t'.job = t.job /\ t'.pc = "head" /\ t'.at = t.at + 1 /\ t'.tblkmax = t.tblkmax
        /\ t'.tblkpos = 0 /\ t'.off = t.off /\ t'.noblks = t.noblks /\ t'.bytes = t.bytes /\ t'.st = t.st
    BY <1>2, <1>8 DEF TFields
  <2>2. UnitOk'
    <3>1. IsSeq(<<>>)
      <4>1. <<>> \in Seq(Int)
        OBVIOUS
      <4> QED BY <4>1 DEF IsSeq
    <3>2. Typed(unit') /\ unit'.call = NoCall
      BY <1>2, <1>8, <3>1, OpcreTyped
    <3> QED BY <3>2 DEF UnitOk, NoCall
  <2>3. t.job.from \in Nat /\ t.at \in Nat /\ t.at >= t.job.from
    BY <1>2 DEF TarCall, Numbers
  <2>4. Running' /\ Numbers' /\ HasFile' /\ CloseOk'
    BY <1>1, <1>2, <2>1, <2>3 DEF Running, Numbers, HasFile, InFile, WritePcs, CloseOk
  <2>5. ~Appends'
    <3>1. t'.at # t'.job.from
      BY <2>1, <2>3
    <3> QED BY <3>1 DEF Appends
  <2> QED BY <1>4, <1>6, <2>2, <2>4, <2>5 DEF TarInv, KeptOk
<1> QED BY <1>3, <1>7, <1>8

LEMMA PutStep ==
  ASSUME TarInv, Put
  PROVE  TarInv'
<1>1. t.pc = "put" /\ unit.call.done /\ ~Refused(unit.call) /\ UNCHANGED <<tree, version, jobs, vols, unit>>
  BY AtIs DEF Put
<1>2. DOMAIN t = TFields
  BY <1>1 DEF TarInv, Running
<1> DEFINE path == t.path
           ino == tree[path]
           linked == Links(ino) > 1
           back == [t EXCEPT !.pc = "next"]
           st == [ino |-> ino, size |-> Len(Content(ino)), mtime |-> version[ino].mtime, of |-> version[ino].of]
           n == Blocks(st.size)
           h == Head1(path, st)
           full(k) == t.job.tblkmax > 0 /\ t.tblkpos + k + 1 > t.tblkmax
           go == [t EXCEPT !.st = st, !.dir = h, !.off = 0, !.noblks = n, !.ext = 0,
                           !.ihead = IF linked THEN <<[ino |-> ino, path |-> path]>> \o @ ELSE @]
           s == t.tblkmax - t.tblkpos - 1
           split == [go EXCEPT !.pc = "head", !.ext = 1, !.noblks = s, !.bytes = st.size - s * BlkSiz,
                               !.dir = [h EXCEPT !.size = s * BlkSiz, !.extno = 1, !.extotal = Extents(n), !.efsize = st.size]]
           link == [t EXCEPT !.st = st, !.dir = [h EXCEPT !.link = t.ihead[Min(Known(ino))].path], !.pc = IF full(1) THEN "volume" ELSE "head"]
           SamePlace == DOMAIN t' = TFields /\ t'.job = t.job /\ t'.at = t.at /\ t'.tblkmax = t.tblkmax /\ t'.tblkpos = t.tblkpos
<1>3. \/ t' = [back EXCEPT !.walk = Append(@, [dir |-> path, i |-> 1])]
      \/ t' = back
      \/ path \in DOMAIN tree /\ t' = link
      \/ path \in DOMAIN tree /\ (t' = [go EXCEPT !.pc = "head"] \/ t' = [go EXCEPT !.pc = "volume"])
      \/ t' = [back EXCEPT !.ihead = go.ihead]
      \/ path \in DOMAIN tree /\ t' = split
  BY DEF Put
<1> HIDE DEF path, ino, linked, st, n, h, s
<1>4. /\ SamePlace
      /\ \/ t'.pc = "next" /\ t'.off = t.off /\ t'.noblks = t.noblks /\ t'.bytes = t.bytes
         \/ /\ t'.pc \in {"head", "volume"} /\ path \in DOMAIN tree /\ t'.st = st
            /\ \/ t'.off = t.off /\ t'.noblks = t.noblks /\ t'.bytes = t.bytes
               \/ t'.off = 0 /\ t'.noblks = n /\ t'.bytes = t.bytes
               \/ t'.off = 0 /\ t'.noblks = s /\ t'.bytes = st.size - s * BlkSiz
  <2>1. CASE t' = [back EXCEPT !.walk = Append(@, [dir |-> path, i |-> 1])]
    BY <1>2, <2>1 DEF TFields
  <2>2. CASE t' = back
    BY <1>2, <2>2 DEF TFields
  <2>3. CASE path \in DOMAIN tree /\ t' = link
    <3> HIDE DEF full
    <3> QED BY <1>2, <2>3 DEF TFields
  <2>4. CASE path \in DOMAIN tree /\ (t' = [go EXCEPT !.pc = "head"] \/ t' = [go EXCEPT !.pc = "volume"])
    BY <1>2, <2>4 DEF TFields
  <2>5. CASE t' = [back EXCEPT !.ihead = go.ihead]
    BY <1>2, <2>5 DEF TFields
  <2>6. CASE path \in DOMAIN tree /\ t' = split
    BY <1>2, <2>6 DEF TFields
  <2> QED BY <1>3, <2>1, <2>2, <2>3, <2>4, <2>5, <2>6
<1>5. Writes => t'.at = t.at /\ Numbers' /\ HasFile'
  <2> SUFFICES ASSUME Writes PROVE Numbers' /\ HasFile'
    BY <1>4
  <2>1. Numbers /\ World
    BY DEF TarInv
  <2>2. CASE t'.pc = "next" /\ t'.off = t.off /\ t'.noblks = t.noblks /\ t'.bytes = t.bytes
    BY <1>4, <2>1, <2>2 DEF Numbers, HasFile, InFile, WritePcs
  <2>3. CASE t'.pc \in {"head", "volume"} /\ path \in DOMAIN tree /\ t'.st = st
    <3>1. ino \in DOMAIN version
      BY <2>1, <2>3 DEF World, ino, path
    <3>2. Content(ino) \in Seq(Int)
      BY <2>1, <3>1, ContentSeq
    <3>3. st.ino = ino /\ st.size \in Nat
      BY <3>2 DEF st
    <3>4. n \in Int /\ s \in Int /\ st.size - s * BlkSiz \in Int
      <4>1. n \in Int
        BY <3>3, BlocksNat DEF n
      <4>2. s \in Int
        BY <2>1 DEF s, Numbers
      <4>3. s * BlkSiz \in Int
        BY <4>2, TarAssumption
      <4> QED BY <3>3, <4>1, <4>2, <4>3
    <3>5. t'.off \in Int /\ t'.noblks \in Int /\ t'.bytes \in Int
      BY <1>4, <2>1, <2>3, <3>4 DEF Numbers
    <3>6. Numbers'
      BY <1>4, <2>1, <2>3, <3>5 DEF Numbers, WritePcs
    <3>7. t'.st.ino \in DOMAIN version'
      BY <1>1, <2>3, <3>1, <3>3
    <3> QED BY <3>6, <3>7 DEF HasFile
  <2> QED BY <1>4, <2>2, <2>3
<1>6. t'.pc \in {"next", "head", "volume"}
  BY <1>4
<1> QED BY <1>1, <1>4, <1>5, <1>6, StayStep

\* The calls that read an archive do not come to the states of those that write one.
LEMMA ReadNextStep ==
  ASSUME TarInv, ReadNext
  PROVE  TarInv' /\ ~Writes /\ ~Writes'
<1>1. t.pc \in {"read", "look"} /\ UNCHANGED <<tree, version, jobs, vols>>
  BY AtIs DEF ReadNext
<1>2. ~Writes
  BY <1>1 DEF TarInv, Numbers, WritePcs
<1>3. DOMAIN t = TFields
  BY <1>1 DEF TarInv, Running
<1>4. DOMAIN t' = TFields /\ t'.job = t.job
  <2>1. CASE At("read") /\ t' = [t EXCEPT !.pc = "look"]
    BY <1>3, <2>1 DEF TFields
  <2>2. CASE At("look")
    <3> DEFINE o == Creat(out, Got.name)
               done(status) == [t EXCEPT !.pc = "over", !.status = status]
    <3>1. \/ \E status : t' = done(status)
          \/ t' = [t EXCEPT !.pc = "read"]
          \/ t' = [t EXCEPT !.pc = IF Got.extno > 1 THEN "ask" ELSE "extract", !.dir = Got, !.ext = Got.extno, !.bytes = Got.size,
                            !.lu = o.names[Got.name]]
      <4>1. ~At("read")
        BY <2>2 DEF At
      <4>2. CASE Forwfile(Got, [t EXCEPT !.pc = "read"])
        BY <4>2 DEF Forwfile, Over
      <4> QED BY <2>2, <4>1, <4>2 DEF ReadNext, Over
    <3> HIDE DEF o
    <3> QED BY <1>3, <3>1 DEF TFields
  <2> QED BY <2>1, <2>2 DEF ReadNext
<1>6. ~Writes'
  BY <1>1, <1>2, <1>4 DEF Writes
<1> QED BY <1>1, <1>2, <1>4, <1>6, TarStep

LEMMA ExtractStep ==
  ASSUME TarInv, Extract
  PROVE  TarInv' /\ ~Writes /\ ~Writes'
<1>1. t.pc \in {"extract", "take"} /\ UNCHANGED <<tree, version, jobs, vols>>
  BY AtIs DEF Extract
<1>2. ~Writes
  BY <1>1 DEF TarInv, Numbers, WritePcs
<1>3. DOMAIN t = TFields
  BY <1>1 DEF TarInv, Running
<1>4. \/ t' = [t EXCEPT !.pc = "take"]
      \/ t' = [t EXCEPT !.pc = "mount", !.ext = @ + 1]
      \/ t' = [t EXCEPT !.pc = "read", !.ext = 0]
      \/ t' = Over(-1)
      \/ \E i : t' = [t EXCEPT !.pc = "extract", !.bytes = @ - i]
  BY DEF Extract
<1>5. DOMAIN t' = TFields /\ t'.job = t.job
  BY <1>3, <1>4 DEF TFields, Over
<1>6. ~Writes'
  BY <1>1, <1>2, <1>5 DEF Writes
<1> QED BY <1>1, <1>2, <1>5, <1>6, TarStep

LEMMA AskFirstStep ==
  ASSUME TarInv, AskFirst
  PROVE  TarInv' /\ ~Writes /\ ~Writes'
<1>1. t.pc = "ask" /\ UNCHANGED <<tree, version, jobs, vols>>
  BY AtIs DEF AskFirst
<1>2. ~Writes
  BY <1>1 DEF TarInv, Numbers, WritePcs
<1>3. DOMAIN t = TFields
  BY <1>1 DEF TarInv, Running
<1>4. t' = [t EXCEPT !.pc = "read"] \/ t' = [t EXCEPT !.pc = "extract"] \/ t' = Over(3)
  BY DEF AskFirst, Forwfile
<1>5. DOMAIN t' = TFields /\ t'.job = t.job
  BY <1>3, <1>4 DEF TFields, Over
<1>6. ~Writes'
  BY <1>1, <1>2, <1>5 DEF Writes
<1> QED BY <1>1, <1>2, <1>5, <1>6, TarStep

LEMMA MountStep ==
  ASSUME TarInv, Mount
  PROVE  TarInv' /\ ~Writes /\ ~Writes'
<1>1. t.pc \in {"mount", "mounted"} /\ ~Writes /\ UNCHANGED <<tree, version, jobs, vols>>
  BY AtIs DEF Mount
<1>2. DOMAIN t = TFields
  BY <1>1 DEF TarInv, Running
<1> DEFINE on == [t EXCEPT !.dir = Got, !.ext = Got.extno, !.bytes = Got.size]
<1>3. \/ \E v : t' = [t EXCEPT !.pc = "mounted", !.at = v]
      \/ t' = [t EXCEPT !.pc = "mount"]
      \/ t' = [on EXCEPT !.pc = "extract"]
      \/ t' = [on EXCEPT !.pc = "ask"]
      \/ \E status : t' = Over(status)
  BY DEF Mount
<1>4. DOMAIN t' = TFields /\ t'.job = t.job
  BY <1>2, <1>3 DEF TFields, Over
<1>6. ~Writes'
  BY <1>1, <1>4 DEF Writes
<1> QED BY <1>1, <1>4, <1>6, TarStep

LEMMA TapeStep ==
  ASSUME TarInv, Tape, t.pc # "idle"
  PROVE  TarInv'
<1>1. ~unit.call.done /\ unit' = Io(unit) /\ UNCHANGED <<tree, version, jobs, t, vols>>
  BY DEF Tape, Ready
<1>2. DOMAIN t' = TFields /\ t'.job = t.job
  BY <1>1 DEF TarInv, Running
<1>3. ASSUME Writes
      PROVE  t'.at = t.at /\ Numbers' /\ HasFile' /\ UnitOk' /\ CloseOk'
  <2>1. Typed(unit) /\ unit.call.op \in {"transfer", "left", "close"}
    BY <1>1, <1>3 DEF TarInv, UnitOk
  <2>2. Typed(unit') /\ unit'.call.op = unit.call.op
    BY <1>1, <2>1, IoTyped, IoCall DEF SameCall
  <2>3. UnitOk'
    BY <2>1, <2>2 DEF UnitOk
  <2>4. CloseOk'
    <3> SUFFICES ASSUME t.pc \in {"mount", "closed"} PROVE unit'.call.op = "close" /\ (unit'.call.done => ~unit'.writ /\ unit'.pend.fc = "none")
      BY <1>1 DEF CloseOk
    <3>1. unit.call.op = "close"
      BY <1>3 DEF TarInv, CloseOk
    <3> QED BY <1>1, <2>1, <3>1, CloseSettles
  <2>5. Numbers' /\ HasFile'
    BY <1>1, <1>3 DEF TarInv, Numbers, HasFile, InFile
  <2> QED BY <1>1, <2>3, <2>4, <2>5
<1>4. ASSUME NEW m, NEW e \in Nat, IsSeq(m), e < Len(m), Phase(t.pc, unit, m, e, t.job.s)
      PROVE  Phase(t'.pc, unit', m, e, t.job.s)
  <2>1. t.job.s \in BOOLEAN
    BY DEF TarInv, Running, TarCall
  <2>2. Phase(t.pc, Io(unit), m, e, t.job.s)
    BY <1>1, <1>4, <2>1, PhaseTurn
  <2> QED BY <1>1, <2>2
<1> QED BY <1>1, <1>2, <1>3, <1>4, TarStep

LEMMA DeviceStep ==
  ASSUME TarInv, DeviceRuns
  PROVE  TarInv'
<1>1. t.pc # "idle" /\ unit' = Performed(unit) /\ UNCHANGED <<tree, version, jobs, t, vols>>
  BY DEF DeviceRuns
<1>2. DOMAIN t' = TFields /\ t'.job = t.job
  BY <1>1 DEF TarInv, Running
<1>3. ASSUME Writes
      PROVE  t'.at = t.at /\ Numbers' /\ HasFile' /\ UnitOk' /\ CloseOk'
  <2>1. UnitOk /\ CloseOk /\ Numbers /\ HasFile
    BY <1>3 DEF TarInv
  <2>2. Typed(unit) /\ Typed(unit') /\ unit'.call = unit.call /\ unit'.writ = unit.writ /\ unit'.pend.fc = "none"
    BY <1>1, <2>1, PerformedTyped, PerformedIs DEF UnitOk, Rest
  <2> QED BY <1>1, <2>1, <2>2 DEF UnitOk, CloseOk, Numbers, HasFile, InFile
<1>4. ASSUME NEW m, NEW e \in Nat, IsSeq(m), e < Len(m), Phase(t.pc, unit, m, e, t.job.s)
      PROVE  Phase(t'.pc, unit', m, e, t.job.s)
  <2>1. Phase(t.pc, Performed(unit), m, e, t.job.s)
    BY <1>4, PhaseDevice
  <2> QED BY <1>1, <2>1
<1> QED BY <1>1, <1>2, <1>3, <1>4, TarStep

\* The program begins with a medium, and with r and u at its first block.
LEMMA BeginStep ==
  ASSUME TarInv, Begin
  PROVE  TarInv'
<1> DEFINE j == Head(jobs)
           m == IF j.from \in DOMAIN vols THEN vols[j.from] ELSE <<>>
<1>1. /\ jobs # <<>> /\ jobs \in Seq(TarCall) /\ jobs' = Tail(jobs) /\ UNCHANGED <<tree, version, vols>>
      /\ unit' = Ioopcre(NoUnit(j.tblksz, j.capacity), m)
  BY DEF Begin, TarInv, Running
<1>2. j \in TarCall /\ jobs' \in Seq(TarCall)
  BY <1>1
<1>3. /\ DOMAIN t' = TFields /\ t'.job = j /\ t'.at = j.from /\ t'.tblkmax = j.tblkmax - 2 - j.tblksz /\ t'.tblkpos = 0
      /\ t'.off = 0 /\ t'.noblks = 0 /\ t'.bytes = 0
      /\ t'.pc = CASE j.op = "c" -> "next" [] j.op \in {"r", "u"} -> "seek" [] OTHER -> "read"
  BY DEF Begin, TFields
<1> HIDE DEF j
<1>4. j.from \in Nat /\ j.tblkmax \in Nat /\ j.tblksz \in Nat \ {0} /\ j.capacity \in Nat
  BY <1>2 DEF TarCall
<1>5. World' /\ Media' /\ Running'
  BY <1>1, <1>2, <1>3 DEF TarInv, World, Media, Running
<1>6. Writes' => t'.pc \in {"next", "seek"}
  BY <1>3 DEF Writes
<1>7. Writes' => Numbers' /\ HasFile' /\ CloseOk'
  BY <1>3, <1>4, <1>6 DEF Numbers, HasFile, InFile, CloseOk, WritePcs
<1>8. IsSeq(m)
  <2>1. <<>> \in Seq(Int)
    OBVIOUS
  <2> QED BY <2>1 DEF TarInv, Media, IsSeq
<1> HIDE DEF m
<1>9. UnitOk'
  <2> DEFINE d == Ioopcre(NoUnit(j.tblksz, j.capacity), m)
  <2>1. j.capacity \in Int
    BY <1>4
  <2>2. Reading(d, m, j.s) /\ d.call = NoCall
    BY <1>4, <1>8, <2>1, OpcreReads
  <2>3. Typed(d) /\ d.call.done
    BY <2>2 DEF Reading, Quiet, NoCall
  <2>4. unit' = d
    BY <1>1
  <2> HIDE DEF d
  <2> QED BY <2>3, <2>4 DEF UnitOk
<1>10. KeptOk'
  <2> SUFFICES ASSUME Appends' PROVE Phase(t.pc, unit, vols[t.at], End(vols[t.at]), t.job.s)'
    BY DEF KeptOk
  <2>1. t'.pc = "seek" /\ vols'[t'.at] = m
    BY <1>1, <1>3 DEF Appends, m
  <2>2. Phase("seek", Ioopcre(NoUnit(j.tblksz, j.capacity), m), m, End(m), j.s)
    BY <1>4, <1>8, SeekBegins
  <2> QED BY <1>1, <1>3, <2>1, <2>2
<1> QED BY <1>5, <1>7, <1>9, <1>10 DEF TarInv

\* The end of a call; the next volume goes to the next call.
LEMMA EndProgStep ==
  ASSUME TarInv, EndProg
  PROVE  TarInv'
<1>1. unit.call.done /\ UNCHANGED <<tree, version>>
  BY DEF EndProg, Ready
<1>2. CASE t.pc = "over" /\ Call("close", "write", <<>>, 0) /\ t' = [t EXCEPT !.pc = "closed"] /\ UNCHANGED <<jobs, vols, lost>>
  <2>1. DOMAIN t = TFields
    BY <1>2 DEF TarInv, Running
  <2>2. DOMAIN t' = TFields /\ t'.job = t.job /\ t'.pc = "closed" /\ Carried
    BY <1>2, <2>1 DEF TFields, Carried
  <2> QED BY <1>1, <1>2, <2>2, CloseStep
<1>3. CASE /\ t.pc = "closed" /\ t' = [pc |-> "idle"]
           /\ IF Writes THEN vols' = Shelved /\ UNCHANGED jobs
              ELSE /\ jobs' = IF t.at + 1 \in DOMAIN vols /\ t.status = 0 THEN <<[t.job EXCEPT !.from = t.at + 1]>> \o jobs ELSE jobs
                   /\ UNCHANGED vols
  <2>1. t'.pc = "idle"
    BY <1>3
  <2>2. ~Writes' /\ ~Appends' /\ World'
    BY <1>1, <2>1 DEF Writes, Appends, TarInv, World
  <2>3. jobs \in Seq(TarCall) /\ t.job \in TarCall /\ Media
    BY <1>3 DEF TarInv, Running
  <2>4. CASE Writes
    <3>1. IsSeq(unit.medium) /\ t.at \in Nat
      BY <2>4 DEF TarInv, UnitOk, Typed, Numbers
    <3>2. Media'
      BY <1>3, <2>3, <2>4, <3>1 DEF Media, Shelved
    <3> QED BY <1>3, <2>1, <2>2, <2>3, <2>4, <3>2 DEF TarInv, Running, KeptOk
  <2>5. CASE ~Writes
    <3>1. jobs' \in Seq(TarCall)
      <4>1. CASE t.at + 1 \in DOMAIN vols /\ jobs' = <<[t.job EXCEPT !.from = t.at + 1]>> \o jobs
        <5>1. t.at + 1 \in Nat
          BY <2>3, <4>1 DEF Media
        <5>2. [t.job EXCEPT !.from = t.at + 1] \in TarCall
          BY <2>3, <5>1 DEF TarCall
        <5> QED BY <2>3, <4>1, <5>2
      <4>2. CASE jobs' = jobs
        BY <2>3, <4>2
      <4> QED BY <1>3, <2>5, <4>1, <4>2
    <3>2. Media'
      BY <1>3, <2>3, <2>5 DEF Media
    <3> QED BY <2>1, <2>2, <3>1, <3>2 DEF TarInv, Running, KeptOk
  <2> QED BY <2>4, <2>5
<1> QED BY <1>2, <1>3 DEF EndProg

\* Between two calls only the files change.
LEMMA IdleStep ==
  ASSUME TarInv, t.pc = "idle", UNCHANGED <<t, jobs, vols>>, World'
  PROVE  TarInv'
<1>1. ~Writes' /\ ~Appends'
  BY DEF Writes, Appends
<1>2. Media' /\ Running'
  BY DEF TarInv, Media, Running
<1> QED BY <1>1, <1>2 DEF TarInv, KeptOk

\* While the program runs the files change and go away.
LEMMA OthersStep ==
  ASSUME TarInv, Change \/ Unlink
  PROVE  TarInv'
<1>1. UNCHANGED <<jobs, unit, vols, t>>
  BY DEF Change, Unlink, Others
<1>2. World' /\ DOMAIN version' = DOMAIN version
  <2>1. CASE Change
    <3>1. PICK i \in DOMAIN version :
            /\ <<i, version[i].of + 1>> \in DOMAIN Bytes /\ UNCHANGED tree
            /\ version' = [version EXCEPT ![i] = [of |-> @.of + 1, mtime |-> @.mtime + 1]]
      BY <2>1 DEF Change
    <3> QED BY <3>1 DEF TarInv, World
  <2>2. CASE Unlink
    BY <2>2 DEF TarInv, World, Unlink
  <2> QED BY <2>1, <2>2
<1>3. CASE t.pc = "idle"
  BY <1>1, <1>2, <1>3, IdleStep
<1>4. CASE t.pc # "idle"
  <2>1. Media' /\ Running'
    BY <1>1 DEF TarInv, Media, Running
  <2>2. Writes' => Numbers' /\ HasFile' /\ UnitOk' /\ CloseOk'
    <3>1. Writes' => Writes
      BY <1>1 DEF Writes
    <3> QED BY <1>1, <1>2, <3>1 DEF TarInv, Numbers, HasFile, InFile, UnitOk, CloseOk
  <2>3. KeptOk'
    BY <1>1 DEF TarInv, KeptOk, Appends, Writes, Whole, End
  <2> QED BY <1>2, <2>1, <2>2, <2>3 DEF TarInv
<1> QED BY <1>3, <1>4

LEMMA InterruptStep ==
  ASSUME TarInv, Interrupt
  PROVE  TarInv'
<1>1. Writes /\ t' = [t EXCEPT !.term = TRUE] /\ UNCHANGED <<tree, version, jobs, vols, unit>>
  BY DEF Interrupt, Others
<1>2. t.pc # "idle" /\ DOMAIN t = TFields
  BY <1>1 DEF Writes, TarInv, Running
<1>3. DOMAIN t' = TFields /\ t'.job = t.job /\ t'.pc = t.pc /\ Carried
  BY <1>1, <1>2 DEF TFields, Carried
<1>4. t'.at = t.at /\ Numbers' /\ HasFile' /\ UnitOk' /\ CloseOk'
  BY <1>1, <1>3 DEF TarInv, Numbers, HasFile, InFile, UnitOk, CloseOk, Carried
<1>5. \A m : \A e \in Nat : IsSeq(m) /\ e < Len(m) /\ Phase(t.pc, unit, m, e, t.job.s) => Phase(t'.pc, unit', m, e, t.job.s)
  BY <1>1, <1>3
<1> QED BY <1>1, <1>2, <1>3, <1>4, <1>5, TarStep

LEMMA TarInit ==
  ASSUME Init
  PROVE  TarInv
<1>1. t.pc = "idle" /\ jobs \in Seq(TarCall) /\ vols = <<>>
  BY TarAssumption DEF Init
<1>2. ~Writes /\ ~Appends
  BY <1>1 DEF Writes, Appends
<1>3. World
  BY TarAssumption DEF Init, World
<1>4. DOMAIN vols = {}
  <2>1. <<>> \in Seq(Int) /\ Len(<<>>) = 0
    OBVIOUS
  <2>2. DOMAIN <<>> = 1..0
    BY <2>1
  <2> QED BY <1>1, <2>2
<1> QED BY <1>1, <1>2, <1>3, <1>4 DEF TarInv, Media, Running, KeptOk

LEMMA TarNext ==
  ASSUME TarInv, [Next]_vars
  PROVE  TarInv'
<1>1. CASE Begin BY <1>1, BeginStep
<1>2. CASE SeekEnd BY <1>2, SeekStep
<1>3. CASE NextFile BY <1>3, NextFileStep
<1>4. CASE Put BY <1>4, PutStep
<1>5. CASE CloseVolume BY <1>5, CloseVolumeStep
<1>6. CASE NewVolume BY <1>6, NewVolumeStep
<1>7. CASE PutHead BY <1>7, PutHeadStep
<1>8. CASE PutData BY <1>8, PutDataStep
<1>9. CASE PutEnd BY <1>9, PutEndStep
<1>10. CASE ReadNext BY <1>10, ReadNextStep
<1>11. CASE Extract BY <1>11, ExtractStep
<1>12. CASE AskFirst BY <1>12, AskFirstStep
<1>13. CASE Mount BY <1>13, MountStep
<1>14. CASE Tape
  <2>1. CASE t.pc = "idle"
    BY <1>14, <2>1, IdleStep DEF Tape, TarInv, World
  <2> QED BY <1>14, <2>1, TapeStep
<1>15. CASE WriteFails BY <1>15, WriteFailsStep
<1>16. CASE EndProg BY <1>16, EndProgStep
<1>17. CASE DeviceRuns BY <1>17, DeviceStep
<1>18. CASE Change \/ Unlink BY <1>18, OthersStep
<1>19. CASE Interrupt BY <1>19, InterruptStep
<1>20. CASE UNCHANGED vars
  BY <1>20 DEF vars, TarInv, World, Media, Running, Writes, Numbers, HasFile, InFile, UnitOk, CloseOk, KeptOk, Appends, Whole, End
<1>21. CASE Finished BY <1>20, <1>21 DEF Finished
<1> QED BY <1>1, <1>2, <1>3, <1>4, <1>5, <1>6, <1>7, <1>8, <1>9, <1>10, <1>11, <1>12, <1>13, <1>14, <1>15, <1>16, <1>17,
           <1>18, <1>19, <1>20, <1>21 DEF Next

\* In every phase what came before the end is on the medium.
LEMMA PhaseStays ==
  ASSUME NEW pc, NEW d, NEW m, IsSeq(m), NEW e \in Nat, e < Len(m), NEW s, Phase(pc, d, m, e, s)
  PROVE  Stays(d.medium, m, e) /\ IsSeq(d.medium)
<1>1. e \in 0..Len(m)
  BY JoinSeq
<1>2. Quiet(d, m) => Stays(d.medium, m, e) /\ IsSeq(d.medium)
  BY <1>1 DEF Quiet, Stays, Typed
<1>3. Aimed(d, m, e) \/ Writing(d, m, e) \/ Dead(d, m, e) => Stays(d.medium, m, e) /\ IsSeq(d.medium)
  BY DEF Aimed, Writing, Filling, Dead, Typed
<1> QED BY <1>2, <1>3 DEF Phase, Seeking, Looking, Ending, Starting, Going, Reading, Turned

LEMMA ArchiveStays ==
  ASSUME TarInv
  PROVE  ArchiveKept
<1> SUFFICES ASSUME Appends, Whole(vols[t.at])
             PROVE  LET e == End(vols[t.at]) IN SubSeq(unit.medium, 1, e) = SubSeq(vols[t.at], 1, e)
  BY DEF ArchiveKept
<1> DEFINE m == vols[t.at]
           e == End(m)
           d == unit.medium
<1>1. IsSeq(m)
  BY DEF TarInv, Media, Appends
<1>2. e \in Nat /\ e < Len(m)
  <2>1. 0 \in Nat
    OBVIOUS
  <2> QED BY <1>1, <2>1, FromGrows DEF Whole, End
<1>3. Phase(t.pc, unit, m, e, t.job.s)
  BY DEF TarInv, KeptOk
<1> HIDE DEF m, e
<1>4. Stays(d, m, e) /\ IsSeq(d)
  BY <1>1, <1>2, <1>3, PhaseStays
<1> HIDE DEF d
<1>5. PICK S : d \in Seq(S) /\ m \in Seq(S)
  BY <1>1, <1>4, OneSet
<1>6. e <= Len(d) /\ e <= Len(m) /\ \A k \in 1..e : d[k] = m[k]
  BY <1>2, <1>4, <1>5 DEF Stays
<1>7. SubSeq(d, 1, e) = SubSeq(m, 1, e)
  <2>1. SubSeq(d, 1, e) \in Seq(S) /\ SubSeq(m, 1, e) \in Seq(S) /\ Len(SubSeq(d, 1, e)) = e /\ Len(SubSeq(m, 1, e)) = e
        /\ \A k \in 1..e : SubSeq(d, 1, e)[k] = d[k] /\ SubSeq(m, 1, e)[k] = m[k]
    BY <1>2, <1>5, <1>6
  <2> QED BY <1>6, <2>1
<1> QED BY <1>7 DEF m, e, d

\* What an archive held stays in place while r and u append to it, whatever it
\* holds: in every state of every call the medium begins with the blocks of the
\* archive before its end, also when the tape is full, the file that is
\* appended shrinks, the program is interrupted, or the last block is written
\* back with those that came before it (tapecreate, iodoseek, iordwr).
THEOREM ArchiveKeptTheorem == Spec => []ArchiveKept
<1>1. Init => TarInv
  BY TarInit
<1>2. TarInv /\ [Next]_vars => TarInv'
  BY TarNext
<1>3. TarInv => ArchiveKept
  BY ArchiveStays
<1> QED BY <1>1, <1>2, <1>3, PTL DEF Spec
=============================================================================

-------------------------- MODULE TarVolumesProofs --------------------------
(***************************************************************************)
(* Each medium that tar left without a word is an archive to its end, for  *)
(* any files, changes and interrupts, sizes and capacities: VolumesWhole.  *)
(*                                                                         *)
(* m is the volume as it will be once the call that is under way is done:  *)
(* what comes of the blocks on the medium, those of the request that is    *)
(* outstanding, those in the buffer and those the call has still to write. *)
(* Stowed and Owes say how m lies in the unit, Account how far it is an    *)
(* archive at each place of the program; Short are the states where a      *)
(* block did not get to the medium, and the program will know.             *)
(***************************************************************************)
EXTENDS TarProofs

-----------------------------------------------------------------------------
(* The end of an archive, as blocks are appended *)

\* The archive ends where there is no header.
LEMMA FromStops ==
  ASSUME NEW m, IsSeq(m), NEW n \in Nat
  PROVE  ~Heads(m, From(m)[n])
<1>1. Len(m) \in Nat
  BY JoinSeq
<1> DEFINE f == From(m)
           Right(k) == ~Heads(m, f[k])
           Wrong == {j \in 0..Len(m) : \E k \in Nat : k + j >= Len(m) /\ ~Right(k)}
<1>2. \A k \in Nat : Steps(m, f, k)
  BY FromIs
<1> HIDE DEF f
<1>3. Wrong = {}
  <2> SUFFICES ASSUME Wrong # {} PROVE FALSE
    OBVIOUS
  <2>1. PICK j \in Wrong : \A y \in Wrong : j <= y
    BY <1>1, FirstOf
  <2>2. PICK k \in Nat : k + j >= Len(m) /\ ~Right(k)
    BY <2>1
  <2>3. j \in 0..Len(m)
    BY <2>1
  <2>4. Heads(m, k)
    BY <1>2, <2>2 DEF Steps
  <2>5. Jump(m, k) \in Nat /\ Jump(m, k) > k /\ f[k] = f[Jump(m, k)]
    BY <1>2, <2>4, JumpsOn DEF Steps
  <2>6. j # 0
    BY <1>1, <2>2, <2>4 DEF Heads
  <2>7. j - 1 \in 0..Len(m) /\ j - 1 \notin Wrong
    <3>1. j - 1 \in 0..Len(m) /\ ~(j <= j - 1)
      BY <1>1, <2>3, <2>6
    <3> HIDE DEF Wrong
    <3> QED BY <2>1, <3>1
  <2>8. Jump(m, k) + (j - 1) >= Len(m)
    BY <1>1, <2>2, <2>3, <2>5, <2>6
  <2>9. Right(Jump(m, k))
    BY <2>5, <2>7, <2>8
  <2> QED BY <2>2, <2>5, <2>9
<1>4. n + Len(m) >= Len(m) /\ Len(m) \in 0..Len(m) /\ Len(m) \notin Wrong
  BY <1>1, <1>3
<1> QED BY <1>4 DEF f

LEMMA FromHere ==
  ASSUME NEW m, IsSeq(m), NEW n \in Nat, ~Heads(m, n)
  PROVE  From(m)[n] = n
BY FromIs DEF Steps

\* s begins with w: the end of s is found from that of w.
LEMMA FromPrefix ==
  ASSUME NEW w, NEW s, IsSeq(w), IsSeq(s), Stays(s, w, Len(w)), NEW n \in Nat
  PROVE  From(s)[n] = From(s)[From(w)[n]]
<1>1. Len(w) \in Nat /\ Len(s) \in Nat /\ Len(w) <= Len(s)
  BY JoinSeq DEF Stays
<1> DEFINE f == From(w)
           g == From(s)
           Right(k) == g[k] = g[f[k]]
           Wrong == {j \in 0..Len(w) : \E k \in Nat : k + j >= Len(w) /\ ~Right(k)}
<1>2. \A k \in Nat : Steps(w, f, k) /\ Steps(s, g, k)
  BY FromIs
<1>3. ASSUME NEW k \in Nat, Heads(w, k) PROVE Heads(s, k) /\ Jump(s, k) = Jump(w, k)
  <2>1. k < Len(w) /\ Header(w[k + 1])
    BY <1>3 DEF Heads
  <2>2. k + 1 \in 1..Len(w)
    BY <1>1, <2>1
  <2>3. s[k + 1] = w[k + 1]
    BY <2>2 DEF Stays
  <2> QED BY <1>1, <2>1, <2>3 DEF Heads, Jump
<1> HIDE DEF f, g
<1>4. Wrong = {}
  <2> SUFFICES ASSUME Wrong # {} PROVE FALSE
    OBVIOUS
  <2>1. PICK j \in Wrong : \A y \in Wrong : j <= y
    BY <1>1, FirstOf
  <2>2. PICK k \in Nat : k + j >= Len(w) /\ ~Right(k)
    BY <2>1
  <2>3. j \in 0..Len(w)
    BY <2>1
  <2>4. Heads(w, k)
    BY <1>2, <2>2 DEF Steps
  <2>5. Jump(w, k) \in Nat /\ Jump(w, k) > k /\ f[k] = f[Jump(w, k)] /\ g[k] = g[Jump(w, k)]
    BY <1>2, <1>3, <2>4, JumpsOn DEF Steps
  <2>6. j # 0
    BY <1>1, <2>2, <2>4 DEF Heads
  <2>7. j - 1 \in 0..Len(w) /\ j - 1 \notin Wrong
    <3>1. j - 1 \in 0..Len(w) /\ ~(j <= j - 1)
      BY <1>1, <2>3, <2>6
    <3> HIDE DEF Wrong
    <3> QED BY <2>1, <3>1
  <2>8. Jump(w, k) + (j - 1) >= Len(w)
    BY <1>1, <2>2, <2>3, <2>5, <2>6
  <2>9. Right(Jump(w, k))
    BY <2>5, <2>7, <2>8
  <2> QED BY <2>2, <2>5, <2>9
<1>5. n + Len(w) >= Len(w) /\ Len(w) \in 0..Len(w) /\ Len(w) \notin Wrong
  BY <1>1, <1>4
<1> QED BY <1>5 DEF f, g

\* An archive stays whole with other blocks behind it.
LEMMA WholeOn ==
  ASSUME NEW w, NEW s, IsSeq(w), IsSeq(s), Stays(s, w, Len(w)), Whole(w)
  PROVE  Whole(s)
<1> DEFINE e == From(w)[0]
<1>1. Len(w) \in Nat /\ Len(s) \in Nat /\ Len(w) <= Len(s)
  BY JoinSeq DEF Stays
<1>2. e \in Nat /\ e < Len(w) /\ w[e + 1].kind = "zero"
  BY FromGrows DEF Whole, End
<1>3. From(s)[0] = From(s)[e]
  BY FromPrefix
<1> HIDE DEF e
<1>4. e + 1 \in 1..Len(w)
  BY <1>1, <1>2
<1>5. s[e + 1] = w[e + 1]
  BY <1>4 DEF Stays
<1>6. ~Heads(s, e)
  BY <1>2, <1>5 DEF Heads, Header
<1>7. From(s)[e] = e
  BY <1>2, <1>6, FromHere
<1> QED BY <1>1, <1>2, <1>3, <1>5, <1>7 DEF Whole, End

\* What comes before the end of an archive ends with its last block.
LEMMA EndEnds ==
  ASSUME NEW m, IsSeq(m), End(m) <= Len(m)
  PROVE  LET w == SubSeq(m, 1, End(m)) IN
         IsSeq(w) /\ Len(w) = End(m) /\ Stays(m, w, Len(w)) /\ From(w)[0] = Len(w)
<1> DEFINE e == End(m)
           w == SubSeq(m, 1, e)
           x == From(w)[0]
<1>1. e \in Nat /\ Len(m) \in Nat
  BY FromGrows, JoinSeq DEF End
<1> HIDE DEF e
<1>2. IsSeq(w) /\ Len(w) = e /\ \A k \in 1..e : w[k] = m[k]
  <2>1. 1 \in Int /\ e \in Int
    BY <1>1
  <2>2. /\ IsSeq(w) /\ Len(w) = IF 1 <= e THEN e - 1 + 1 ELSE 0
        /\ \A k \in 1..(e - 1 + 1) : w[k] = m[1 + k - 1]
    <3> HIDE DEF w
    <3> QED BY <2>1, PartSeq DEF w
  <2> HIDE DEF w
  <2> QED BY <1>1, <2>2
<1> HIDE DEF w
<1>3. Stays(m, w, Len(w))
  BY <1>1, <1>2 DEF Stays, e
<1>4. x \in Nat /\ ~Heads(w, x)
  BY <1>2, FromGrows, FromStops
<1>5. From(m)[x] = e
  BY <1>2, <1>3, FromPrefix DEF e, End
<1> HIDE DEF x
<1>6. CASE x < e
  <2>1. x + 1 \in 1..e
    BY <1>1, <1>4, <1>6
  <2>2. ~Heads(m, x)
    BY <1>2, <1>4, <1>6, <2>1 DEF Heads
  <2>3. From(m)[x] = x
    BY <1>4, <2>2, FromHere
  <2> QED BY <1>1, <1>4, <1>5, <1>6, <2>3
<1>7. CASE ~(x < e)
  <2>1. From(m)[x] >= x
    BY <1>4, FromGrows
  <2>2. x = e
    BY <1>1, <1>4, <1>5, <1>7, <2>1
  <2> QED BY <1>2, <1>3, <2>2 DEF x, w, e
<1> QED BY <1>1, <1>4, <1>6, <1>7

LEMMA JoinStays ==
  ASSUME NEW m, NEW u, IsSeq(m), IsSeq(u)
  PROVE  Stays(m \o u, m, Len(m))
<1>1. /\ Len(m) \in Nat /\ Len(u) \in Nat /\ Len(m \o u) = Len(m) + Len(u)
      /\ \A k \in 1..Len(m) : (m \o u)[k] = m[k]
  BY JoinSeq
<1>2. Len(m) \in 0..Len(m \o u)
  BY <1>1
<1> QED BY <1>1, <1>2 DEF Stays

\* Blocks that a header announced are appended, or some of them.
LEMMA AppendData ==
  ASSUME NEW m, NEW u, IsSeq(m), IsSeq(u), NEW n \in Nat, From(m)[0] = Len(m) + n, Len(u) <= n
  PROVE  From(m \o u)[0] = Len(m) + n
<1> DEFINE w == m \o u
<1>1. IsSeq(w) /\ Len(m) \in Nat /\ Len(u) \in Nat /\ Len(w) = Len(m) + Len(u)
  BY JoinSeq
<1>2. Stays(w, m, Len(m))
  BY JoinStays
<1> HIDE DEF w
<1>3. From(w)[0] = From(w)[Len(m) + n]
  BY <1>1, <1>2, FromPrefix
<1>4. Len(m) + n \in Nat /\ ~Heads(w, Len(m) + n)
  BY <1>1 DEF Heads
<1>5. From(w)[Len(m) + n] = Len(m) + n
  BY <1>1, <1>4, FromHere
<1> QED BY <1>3, <1>5 DEF w

\* A header is appended.
LEMMA AppendHead ==
  ASSUME NEW m, NEW h, IsSeq(m), From(m)[0] = Len(m), Header(h)
  PROVE  From(m \o <<h>>)[0] = Len(m) + 1 + Ahead(h)
<1> DEFINE w == m \o <<h>>
           a == Len(m) + 1 + Ahead(h)
<1>1. IsSeq(w) /\ Len(m) \in Nat /\ Len(w) = Len(m) + 1 /\ w[Len(m) + 1] = h
  <2>1. IsSeq(<<h>>) /\ Len(<<h>>) = 1 /\ <<h>>[1] = h
    BY OneSeq
  <2> QED BY <2>1, JoinSeq
<1>2. Stays(w, m, Len(m))
  BY OneSeq, JoinStays
<1> HIDE DEF w
<1>3. From(w)[0] = From(w)[Len(m)]
  BY <1>1, <1>2, FromPrefix
<1>4. Heads(w, Len(m)) /\ Jump(w, Len(m)) = a
  BY <1>1 DEF Heads, Jump
<1>5. From(w)[Len(m)] = From(w)[a]
  BY <1>1, <1>4, FromIs DEF Steps
<1>6. a \in Nat /\ ~Heads(w, a)
  BY <1>1, AheadNat DEF Heads
<1> HIDE DEF a
<1>7. From(w)[a] = a
  BY <1>1, <1>6, FromHere
<1> QED BY <1>3, <1>5, <1>7 DEF w, a

\* An empty block is appended: the archive ends before it.
LEMMA AppendZero ==
  ASSUME NEW m, IsSeq(m), From(m)[0] = Len(m)
  PROVE  Whole(m \o <<Zero>>)
<1> DEFINE w == m \o <<Zero>>
<1>1. IsSeq(w) /\ Len(m) \in Nat /\ Len(w) = Len(m) + 1 /\ w[Len(m) + 1] = Zero
  <2>1. IsSeq(<<Zero>>) /\ Len(<<Zero>>) = 1 /\ <<Zero>>[1] = Zero
    BY OneSeq
  <2> QED BY <2>1, JoinSeq
<1>2. Stays(w, m, Len(m))
  BY OneSeq, JoinStays
<1> HIDE DEF w
<1>3. From(w)[0] = From(w)[Len(m)]
  BY <1>1, <1>2, FromPrefix
<1>4. Zero.kind = "zero"
  BY DEF Zero
<1>5. ~Heads(w, Len(m))
  BY <1>1, <1>4 DEF Heads, Header
<1>6. From(w)[Len(m)] = Len(m)
  BY <1>1, <1>5, FromHere
<1>7. Len(m) < Len(w)
  BY <1>1
<1> QED BY <1>1, <1>3, <1>4, <1>6, <1>7 DEF Whole, End, w

LEMMA FromNone == From(<<>>)[0] = 0
<1>1. IsSeq(<<>>) /\ ~Heads(<<>>, 0)
  BY DEF IsSeq, Heads
<1> QED BY <1>1, FromHere

-----------------------------------------------------------------------------
(* A volume m that is written, in the unit *)

\* The first blocks are on the medium, the next in the request that is outstanding
\* and the last in the buffer; blocks that were refused are in none of them.
Stowed(d, m) ==
  /\ Stays(d.medium, m, d.pos) /\ d.pos <= d.crnd
  /\ d.pend.fc = "write" => Loaded(d.bufs[3 - d.cur], m, d.pos, d.bsz)
  /\ Loaded(d.bufs[d.cur], m, d.crnd, d.inx)
Holding(d, m) == Writing(d, m, 0) /\ Stowed(d, m)
\* nothing written yet: a new medium, or back over the end of an archive
Poised(d, m) ==
  /\ d.qrnd \in Nat
  /\ Aimed(d, m, d.qrnd) \/ (Turned(d, d.medium, d.qrnd) /\ Stays(d.medium, m, d.qrnd))
\* what the call has still to write is the rest of m
Owes(d, m) ==
  LET c == d.call IN
  IF c.op = "transfer" /\ ~c.done THEN Len(m) = d.qrnd + (c.n - c.i) /\ \A k \in 1..(c.n - c.i) : m[d.qrnd + k] = c.data[c.i + k]
  ELSE Len(m) = d.qrnd
\* nothing goes to the medium any more, and the close will say so
Broken(d) == Dead(d, <<>>, 0) /\ d.writ /\ d.inx > 0
\* the unit is closed, or was never written
Settled(d, m) == Dead(d, m, Len(m)) /\ ~d.writ /\ d.bcnt \in 0..d.bsz
\* the block is full, or what the call writes fills it
Brim(d) == LET c == d.call IN IF c.done THEN d.inx = d.bsz ELSE c.i = 0 /\ c.n = d.bsz - d.inx /\ c.n > 0

LEMMA HoldingIs ==
  ASSUME NEW d, NEW m, Holding(d, m)
  PROVE  /\ Typed(d) /\ d.crnd \in Nat /\ d.inx \in 0..d.bsz /\ d.bsz \in Nat \ {0} /\ d.qrnd = d.crnd + d.inx /\ d.qrnd \in Nat
         /\ d.cur \in {1, 2} /\ d.pos \in Nat /\ Stowed(d, m) /\ Writing(d, m, 0) /\ Filling(d, m, 0) /\ 0 \in Nat
         /\ (d.inx > 0 => d.writ) /\ Queue(d, m, 0)
<1>1. /\ Typed(d) /\ d.crnd \in Nat /\ d.inx \in 0..d.bsz /\ d.bsz \in Nat \ {0} /\ d.qrnd = d.crnd + d.inx
      /\ d.cur \in {1, 2} /\ Stowed(d, m) /\ Writing(d, m, 0) /\ Filling(d, m, 0) /\ (d.inx > 0 => d.writ) /\ Queue(d, m, 0)
  BY DEF Holding, Writing, Filling, Typed, Counts
<1>2. d.pos \in Nat
  <2>1. d.pos \in 0..Len(d.medium) /\ Len(d.medium) \in Nat
    BY <1>1, JoinSeq DEF Stowed, Stays, Typed
  <2> QED BY <2>1
<1> QED BY <1>1, <1>2

LEMMA ThereStowed ==
  ASSUME NEW d, NEW g, NEW m, Stowed(d, m), There(g, d), g.bsz = d.bsz
  PROVE  Stowed(g, m)
BY DEF Stowed, There

LEMMA HoldApart ==
  ASSUME NEW d, NEW r, NEW m, Apart(r, d)
  PROVE  /\ Holding(d, m) => Holding(r, m)
         /\ Poised(d, m) => Poised(r, m)
         /\ Broken(d) => Broken(r)
         /\ Settled(d, m) => Settled(r, m)
         /\ r.qrnd = d.qrnd /\ r.inx = d.inx /\ r.bsz = d.bsz
<1>1. /\ There(r, d) /\ r.bsz = d.bsz /\ r.qrnd = d.qrnd /\ r.writ = d.writ /\ r.inx = d.inx /\ r.medium = d.medium
      /\ r.bcnt = d.bcnt
  BY DEF Apart, UnitFields, There
<1>2. Holding(d, m) => Holding(r, m)
  BY <1>1, ApartKeeps, ThereStowed DEF Holding
<1>3. Poised(d, m) => Poised(r, m)
  <2> SUFFICES ASSUME Poised(d, m) PROVE Poised(r, m)
    OBVIOUS
  <2>1. Aimed(d, m, d.qrnd) => Aimed(r, m, d.qrnd)
    BY ApartKeeps
  <2>2. Turned(d, d.medium, d.qrnd) => Turned(r, d.medium, d.qrnd)
    BY ApartKeeps
  <2> QED BY <1>1, <2>1, <2>2 DEF Poised
<1>4. Broken(d) => Broken(r)
  BY <1>1, ApartKeeps DEF Broken
<1>5. Settled(d, m) => Settled(r, m)
  BY <1>1, ApartKeeps DEF Settled
<1> QED BY <1>1, <1>2, <1>3, <1>4, <1>5

\* A part of a volume that is laid over the medium behind what it has of the volume.
LEMMA LaidBehind ==
  ASSUME NEW s, NEW buf, NEW m, IsSeq(s), IsSeq(buf), NEW at \in Nat, NEW n \in Nat, Stays(s, m, at), Loaded(buf, m, at, n)
  PROVE  Stays(Overlay(s, at, SubSeq(buf, 1, n)), m, at + n)
<1> DEFINE u == SubSeq(buf, 1, n)
           o == Overlay(s, at, u)
<1>1. IsSeq(u) /\ Len(u) = n /\ \A k \in 1..n : u[k] = buf[k]
  <2>1. IsSeq(u) /\ Len(u) = (IF 1 <= n THEN n - 1 + 1 ELSE 0) /\ \A k \in 1..(n - 1 + 1) : u[k] = buf[1 + k - 1]
    BY PartSeq
  <2> HIDE DEF u
  <2> QED BY <2>1
<1> HIDE DEF u
<1>2. /\ Len(o) \in Nat /\ Len(o) >= at + Len(u)
      /\ \A k \in 1..at : o[k] = s[k]
      /\ \A k \in 1..Len(u) : o[at + k] = u[k]
  <2>1. at \in Int /\ IsSeq(s) /\ IsSeq(u)
    BY <1>1
  <2> QED BY <2>1, OverlayIs
<1> HIDE DEF o
<1>3. ASSUME NEW k \in 1..(at + n) PROVE o[k] = m[k]
  <2>1. CASE k <= at
    <3>1. k \in 1..at
      BY <2>1
    <3> QED BY <1>2, <3>1 DEF Stays
  <2>2. CASE ~(k <= at)
    <3> DEFINE j == k - at
    <3>1. j \in 1..n /\ at + j = k
      BY <2>2
    <3> HIDE DEF j
    <3>2. o[at + j] = u[j] /\ u[j] = buf[j] /\ buf[j] = m[at + j]
      BY <1>1, <1>2, <3>1 DEF Loaded
    <3> QED BY <3>1, <3>2
  <2> QED BY <2>1, <2>2
<1>4. at + n \in 0..Len(o)
  BY <1>1, <1>2
<1> QED BY <1>3, <1>4 DEF Stays, o, u

\* The device gets to the request.
LEMMA HoldDevice ==
  ASSUME NEW d, NEW m, Holding(d, m)
  PROVE  LET r == Performed(d) IN Holding(r, m) /\ r.pend.fc = "none" /\ Rest(r, d) /\ r.bufs = d.bufs
<1> DEFINE r == Performed(d)
           n == d.pend.n
           buf == d.bufs[d.pend.buf]
<1>1. /\ Typed(d) /\ d.crnd \in Nat /\ d.inx \in 0..d.bsz /\ d.bsz \in Nat \ {0} /\ d.cur \in {1, 2} /\ d.pos \in Nat
      /\ Stowed(d, m) /\ Writing(d, m, 0) /\ Queue(d, m, 0) /\ 0 \in Nat
  BY HoldingIs
<1>2. Stays(d.medium, m, 0)
  BY DEF Holding, Writing, Filling
<1>3. Typed(r) /\ Rest(r, d) /\ r.bufs = d.bufs /\ r.pend.fc = "none"
  BY <1>1, <1>2, QueueDone
<1>4. Writing(r, m, 0)
  BY <1>1, WritingDevice
<1>5. Stays(r.medium, m, r.pos)
  <2>1. CASE d.pend.fc = "none"
    <3>1. r = d
      BY <1>1, <2>1, PerformedIs
    <3> QED BY <1>1, <3>1 DEF Stowed
  <2>2. CASE d.pend.fc = "write"
    <3>1. n = d.bsz /\ d.pend.buf = 3 - d.cur
      BY <1>1, <2>2 DEF Queue
    <3>2. IsSeq(buf) /\ IsSeq(d.medium)
      BY <1>1, <3>1 DEF Typed, Pending, Buffers
    <3>3. Stays(d.medium, m, d.pos) /\ Loaded(buf, m, d.pos, n)
      BY <1>1, <2>2, <3>1 DEF Stowed
    <3>4. Stays(Overlay(d.medium, d.pos, SubSeq(buf, 1, n)), m, d.pos + n)
      BY <1>1, <3>1, <3>2, <3>3, LaidBehind
    <3>5. /\ d.pos + n > d.capacity => r.pos = d.pos /\ r.medium = d.medium
          /\ ~(d.pos + n > d.capacity) => r.pos = d.pos + n /\ r.medium = Overlay(d.medium, d.pos, SubSeq(buf, 1, n))
      BY <1>1, <2>2, PerformedWrite
    <3> HIDE DEF r, n, buf
    <3> QED BY <3>3, <3>4, <3>5
  <2> QED BY <1>1, <2>1, <2>2 DEF Queue
<1> HIDE DEF r
<1>6. Loaded(r.bufs[r.cur], m, r.crnd, r.inx)
  BY <1>1, <1>3 DEF Stowed, Rest
<1>7. r.pos <= r.crnd
  <2>1. CASE d.pend.fc = "none"
    BY <1>1, <1>3, <2>1, PerformedIs DEF Stowed, r
  <2>2. CASE d.pend.fc = "write"
    <3>1. r.pos \in {d.pos, d.pos + n}
      BY <1>1, <2>2, PerformedWrite DEF r
    <3>2. n = d.bsz /\ d.pos + d.bsz = d.crnd
      BY <1>1, <2>2 DEF Queue
    <3> HIDE DEF n
    <3> QED BY <1>1, <1>3, <3>1, <3>2 DEF Rest
  <2> QED BY <1>1, <2>1, <2>2 DEF Queue
<1> QED BY <1>3, <1>4, <1>5, <1>6, <1>7 DEF Holding, Stowed, r

\* The buffer was full and is the request now.
LEMMA PassedStowed ==
  ASSUME NEW d, NEW g, NEW m, Holding(d, m), Passed(g, d), d.inx = d.bsz, g.bsz = d.bsz, g.inx = 0, g.crnd = d.qrnd
  PROVE  Stowed(g, m)
<1>1. Stays(g.medium, m, g.pos)
  BY HoldDevice DEF Holding, Stowed, Passed
<1>2. d.cur \in {1, 2} /\ Loaded(d.bufs[d.cur], m, d.crnd, d.inx)
  BY HoldingIs DEF Stowed
<1>3. 3 - g.cur = d.cur
  BY <1>2 DEF Passed
<1>4. Loaded(g.bufs[3 - g.cur], m, g.pos, g.bsz)
  BY <1>2, <1>3 DEF Passed
<1>5. Loaded(g.bufs[g.cur], m, g.crnd, g.inx)
  BY DEF Loaded
<1>6. g.pos <= g.crnd
  BY HoldingIs DEF Passed
<1> QED BY <1>1, <1>4, <1>5, <1>6 DEF Stowed

LEMMA BrokenIs ==
  ASSUME NEW d, NEW m, Dead(d, m, 0), d.writ, d.inx = d.bsz
  PROVE  Broken(d)
<1>1. d.inx > 0
  BY DEF Dead, Typed, Counts
<1> QED BY <1>1 DEF Broken, Dead, Stays

LEMMA HoldSeek ==
  ASSUME NEW d, NEW m, Holding(d, m), NEW nowait
  PROVE  LET q == Ioseekblk(d, "write", nowait) IN
         /\ q.d.call = d.call
         /\ \/ q.i = -1 /\ Broken(q.d)
            \/ /\ q.i > 0 /\ q.i \in Int /\ Holding(q.d, m) /\ q.d.inx < q.d.bsz /\ q.d.qrnd = d.qrnd
               /\ d.inx < d.bsz => q.d.inx = d.inx /\ q.d.bsz = d.bsz
<1> DEFINE q == Ioseekblk(d, "write", nowait)
<1>1. Writing(d, m, 0) /\ Stowed(d, m) /\ 0 \in Nat /\ d.inx \in 0..d.bsz /\ d.bsz \in Nat
  BY HoldingIs
<1>2. /\ q.d.call = d.call /\ q.i \in Int
      /\ \/ q.i = -1 /\ Dead(q.d, m, 0) /\ q.d.writ /\ q.d.inx = q.d.bsz
         \/ /\ q.i > 0 /\ q.i = q.d.bsz /\ Writing(q.d, m, 0) /\ q.d.inx < q.d.bsz /\ q.d.qrnd = d.qrnd /\ q.d.bsz = d.bsz
            /\ There(q.d, d) \/ (d.inx = d.bsz /\ q.d.inx = 0 /\ q.d.crnd = d.qrnd /\ Passed(q.d, d))
  BY <1>1, SeekWrite
<1> HIDE DEF q
<1>3. CASE q.i = -1 /\ Dead(q.d, m, 0) /\ q.d.writ /\ q.d.inx = q.d.bsz
  BY <1>2, <1>3, BrokenIs DEF q
<1>4. ASSUME q.i > 0, Writing(q.d, m, 0), q.d.inx < q.d.bsz, q.d.qrnd = d.qrnd, q.d.bsz = d.bsz, There(q.d, d)
      PROVE  Holding(q.d, m) /\ q.d.inx = d.inx
  BY <1>1, <1>4, ThereStowed DEF Holding, There
<1>5. ASSUME q.i > 0, Writing(q.d, m, 0), q.d.inx < q.d.bsz, q.d.qrnd = d.qrnd, q.d.bsz = d.bsz, d.inx = d.bsz, q.d.inx = 0,
             q.d.crnd = d.qrnd, Passed(q.d, d)
      PROVE  Holding(q.d, m)
  BY <1>5, PassedStowed DEF Holding
<1> QED BY <1>1, <1>2, <1>3, <1>4, <1>5 DEF q

\* How much the buffer takes.
LEMMA HoldLeft ==
  ASSUME NEW d, NEW m, Holding(d, m), d.call.op = "left", d.call.fc = "write"
  PROVE  LET r == Io(d) IN
         /\ r.call.op = "left" /\ r.call.fc = "write" /\ r.call.done
         /\ \/ Holding(r, m) /\ r.call.i > 0 /\ r.call.i = r.bsz - r.inx /\ r.qrnd = d.qrnd
            \/ Broken(r) /\ r.call.i <= 0
<1> DEFINE r == Io(d)
<1>1. Writing(d, m, 0) /\ Stowed(d, m) /\ 0 \in Nat
  BY HoldingIs
<1>2. /\ r.call.op = "left" /\ r.call.fc = "write" /\ r.call.done
      /\ \/ /\ Writing(r, m, 0) /\ r.call.i > 0 /\ r.call.i = r.bsz - r.inx /\ r.qrnd = d.qrnd /\ r.bsz = d.bsz
            /\ There(r, d) \/ (d.inx = d.bsz /\ r.inx = 0 /\ r.crnd = d.qrnd /\ Passed(r, d))
         \/ Dead(r, m, 0) /\ r.call.i <= 0 /\ r.writ /\ r.inx = r.bsz
  BY <1>1, LeftTurn
<1> HIDE DEF r
<1>3. ASSUME Writing(r, m, 0), r.bsz = d.bsz, There(r, d) PROVE Holding(r, m)
  BY <1>1, <1>3, ThereStowed DEF Holding
<1>4. ASSUME Writing(r, m, 0), r.bsz = d.bsz, d.inx = d.bsz, r.inx = 0, r.crnd = d.qrnd, Passed(r, d) PROVE Holding(r, m)
  BY <1>4, PassedStowed DEF Holding
<1> QED BY <1>2, <1>3, <1>4, BrokenIs DEF r

\* A turn of iordwr that writes: what it moves is the next part of the volume.
LEMMA HoldMoved ==
  ASSUME NEW d, NEW m, Filling(d, m, 0), Stowed(d, m), d.inx < d.bsz,
         WriteCall(d.call), ~d.call.done, d.call.i < d.call.n, Owes(d, m)
  PROVE  LET c == d.call
             r == Moved(d, c, Least(c.n - c.i, d.bsz - d.inx)) IN
         /\ Holding(r, m) /\ WriteCall(r.call) /\ Owes(r, m)
         /\ c.i = 0 /\ c.n = d.bsz - d.inx => r.call.done /\ r.inx = r.bsz
<1> DEFINE c == d.call
           k == Least(c.n - c.i, d.bsz - d.inx)
           r == Moved(d, c, k)
           buf == d.bufs[d.cur]
           u == SubSeq(c.data, c.i + 1, c.i + k)
           o == Overlay(buf, d.inx, u)
<1>1. /\ Typed(d) /\ Calling(c) /\ c.fc = "write" /\ c.op = "transfer" /\ ~c.done
      /\ IsSeq(buf) /\ IsSeq(c.data) /\ d.cur \in {1, 2} /\ 0 \in Nat
  BY DEF Filling, Typed, WriteCall, Calling, Buffers
<1>2. /\ c.n \in Nat /\ c.i \in Nat /\ c.i < c.n /\ d.inx \in Nat /\ d.bsz \in Nat /\ d.inx < d.bsz /\ d.crnd \in Nat
      /\ d.qrnd = d.crnd + d.inx /\ d.qrnd \in Nat
  BY DEF Filling, WriteCall, Typed, Counts
<1>3. k \in Nat \ {0} /\ k <= c.n - c.i /\ k <= d.bsz - d.inx /\ (k = c.n - c.i \/ k = d.bsz - d.inx)
  <2>1. c.n - c.i \in Nat \ {0} /\ d.bsz - d.inx \in Nat \ {0}
    BY <1>2
  <2> QED BY <2>1 DEF Least
<1>4. Writing(r, m, 0) /\ WriteCall(r.call)
  BY <1>1, WriteMoved
<1> HIDE DEF k, c
<1>5. k \in Int /\ c.i + 1 \in Int /\ c.i + k \in Int /\ d.inx \in Int
  BY <1>2, <1>3
<1>6. /\ r.medium = d.medium /\ r.pend = d.pend /\ r.pos = d.pos /\ r.crnd = d.crnd
      /\ r.bsz = d.bsz /\ r.cur = d.cur
      /\ r.inx = d.inx + k /\ r.qrnd = d.qrnd + k
      /\ r.bufs[3 - d.cur] = d.bufs[3 - d.cur]
      /\ r.bufs[d.cur] = IF c.fc = "write" THEN o ELSE buf
      /\ SameCall(r.call, d.call) /\ r.call.i = d.call.i + k
      /\ r.call.data = IF c.fc = "read" THEN d.call.data \o SubSeq(buf, d.inx + 1, d.inx + k) ELSE d.call.data
      /\ IF d.inx + k < d.bcnt \/ d.call.i + k = c.n THEN r.call.done ELSE r.call.done = d.call.done
  BY <1>1, <1>5, MovedIs
<1> HIDE DEF r, buf
<1>7. r.bufs[d.cur] = o /\ r.call.data = c.data /\ r.call.n = c.n /\ r.call.i = c.i + k /\ r.call.op = "transfer"
  BY <1>1, <1>6 DEF SameCall, c
<1>8. /\ \A j \in 1..d.inx : o[j] = buf[j]
      /\ \A j \in 1..k : o[d.inx + j] = c.data[c.i + j]
  <2>1. IsSeq(u) /\ Len(u) = k /\ \A j \in 1..k : u[j] = c.data[c.i + j]
    <3>1. c.i \in Int /\ k \in Nat
      BY <1>2, <1>3
    <3> QED BY <1>1, <3>1, SliceSeq
  <2> HIDE DEF u
  <2> DEFINE at == d.inx
  <2>2. IsSeq(buf) /\ IsSeq(u) /\ at \in Int /\ at \in Nat
    BY <1>1, <1>2, <2>1
  <2> HIDE DEF at, o
  <2>3. LET q == Overlay(buf, at, u) IN
        at \in Nat => (\A j \in 1..at : q[j] = buf[j]) /\ (\A j \in 1..Len(u) : q[at + j] = u[j])
    BY <2>2, OverlayIs
  <2> QED BY <2>1, <2>2, <2>3 DEF at, o
<1> HIDE DEF o
<1>9. /\ Len(m) = d.qrnd + (c.n - c.i) /\ \A j \in 1..(c.n - c.i) : m[d.qrnd + j] = c.data[c.i + j]
  BY <1>1 DEF Owes, c
<1>10. Loaded(r.bufs[r.cur], m, r.crnd, r.inx)
  <2>1. Loaded(buf, m, d.crnd, d.inx)
    BY DEF Stowed, buf
  <2>2. ASSUME NEW j \in 1..(d.inx + k) PROVE o[j] = m[d.crnd + j]
    <3>1. CASE j <= d.inx
      <4>1. j \in 1..d.inx
        BY <1>2, <3>1
      <4> QED BY <1>8, <2>1, <4>1 DEF Loaded
    <3>2. CASE ~(j <= d.inx)
      <4> DEFINE l == j - d.inx
      <4>1. l \in 1..k /\ d.inx + l = j /\ l \in 1..(c.n - c.i) /\ d.qrnd + l = d.crnd + j
        BY <1>2, <1>3, <3>2
      <4> HIDE DEF l
      <4>2. o[d.inx + l] = c.data[c.i + l] /\ m[d.qrnd + l] = c.data[c.i + l]
        BY <1>8, <1>9, <4>1
      <4> QED BY <4>1, <4>2
    <3> QED BY <3>1, <3>2
  <2> QED BY <1>6, <1>7, <2>2 DEF Loaded
<1>11. Stowed(r, m)
  BY <1>6, <1>10 DEF Stowed
<1>12. Owes(r, m)
  <2>1. CASE r.call.done
    <3>1. c.i + k = c.n
      BY <1>4, <1>7, <2>1 DEF WriteCall
    <3>2. Len(m) = d.qrnd + k
      BY <1>2, <1>3, <1>9, <3>1
    <3> QED BY <1>6, <2>1, <3>2 DEF Owes
  <2>2. CASE ~r.call.done
    <3>1. Len(m) = (d.qrnd + k) + (c.n - (c.i + k))
      BY <1>2, <1>3, <1>9
    <3>2. ASSUME NEW j \in 1..(c.n - (c.i + k)) PROVE m[(d.qrnd + k) + j] = c.data[(c.i + k) + j]
      <4> DEFINE l == k + j
      <4>1. l \in 1..(c.n - c.i) /\ d.qrnd + l = (d.qrnd + k) + j /\ c.i + l = (c.i + k) + j
        BY <1>2, <1>3
      <4> HIDE DEF l
      <4> QED BY <1>9, <4>1
    <3> QED BY <1>6, <1>7, <2>2, <3>1, <3>2 DEF Owes
  <2> QED BY <2>1, <2>2
<1>13. ASSUME c.i = 0, c.n = d.bsz - d.inx PROVE r.call.done /\ r.inx = r.bsz
  <2>1. k = c.n /\ c.i + k = c.n /\ d.inx + k = d.bsz
    BY <1>2, <1>3, <1>13
  <2> QED BY <1>6, <2>1 DEF c
<1> QED BY <1>4, <1>11, <1>12, <1>13 DEF Holding, r, k, c

LEMMA AimedHolds ==
  ASSUME NEW d, NEW m, NEW e \in Nat, NEW nowait, Aimed(d, m, e)
  PROVE  LET q == Ioseekblk(d, "write", nowait) IN
         /\ q.i > 0 /\ q.i \in Int /\ q.d.call = d.call /\ Filling(q.d, m, 0) /\ Stowed(q.d, m) /\ q.d.inx < q.d.bsz /\ q.d.qrnd = d.qrnd
<1> DEFINE q == Ioseekblk(d, "write", nowait)
<1>1. /\ Typed(d) /\ d.bsz \in Nat \ {0} /\ d.crnd \in Nat /\ d.qrnd = e /\ d.crnd <= e /\ e < d.crnd + d.bsz
      /\ "write" \in {"read", "write"} /\ d.bsz \in Int /\ d.pend.fc = "none" /\ d.pos = d.crnd
      /\ Agrees(d.bufs[d.cur], d.crnd, d.bsz, m, e) /\ Stays(d.medium, m, e)
  BY DEF Aimed, Typed, Counts
<1>2. q.i > 0 /\ q.d.call = d.call /\ Filling(q.d, m, e) /\ q.d.inx < q.d.bsz
  BY AimedPlaced
<1>3. q = Placed(d, d.bsz, "write", nowait)
  <2>1. d.qrnd - d.crnd \in 0..(d.bsz - 1)
    BY <1>1
  <2> QED BY <2>1 DEF Ioseekblk
<1> HIDE DEF q
<1>4. /\ q.i = d.bsz /\ q.d.inx = d.qrnd - d.crnd /\ q.d.bsz = d.bsz /\ q.d.cur = d.cur
      /\ q.d.crnd = d.crnd /\ q.d.qrnd = d.qrnd /\ q.d.pend = d.pend
      /\ q.d.pos = d.pos /\ q.d.medium = d.medium /\ q.d.bufs = d.bufs
  BY <1>1, <1>3, PlacedIs
<1>5. Filling(q.d, m, 0)
  <2>1. Typed(q.d) /\ q.d.qrnd \in Nat /\ Len(q.d.medium) \in Nat
    BY <1>1, <1>2, <1>4, JoinSeq DEF Filling, Typed
  <2>2. Agrees(q.d.bufs[q.d.cur], q.d.crnd, q.d.bsz, m, 0)
    BY <1>1, <1>4 DEF Agrees
  <2>3. Stays(q.d.medium, m, 0)
    BY <2>1 DEF Stays
  <2>4. Queue(q.d, m, 0)
    BY <1>1, <1>2, <1>4 DEF Filling, Queue
  <2> QED BY <1>2, <2>1, <2>2, <2>3, <2>4 DEF Filling
<1>6. Stays(q.d.medium, m, q.d.pos)
  <2>1. Len(d.medium) \in Nat
    BY <1>1, JoinSeq DEF Typed
  <2>2. d.crnd \in 0..Len(d.medium)
    BY <1>1, <2>1 DEF Stays
  <2>3. ASSUME NEW k \in 1..d.crnd PROVE k \in 1..e
    BY <1>1
  <2> QED BY <1>1, <1>4, <2>2, <2>3 DEF Stays
<1>7. Loaded(q.d.bufs[q.d.cur], m, q.d.crnd, q.d.inx)
  <2>1. ASSUME NEW k \in 1..(d.qrnd - d.crnd) PROVE k \in 1..d.bsz /\ d.crnd + k <= e
    BY <1>1
  <2> QED BY <1>1, <1>4, <2>1 DEF Loaded, Agrees
<1>8. Stowed(q.d, m)
  BY <1>1, <1>4, <1>6, <1>7 DEF Stowed
<1> QED BY <1>1, <1>2, <1>4, <1>5, <1>8 DEF q

\* A turn of iordwr that writes, on a unit that was written or is about to be.
LEMMA HoldWrite ==
  ASSUME NEW d, NEW m, WriteCall(d.call), ~d.call.done, Owes(d, m),
         Holding(d, m) \/ (\E e \in Nat : Aimed(d, m, e) /\ d.call.n # 0)
  PROVE  LET r == Io(d) IN
         /\ \/ Holding(r, m) /\ WriteCall(r.call) /\ Owes(r, m)
            \/ Typed(r) /\ Refused(r.call)
         /\ Holding(d, m) /\ Brim(d) => Holding(r, m) /\ WriteCall(r.call) /\ Owes(r, m) /\ Brim(r)
<1> DEFINE c == d.call
           q == Ioseekblk(d, "write", c.nowait)
           r == Io(d)
<1>1. Typed(d) /\ ~d.rnd /\ c.fc = "write" /\ c.op = "transfer" /\ c.n \in Nat /\ c.i \in 0..c.n /\ (c.i < c.n \/ c.n = 0)
  BY DEF Holding, Writing, Filling, Aimed, WriteCall
<1>2. CASE c.n = 0
  <2>1. r = Returned(d, 0) /\ 0 \in Int
    BY <1>1, <1>2 DEF Io, Iordwr
  <2>2. Apart(r, d) /\ SameCall(r.call, c) /\ r.call.i = 0 /\ r.call.done
    BY <1>1, <2>1, ReturnedApart
  <2> HIDE DEF r
  <2>3. Holding(r, m) /\ r.qrnd = d.qrnd
    BY <1>2, <2>2, HoldApart
  <2>4. WriteCall(r.call)
    BY <1>1, <1>2, <2>2 DEF SameCall, WriteCall
  <2>5. Len(m) = d.qrnd
    <3>1. Len(m) = d.qrnd + (c.n - c.i)
      BY <1>1 DEF Owes
    <3>2. c.n - c.i = 0 /\ d.qrnd \in Int
      BY <1>1, <1>2 DEF Typed, Counts
    <3> QED BY <3>1, <3>2
  <2>6. Owes(r, m)
    BY <2>2, <2>3, <2>5 DEF Owes
  <2>7. ~Brim(d)
    BY <1>2 DEF Brim
  <2> QED BY <2>3, <2>4, <2>6, <2>7 DEF r
<1>3. CASE c.n # 0
  <2>1. r = Transferred(q, c)
    BY <1>1, <1>3 DEF Io, Iordwr
  <2> HIDE DEF r
  <2>2. /\ q.d.call = c
        /\ \/ q.i = -1 /\ Broken(q.d) /\ Holding(d, m)
           \/ q.i > 0 /\ q.i \in Int /\ Filling(q.d, m, 0) /\ Stowed(q.d, m) /\ q.d.inx < q.d.bsz /\ q.d.qrnd = d.qrnd
    <3>1. CASE Holding(d, m)
      BY <3>1, HoldSeek DEF Holding, Writing
    <3>2. CASE \E e \in Nat : Aimed(d, m, e)
      BY <3>2, AimedHolds
    <3> QED BY <3>1, <3>2
  <2>3. ASSUME Holding(d, m), Brim(d) PROVE q.d.inx = d.inx /\ q.d.bsz = d.bsz /\ q.i # -1 /\ c.i = 0 /\ c.n = d.bsz - d.inx
    <3>1. c.i = 0 /\ c.n = d.bsz - d.inx /\ c.n > 0 /\ d.inx \in 0..d.bsz /\ d.bsz \in Nat
      BY <2>3, HoldingIs DEF Brim
    <3>2. d.inx < d.bsz
      BY <3>1
    <3>3. q = Placed(d, d.bsz, "write", c.nowait)
      <4>1. d.crnd \in Nat /\ d.qrnd = d.crnd + d.inx
        BY <2>3, HoldingIs
      <4>2. d.qrnd - d.crnd \in 0..(d.bsz - 1)
        BY <3>1, <3>2, <4>1
      <4> QED BY <4>2 DEF Ioseekblk
    <3> HIDE DEF q, c
    <3>4. q.i = d.bsz
      BY <1>1, <3>3, PlacedIs
    <3>5. q.i # -1
      BY <3>1, <3>4
    <3> QED BY <2>2, <2>3, <3>1, <3>2, <3>5, HoldSeek DEF q, c
  <2> HIDE DEF q
  <2>4. CASE q.i = -1 /\ Broken(q.d) /\ Holding(d, m)
    <3>1. r = Failed(q.d, -1) /\ -1 \in Int /\ 0 \in Nat
      BY <2>1, <2>4 DEF Transferred
    <3>2. Dead(r, <<>>, 0) /\ SameCall(r.call, q.d.call) /\ r.call.i = -1 /\ r.call.done
      BY <2>4, <3>1, FailedDead DEF Broken
    <3>3. Typed(r) /\ SameCall(r.call, c)
      BY <2>2, <3>2 DEF Dead
    <3>4. r.call.n = c.n /\ -1 # c.n
      BY <1>1, <3>3 DEF SameCall
    <3>5. Refused(r.call)
      BY <1>1, <3>2, <3>3, <3>4 DEF SameCall, Refused
    <3> QED BY <2>3, <2>4, <3>3, <3>5 DEF r
  <2>5. CASE q.i > 0 /\ q.i \in Int /\ Filling(q.d, m, 0) /\ Stowed(q.d, m) /\ q.d.inx < q.d.bsz /\ q.d.qrnd = d.qrnd
    <3>1. r = Moved(q.d, c, Least(c.n - c.i, q.d.bsz - q.d.inx))
      <4>1. ~(q.i < 0) /\ q.i # 0
        BY <2>5
      <4> QED BY <1>1, <2>1, <4>1 DEF Transferred
    <3>2. c.i < c.n
      BY <1>1, <1>3
    <3>3. Owes(q.d, m)
      BY <2>2, <2>5 DEF Owes
    <3> HIDE DEF c
    <3>4. WriteCall(q.d.call) /\ ~q.d.call.done /\ q.d.call.i < q.d.call.n
      BY <2>2, <3>2 DEF c
    <3>5. /\ Holding(r, m) /\ WriteCall(r.call) /\ Owes(r, m)
          /\ c.i = 0 /\ c.n = q.d.bsz - q.d.inx => r.call.done /\ r.inx = r.bsz
      BY <2>2, <2>5, <3>1, <3>3, <3>4, HoldMoved
    <3>6. Holding(d, m) /\ Brim(d) => Brim(r)
      BY <2>3, <3>5 DEF Brim
    <3> QED BY <3>5, <3>6 DEF r
  <2> QED BY <2>2, <2>4, <2>5
<1> QED BY <1>2, <1>3

-----------------------------------------------------------------------------
(* The close, and a unit that is new *)

LEMMA ClosedIs ==
  ASSUME NEW s, TypedAnswer(s)
  PROVE  LET r == Closed(s)  p == Performed(s.d) IN
         /\ Typed(r) /\ r.medium = p.medium /\ r.bcnt = p.bcnt /\ r.bsz = p.bsz /\ ~r.writ /\ r.pend.fc = "none"
         /\ SameCall(r.call, s.d.call) /\ r.call.done /\ r.call.i = IF s.i < 0 THEN s.i ELSE 0
<1> DEFINE p == Performed(s.d)
           g == [p EXCEPT !.writ = FALSE]
           i == IF s.i < 0 THEN s.i ELSE 0
           r == Closed(s)
<1>1. Typed(p) /\ p.pend.fc = "none" /\ p.call = s.d.call /\ i \in Int /\ r = Returned(g, i)
  BY PerformedTyped, PerformedIs DEF TypedAnswer, Closed, Rest
<1> HIDE DEF p, i, r
<1>2. Typed(g) /\ ~g.writ /\ \A f \in UnitFields \ {"writ"} : g[f] = p[f]
  BY <1>1 DEF Typed, UnitFields, Counts
<1> HIDE DEF g
<1>3. Apart(r, g) /\ SameCall(r.call, g.call) /\ r.call.i = i /\ r.call.done
  BY <1>1, <1>2, ReturnedApart
<1>4. /\ Typed(r) /\ r.medium = p.medium /\ r.bcnt = p.bcnt /\ r.bsz = p.bsz /\ ~r.writ /\ r.pend = p.pend /\ g.call = p.call
  BY <1>2, <1>3 DEF Apart, UnitFields
<1> QED BY <1>1, <1>3, <1>4 DEF r, p, i

\* The last block goes to the medium, or the close says that it did not.
LEMMA HoldClose ==
  ASSUME NEW d, NEW m, Holding(d, m), d.inx = d.bsz, Len(m) = d.qrnd, d.call.op = "close"
  PROVE  LET r == Io(d) IN r.call.op = "close" /\ r.call.done /\ (r.call.i < 0 \/ Settled(r, m))
<1> DEFINE p == Performed(d)
           n == d.inx
           s == Iosvc(d, "write", FALSE, n)
           r == Io(d)
<1>1. /\ Typed(d) /\ d.bsz \in Nat \ {0} /\ d.crnd \in Nat /\ d.qrnd = d.crnd + n /\ d.writ /\ n > 0 /\ n \in Nat /\ n \in Int
      /\ n = d.bsz /\ d.cur \in {1, 2} /\ d.bcnt \in 0..d.bsz /\ "write" \in {"read", "write"}
  BY HoldingIs DEF Filling
<1>2. Holding(p, m) /\ p.pend.fc = "none" /\ Rest(p, d) /\ p.bufs = d.bufs
  BY HoldDevice
<1>3. r = Closed(s) /\ s = Waited(p, "write", n)
  BY <1>1 DEF Io, Ioclose, Iosvc
<1>4. TypedAnswer(s) /\ s.d.call = d.call
  <2>1. s = IF d.writ /\ d.inx > 0 THEN Iosvc(d, "write", FALSE, d.inx) ELSE Answer(d, 0)
    BY <1>1
  <2> HIDE DEF s
  <2> QED BY <1>1, <2>1, LastBuffer
<1> HIDE DEF r, s, p, n
<1>5. /\ Typed(r) /\ r.medium = Performed(s.d).medium /\ r.bcnt = Performed(s.d).bcnt /\ r.bsz = Performed(s.d).bsz
      /\ ~r.writ /\ r.pend.fc = "none"
      /\ SameCall(r.call, s.d.call) /\ r.call.done /\ r.call.i = IF s.i < 0 THEN s.i ELSE 0
  BY <1>3, <1>4, ClosedIs
<1>6. Queue(p, m, 0) /\ Stowed(p, m) /\ p.crnd = d.crnd /\ p.bsz = d.bsz /\ p.inx = n /\ p.cur = d.cur /\ p.bcnt = d.bcnt
      /\ Typed(p)
  BY <1>1, <1>2, HoldingIs DEF Rest
<1>7. CASE p.req /\ p.res <= 0
  <2>1. s = Answer(p, p.res)
    BY <1>3, <1>7 DEF Waited
  <2>2. p.res = -1
    BY <1>1, <1>2, <1>6, <1>7 DEF Queue
  <2>3. s.i < 0
    BY <2>1, <2>2 DEF Answer
  <2>4. r.call.i < 0
    BY <1>5, <2>3
  <2> QED BY <1>4, <1>5, <2>4 DEF SameCall, r
<1>8. CASE ~(p.req /\ p.res <= 0)
  <2> DEFINE g == Requested(p, "write", p.cur, n)
             w == Performed(g)
             x == [w EXCEPT !.writ = FALSE]
  <2>1. s = Written(w)
    BY <1>3, <1>8 DEF Waited
  <2>2. p.pos = d.crnd
    BY <1>2, <1>6, <1>8 DEF Queue
  <2>3. Typed(g)
    BY <1>1, <1>6, RequestedTyped
  <2>4. /\ g.pend = [fc |-> "write", buf |-> p.cur, n |-> n]
        /\ g.medium = p.medium /\ g.bufs = p.bufs /\ g.pos = d.crnd /\ g.call = p.call /\ g.bcnt = d.bcnt /\ g.bsz = d.bsz
    BY <1>6, <2>2 DEF Requested, Typed, UnitFields
  <2> HIDE DEF g
  <2>5. g.pend.fc = "write" /\ g.pend.n = n /\ g.pend.buf = p.cur
    BY <2>4
  <2>6. Typed(w) /\ w.pend.fc = "none" /\ w.bcnt = d.bcnt /\ w.bsz = d.bsz
    BY <2>3, <2>4, PerformedTyped, PerformedIs DEF Rest
  <2>7. /\ g.pos + n > g.capacity => w.res = -1
        /\ ~(g.pos + n > g.capacity) => w.medium = Overlay(g.medium, g.pos, SubSeq(g.bufs[p.cur], 1, n))
    BY <2>3, <2>5, PerformedWrite
  <2>8. Stays(Overlay(g.medium, g.pos, SubSeq(g.bufs[p.cur], 1, n)), m, Len(m))
    <3>1. Stays(p.medium, m, d.crnd) /\ Loaded(p.bufs[p.cur], m, d.crnd, n)
      BY <1>6, <2>2 DEF Stowed
    <3>2. IsSeq(p.medium) /\ IsSeq(p.bufs[p.cur])
      BY <1>1, <1>6 DEF Typed, Buffers
    <3>3. Stays(Overlay(p.medium, d.crnd, SubSeq(p.bufs[p.cur], 1, n)), m, d.crnd + n)
      BY <1>1, <3>1, <3>2, LaidBehind
    <3> QED BY <1>1, <2>4, <3>3
  <2> HIDE DEF w
  <2>9. /\ Typed(x) /\ x.medium = w.medium /\ x.pend = w.pend /\ x.bcnt = w.bcnt /\ x.bsz = w.bsz
    BY <2>6 DEF Typed, UnitFields, Counts
  <2>10. s.d = x /\ s.i = w.res
    BY <2>1 DEF Written, Answer
  <2> HIDE DEF x
  <2>11. Performed(s.d) = x
    BY <2>6, <2>9, <2>10, PerformedIs
  <2>12. CASE g.pos + n > g.capacity
    <3>1. s.i < 0
      BY <2>7, <2>10, <2>12
    <3>2. r.call.i < 0
      BY <1>5, <3>1
    <3> QED BY <1>4, <1>5, <3>2 DEF SameCall, r
  <2>13. CASE ~(g.pos + n > g.capacity)
    <3>1. Stays(r.medium, m, Len(m))
      BY <1>5, <2>7, <2>8, <2>9, <2>11, <2>13
    <3>2. r.bcnt \in 0..r.bsz
      BY <1>1, <1>5, <2>6, <2>9, <2>11
    <3>3. Settled(r, m)
      BY <1>5, <3>1, <3>2 DEF Settled, Dead
    <3> QED BY <1>4, <1>5, <3>3 DEF SameCall, r
  <2> QED BY <2>12, <2>13
<1> QED BY <1>7, <1>8

\* What has no room is refused again, and the close says so.
LEMMA BrokenClose ==
  ASSUME NEW d, Broken(d), d.call.op = "close"
  PROVE  LET r == Io(d) IN r.call.op = "close" /\ r.call.done /\ r.call.i < 0
<1> DEFINE n == d.inx
           g == Requested(d, "write", d.cur, n)
           w == Performed(g)
           x == [w EXCEPT !.writ = FALSE]
           s == Iosvc(d, "write", FALSE, n)
           r == Io(d)
<1>1. /\ Typed(d) /\ d.pend.fc = "none" /\ ~d.req /\ d.pos + n > d.capacity /\ d.writ /\ n > 0 /\ n \in Int /\ d.cur \in {1, 2}
      /\ "write" \in {"read", "write"}
  BY DEF Broken, Dead, Typed, Counts
<1>2. Performed(d) = d
  BY <1>1, PerformedIs
<1>3. r = Closed(s) /\ s = Waited(d, "write", n)
  BY <1>1, <1>2 DEF Io, Ioclose, Iosvc
<1>4. s = Written(w)
  BY <1>1, <1>3 DEF Waited
<1>5. TypedAnswer(s) /\ s.d.call = d.call
  <2>1. s = IF d.writ /\ d.inx > 0 THEN Iosvc(d, "write", FALSE, d.inx) ELSE Answer(d, 0)
    BY <1>1
  <2> HIDE DEF s
  <2> QED BY <1>1, <2>1, LastBuffer
<1>6. Typed(g)
  BY <1>1, RequestedTyped
<1>7. g.pend = [fc |-> "write", buf |-> d.cur, n |-> n] /\ g.pos = d.pos /\ g.capacity = d.capacity
  BY <1>1 DEF Requested, Typed, UnitFields
<1> HIDE DEF g, s, r
<1>8. g.pend.fc = "write" /\ g.pend.n = n
  BY <1>7
<1>9. w.res = -1
  BY <1>1, <1>6, <1>7, <1>8, PerformedWrite
<1> HIDE DEF w
<1>10. s.i < 0
  BY <1>4, <1>9 DEF Written, Answer
<1>11. SameCall(r.call, s.d.call) /\ r.call.done /\ r.call.i = IF s.i < 0 THEN s.i ELSE 0
  BY <1>3, <1>5, ClosedIs
<1>12. r.call.i < 0
  BY <1>10, <1>11
<1> QED BY <1>5, <1>11, <1>12 DEF SameCall, r

\* A unit that has nothing to write is closed.
LEMMA SettledClose ==
  ASSUME NEW d, NEW m, Settled(d, m), d.call.op = "close"
  PROVE  LET r == Io(d) IN r.call.op = "close" /\ r.call.done /\ Settled(r, m)
<1> DEFINE s == Answer(d, 0)
           r == Io(d)
<1>1. Typed(d) /\ ~d.writ /\ d.bcnt \in 0..d.bsz
  BY DEF Settled, Dead
<1>2. r = Closed(s) /\ s.d = d
  BY <1>1 DEF Io, Ioclose, Answer
<1>3. TypedAnswer(s)
  BY <1>1 DEF TypedAnswer, Answer
<1> HIDE DEF r, s
<1>4. /\ Typed(r) /\ r.medium = Performed(d).medium /\ r.bcnt = Performed(d).bcnt /\ r.bsz = Performed(d).bsz
      /\ ~r.writ /\ r.pend.fc = "none" /\ SameCall(r.call, d.call) /\ r.call.done
  BY <1>2, <1>3, ClosedIs
<1>5. r.bcnt \in 0..r.bsz
  BY <1>1, <1>4, PerformedIs DEF Rest
<1>6. Stays(r.medium, m, Len(m))
  <2>1. Len(m) \in Nat
    BY DEF Settled, Dead, Stays
  <2>2. Dead(Performed(d), m, Len(m))
    BY <2>1, DeadDevice DEF Settled
  <2> QED BY <1>4, <2>2 DEF Dead
<1> QED BY <1>4, <1>5, <1>6 DEF Settled, Dead, SameCall, r

LEMMA SettledDevice ==
  ASSUME NEW d, NEW m, Settled(d, m)
  PROVE  Settled(Performed(d), m) /\ Performed(d).call = d.call
<1>1. Typed(d) /\ Dead(d, m, Len(m)) /\ Len(m) \in Nat
  BY DEF Settled, Dead, Stays
<1>2. Dead(Performed(d), m, Len(m)) /\ Performed(d).call = d.call
  BY <1>1, DeadDevice
<1>3. Rest(Performed(d), d)
  BY <1>1, PerformedIs
<1> QED BY <1>2, <1>3 DEF Settled, Rest

LEMMA BrokenDevice ==
  ASSUME NEW d, Broken(d)
  PROVE  Performed(d) = d
BY PerformedIs DEF Broken, Dead

LEMMA PoisedDevice ==
  ASSUME NEW d, NEW m, Poised(d, m)
  PROVE  Poised(Performed(d), m) /\ Performed(d).call = d.call /\ Performed(d).qrnd = d.qrnd
<1>1. CASE Aimed(d, m, d.qrnd)
  <2>1. Performed(d) = d
    BY <1>1, PerformedIs DEF Aimed
  <2> QED BY <2>1
<1>2. CASE Turned(d, d.medium, d.qrnd) /\ Stays(d.medium, m, d.qrnd)
  <2>1. Turned(Performed(d), d.medium, d.qrnd) /\ Performed(d).call = d.call
    BY <1>2, TurnedDevice
  <2>2. Performed(d).medium = d.medium /\ Performed(d).qrnd = d.qrnd
    BY <2>1 DEF Turned, Quiet
  <2> QED BY <1>2, <2>1, <2>2 DEF Poised
<1> QED BY <1>1, <1>2 DEF Poised

\* The first turn after a seek, or the first block of a medium.
LEMMA PoisedTurn ==
  ASSUME NEW d, NEW m, Poised(d, m), WriteCall(d.call), ~d.call.done, d.call.n # 0, Owes(d, m)
  PROVE  LET r == Io(d) IN
         \/ Poised(r, m) /\ r.call = d.call /\ Owes(r, m)
         \/ Holding(r, m) /\ WriteCall(r.call) /\ Owes(r, m)
         \/ Refused(r.call)
<1> DEFINE e == d.qrnd
           r == Io(d)
<1>1. e \in Nat
  BY DEF Poised
<1>2. CASE Aimed(d, m, e)
  BY <1>1, <1>2, HoldWrite
<1>3. CASE Turned(d, d.medium, e) /\ Stays(d.medium, m, e)
  <2> HIDE DEF e
  <2>1. Aimed(r, d.medium, e) /\ r.call = d.call
    BY <1>1, <1>3, AimTurn
  <2> HIDE DEF r
  <2>2. \A k \in 1..e : d.medium[k] = m[k]
    BY <1>3 DEF Stays
  <2>3. Agrees(r.bufs[r.cur], r.crnd, r.bsz, m, e)
    <3>1. r.crnd \in Nat /\ Agrees(r.bufs[r.cur], r.crnd, r.bsz, d.medium, e)
      BY <2>1 DEF Aimed
    <3>2. ASSUME NEW k \in 1..r.bsz, r.crnd + k <= e PROVE r.crnd + k \in 1..e
      BY <1>1, <3>1, <3>2
    <3> QED BY <2>2, <3>1, <3>2 DEF Agrees
  <2>4. Stays(r.medium, m, e)
    BY <2>1, <2>2 DEF Aimed, Stays
  <2>5. Aimed(r, m, e) /\ r.qrnd = e
    BY <2>1, <2>3, <2>4 DEF Aimed
  <2>6. Owes(r, m)
    BY <2>1, <2>5 DEF Owes, e
  <2> QED BY <1>1, <2>1, <2>5, <2>6 DEF Poised, r
<1> QED BY <1>2, <1>3 DEF Poised

\* A medium at its first block, whatever it held.
LEMMA PoisedNew ==
  ASSUME NEW u, NEW s, u.bcnt \in 0..u.bsz, Typed(Ioopcre(u, s))
  PROVE  LET d == Ioopcre(u, s) IN Poised(d, <<>>) /\ d.qrnd = 0 /\ d.call = NoCall
<1> DEFINE d == Ioopcre(u, s)
<1>1. /\ d.bcnt = u.bcnt /\ d.bsz = u.bsz /\ d.crnd = 0 /\ d.qrnd = 0 /\ d.ernd = 0 /\ d.pos = 0
      /\ ~d.rnd /\ ~d.writ /\ ~d.req /\ d.pend.fc = "none" /\ d.call = NoCall
  BY DEF Ioopcre, NoRequest
<1> HIDE DEF d
<1>2. Typed(d) /\ d.bsz \in Nat \ {0} /\ Len(d.medium) \in Nat
  BY JoinSeq DEF d, Typed, Counts
<1>3. Stays(d.medium, <<>>, 0)
  BY <1>2 DEF Stays
<1>4. Agrees(d.bufs[d.cur], 0, d.bsz, <<>>, 0)
  BY <1>2 DEF Agrees
<1>5. Aimed(d, <<>>, 0)
  BY <1>1, <1>2, <1>3, <1>4 DEF Aimed
<1> QED BY <1>1, <1>5 DEF Poised, d

-----------------------------------------------------------------------------
(* Where the unit is as the program goes on *)

EarlyPcs == {"next", "put", "head", "volume", "data", "chunk", "end", "fill", "filled"}
Berth(pc, d, m) ==
  LET c == d.call IN
  \/ pc \in {"next", "put", "head", "volume"} /\ Poised(d, m) /\ c.done /\ ~Refused(c) /\ Len(m) = d.qrnd
  \/ pc \in {"next", "data", "fill"} /\ Poised(d, m) /\ WriteCall(c) /\ ~c.done /\ c.n # 0 /\ Owes(d, m)
  \/ /\ pc \in EarlyPcs /\ Holding(d, m) /\ Owes(d, m) /\ (WriteCall(c) \/ LeftCall(pc, c))
     /\ pc = "filled" => c.op = "left" /\ (c.done => c.i = d.bsz - d.inx)
  \/ pc \in {"shut", "over"} /\ Holding(d, m) /\ Owes(d, m) /\ WriteCall(c) /\ Brim(d)
  \/ pc \in {"mount", "closed"} /\ c.op = "close" /\ ~c.done /\ Holding(d, m) /\ Len(m) = d.qrnd /\ d.inx = d.bsz
  \/ pc \in {"mount", "over", "closed"} /\ Settled(d, m) /\ (c.done \/ (pc = "closed" /\ c.op = "close"))
\* a block did not get to the medium: the program is told, or will be by the close
Short(pc, d) ==
  LET c == d.call IN
  \/ pc \in EarlyPcs /\ Refused(c)
  \/ pc \in {"chunk", "filled"} /\ Broken(d) /\ c.op = "left" /\ c.done /\ c.i <= 0
  \/ pc \in {"shut", "over"} /\ Broken(d) /\ c.op = "transfer" /\ c.fc = "write" /\ c.n = 0 /\ c.i = 0
  \/ pc \in {"mount", "closed"} /\ c.op = "close" /\ (IF c.done THEN c.i < 0 ELSE Broken(d))

\* A turn of the call that is under way.
LEMMA BerthTurn ==
  ASSUME NEW pc, NEW d, NEW m, Berth(pc, d, m), ~d.call.done
  PROVE  Berth(pc, Io(d), m) \/ Short(pc, Io(d))
<1> DEFINE c == d.call
           r == Io(d)
<1>1. CASE pc \in {"next", "data", "fill"} /\ Poised(d, m) /\ WriteCall(c) /\ c.n # 0 /\ Owes(d, m)
  <2>1. \/ Poised(r, m) /\ r.call = c /\ Owes(r, m)
        \/ Holding(r, m) /\ WriteCall(r.call) /\ Owes(r, m)
        \/ Refused(r.call)
    BY <1>1, PoisedTurn
  <2> HIDE DEF r
  <2> QED BY <1>1, <2>1 DEF Berth, Short, EarlyPcs, r
<1>2. CASE pc \in EarlyPcs /\ Holding(d, m) /\ Owes(d, m) /\ WriteCall(c) /\ pc # "filled"
  <2>1. (Holding(r, m) /\ WriteCall(r.call) /\ Owes(r, m)) \/ Refused(r.call)
    BY <1>2, HoldWrite
  <2> HIDE DEF r
  <2> QED BY <1>2, <2>1 DEF Berth, Short, r
<1>3. CASE pc \in EarlyPcs /\ Holding(d, m) /\ Owes(d, m) /\ LeftCall(pc, c)
  <2>1. /\ r.call.op = "left" /\ r.call.fc = "write" /\ r.call.done
        /\ \/ Holding(r, m) /\ r.call.i > 0 /\ r.call.i = r.bsz - r.inx /\ r.qrnd = d.qrnd
           \/ Broken(r) /\ r.call.i <= 0
    BY <1>3, HoldLeft DEF LeftCall
  <2>2. pc \in {"chunk", "filled"} /\ Len(m) = d.qrnd
    BY <1>3 DEF LeftCall, Owes
  <2> HIDE DEF r
  <2>3. ASSUME Holding(r, m), r.call.i > 0, r.call.i = r.bsz - r.inx, r.qrnd = d.qrnd PROVE Berth(pc, r, m)
    <3>1. Owes(r, m)
      BY <2>1, <2>2, <2>3 DEF Owes
    <3>2. LeftCall(pc, r.call)
      BY <2>1, <2>3 DEF LeftCall
    <3> QED BY <1>3, <2>1, <2>3, <3>1, <3>2 DEF Berth
  <2> QED BY <2>1, <2>2, <2>3 DEF Short, r
<1>4. CASE pc \in {"shut", "over"} /\ Holding(d, m) /\ Owes(d, m) /\ WriteCall(c) /\ Brim(d)
  <2>1. Holding(r, m) /\ WriteCall(r.call) /\ Owes(r, m) /\ Brim(r)
    BY <1>4, HoldWrite
  <2> HIDE DEF r
  <2> QED BY <1>4, <2>1 DEF Berth, r
<1>5. CASE pc \in {"mount", "closed"} /\ c.op = "close" /\ Holding(d, m) /\ Len(m) = d.qrnd /\ d.inx = d.bsz
  <2>1. r.call.op = "close" /\ r.call.done /\ (r.call.i < 0 \/ Settled(r, m))
    BY <1>5, HoldClose
  <2> HIDE DEF r
  <2> QED BY <1>5, <2>1 DEF Berth, Short, r
<1>6. CASE pc = "closed" /\ Settled(d, m) /\ c.op = "close"
  <2>1. r.call.done /\ Settled(r, m)
    BY <1>6, SettledClose
  <2> HIDE DEF r
  <2> QED BY <1>6, <2>1 DEF Berth, r
<1>7. pc = "filled" /\ WriteCall(c) => c.op # "left"
  BY DEF WriteCall
<1> QED BY <1>1, <1>2, <1>3, <1>4, <1>5, <1>6, <1>7 DEF Berth

LEMMA ShortTurn ==
  ASSUME NEW pc, NEW d, Short(pc, d), ~d.call.done
  PROVE  Short(pc, Io(d))
<1> DEFINE c == d.call
           r == Io(d)
<1>1. CASE pc \in {"shut", "over"} /\ Broken(d) /\ c.op = "transfer" /\ c.fc = "write" /\ c.n = 0 /\ c.i = 0
  <2>1. r = Returned(d, 0) /\ 0 \in Int /\ Typed(d)
    BY <1>1 DEF Io, Iordwr, Broken, Dead
  <2>2. Apart(r, d) /\ SameCall(r.call, c) /\ r.call.i = 0
    BY <2>1, ReturnedApart
  <2>3. Broken(r)
    BY <1>1, <2>2, HoldApart
  <2> HIDE DEF r
  <2> QED BY <1>1, <2>2, <2>3 DEF SameCall, Short, r
<1>2. CASE pc \in {"mount", "closed"} /\ c.op = "close" /\ Broken(d)
  <2>1. r.call.op = "close" /\ r.call.done /\ r.call.i < 0
    BY <1>2, BrokenClose
  <2> HIDE DEF r
  <2> QED BY <1>2, <2>1 DEF Short, r
<1> QED BY <1>1, <1>2 DEF Short, Refused

\* The device gets to the request.
LEMMA BerthDevice ==
  ASSUME NEW pc, NEW d, NEW m, Berth(pc, d, m)
  PROVE  Berth(pc, Performed(d), m)
<1> DEFINE r == Performed(d)
<1>1. Poised(d, m) => Poised(r, m) /\ r.call = d.call /\ r.qrnd = d.qrnd
  BY PoisedDevice
<1>2. Holding(d, m) => Holding(r, m) /\ r.call = d.call /\ r.qrnd = d.qrnd /\ r.inx = d.inx /\ r.bsz = d.bsz
  BY HoldDevice DEF Rest
<1>3. Settled(d, m) => Settled(r, m) /\ r.call = d.call
  BY SettledDevice
<1> HIDE DEF r
<1>4. r.call = d.call /\ r.qrnd = d.qrnd /\ Owes(d, m) => Owes(r, m)
  BY DEF Owes
<1>5. r.call = d.call /\ r.inx = d.inx /\ r.bsz = d.bsz /\ Brim(d) => Brim(r)
  BY DEF Brim
<1> QED BY <1>1, <1>2, <1>3, <1>4, <1>5 DEF Berth, r

LEMMA ShortDevice ==
  ASSUME NEW pc, NEW d, Typed(d), Short(pc, d)
  PROVE  Short(pc, Performed(d))
<1> DEFINE r == Performed(d)
<1>1. r.call = d.call
  BY PerformedIs DEF Rest
<1>2. Broken(d) => r = d
  BY BrokenDevice
<1> HIDE DEF r
<1> QED BY <1>1, <1>2 DEF Short, r

\* What the unit holds once the call of io has returned and the program goes on.
LEMMA BerthReady ==
  ASSUME NEW pc \in EarlyPcs, NEW d, NEW m, Berth(pc, d, m), d.call.done
  PROVE  /\ Len(m) = d.qrnd
         /\ \/ pc \in {"next", "put", "head", "volume"} /\ Poised(d, m)
            \/ Holding(d, m) /\ (WriteCall(d.call) \/ LeftCall(pc, d.call))
         /\ pc = "filled" => Holding(d, m) /\ d.call.i = d.bsz - d.inx /\ d.call.i > 0
<1>1. pc \notin {"shut", "over", "mount", "closed"}
  BY DEF EarlyPcs
<1>2. CASE pc \in {"next", "put", "head", "volume"} /\ Poised(d, m) /\ Len(m) = d.qrnd
  BY <1>2
<1>3. CASE /\ Holding(d, m) /\ Owes(d, m) /\ (WriteCall(d.call) \/ LeftCall(pc, d.call))
           /\ pc = "filled" => d.call.op = "left" /\ d.call.i = d.bsz - d.inx
  <2>1. Len(m) = d.qrnd
    BY <1>3 DEF Owes
  <2>2. pc = "filled" => d.call.i > 0
    BY <1>3 DEF WriteCall, LeftCall
  <2> QED BY <1>3, <2>1, <2>2
<1> QED BY <1>1, <1>2, <1>3 DEF Berth

LEMMA ShortReady ==
  ASSUME NEW pc \in EarlyPcs, NEW d, Short(pc, d), ~Refused(d.call)
  PROVE  pc \in {"chunk", "filled"} /\ Broken(d) /\ d.call.i <= 0
BY DEF Short, EarlyPcs

\* The program goes on without a call.
LEMMA BerthStay ==
  ASSUME NEW pc \in {"next", "put", "data", "chunk", "end"}, NEW to \in {"next", "put", "head", "volume", "end"},
         NEW d, NEW m, Berth(pc, d, m), d.call.done, ~Refused(d.call), to = "end" => pc \in {"data", "chunk"}
  PROVE  Berth(to, d, m)
<1>1. pc \in EarlyPcs /\ to \in EarlyPcs
  BY DEF EarlyPcs
<1>2. /\ Len(m) = d.qrnd
      /\ \/ pc \in {"next", "put", "head", "volume"} /\ Poised(d, m)
         \/ Holding(d, m) /\ (WriteCall(d.call) \/ LeftCall(pc, d.call))
  BY <1>1, BerthReady
<1>3. Owes(d, m)
  BY <1>2 DEF Owes
<1>4. LeftCall(pc, d.call) => LeftCall(to, d.call)
  BY DEF LeftCall
<1> QED BY <1>1, <1>2, <1>3, <1>4 DEF Berth

\* The program writes blocks.
LEMMA BerthWrite ==
  ASSUME NEW pc \in {"next", "head", "volume", "chunk", "end", "filled"}, NEW to \in EarlyPcs \ {"filled"},
         NEW d, NEW m, IsSeq(m), Berth(pc, d, m), d.call.done,
         NEW data, IsSeq(data), NEW n, n = Len(data), NEW s,
         pc \in {"next", "head", "volume"} => n # 0 /\ to \in {"next", "data", "fill"}
  PROVE  Berth(to, Called(d, "transfer", "write", s, data, n), m \o data)
<1> DEFINE r == Called(d, "transfer", "write", s, data, n)
           w == m \o data
<1>1. pc \in EarlyPcs /\ "write" \in {"read", "write"}
  BY DEF EarlyPcs
<1>2. Len(m) = d.qrnd /\ ((pc \in {"next", "head", "volume"} /\ Poised(d, m)) \/ Holding(d, m))
  BY <1>1, BerthReady
<1>3. /\ IsSeq(w) /\ Len(m) \in Nat /\ n \in Nat /\ n \in Int /\ Len(w) = Len(m) + n
      /\ \A k \in 1..Len(m) : w[k] = m[k]
      /\ \A k \in 1..n : w[Len(m) + k] = data[k]
  BY JoinSeq
<1>4. Typed(d)
  BY <1>2 DEF Poised, Aimed, Turned, Quiet, Holding, Writing, Filling
<1>5. /\ Apart(r, d)
      /\ r.call = [op |-> "transfer", fc |-> "write", n |-> n, i |-> 0, nowait |-> s, data |-> data, crnd |-> d.crnd, done |-> FALSE]
  BY <1>1, <1>3, <1>4, CalledApart
<1> HIDE DEF r, w
<1>6. r.call.op = "transfer" /\ r.call.fc = "write" /\ r.call.n = n /\ r.call.i = 0 /\ r.call.data = data /\ ~r.call.done
  BY <1>5
<1>7. WriteCall(r.call)
  BY <1>3, <1>6 DEF WriteCall
<1>8. r.qrnd = d.qrnd
  BY <1>5, HoldApart
<1>9. Owes(r, w)
  <2>1. n - 0 = n /\ \A k \in 1..n : 0 + k = k
    BY <1>3
  <2> QED BY <1>2, <1>3, <1>6, <1>8, <2>1 DEF Owes
<1>10. ASSUME NEW x, NEW e \in Nat, e <= Len(m), Stays(x, m, e) PROVE Stays(x, w, e)
  BY <1>3, <1>10 DEF Stays
<1>11. Poised(d, m) => Poised(d, w)
  <2> SUFFICES ASSUME Poised(d, m) PROVE Poised(d, w)
    OBVIOUS
  <2>1. d.qrnd \in Nat /\ d.qrnd <= Len(m)
    BY <1>2 DEF Poised
  <2>2. CASE Aimed(d, m, d.qrnd)
    <3>1. Stays(d.medium, w, d.qrnd)
      BY <1>10, <2>1, <2>2 DEF Aimed
    <3>2. Agrees(d.bufs[d.cur], d.crnd, d.bsz, w, d.qrnd)
      <4>1. d.crnd \in Nat
        BY <2>2 DEF Aimed
      <4>2. ASSUME NEW k \in 1..d.bsz, d.crnd + k <= d.qrnd PROVE d.crnd + k \in 1..Len(m)
        BY <1>2, <2>1, <4>1, <4>2
      <4> QED BY <1>3, <2>2, <4>2 DEF Agrees, Aimed
    <3> QED BY <2>1, <2>2, <3>1, <3>2 DEF Poised, Aimed
  <2>3. CASE Turned(d, d.medium, d.qrnd) /\ Stays(d.medium, m, d.qrnd)
    BY <1>10, <2>1, <2>3 DEF Poised
  <2> QED BY <2>2, <2>3 DEF Poised
<1>12. Holding(d, m) => Holding(d, w)
  <2> SUFFICES ASSUME Holding(d, m) PROVE Holding(d, w)
    OBVIOUS
  <2>1. /\ Typed(d) /\ d.crnd \in Nat /\ d.inx \in 0..d.bsz /\ d.bsz \in Nat \ {0} /\ d.qrnd = d.crnd + d.inx /\ d.pos \in Nat
        /\ Stowed(d, m) /\ Writing(d, m, 0) /\ Queue(d, m, 0)
    BY HoldingIs
  <2>2. Writing(d, w, 0)
    <3>1. Stays(d.medium, w, 0)
      BY <2>1 DEF Writing, Filling, Stays
    <3>2. Agrees(d.bufs[d.cur], d.crnd, d.bsz, w, 0)
      BY <2>1 DEF Agrees
    <3>3. Queue(d, w, 0)
      BY <2>1 DEF Queue, Agrees
    <3> QED BY <2>1, <3>1, <3>2, <3>3 DEF Writing, Filling
  <2>3. d.pos <= d.crnd /\ (d.pend.fc = "write" => d.pos + d.bsz = d.crnd)
    BY <2>1 DEF Queue, Stowed
  <2>4. Stays(d.medium, w, d.pos)
    BY <1>2, <1>10, <2>1, <2>3 DEF Stowed
  <2>5. ASSUME NEW buf, NEW a \in Nat, NEW l \in Nat, a + l <= Len(m), Loaded(buf, m, a, l) PROVE Loaded(buf, w, a, l)
    <3>1. ASSUME NEW k \in 1..l PROVE a + k \in 1..Len(m)
      BY <1>3, <2>5
    <3> QED BY <1>3, <2>5, <3>1 DEF Loaded
  <2>6. Loaded(d.bufs[d.cur], w, d.crnd, d.inx)
    <3>1. d.inx \in Nat /\ d.crnd + d.inx <= Len(m)
      BY <1>2, <1>3, <2>1
    <3> QED BY <2>1, <2>5, <3>1 DEF Stowed
  <2>7. d.pend.fc = "write" => Loaded(d.bufs[3 - d.cur], w, d.pos, d.bsz)
    <3>1. d.pend.fc = "write" => d.pos + d.bsz <= Len(m)
      BY <1>2, <1>3, <2>1, <2>3
    <3> QED BY <2>1, <2>5, <3>1 DEF Stowed
  <2> QED BY <2>2, <2>4, <2>6, <2>7 DEF Holding, Stowed
<1>13. CASE pc \in {"next", "head", "volume"} /\ Poised(d, m)
  <2>1. Poised(r, w)
    BY <1>5, <1>11, <1>13, HoldApart
  <2> QED BY <1>6, <1>7, <1>9, <1>13, <2>1 DEF Berth, r, w
<1>14. CASE Holding(d, m)
  <2>1. Holding(r, w)
    BY <1>5, <1>12, <1>14, HoldApart
  <2> QED BY <1>7, <1>9, <2>1 DEF Berth, r, w
<1> QED BY <1>2, <1>13, <1>14

\* The program asks how much the buffer takes.
LEMMA BerthLeft ==
  ASSUME NEW pc \in {"data", "fill"}, NEW to \in {"chunk", "filled"},
         NEW d, NEW m, Berth(pc, d, m), d.call.done, NEW s
  PROVE  Berth(to, Called(d, "left", "write", s, <<>>, 0), m)
<1> DEFINE r == Called(d, "left", "write", s, <<>>, 0)
<1>1. pc \in EarlyPcs /\ to \in EarlyPcs
  BY DEF EarlyPcs
<1>2. Holding(d, m) /\ Len(m) = d.qrnd
  BY <1>1, BerthReady
<1>3. Typed(d) /\ IsSeq(<<>>) /\ "write" \in {"read", "write"} /\ 0 \in Int
  <2>1. <<>> \in Seq(Int)
    OBVIOUS
  <2> QED BY <1>2, <2>1, HoldingIs DEF IsSeq
<1>4. Apart(r, d) /\ r.call = [op |-> "left", fc |-> "write", n |-> 0, i |-> 0, nowait |-> s, data |-> <<>>, crnd |-> d.crnd, done |-> FALSE]
  BY <1>3, CalledApart
<1> HIDE DEF r
<1>5. Holding(r, m) /\ r.qrnd = d.qrnd
  BY <1>2, <1>4, HoldApart
<1>6. LeftCall(to, r.call) /\ Owes(r, m) /\ r.call.op = "left" /\ ~r.call.done
  BY <1>2, <1>4, <1>5 DEF LeftCall, Owes
<1> QED BY <1>1, <1>5, <1>6 DEF Berth, r

\* The last block of the tape is filled.
LEMMA BerthFill ==
  ASSUME NEW to \in {"shut", "over"}, NEW d, NEW m, IsSeq(m), Berth("filled", d, m), d.call.done,
         NEW data, IsSeq(data), NEW n, n = Len(data), n = d.call.i, NEW s
  PROVE  Berth(to, Called(d, "transfer", "write", s, data, n), m \o data)
<1> DEFINE r == Called(d, "transfer", "write", s, data, n)
           w == m \o data
<1>1. "filled" \in EarlyPcs /\ "end" \in EarlyPcs \ {"filled"}
  BY DEF EarlyPcs
<1>2. Holding(d, m) /\ d.call.i = d.bsz - d.inx /\ d.call.i > 0
  BY <1>1, BerthReady
<1>3. Berth("end", r, w)
  BY <1>1, BerthWrite
<1>4. Typed(d) /\ "write" \in {"read", "write"} /\ n \in Int
  BY <1>2, HoldingIs, JoinSeq
<1>5. /\ Apart(r, d)
      /\ r.call = [op |-> "transfer", fc |-> "write", n |-> n, i |-> 0, nowait |-> s, data |-> data, crnd |-> d.crnd, done |-> FALSE]
  BY <1>4, CalledApart
<1> HIDE DEF r, w
<1>6. r.call.op = "transfer" /\ ~r.call.done /\ r.call.n = n /\ r.call.i = 0
  BY <1>5
<1>7. Holding(r, w) /\ Owes(r, w) /\ WriteCall(r.call)
  BY <1>3, <1>6 DEF Berth, LeftCall
<1>8. r.bsz = d.bsz /\ r.inx = d.inx
  BY <1>5, HoldApart
<1>9. Brim(r)
  BY <1>2, <1>6, <1>8 DEF Brim
<1> QED BY <1>7, <1>9 DEF Berth, r, w

LEMMA ShortFill ==
  ASSUME NEW to \in {"shut", "over"}, NEW d, Short("filled", d), ~Refused(d.call), NEW data, IsSeq(data), NEW s
  PROVE  Short(to, Called(d, "transfer", "write", s, data, 0))
<1> DEFINE r == Called(d, "transfer", "write", s, data, 0)
<1>1. "filled" \in EarlyPcs
  BY DEF EarlyPcs
<1>2. Broken(d)
  BY <1>1, ShortReady
<1>3. Typed(d) /\ "write" \in {"read", "write"} /\ 0 \in Int
  BY <1>2 DEF Broken, Dead
<1>4. Apart(r, d) /\ r.call = [op |-> "transfer", fc |-> "write", n |-> 0, i |-> 0, nowait |-> s, data |-> data, crnd |-> d.crnd, done |-> FALSE]
  BY <1>3, CalledApart
<1> HIDE DEF r
<1>5. Broken(r)
  BY <1>2, <1>4, HoldApart
<1> QED BY <1>4, <1>5 DEF Short, r

\* The program closes the unit.
LEMMA BerthClose ==
  ASSUME NEW pc \in {"shut", "over"}, NEW to \in {"mount", "closed"}, NEW d, NEW m, Berth(pc, d, m), d.call.done,
         pc = "over" => to = "closed", NEW s
  PROVE  Berth(to, Called(d, "close", "write", s, <<>>, 0), m)
<1> DEFINE r == Called(d, "close", "write", s, <<>>, 0)
<1>1. \/ Holding(d, m) /\ Len(m) = d.qrnd /\ d.inx = d.bsz
      \/ pc = "over" /\ Settled(d, m)
  BY DEF Berth, Owes, Brim, EarlyPcs
<1>2. Typed(d) /\ IsSeq(<<>>) /\ "write" \in {"read", "write"} /\ 0 \in Int
  <2>1. <<>> \in Seq(Int)
    OBVIOUS
  <2> QED BY <1>1, <2>1, HoldingIs DEF Settled, Dead, IsSeq
<1>3. Apart(r, d) /\ r.call = [op |-> "close", fc |-> "write", n |-> 0, i |-> 0, nowait |-> s, data |-> <<>>, crnd |-> d.crnd, done |-> FALSE]
  BY <1>2, CalledApart
<1> HIDE DEF r
<1>4. r.call.op = "close" /\ ~r.call.done
  BY <1>3
<1>5. CASE Holding(d, m) /\ Len(m) = d.qrnd /\ d.inx = d.bsz
  <2>1. Holding(r, m) /\ Len(m) = r.qrnd /\ r.inx = r.bsz
    BY <1>3, <1>5, HoldApart
  <2> QED BY <1>4, <2>1 DEF Berth, r
<1>6. CASE pc = "over" /\ Settled(d, m)
  <2>1. Settled(r, m)
    BY <1>3, <1>6, HoldApart
  <2> QED BY <1>4, <1>6, <2>1 DEF Berth, r
<1> QED BY <1>1, <1>5, <1>6

LEMMA ShortClose ==
  ASSUME NEW pc \in {"shut", "over"}, NEW to \in {"mount", "closed"}, NEW d, Short(pc, d), NEW s
  PROVE  Short(to, Called(d, "close", "write", s, <<>>, 0))
<1> DEFINE r == Called(d, "close", "write", s, <<>>, 0)
<1>1. Broken(d)
  BY DEF Short, EarlyPcs
<1>2. Typed(d) /\ IsSeq(<<>>) /\ "write" \in {"read", "write"} /\ 0 \in Int
  <2>1. <<>> \in Seq(Int)
    OBVIOUS
  <2> QED BY <1>1, <2>1 DEF Broken, Dead, IsSeq
<1>3. Apart(r, d) /\ r.call = [op |-> "close", fc |-> "write", n |-> 0, i |-> 0, nowait |-> s, data |-> <<>>, crnd |-> d.crnd, done |-> FALSE]
  <2> DEFINE op == "close"
             data == <<>>
  <2>1. IsSeq(data)
    BY <1>2
  <2> HIDE DEF op, data
  <2>2. /\ Apart(Called(d, op, "write", s, data, 0), d)
        /\ Called(d, op, "write", s, data, 0).call
             = [op |-> op, fc |-> "write", n |-> 0, i |-> 0, nowait |-> s, data |-> data, crnd |-> d.crnd, done |-> FALSE]
    BY <1>2, <2>1, CalledApart
  <2> QED BY <2>2 DEF op, data
<1> HIDE DEF r
<1>4. Broken(r)
  BY <1>1, <1>3, HoldApart
<1> QED BY <1>3, <1>4 DEF Short, r

\* A medium that holds nothing yet: the first read of it comes to its end.
LEMMA BlankTurn ==
  ASSUME NEW b \in Nat \ {0}, NEW capacity \in Int, NEW s \in BOOLEAN
  PROVE  LET r == Io(Called(Ioopcre(NoUnit(b, capacity), <<>>), "transfer", "read", s, <<>>, 1)) IN
         r.call.op = "transfer" /\ r.call.fc = "read" /\ r.call.done /\ r.call.i <= 0
<1> DEFINE new == Ioopcre(NoUnit(b, capacity), <<>>)
           d == Called(new, "transfer", "read", s, <<>>, 1)
           n == d.bsz
           x == Iosvc(d, "read", s, n)
           r == Io(d)
<1>1. IsSeq(<<>>) /\ "read" \in {"read", "write"} /\ 1 \in Int /\ 0 \in Int
  <2>1. <<>> \in Seq(Int)
    OBVIOUS
  <2> QED BY <2>1 DEF IsSeq
<1>2. Reading(new, <<>>, s)
  BY <1>1, OpcreReads
<1>3. Typed(new) /\ new.medium = <<>> /\ Room(new)
  BY <1>2 DEF Reading, Quiet
<1>4. new.firs /\ ~new.req /\ ~new.rnd /\ new.pend.fc = "none" /\ new.pos = 0
  BY DEF Ioopcre, NoRequest
<1> HIDE DEF new
<1>5. /\ Apart(d, new)
      /\ d.call = [op |-> "transfer", fc |-> "read", n |-> 1, i |-> 0, nowait |-> s, data |-> <<>>, crnd |-> new.crnd, done |-> FALSE]
  BY <1>1, <1>3, CalledApart
<1> HIDE DEF d
<1>6. /\ Typed(d) /\ d.medium = <<>> /\ Room(d) /\ d.firs /\ ~d.req /\ ~d.rnd /\ d.pend.fc = "none" /\ d.pos = 0
      /\ n \in Nat \ {0} /\ n \in Int /\ d.cur \in {1, 2} /\ 3 - d.cur \in {1, 2}
  <2>1. Typed(d) /\ \A f \in UnitFields \ {"call"} : d[f] = new[f]
    BY <1>5 DEF Apart
  <2>2. /\ d.medium = new.medium /\ d.firs = new.firs /\ d.req = new.req /\ d.rnd = new.rnd /\ d.pend = new.pend /\ d.pos = new.pos
        /\ d.res = new.res /\ d.capacity = new.capacity /\ d.cur = new.cur /\ d.bufs = new.bufs /\ d.bsz = new.bsz
    BY <2>1 DEF UnitFields
  <2>3. Room(d)
    BY <1>3, <2>2 DEF Room
  <2>4. n \in Nat \ {0} /\ n \in Int /\ d.cur \in {1, 2} /\ 3 - d.cur \in {1, 2}
    BY <2>1 DEF Typed, Counts
  <2> QED BY <1>3, <1>4, <2>1, <2>2, <2>3, <2>4
<1>7. d.call.op = "transfer" /\ d.call.fc = "read" /\ d.call.n = 1 /\ d.call.i = 0 /\ d.call.nowait = s
  BY <1>5
<1>8. r = Transferred(Held(x, d.firs, "read", s), d.call)
  BY <1>6, <1>7 DEF Io, Iordwr, Ioseekblk, Fill
<1> HIDE DEF n
\* a request for what the medium holds brings nothing
<1>9. ASSUME NEW g, Typed(g), NEW k \in {1, 2}, g.pend = [fc |-> "read", buf |-> k, n |-> n], g.pos = 0, g.medium = <<>>, g.bufs = d.bufs
      PROVE  Performed(g).res = 0
  <2>1. g.pend.fc = "read" /\ g.pend.n = n /\ g.pend.buf = k
    BY <1>9
  <2>2. Len(g.medium) = 0 /\ g.pos \in 0..Len(g.medium)
    BY <1>9
  <2>3. Least(n, 0) = 0 /\ 0 - 0 = 0
    BY <1>6 DEF Least
  <2>4. Least(g.pend.n, Len(g.medium) - g.pos) = 0
    BY <1>9, <2>1, <2>2, <2>3
  <2>5. 0 <= Len(g.bufs[g.pend.buf])
    BY <1>6, <1>9, <2>1 DEF Room
  <2>6. g.pend.n \in Nat
    BY <1>6, <2>1
  <2>7. Performed(g).res = Least(g.pend.n, Len(g.medium) - g.pos)
    BY <1>9, <2>1, <2>2, <2>4, <2>5, <2>6, PerformedRead
  <2> QED BY <2>4, <2>7
<1>10. x.i = 0
  <2>1. CASE s
    <3> DEFINE f == Requested(d, "read", 3 - d.cur, n)
               g == [f EXCEPT !.req = TRUE]
    <3>1. Primed(d, "read", n) = g
      BY <1>6 DEF Primed
    <3>2. Typed(f)
      BY <1>1, <1>6, RequestedTyped
    <3>3. f.pend = [fc |-> "read", buf |-> 3 - d.cur, n |-> n] /\ f.pos = d.pos /\ f.medium = d.medium /\ f.bufs = d.bufs
      BY <1>6 DEF Requested, Typed, UnitFields
    <3> HIDE DEF f
    <3>4. Typed(g) /\ g.req /\ g.pend = f.pend /\ g.pos = f.pos /\ g.medium = f.medium /\ g.bufs = f.bufs
      BY <3>2 DEF Typed, UnitFields, Counts
    <3> HIDE DEF g
    <3>5. Performed(g).res = 0
      BY <1>6, <1>9, <3>3, <3>4
    <3>6. Performed(g).req
      BY <3>4, PerformedIs DEF Rest
    <3>7. x = Outstanding(Performed(g), 0, "read", n)
      BY <2>1, <3>1, <3>5, <3>6 DEF Iosvc, Awaited
    <3> HIDE DEF x
    <3> QED BY <3>7 DEF Outstanding, Answer
  <2>2. CASE ~s
    <3> DEFINE g == Requested(d, "read", d.cur, n)
    <3>1. Performed(d) = d
      BY <1>6, PerformedIs
    <3>2. x = Written(Performed(g))
      BY <1>6, <2>2, <3>1 DEF Iosvc, Waited
    <3>3. Typed(g)
      BY <1>1, <1>6, RequestedTyped
    <3>4. g.pend = [fc |-> "read", buf |-> d.cur, n |-> n] /\ g.pos = d.pos /\ g.medium = d.medium /\ g.bufs = d.bufs
      BY <1>6 DEF Requested, Typed, UnitFields
    <3> HIDE DEF g
    <3>5. Performed(g).res = 0
      BY <1>6, <1>9, <3>3, <3>4
    <3> HIDE DEF x
    <3> QED BY <3>2, <3>5 DEF Written, Answer
  <2> QED BY <2>1, <2>2
<1>11. TypedAnswer(x)
  BY <1>1, <1>6, IosvcTyped
<1> HIDE DEF x
<1>12. Held(x, d.firs, "read", s) = x
  BY <1>10 DEF Held
<1>13. r = Returned(x.d, 0)
  BY <1>7, <1>8, <1>10, <1>12 DEF Transferred
<1>14. SameCall(r.call, d.call)
  BY <1>6, <1>7, IoCall
<1> HIDE DEF r
<1>15. r.call.done /\ r.call.i = 0
  BY <1>1, <1>11, <1>13, ReturnedIs DEF TypedAnswer
<1> QED BY <1>7, <1>14, <1>15 DEF SameCall, r, d, new

-----------------------------------------------------------------------------
(* The sizes of the parts of a file *)

LEMMA QuotientIs ==
  ASSUME NEW a \in Int, NEW b \in Nat \ {0}
  PROVE  a \div b \in Int /\ b * (a \div b) <= a /\ a < b * (a \div b) + b
<1>1. a \div b \in Int
  OBVIOUS
<1>2. a = b * (a \div b) + (a % b) /\ a % b \in 0..(b - 1)
  OBVIOUS
<1>3. b * (a \div b) \in Int
  BY <1>1
<1> QED BY <1>1, <1>2, <1>3

LEMMA TimesLess ==
  ASSUME NEW b \in Nat \ {0}, NEW x \in Int, NEW y \in Int, b * x < b * y
  PROVE  x < y
<1>1. CASE x >= y
  <2>1. PICK k \in Nat : x = y + k
    <3>1. x - y \in Nat /\ x = y + (x - y)
      BY <1>1
    <3> QED BY <3>1
  <2>2. b * x = b * y + b * k
    BY <2>1
  <2>3. b * k >= 0 /\ b * k \in Int /\ b * y \in Int /\ b * x \in Int
    BY <2>1
  <2> QED BY <2>2, <2>3
<1> QED BY <1>1

LEMMA TimesMost ==
  ASSUME NEW b \in Nat, NEW x \in Int, NEW y \in Int, x <= y
  PROVE  x * b <= y * b
<1>1. PICK k \in Nat : y = x + k
  <2>1. y - x \in Nat /\ y = x + (y - x)
    OBVIOUS
  <2> QED BY <2>1
<1>2. y * b = x * b + k * b
  BY <1>1
<1>3. k * b >= 0 /\ k * b \in Int /\ x * b \in Int /\ y * b \in Int
  BY <1>1
<1> QED BY <1>2, <1>3

LEMMA BlocksIs ==
  ASSUME NEW x \in Nat
  PROVE  Blocks(x) \in Nat /\ BlkSiz \in Nat \ {0} /\ BlkSiz * Blocks(x) <= x + BlkSiz - 1 /\ x <= BlkSiz * Blocks(x)
<1>1. BlkSiz \in Nat \ {0} /\ Blocks(x) \in Nat
  BY TarAssumption, BlocksNat
<1> DEFINE a == x + BlkSiz - 1
           q == a \div BlkSiz
<1>2. a \in Int
  BY <1>1
<1>3. q \in Int /\ BlkSiz * q <= a /\ a < BlkSiz * q + BlkSiz
  BY <1>1, <1>2, QuotientIs
<1>4. Blocks(x) = q
  BY DEF Blocks
<1> HIDE DEF q
<1>5. BlkSiz * q \in Int
  BY <1>1, <1>3
<1> QED BY <1>1, <1>3, <1>4, <1>5

\* Bytes that fill their blocks.
LEMMA BlocksTimes ==
  ASSUME NEW s \in Nat
  PROVE  s * BlkSiz \in Nat /\ Blocks(s * BlkSiz) = s
<1> DEFINE x == s * BlkSiz
           q == Blocks(x)
<1>1. BlkSiz \in Nat \ {0}
  BY TarAssumption
<1>2. x \in Nat
  BY <1>1
<1>3. q \in Nat /\ BlkSiz * q <= x + BlkSiz - 1 /\ x <= BlkSiz * q
  <2> HIDE DEF x
  <2> QED BY <1>2, BlocksIs
<1> HIDE DEF q
<1>4. BlkSiz * q < BlkSiz * (s + 1) /\ BlkSiz * s < BlkSiz * (q + 1)
  <2>1. BlkSiz * (s + 1) = BlkSiz * s + BlkSiz /\ BlkSiz * (q + 1) = BlkSiz * q + BlkSiz /\ x = BlkSiz * s
    BY <1>1, <1>3
  <2>2. BlkSiz * s \in Int /\ BlkSiz * q \in Int
    BY <1>1, <1>3
  <2> QED BY <1>1, <1>3, <2>1, <2>2
<1>5. q < s + 1 /\ s < q + 1
  BY <1>1, <1>3, <1>4, TimesLess
<1> QED BY <1>2, <1>3, <1>5 DEF q

\* No more blocks than there is room for.
LEMMA BlocksFit ==
  ASSUME NEW x \in Nat, NEW n \in Nat, x <= n * BlkSiz
  PROVE  Blocks(x) <= n
<1> DEFINE q == Blocks(x)
<1>1. q \in Nat /\ BlkSiz \in Nat \ {0} /\ BlkSiz * q <= x + BlkSiz - 1
  BY BlocksIs
<1> HIDE DEF q
<1>2. BlkSiz * q < BlkSiz * (n + 1)
  <2>1. BlkSiz * (n + 1) = n * BlkSiz + BlkSiz /\ n * BlkSiz \in Int /\ BlkSiz * q \in Int
    BY <1>1
  <2> QED BY <1>1, <2>1
<1>3. q < n + 1
  BY <1>1, <1>2, TimesLess
<1> QED BY <1>1, <1>3 DEF q

\* A file that is split: the volumes that are left to it take all but its last part.
LEMMA SplitStarts ==
  ASSUME NEW size \in Nat, NEW p \in Nat, NEW max \in Int, max - p >= 2
  PROVE  LET s == max - p - 1
             x == (Blocks(size) + p - 1) \div (max - 1) + 1 IN
         s \in Nat /\ x \in Int /\ s * BlkSiz \in Int /\ size - s * BlkSiz > (x - 1 - 1) * (max - 1) * BlkSiz
<1> DEFINE s == max - p - 1
           n == Blocks(size)
           b == max - 1
           a == n + p - 1
           q == a \div b
<1>1. n \in Nat /\ BlkSiz \in Nat \ {0} /\ BlkSiz * n <= size + BlkSiz - 1
  BY BlocksIs
<1> HIDE DEF n
<1>2. s \in Nat /\ b \in Nat \ {0} /\ a \in Int
  BY <1>1
<1>3. q \in Int /\ b * q <= a
  <2> HIDE DEF a, b
  <2> QED BY <1>2, QuotientIs
<1> HIDE DEF q
<1>4. (q - 1) * b <= n - 1 - s
  <2>1. (q - 1) * b = b * q - b /\ b * q \in Int
    BY <1>2, <1>3
  <2> QED BY <1>1, <1>2, <1>3, <2>1
<1>5. ((q - 1) * b) * BlkSiz <= (n - 1 - s) * BlkSiz
  <2>1. (q - 1) * b \in Int /\ n - 1 - s \in Int /\ BlkSiz \in Nat
    BY <1>1, <1>2, <1>3
  <2> QED BY <1>4, <2>1, TimesMost
<1>6. (n - 1 - s) * BlkSiz = BlkSiz * n - BlkSiz - s * BlkSiz /\ BlkSiz * n \in Int /\ s * BlkSiz \in Int
  BY <1>1, <1>2
<1>7. ((q - 1) * b) * BlkSiz \in Int
  BY <1>1, <1>2, <1>3
<1>8. size - s * BlkSiz > ((q - 1) * b) * BlkSiz
  BY <1>1, <1>5, <1>6, <1>7
<1>9. (q + 1) - 1 - 1 = q - 1 /\ q + 1 \in Int
  BY <1>3
<1> HIDE DEF b, s
<1>10. size - s * BlkSiz > ((q + 1) - 1 - 1) * b * BlkSiz
  BY <1>8, <1>9
<1> QED BY <1>2, <1>6, <1>9, <1>10 DEF q, a, b, s, n

LEMMA SplitGoesOn ==
  ASSUME NEW bytes \in Int, NEW x \in Int, NEW i \in Int, NEW max \in Int, max >= 2,
         bytes > (x - i - 1) * (max - 1) * BlkSiz
  PROVE  /\ (max - 1) * BlkSiz \in Nat
         /\ bytes - (max - 1) * BlkSiz > (x - (i + 1) - 1) * (max - 1) * BlkSiz
         /\ x = i + 1 => bytes > 0
<1> DEFINE b == max - 1
           k == x - i - 1
           z == b * BlkSiz
<1>1. b \in Nat /\ BlkSiz \in Nat \ {0} /\ k \in Int
  BY TarAssumption
<1>2. z \in Nat
  BY <1>1
<1>3. k * b * BlkSiz = k * z /\ (k - 1) * b * BlkSiz = k * z - z /\ k * z \in Int
  BY <1>1
<1>4. x - (i + 1) - 1 = k - 1 /\ (x = i + 1 => k = 0)
  OBVIOUS
<1>5. k = 0 => k * z = 0
  BY <1>2
<1> HIDE DEF z
<1>6. bytes > k * z /\ bytes - z > k * z - z
  BY <1>2, <1>3
<1> HIDE DEF k, b
<1>7. bytes - z > (k - 1) * b * BlkSiz
  BY <1>3, <1>6
<1>8. k = 0 => bytes > 0
  BY <1>5, <1>6
<1> QED BY <1>2, <1>4, <1>7, <1>8 DEF b, z

\* What the buffer takes of a file: no more blocks than are left of the extent.
LEMMA CutFits ==
  ASSUME NEW x \in Seq(Int), NEW from \in Int, NEW n \in Nat
  PROVE  Len(Cut(Slice(x, from, n * BlkSiz))) <= n
<1> DEFINE k == n * BlkSiz
           a == from + 1
           b == Least(from + k, Len(x))
           s == SubSeq(x, a, b)
<1>1. BlkSiz \in Nat \ {0} /\ IsSeq(x) /\ Len(x) \in Nat
  BY TarAssumption DEF IsSeq
<1>2. k \in Nat
  BY <1>1
<1> HIDE DEF k
<1>3. a \in Int /\ b \in Int /\ b <= from + k
  BY <1>1, <1>2 DEF Least
<1> HIDE DEF b
<1>4. IsSeq(s) /\ Len(s) = IF a <= b THEN b - a + 1 ELSE 0
  <2> HIDE DEF a
  <2> QED BY <1>1, <1>3, PartSeq
<1> HIDE DEF s
<1>5. Len(s) \in Nat /\ Len(s) <= k
  BY <1>2, <1>3, <1>4
<1>6. Blocks(Len(s)) <= n
  BY <1>5, BlocksFit DEF k
<1>7. Len(Cut(s)) = Blocks(Len(s))
  <2> DEFINE l == Blocks(Len(s))
             f(y) == [kind |-> "data", bytes |-> Padded(Slice(s, (y - 1) * BlkSiz, BlkSiz), BlkSiz)]
             S == {f(y) : y \in 1..l}
  <2>1. l \in Nat
    BY <1>5, BlocksNat
  <2>2. Cut(s) = [y \in 1..l |-> f(y)]
    BY DEF Cut
  <2>3. \A y \in 1..l : f(y) \in S
    OBVIOUS
  <2> HIDE DEF l, f, S
  <2>4. Len([y \in 1..l |-> f(y)]) = l
    BY <2>1, <2>3
  <2> QED BY <2>2, <2>4 DEF l
<1> QED BY <1>6, <1>7 DEF s, a, b, k, Slice

-----------------------------------------------------------------------------
(* The inductive invariant, with that of TarProofs *)

\* What the blocks of m are at each place of the program; n are those that the
\* header announced and that are not written yet.
Account(pc, n, m) ==
  /\ pc \in {"next", "put", "head", "volume"} => From(m)[0] = Len(m)
  /\ pc \in {"data", "chunk", "end"} => From(m)[0] = Len(m) + n
  /\ pc \in {"fill", "filled", "shut", "mount", "over", "closed"} => Whole(m)
HeadFields == {"kind", "name", "size", "mtime", "link", "extno", "extotal", "efsize"}
\* the volumes that are left to a file that is split take all but its last part
Split ==
  t.dir.link = <<>> /\ t.ext # 0 =>
    /\ t.ext \in Nat /\ t.dir.extotal \in Nat /\ t.ext <= t.dir.extotal /\ t.tblkmax >= 2
    /\ t.ext < t.dir.extotal => t.bytes > (t.dir.extotal - t.ext - 1) * (t.tblkmax - 1) * BlkSiz
InData == t.pc \in {"data", "chunk", "end"}
FileOk ==
  /\ DOMAIN t.dir = HeadFields /\ t.dir.kind = "head" /\ Split
  /\ InData => t.noblks \in Nat /\ t.dir.link = <<>>
  /\ ~InData => Header(t.dir) /\ (t.dir.link = <<>> => Blocks(t.dir.size) = t.noblks)
Known1 == IsSeq(t.ihead) /\ \A k \in DOMAIN t.ihead : t.ihead[k].path # <<>>
Numbered == t.tblkpos \in Nat /\ Known1 /\ (InFile => FileOk)
\* a new medium whose first block is looked for
Blank(pc, d) ==
  LET new == Ioopcre(NoUnit(t.job.tblksz, t.job.capacity), <<>>) IN
  \/ pc = "seek" /\ d = new
  \/ pc = "seen" /\ d = Called(new, "transfer", "read", t.job.s, <<>>, 1)
  \/ pc = "seen" /\ d.call.done /\ d.call.op = "transfer" /\ d.call.fc = "read" /\ d.call.i <= 0
Search == t.job.op \in {"r", "u"} /\ t.at = t.job.from /\ (t.at \in DOMAIN vols \/ Blank(t.pc, unit))
Laden == \E m : IsSeq(m) /\ Berth(t.pc, unit, m) /\ Account(t.pc, t.noblks, m)
Aboard == IF t.pc \in {"seek", "seen"} THEN Search ELSE Short(t.pc, unit) \/ Laden
Clear == Writes /\ t.status # 0 => t.pc \in {"over", "closed"}
Shelf == ~lost /\ (Writes => t.status = 0) => \A v \in DOMAIN vols : Whole(vols[v])
Sailing == Writes /\ ~lost /\ t.status = 0
WholeInv == TarInv /\ DOMAIN tree \subseteq DOMAIN Files /\ Clear /\ Shelf /\ (Sailing => Numbered /\ Aboard)

-----------------------------------------------------------------------------
(* The steps of tar *)

LEMMA WholeStep ==
  ASSUME WholeInv, TarInv', t.pc # "idle", t'.pc # "idle", t'.job = t.job, vols' = vols,
         DOMAIN tree' \subseteq DOMAIN tree, lost => lost',
         t'.status = t.status \/ t'.pc \in {"over", "closed"},
         t.pc \in {"over", "closed"} => t'.status = t.status /\ t'.pc \in {"over", "closed"},
         Sailing /\ ~lost' /\ t'.status = 0 /\ Numbered /\ Aboard => Numbered' /\ Aboard'
  PROVE  WholeInv'
<1>1. Writes' <=> Writes
  BY DEF Writes
<1>2. Clear'
  BY <1>1 DEF WholeInv, Clear
<1>3. ~lost' /\ (Writes' => t'.status = 0) => ~lost /\ (Writes => t.status = 0)
  BY <1>1 DEF WholeInv, Clear
<1>4. Shelf'
  BY <1>3 DEF WholeInv, Shelf
<1>5. Sailing' => Sailing /\ ~lost' /\ t'.status = 0
  BY <1>1, <1>3 DEF Sailing
<1>6. Sailing' => Numbered' /\ Aboard'
  BY <1>5 DEF WholeInv
<1> QED BY <1>2, <1>4, <1>6 DEF WholeInv

\* A call that reads an archive changes no medium.
LEMMA WholeIdle ==
  ASSUME WholeInv, TarInv', ~Writes, ~Writes', vols' = vols, DOMAIN tree' \subseteq DOMAIN tree, lost => lost'
  PROVE  WholeInv'
BY DEF WholeInv, Clear, Shelf, Sailing

\* The program ends with a status that is not 0.
LEMMA WholeOver ==
  ASSUME WholeInv, TarInv', t.pc \notin {"idle", "over", "closed"}, UNCHANGED <<tree, vols>>, lost => lost',
         NEW k \in Int, k # 0, t' = Over(k)
  PROVE  WholeInv'
<1>1. DOMAIN t = TFields
  BY DEF WholeInv, TarInv, Running
<1>2. t'.pc = "over" /\ t'.status = k /\ t'.job = t.job
  BY <1>1 DEF Over, TFields
<1> QED BY <1>2, WholeStep

\* What the steps leave that do not come to another file.
SameFile ==
  /\ t'.tblkmax = t.tblkmax /\ t'.tblkpos = t.tblkpos /\ t'.noblks = t.noblks /\ t'.bytes = t.bytes
  /\ t'.dir = t.dir /\ t'.ext = t.ext /\ t'.ihead = t.ihead

LEMMA NumberedStay ==
  ASSUME Numbered, SameFile, InFile' => InFile /\ (InData' <=> InData)
  PROVE  Numbered'
<1>1. Known1'
  BY DEF Numbered, Known1, SameFile
<1>2. ASSUME InFile'
      PROVE  FileOk'
  <2>1. FileOk /\ (InData' <=> InData)
    BY <1>2 DEF Numbered
  <2>2. Split'
    BY <2>1 DEF FileOk, Split, SameFile, Carried
  <2>3. Header(t.dir)' <=> Header(t.dir)
    BY DEF Header, SameFile
  <2>4. Blocks(t.dir.size)' = Blocks(t.dir.size)
    BY DEF Blocks, SameFile
  <2> QED BY <2>1, <2>2, <2>3, <2>4 DEF FileOk, SameFile, Carried
<1> QED BY <1>1, <1>2 DEF Numbered, SameFile, Carried

\* Once the call of io has returned the blocks are where they should be, or the
\* answer says that there is no room.
LEMMA LadenReady ==
  ASSUME Aboard, t.pc \in EarlyPcs, ~Refused(unit.call), t.pc \in {"chunk", "filled"} => unit.call.i > 0, unit.call.i \in Int
  PROVE  Laden
<1>1. t.pc \notin {"seek", "seen"}
  BY DEF EarlyPcs
<1>2. ~Short(t.pc, unit)
  <2>1. ASSUME Short(t.pc, unit)
        PROVE  FALSE
    <3>1. t.pc \in {"chunk", "filled"} /\ unit.call.i <= 0
      BY <2>1, ShortReady
    <3> QED BY <3>1
  <2> QED BY <2>1
<1> QED BY <1>1, <1>2 DEF Aboard

\* The program goes on without a call of io.
LEMMA WholeStay ==
  ASSUME WholeInv, TarInv', DOMAIN tree' \subseteq DOMAIN tree, UNCHANGED <<vols, unit>>, lost => lost',
         t'.job = t.job, t'.status = t.status, unit.call.done, ~Refused(unit.call),
         t.pc \in {"next", "put", "data", "chunk", "end"}, t'.pc \in {"next", "put", "head", "volume", "end"},
         t.pc = "chunk" => ~(unit.call.i <= 0), t'.pc = "end" => t.pc \in {"data", "chunk"},
         Sailing /\ ~lost' /\ Numbered => /\ Numbered'
           /\ \A m : IsSeq(m) /\ Account(t.pc, t.noblks, m) => Account(t'.pc, t'.noblks, m)
  PROVE  WholeInv'
<1>1. ASSUME Sailing, ~lost', Numbered, Aboard
      PROVE  Numbered' /\ Aboard'
  <2>1. t.pc \in EarlyPcs
    BY DEF EarlyPcs
  <2>2. unit.call.i \in Int
    BY <1>1 DEF WholeInv, TarInv, UnitOk, Sailing, Typed, Calling
  <2>3. t.pc \in {"chunk", "filled"} => unit.call.i > 0
    BY <2>2
  <2>4. PICK m : IsSeq(m) /\ Berth(t.pc, unit, m) /\ Account(t.pc, t.noblks, m)
    BY <1>1, <2>1, <2>2, <2>3, LadenReady DEF Laden
  <2>5. Berth(t'.pc, unit, m)
    BY <2>4, BerthStay
  <2>6. Berth(t'.pc, unit', m)
    BY <2>5
  <2>7. Account(t'.pc, t'.noblks, m)
    BY <1>1, <2>4
  <2>8. Laden'
    BY <2>4, <2>6, <2>7 DEF Laden
  <2> QED BY <1>1, <2>8 DEF Aboard
<1>2. t.pc \notin {"idle", "over", "closed"} /\ t'.pc \notin {"idle", "over", "closed"}
  OBVIOUS
<1> QED BY <1>1, <1>2, WholeStep

\* The program writes blocks.
LEMMA WholeWrite ==
  ASSUME WholeInv, TarInv', UNCHANGED <<tree, vols>>, lost => lost',
         t'.job = t.job, t'.status = t.status, unit.call.done, ~Refused(unit.call), NEW data, IsSeq(data), Write(data),
         t.pc \in {"next", "head", "volume", "chunk", "end"}, t'.pc \in {"next", "data", "fill"},
         t.pc = "chunk" => ~(unit.call.i <= 0), t.pc \in {"next", "head", "volume"} => Len(data) # 0,
         Sailing /\ ~lost' /\ Numbered => /\ Numbered'
           /\ \A m : IsSeq(m) /\ Account(t.pc, t.noblks, m) => Account(t'.pc, t'.noblks, m \o data)
  PROVE  WholeInv'
<1>1. ASSUME Sailing, ~lost', Numbered, Aboard
      PROVE  Numbered' /\ Aboard'
  <2>1. t.pc \in EarlyPcs /\ t'.pc \in EarlyPcs \ {"filled"}
    BY DEF EarlyPcs
  <2>2. unit.call.i \in Int
    BY <1>1 DEF WholeInv, TarInv, UnitOk, Sailing, Typed, Calling
  <2>3. t.pc \in {"chunk", "filled"} => unit.call.i > 0
    BY <2>2
  <2>4. PICK m : IsSeq(m) /\ Berth(t.pc, unit, m) /\ Account(t.pc, t.noblks, m)
    BY <1>1, <2>1, <2>2, <2>3, LadenReady DEF Laden
  <2> DEFINE n == Len(data)
  <2>5. unit' = Called(unit, "transfer", "write", t.job.s, data, n)
    BY DEF Write, Call
  <2>6. t.pc \in {"next", "head", "volume"} => n # 0 /\ t'.pc \in {"next", "data", "fill"}
    OBVIOUS
  <2>7. n = Len(data)
    OBVIOUS
  <2> HIDE DEF n
  <2>8. t.pc \in {"next", "head", "volume", "chunk", "end", "filled"}
    OBVIOUS
  <2>9. Berth(t'.pc, Called(unit, "transfer", "write", t.job.s, data, n), m \o data)
    BY <2>1, <2>4, <2>6, <2>7, <2>8, BerthWrite
  <2>10. Berth(t'.pc, unit', m \o data)
    BY <2>5, <2>9
  <2>11. Account(t'.pc, t'.noblks, m \o data)
    BY <1>1, <2>4
  <2>12. IsSeq(m \o data)
    BY <2>4, JoinSeq
  <2>13. Laden'
    BY <2>10, <2>11, <2>12 DEF Laden
  <2> QED BY <1>1, <2>13 DEF Aboard
<1>2. t.pc \notin {"idle", "over", "closed"} /\ t'.pc \notin {"idle", "over", "closed"}
  OBVIOUS
<1> QED BY <1>1, <1>2, WholeStep

\* A call that reads an archive keeps the files it does not write, and the media.
LEMMA ReadsKeep ==
  /\ ReadNext => UNCHANGED <<tree, vols, lost>>
  /\ Extract => UNCHANGED <<tree, vols, lost>>
  /\ AskFirst => UNCHANGED <<tree, vols>> /\ lost'
  /\ Mount => UNCHANGED <<tree, vols, lost>>
<1>1. ReadNext => UNCHANGED <<tree, vols, lost>>
  BY DEF ReadNext
<1>2. Extract => UNCHANGED <<tree, vols, lost>>
  BY DEF Extract
<1>3. AskFirst => UNCHANGED <<tree, vols>> /\ lost'
  BY DEF AskFirst
<1>4. Mount => UNCHANGED <<tree, vols, lost>>
  BY DEF Mount
<1> QED BY <1>1, <1>2, <1>3, <1>4

LEMMA WholeReads ==
  ASSUME WholeInv, ReadNext \/ Extract \/ AskFirst \/ Mount
  PROVE  WholeInv'
<1>1. TarInv
  BY DEF WholeInv
<1>2. TarInv' /\ ~Writes /\ ~Writes'
  BY <1>1, ReadNextStep, ExtractStep, AskFirstStep, MountStep
<1> QED BY <1>2, ReadsKeep, WholeIdle

LEMMA WholeFails ==
  ASSUME WholeInv, TarInv', WriteFails
  PROVE  WholeInv'
<1>1. t.pc \notin {"idle", "over", "closed"} /\ t' = Over(2) /\ UNCHANGED <<tree, vols, lost>>
  BY DEF WriteFails
<1>2. 2 \in Int /\ 2 # 0
  OBVIOUS
<1> QED BY <1>1, <1>2, WholeOver

\* A turn of the call that is under way.
LEMMA WholeTape ==
  ASSUME WholeInv, TarInv', Tape
  PROVE  WholeInv'
<1>1. ~unit.call.done /\ unit' = Io(unit) /\ UNCHANGED <<tree, t, vols, lost>>
  BY DEF Tape, Ready
<1>2. CASE t.pc = "idle"
  <2>1. ~Writes /\ ~Writes'
    BY <1>1, <1>2 DEF Writes
  <2> QED BY <1>1, <2>1, WholeIdle
<1>3. CASE t.pc # "idle"
  <2>1. ASSUME Numbered
        PROVE  Numbered'
    <3>1. SameFile /\ (InFile' <=> InFile) /\ (InData' <=> InData)
      BY <1>1 DEF SameFile, Carried, InFile, InData
    <3> QED BY <2>1, <3>1, NumberedStay
  <2>2. ASSUME Aboard, t.pc \in {"seek", "seen"}
        PROVE  Aboard'
    <3>1. Search
      BY <2>2 DEF Aboard
    <3>2. CASE t.at \in DOMAIN vols
      BY <1>1, <2>2, <3>1, <3>2 DEF Aboard, Search
    <3>3. CASE Blank(t.pc, unit)
      <4> DEFINE new == Ioopcre(NoUnit(t.job.tblksz, t.job.capacity), <<>>)
      <4>1. t.job.tblksz \in Nat \ {0} /\ t.job.capacity \in Int /\ t.job.s \in BOOLEAN
        <5>1. t.job \in TarCall
          BY <1>3 DEF WholeInv, TarInv, Running
        <5> QED BY <5>1 DEF TarCall
      <4>2. <<>> \in Seq(Int)
        OBVIOUS
      <4>3. new.call = NoCall
        BY <4>1, <4>2, OpcreReads DEF IsSeq
      <4>4. new.call.done
        BY <4>3 DEF NoCall
      <4>5. t.pc = "seen" /\ unit = Called(new, "transfer", "read", t.job.s, <<>>, 1)
        <5> HIDE DEF new
        <5> QED BY <1>1, <3>3, <4>4 DEF Blank, new
      <4>6. LET r == Io(Called(new, "transfer", "read", t.job.s, <<>>, 1)) IN
            r.call.op = "transfer" /\ r.call.fc = "read" /\ r.call.done /\ r.call.i <= 0
        BY <4>1, BlankTurn
      <4> HIDE DEF new
      <4>7. unit'.call.op = "transfer" /\ unit'.call.fc = "read" /\ unit'.call.done /\ unit'.call.i <= 0
        BY <1>1, <4>5, <4>6
      <4>8. Blank(t.pc, unit)'
        BY <1>1, <4>5, <4>7 DEF Blank
      <4> QED BY <1>1, <2>2, <3>1, <4>8 DEF Aboard, Search
    <3> QED BY <3>1, <3>2, <3>3 DEF Search
  <2>3. ASSUME Aboard, t.pc \notin {"seek", "seen"}
        PROVE  Aboard'
    <3>1. CASE Short(t.pc, unit)
      <4>1. Short(t.pc, Io(unit))
        BY <1>1, <3>1, ShortTurn
      <4> QED BY <1>1, <2>3, <4>1 DEF Aboard
    <3>2. CASE Laden
      <4>1. PICK m : IsSeq(m) /\ Berth(t.pc, unit, m) /\ Account(t.pc, t.noblks, m)
        BY <3>2 DEF Laden
      <4>2. Berth(t.pc, Io(unit), m) \/ Short(t.pc, Io(unit))
        BY <1>1, <4>1, BerthTurn
      <4>3. Berth(t'.pc, unit', m) \/ Short(t'.pc, unit')
        BY <1>1, <4>2
      <4>4. Account(t'.pc, t'.noblks, m)
        BY <1>1, <4>1 DEF Account, Whole, End, From, Header, Ahead, Blocks
      <4> QED BY <1>1, <2>3, <4>1, <4>3, <4>4 DEF Aboard, Laden
    <3> QED BY <2>3, <3>1, <3>2 DEF Aboard
  <2>4. Numbered /\ Aboard => Numbered' /\ Aboard'
    BY <2>1, <2>2, <2>3
  <2> QED BY <1>1, <1>3, <2>4, WholeStep
<1> QED BY <1>2, <1>3

\* The device gets to the request.
LEMMA WholeDevice ==
  ASSUME WholeInv, TarInv', DeviceRuns
  PROVE  WholeInv'
<1>1. t.pc # "idle" /\ unit.pend.fc # "none" /\ unit' = Performed(unit) /\ UNCHANGED <<tree, t, vols, lost>>
  BY DEF DeviceRuns
<1>2. ASSUME Numbered
      PROVE  Numbered'
  <2>1. SameFile /\ (InFile' <=> InFile) /\ (InData' <=> InData)
    BY <1>1 DEF SameFile, Carried, InFile, InData
  <2> QED BY <1>2, <2>1, NumberedStay
<1>3. ASSUME Sailing, Aboard, t.pc \in {"seek", "seen"}
      PROVE  Aboard'
  <2>1. Search
    BY <1>3 DEF Aboard
  <2>2. CASE t.at \in DOMAIN vols
    BY <1>1, <1>3, <2>1, <2>2 DEF Aboard, Search
  <2>3. CASE Blank(t.pc, unit)
    <3> DEFINE new == Ioopcre(NoUnit(t.job.tblksz, t.job.capacity), <<>>)
    <3>1. t.job.tblksz \in Nat \ {0} /\ t.job.capacity \in Int /\ t.job.s \in BOOLEAN
      <4>1. t.job \in TarCall
        BY <1>1 DEF WholeInv, TarInv, Running
      <4> QED BY <4>1 DEF TarCall
    <3>2. <<>> \in Seq(Int)
      OBVIOUS
    <3>3. Reading(new, <<>>, t.job.s) /\ new.pend.fc = "none"
      <4>1. Reading(new, <<>>, t.job.s)
        BY <3>1, <3>2, OpcreReads DEF IsSeq
      <4> QED BY <4>1 DEF Ioopcre, NoRequest
    <3>4. Called(new, "transfer", "read", t.job.s, <<>>, 1).pend = new.pend
      BY <3>3 DEF Reading, Quiet, Typed, UnitFields, Called
    <3>5. unit.call.done /\ unit.call.op = "transfer" /\ unit.call.fc = "read" /\ unit.call.i <= 0 /\ t.pc = "seen"
      <4> HIDE DEF new
      <4> QED BY <1>1, <2>3, <3>3, <3>4 DEF Blank, new
    <3>6. Typed(unit)
      BY <1>3 DEF WholeInv, TarInv, UnitOk, Sailing
    <3>7. unit'.call = unit.call
      BY <1>1, <3>6, PerformedIs DEF Rest
    <3>8. Blank(t.pc, unit)'
      BY <1>1, <3>5, <3>7 DEF Blank
    <3> QED BY <1>1, <1>3, <2>1, <3>8 DEF Aboard, Search
  <2> QED BY <2>1, <2>2, <2>3 DEF Search
<1>4. ASSUME Sailing, Aboard, t.pc \notin {"seek", "seen"}
      PROVE  Aboard'
  <2>1. CASE Short(t.pc, unit)
    <3>1. Typed(unit)
      BY <1>4 DEF WholeInv, TarInv, UnitOk, Sailing
    <3>2. Short(t.pc, Performed(unit))
      BY <2>1, <3>1, ShortDevice
    <3> QED BY <1>1, <1>4, <3>2 DEF Aboard
  <2>2. CASE Laden
    <3>1. PICK m : IsSeq(m) /\ Berth(t.pc, unit, m) /\ Account(t.pc, t.noblks, m)
      BY <2>2 DEF Laden
    <3>2. Berth(t.pc, Performed(unit), m)
      BY <3>1, BerthDevice
    <3>3. Berth(t'.pc, unit', m)
      BY <1>1, <3>2
    <3>4. Account(t'.pc, t'.noblks, m)
      BY <1>1, <3>1
    <3> QED BY <1>1, <1>4, <3>1, <3>3, <3>4 DEF Aboard, Laden
  <2> QED BY <1>4, <2>1, <2>2 DEF Aboard
<1>5. Sailing /\ Numbered /\ Aboard => Numbered' /\ Aboard'
  BY <1>2, <1>3, <1>4
<1> QED BY <1>1, <1>5, WholeStep

\* What is under way when a file changes or goes away, or an interrupt comes.
LEMMA WholeOthers ==
  ASSUME WholeInv, TarInv', Change \/ Unlink \/ Interrupt
  PROVE  WholeInv'
<1>1. UNCHANGED <<unit, vols, lost>> /\ DOMAIN tree' \subseteq DOMAIN tree
  BY DEF Change, Unlink, Interrupt, Others
<1>2. CASE t.pc = "idle"
  <2>1. ~Writes /\ UNCHANGED t
    BY <1>2 DEF Writes, Change, Unlink, Interrupt, Others
  <2>2. ~Writes'
    BY <1>2, <2>1 DEF Writes
  <2> QED BY <1>1, <2>1, <2>2, WholeIdle
<1>3. CASE t.pc # "idle"
  <2>1. DOMAIN t = TFields
    BY <1>3 DEF WholeInv, TarInv, Running
  <2>2. UNCHANGED t \/ t' = [t EXCEPT !.term = TRUE]
    BY DEF Change, Unlink, Interrupt, Others
  <2>3. t'.pc = t.pc /\ t'.job = t.job /\ t'.at = t.at /\ t'.status = t.status /\ t'.last = t.last /\ SameFile
    BY <2>1, <2>2 DEF TFields, SameFile, Carried
  <2>4. ASSUME Numbered
        PROVE  Numbered'
    <3>1. (InFile' <=> InFile) /\ (InData' <=> InData)
      BY <2>3 DEF InFile, InData
    <3> QED BY <2>3, <2>4, <3>1, NumberedStay
  <2>5. Aboard => Aboard'
    <3>1. Blank(t.pc, unit) => Blank(t.pc, unit)'
      BY <1>1, <2>3 DEF Blank
    <3> QED BY <1>1, <2>3, <3>1 DEF Aboard, Search, Laden, SameFile, Carried
  <2> QED BY <1>1, <1>3, <2>3, <2>4, <2>5, WholeStep
<1> QED BY <1>2, <1>3

LEMMA EmptyOne == Empty(1) = <<Zero>>
BY DEF Empty

LEMMA WholeNextFile ==
  ASSUME WholeInv, TarInv', NextFile
  PROVE  WholeInv'
<1>1. t.pc = "next" /\ unit.call.done /\ ~Refused(unit.call) /\ UNCHANGED <<tree, vols, lost>>
  BY AtIs DEF NextFile
<1>2. DOMAIN t = TFields
  BY <1>1 DEF WholeInv, TarInv, Running
<1> DEFINE top == Last(t.walk)
           entries == Dirs[top.dir]
           put == [t EXCEPT !.pc = "put"]
<1>3. \/ UNCHANGED unit /\ t' = [t EXCEPT !.walk = Front(@)]
      \/ UNCHANGED unit /\ t' = [put EXCEPT !.walk = Append(Front(@), [top EXCEPT !.i = @ + 1]), !.path = entries[top.i]]
      \/ UNCHANGED unit /\ t' = [put EXCEPT !.args = Tail(@), !.path = Head(t.args)]
      \/ t' = [t EXCEPT !.pc = "fill", !.last = TRUE] /\ Write(Empty(1))
  BY DEF NextFile
<1>4. CASE /\ UNCHANGED unit
           /\ \/ t' = [t EXCEPT !.walk = Front(@)]
              \/ t' = [put EXCEPT !.walk = Append(Front(@), [top EXCEPT !.i = @ + 1]), !.path = entries[top.i]]
              \/ t' = [put EXCEPT !.args = Tail(@), !.path = Head(t.args)]
  <2> HIDE DEF top, entries
  <2>1. t'.job = t.job /\ t'.status = t.status /\ SameFile /\ t'.pc \in {"next", "put"}
    <3>1. CASE t' = [t EXCEPT !.walk = Front(@)]
      BY <1>1, <1>2, <3>1 DEF TFields, SameFile
    <3>2. CASE t' = [put EXCEPT !.walk = Append(Front(@), [top EXCEPT !.i = @ + 1]), !.path = entries[top.i]]
      BY <1>2, <3>2 DEF TFields, SameFile
    <3>3. CASE t' = [put EXCEPT !.args = Tail(@), !.path = Head(t.args)]
      BY <1>2, <3>3 DEF TFields, SameFile
    <3> QED BY <1>4, <3>1, <3>2, <3>3
  <2>2. Numbered => Numbered'
    BY <2>1, NumberedStay DEF InFile
  <2>3. \A m : Account(t.pc, t.noblks, m) => Account(t'.pc, t'.noblks, m)
    BY <1>1, <2>1 DEF Account
  <2> QED BY <1>1, <1>4, <2>1, <2>2, <2>3, WholeStay
<1>5. CASE t' = [t EXCEPT !.pc = "fill", !.last = TRUE] /\ Write(Empty(1))
  <2>1. t'.job = t.job /\ t'.status = t.status /\ SameFile /\ t'.pc = "fill" /\ t'.last
    BY <1>2, <1>5 DEF TFields, SameFile
  <2>2. Numbered => Numbered'
    BY <2>1, NumberedStay DEF InFile
  <2> DEFINE data == Empty(1)
  <2>3. IsSeq(data) /\ Len(data) # 0
    BY EmptyIs
  <2>4. \A m : IsSeq(m) /\ Account(t.pc, t.noblks, m) => Account(t'.pc, t'.noblks, m \o data)
    BY <1>1, <2>1, EmptyOne, AppendZero DEF Account
  <2> HIDE DEF data
  <2> QED BY <1>1, <1>5, <2>1, <2>2, <2>3, <2>4, WholeWrite DEF data
<1> QED BY <1>3, <1>4, <1>5

\* The program asks how much the buffer takes.
LEMMA WholeLeft ==
  ASSUME WholeInv, TarInv', UNCHANGED <<tree, vols>>, lost => lost', t'.job = t.job, t'.status = t.status, SameFile,
         t'.last = t.last, unit.call.done, ~Refused(unit.call), Left("write"),
         (t.pc = "fill" /\ t'.pc = "filled") \/ (t.pc = "data" /\ t'.pc = "chunk")
  PROVE  WholeInv'
<1>1. ASSUME Sailing, Numbered, Aboard
      PROVE  Numbered' /\ Aboard'
  <2>1. t.pc \in EarlyPcs /\ t.pc \in {"data", "fill"} /\ t'.pc \in {"chunk", "filled"} /\ t.pc \notin {"chunk", "filled"}
    BY DEF EarlyPcs
  <2>2. unit.call.i \in Int
    BY <1>1 DEF WholeInv, TarInv, UnitOk, Sailing, Typed, Calling
  <2>3. PICK m : IsSeq(m) /\ Berth(t.pc, unit, m) /\ Account(t.pc, t.noblks, m)
    BY <1>1, <2>1, <2>2, LadenReady DEF Laden
  <2>4. unit' = Called(unit, "left", "write", t.job.s, <<>>, 0)
    BY DEF Left, Call
  <2>5. Berth(t'.pc, Called(unit, "left", "write", t.job.s, <<>>, 0), m)
    BY <2>1, <2>3, BerthLeft
  <2>6. Account(t'.pc, t'.noblks, m)
    BY <2>1, <2>3 DEF Account, SameFile
  <2>7. Laden'
    BY <2>3, <2>4, <2>5, <2>6 DEF Laden
  <2>8. Numbered'
    BY <1>1, NumberedStay DEF InFile, InData
  <2> QED BY <2>1, <2>7, <2>8 DEF Aboard
<1>2. t.pc \notin {"idle", "over", "closed"} /\ t'.pc # "idle"
  OBVIOUS
<1> QED BY <1>1, <1>2, WholeStep

\* The program closes the unit, at the end of a volume or of its own.
LEMMA WholeClose ==
  ASSUME WholeInv, TarInv', UNCHANGED <<tree, vols>>, lost => lost', t'.job = t.job, t'.status = t.status, SameFile,
         unit.call.done, Call("close", "write", <<>>, 0),
         (t.pc = "shut" /\ t'.pc = "mount") \/ (t.pc = "over" /\ t'.pc = "closed")
  PROVE  WholeInv'
<1>1. ASSUME Numbered, Aboard
      PROVE  Numbered' /\ Aboard'
  <2>1. t.pc \in {"shut", "over"} /\ t'.pc \in {"mount", "closed"} /\ (t.pc = "over" => t'.pc = "closed")
    OBVIOUS
  <2>2. unit' = Called(unit, "close", "write", t.job.s, <<>>, 0)
    BY DEF Call
  <2>3. CASE Short(t.pc, unit)
    <3>1. Short(t'.pc, Called(unit, "close", "write", t.job.s, <<>>, 0))
      BY <2>1, <2>3, ShortClose
    <3>2. Short(t'.pc, unit')
      BY <2>2, <3>1
    <3> QED BY <1>1, <2>1, <3>2, NumberedStay DEF Aboard, InFile, InData
  <2>4. CASE Laden
    <3>1. PICK m : IsSeq(m) /\ Berth(t.pc, unit, m) /\ Account(t.pc, t.noblks, m)
      BY <2>4 DEF Laden
    <3>2. Berth(t'.pc, Called(unit, "close", "write", t.job.s, <<>>, 0), m)
      BY <2>1, <3>1, BerthClose
    <3>3. Account(t'.pc, t'.noblks, m)
      BY <2>1, <3>1 DEF Account
    <3>4. Laden'
      BY <2>2, <3>1, <3>2, <3>3 DEF Laden
    <3> QED BY <1>1, <2>1, <3>4, NumberedStay DEF Aboard, InFile, InData
  <2> QED BY <1>1, <2>1, <2>3, <2>4 DEF Aboard
<1>2. t.pc # "idle" /\ t'.pc # "idle"
  OBVIOUS
<1> QED BY <1>1, <1>2, WholeStep

\* The last block of the tape is filled.
LEMMA WholeFill ==
  ASSUME WholeInv, TarInv', At("filled"), UNCHANGED <<tree, vols, lost>>,
         Write(Empty(Back.i)), t' = IF t.last THEN Over(0) ELSE [t EXCEPT !.pc = "shut"]
  PROVE  WholeInv'
<1>1. t.pc = "filled" /\ unit.call.done /\ ~Refused(unit.call)
  BY AtIs
<1>2. DOMAIN t = TFields
  BY <1>1 DEF WholeInv, TarInv, Running
<1>3. /\ t'.job = t.job /\ SameFile /\ t'.last = t.last
      /\ t'.pc \in {"shut", "over"} /\ (t'.pc = "shut" => ~t.last /\ t'.status = t.status)
  <2>1. CASE t.last
    BY <1>2, <2>1 DEF TFields, SameFile, Over
  <2>2. CASE ~t.last
    BY <1>2, <2>2 DEF TFields, SameFile
  <2> QED BY <2>1, <2>2
<1>4. ASSUME Sailing, Numbered, Aboard
      PROVE  Numbered' /\ Aboard'
  <2>1. Typed(unit) /\ unit.call.i \in Int
    BY <1>4 DEF WholeInv, TarInv, UnitOk, Sailing, Typed, Calling
  <2> DEFINE data == Empty(unit.call.i)
             n == Len(data)
  <2>2. IsSeq(data) /\ (unit.call.i >= 0 => n = unit.call.i) /\ (unit.call.i <= 0 => n = 0)
    BY <2>1, EmptyIs
  <2>3. unit' = Called(unit, "transfer", "write", t.job.s, data, n)
    BY DEF Write, Call, Back
  <2> HIDE DEF data
  <2>4. t.pc \in EarlyPcs /\ t.pc \notin {"seek", "seen"} /\ t'.pc \notin {"seek", "seen"}
    BY <1>1, <1>3 DEF EarlyPcs
  <2>5. CASE Short(t.pc, unit)
    <3>1. unit.call.i <= 0
      BY <1>1, <2>4, <2>5, ShortReady
    <3>2. Short(t'.pc, Called(unit, "transfer", "write", t.job.s, data, 0))
      BY <1>1, <1>3, <2>2, <2>5, ShortFill
    <3>3. Short(t'.pc, unit')
      BY <2>2, <2>3, <3>1, <3>2
    <3> QED BY <1>1, <1>3, <1>4, <2>4, <3>3, NumberedStay DEF Aboard, InFile, InData
  <2>6. CASE Laden
    <3>1. PICK m : IsSeq(m) /\ Berth(t.pc, unit, m) /\ Account(t.pc, t.noblks, m)
      BY <2>6 DEF Laden
    <3>2. unit.call.i > 0
      BY <1>1, <2>4, <3>1, BerthReady
    <3>3. n = Len(data) /\ n = unit.call.i
      BY <2>1, <2>2, <3>2
    <3>4. Berth("filled", unit, m)
      BY <1>1, <3>1
    <3> HIDE DEF n
    <3>5. Berth(t'.pc, Called(unit, "transfer", "write", t.job.s, data, n), m \o data)
      BY <1>1, <1>3, <2>2, <3>1, <3>3, <3>4, BerthFill
    <3>6. Whole(m)
      BY <1>1, <3>1 DEF Account
    <3>7. IsSeq(m \o data) /\ Stays(m \o data, m, Len(m))
      BY <2>2, <3>1, JoinSeq, JoinStays
    <3>8. Whole(m \o data)
      BY <3>1, <3>6, <3>7, WholeOn
    <3>9. Account(t'.pc, t'.noblks, m \o data)
      BY <1>3, <3>8 DEF Account
    <3>10. Laden'
      BY <2>3, <3>5, <3>7, <3>9 DEF Laden
    <3> QED BY <1>1, <1>3, <1>4, <2>4, <3>10, NumberedStay DEF Aboard, InFile, InData
  <2> QED BY <1>4, <2>4, <2>5, <2>6 DEF Aboard
<1>5. t.pc \notin {"idle", "over", "closed"} /\ t'.pc # "idle" /\ (t'.status = t.status \/ t'.pc \in {"over", "closed"})
  BY <1>1, <1>3
<1> QED BY <1>3, <1>4, <1>5, WholeStep

LEMMA WholeCloseVolume ==
  ASSUME WholeInv, TarInv', CloseVolume
  PROVE  WholeInv'
<1>1. t.pc \in {"volume", "fill", "filled", "shut"} /\ unit.call.done /\ ~Refused(unit.call) /\ UNCHANGED <<tree, vols, lost>>
  BY AtIs DEF CloseVolume
<1>2. DOMAIN t = TFields
  BY <1>1 DEF WholeInv, TarInv, Running
<1>3. CASE At("volume") /\ Write(Empty(1)) /\ t' = [t EXCEPT !.pc = "fill"]
  <2>1. t.pc = "volume"
    BY <1>3, AtIs
  <2>2. t'.job = t.job /\ t'.status = t.status /\ SameFile /\ t'.pc = "fill"
    BY <1>2, <1>3 DEF TFields, SameFile
  <2>3. Numbered => Numbered'
    BY <2>1, <2>2, NumberedStay DEF InFile, InData
  <2> DEFINE data == Empty(1)
  <2>4. IsSeq(data) /\ Len(data) # 0
    BY EmptyIs
  <2>5. \A m : IsSeq(m) /\ Account(t.pc, t.noblks, m) => Account(t'.pc, t'.noblks, m \o data)
    BY <2>1, <2>2, EmptyOne, AppendZero DEF Account
  <2> HIDE DEF data
  <2> QED BY <1>1, <1>3, <2>1, <2>2, <2>3, <2>4, <2>5, WholeWrite DEF data
<1>4. CASE At("fill") /\ Left("write") /\ t' = [t EXCEPT !.pc = "filled"]
  <2>1. t.pc = "fill"
    BY <1>4, AtIs
  <2>2. t'.job = t.job /\ t'.status = t.status /\ SameFile /\ t'.last = t.last /\ t'.pc = "filled"
    BY <1>2, <1>4 DEF TFields, SameFile
  <2> QED BY <1>1, <1>4, <2>1, <2>2, WholeLeft
<1>5. CASE At("filled") /\ Write(Empty(Back.i)) /\ t' = IF t.last THEN Over(0) ELSE [t EXCEPT !.pc = "shut"]
  BY <1>1, <1>5, WholeFill
<1>6. CASE At("shut") /\ Call("close", "write", <<>>, 0) /\ t' = [t EXCEPT !.pc = "mount"]
  <2>1. t.pc = "shut"
    BY <1>6, AtIs
  <2>2. t'.job = t.job /\ t'.status = t.status /\ SameFile /\ t'.pc = "mount"
    BY <1>2, <1>6 DEF TFields, SameFile
  <2> QED BY <1>1, <1>6, <2>1, <2>2, WholeClose
<1> QED BY <1>3, <1>4, <1>5, <1>6 DEF CloseVolume

LEMMA WholePutHead ==
  ASSUME WholeInv, TarInv', PutHead
  PROVE  WholeInv'
<1>1. t.pc = "head" /\ unit.call.done /\ ~Refused(unit.call) /\ UNCHANGED <<tree, vols, lost>>
  BY AtIs DEF PutHead
<1>2. DOMAIN t = TFields
  BY <1>1 DEF WholeInv, TarInv, Running
<1>3. t' = [t EXCEPT !.pc = IF t.dir.link # <<>> THEN "next" ELSE "data", !.tblkpos = @ + 1] /\ Write(<<t.dir>>)
  BY DEF PutHead
<1>4. /\ t'.job = t.job /\ t'.status = t.status /\ t'.pc = (IF t.dir.link # <<>> THEN "next" ELSE "data")
      /\ t'.tblkmax = t.tblkmax /\ t'.noblks = t.noblks /\ t'.bytes = t.bytes
      /\ t'.dir = t.dir /\ t'.ext = t.ext /\ t'.ihead = t.ihead /\ t'.tblkpos = t.tblkpos + 1
  BY <1>2, <1>3 DEF TFields
<1>5. Numbered => /\ Header(t.dir) /\ t.dir.size \in Nat
                  /\ t.dir.link = <<>> => Blocks(t.dir.size) = t.noblks /\ t.noblks \in Nat
  BY <1>1, BlocksNat DEF Numbered, InFile, FileOk, InData, Header
<1>6. ASSUME Numbered
      PROVE  Numbered'
  <2>1. t'.tblkpos \in Nat /\ Known1'
    BY <1>4, <1>6 DEF Numbered, Known1
  <2>2. CASE t.dir.link # <<>>
    BY <1>4, <2>1, <2>2 DEF Numbered, InFile
  <2>3. CASE t.dir.link = <<>>
    <3>1. FileOk
      BY <1>1, <1>6 DEF Numbered, InFile
    <3>2. Split'
      BY <1>4, <3>1 DEF FileOk, Split
    <3>3. InData'
      BY <1>4, <2>3 DEF InData
    <3>4. FileOk'
      BY <1>4, <1>5, <1>6, <2>3, <3>1, <3>2, <3>3 DEF FileOk
    <3> QED BY <2>1, <3>4 DEF Numbered
  <2> QED BY <2>2, <2>3
<1> DEFINE data == <<t.dir>>
<1>7. IsSeq(data) /\ Len(data) = 1
  BY OneSeq
<1>8. ASSUME Numbered, NEW m, IsSeq(m), Account(t.pc, t.noblks, m)
      PROVE  Account(t'.pc, t'.noblks, m \o data)
  <2>1. From(m \o data)[0] = Len(m) + 1 + Ahead(t.dir)
    BY <1>1, <1>5, <1>8, AppendHead DEF Account
  <2>2. Len(m \o data) = Len(m) + 1 /\ Len(m) \in Nat
    BY <1>7, <1>8, JoinSeq
  <2> HIDE DEF data
  <2>3. CASE t.dir.link # <<>>
    BY <1>4, <2>1, <2>2, <2>3 DEF Account, Ahead
  <2>4. CASE t.dir.link = <<>>
    <3>1. Ahead(t.dir) = t'.noblks
      BY <1>4, <1>5, <1>8, <2>4 DEF Ahead
    <3>2. From(m \o data)[0] = Len(m \o data) + t'.noblks
      BY <1>4, <1>5, <1>8, <2>1, <2>2, <2>4, <3>1
    <3>3. t'.pc = "data"
      BY <1>4, <2>4
    <3> QED BY <3>2, <3>3 DEF Account
  <2> QED BY <2>3, <2>4
<1>9. t'.pc \in {"next", "data"} /\ t.pc \in {"next", "head", "volume", "chunk", "end"} /\ t'.pc \in {"next", "data", "fill"}
      /\ (t.pc = "chunk" => ~(unit.call.i <= 0)) /\ Len(data) # 0 /\ Write(data)
  BY <1>1, <1>3, <1>4, <1>7
<1> HIDE DEF data
<1> QED BY <1>1, <1>4, <1>6, <1>7, <1>8, <1>9, WholeWrite

LEMMA WholePutData ==
  ASSUME WholeInv, TarInv', PutData
  PROVE  WholeInv'
<1>1. t.pc \in {"data", "chunk"} /\ unit.call.done /\ ~Refused(unit.call) /\ UNCHANGED <<tree, vols, lost>>
  BY AtIs DEF PutData
<1>2. DOMAIN t = TFields
  BY <1>1 DEF WholeInv, TarInv, Running
<1> DEFINE x == Slice(Content(t.st.ino), t.off, Least(t.noblks, Back.i) * BlkSiz)
           data == Cut(x)
           n == Len(data)
           on == [t EXCEPT !.pc = "data", !.off = @ + Len(x), !.noblks = @ - n, !.tblkpos = @ + n]
<1>3. CASE At("data") /\ Left("write") /\ t' = [t EXCEPT !.pc = "chunk"]
  <2>1. t.pc = "data"
    BY <1>3, AtIs
  <2>2. t'.job = t.job /\ t'.status = t.status /\ SameFile /\ t'.last = t.last /\ t'.pc = "chunk"
    BY <1>2, <1>3 DEF TFields, SameFile
  <2> QED BY <1>1, <1>3, <2>1, <2>2, WholeLeft
<1>4. CASE UNCHANGED unit /\ t' = [t EXCEPT !.pc = "end"] /\ (t.pc = "chunk" => ~(unit.call.i <= 0))
  <2>1. t'.job = t.job /\ t'.status = t.status /\ SameFile /\ t'.pc = "end"
    BY <1>2, <1>4 DEF TFields, SameFile
  <2>2. Numbered => Numbered'
    BY <1>1, <2>1, NumberedStay DEF InFile, InData
  <2>3. \A m : Account(t.pc, t.noblks, m) => Account(t'.pc, t'.noblks, m)
    BY <1>1, <2>1 DEF Account, SameFile
  <2> QED BY <1>1, <1>4, <2>1, <2>2, <2>3, WholeStay
<1>5. CASE t.pc = "chunk" /\ unit.call.i <= 0 /\ t' = Over(1) /\ UNCHANGED unit
  <2>1. 1 \in Int /\ 1 # 0 /\ t.pc \notin {"idle", "over", "closed"}
    BY <1>5
  <2> QED BY <1>1, <1>5, <2>1, WholeOver
<1>6. CASE t.pc = "chunk" /\ ~(unit.call.i <= 0) /\ Write(data) /\ t' = on
  <2>1. CASE ~Writes
    <3>1. t'.job = t.job /\ t'.pc = "data"
      BY <1>2, <1>6 DEF TFields
    <3>2. ~Writes'
      BY <1>6, <2>1, <3>1 DEF Writes
    <3> QED BY <1>1, <2>1, <3>2, WholeIdle
  <2>2. CASE Writes
    <3>1. unit.call.i \in Int /\ unit.call.i > 0 /\ t.off \in Int /\ t.noblks \in Int /\ Back.i = unit.call.i
      BY <1>6, <2>2 DEF WholeInv, TarInv, Numbers, UnitOk, Typed, Calling, Back
    <3>2. Content(t.st.ino) \in Seq(Int)
      <4>1. World /\ t.st.ino \in DOMAIN version
        BY <1>6, <2>2 DEF WholeInv, TarInv, HasFile, InFile
      <4> QED BY <4>1, ContentSeq
    <3>3. IsSeq(data) /\ n \in Nat
      <4> DEFINE k == Least(t.noblks, Back.i) * BlkSiz
      <4>1. k \in Int
        BY <3>1, TarAssumption DEF Least
      <4>2. IsSeq(x)
        <5> HIDE DEF k
        <5> QED BY <3>1, <3>2, <4>1, SliceIs DEF k
      <4> HIDE DEF x
      <4> QED BY <4>2, CutSeq
    <3>4. t.noblks \in Nat => n <= t.noblks
      <4> DEFINE k == Least(t.noblks, Back.i)
      <4>1. t.noblks \in Nat => k \in Nat /\ k <= t.noblks
        BY <3>1 DEF Least
      <4>2. x = Slice(Content(t.st.ino), t.off, k * BlkSiz)
        OBVIOUS
      <4> HIDE DEF k
      <4>3. k \in Nat => Len(Cut(Slice(Content(t.st.ino), t.off, k * BlkSiz))) <= k
        BY <3>1, <3>2, CutFits
      <4>4. k \in Nat => n <= k
        BY <4>2, <4>3
      <4> QED BY <3>3, <4>1, <4>4
    <3> HIDE DEF x, data
    <3>5. /\ t'.job = t.job /\ t'.status = t.status /\ t'.pc = "data" /\ t'.tblkpos = t.tblkpos + n /\ t'.noblks = t.noblks - n
          /\ t'.tblkmax = t.tblkmax /\ t'.bytes = t.bytes /\ t'.dir = t.dir /\ t'.ext = t.ext /\ t'.ihead = t.ihead
      BY <1>2, <1>6 DEF TFields
    <3>6. n = Len(data)
      OBVIOUS
    <3> HIDE DEF n
    <3>7. Numbered => t.noblks \in Nat /\ t.tblkpos \in Nat
      BY <1>6 DEF Numbered, InFile, FileOk, InData
    <3>8. ASSUME Numbered
          PROVE  Numbered'
      <4>1. t'.tblkpos \in Nat /\ t'.noblks \in Nat
        BY <3>3, <3>4, <3>5, <3>7, <3>8
      <4>2. Known1' /\ FileOk
        BY <1>6, <3>5, <3>8 DEF Numbered, Known1, InFile
      <4>3. Split' /\ InData' /\ InData
        BY <1>6, <3>5, <4>2 DEF FileOk, Split, InData
      <4>4. FileOk'
        BY <3>5, <4>1, <4>2, <4>3 DEF FileOk
      <4> QED BY <4>1, <4>2, <4>4 DEF Numbered
    <3>9. ASSUME Numbered, NEW m, IsSeq(m), Account(t.pc, t.noblks, m)
          PROVE  Account(t'.pc, t'.noblks, m \o data)
      <4>1. From(m)[0] = Len(m) + t.noblks
        BY <1>6, <3>9 DEF Account
      <4>2. From(m \o data)[0] = Len(m) + t.noblks
        BY <3>3, <3>4, <3>6, <3>7, <3>9, <4>1, AppendData
      <4>3. Len(m \o data) = Len(m) + n /\ Len(m) \in Nat
        BY <3>3, <3>6, <3>9, JoinSeq
      <4>4. From(m \o data)[0] = Len(m \o data) + t'.noblks
        BY <3>3, <3>5, <3>7, <3>9, <4>2, <4>3
      <4> QED BY <3>5, <4>4 DEF Account
    <3>10. t.pc \in {"next", "head", "volume", "chunk", "end"} /\ t'.pc \in {"next", "data", "fill"} /\ Write(data)
      BY <1>6, <3>5
    <3>11. t.pc = "chunk" /\ ~(unit.call.i <= 0)
      BY <1>6
    <3> QED BY <1>1, <3>3, <3>5, <3>8, <3>9, <3>10, <3>11, WholeWrite
  <2> QED BY <2>1, <2>2
<1>7. \/ At("data") /\ Left("write") /\ t' = [t EXCEPT !.pc = "chunk"]
      \/ UNCHANGED unit /\ t' = [t EXCEPT !.pc = "end"] /\ (t.pc = "chunk" => ~(unit.call.i <= 0))
      \/ t.pc = "chunk" /\ unit.call.i <= 0 /\ t' = Over(1) /\ UNCHANGED unit
      \/ t.pc = "chunk" /\ ~(unit.call.i <= 0) /\ Write(data) /\ t' = on
  <2>1. CASE At("data")
    <3>1. t.pc = "data" /\ ~At("chunk")
      BY <2>1, AtIs DEF At
    <3> QED BY <2>1, <3>1 DEF PutData
  <2>2. CASE At("chunk")
    <3>1. t.pc = "chunk" /\ ~At("data")
      BY <2>2, AtIs DEF At
    <3>2. Back.i = unit.call.i
      BY DEF Back
    <3> QED BY <2>2, <3>1, <3>2 DEF PutData
  <2> QED BY <2>1, <2>2 DEF PutData
<1> QED BY <1>3, <1>4, <1>5, <1>6, <1>7

\* The next extent of a file that is split has a header of its own, and is not empty.
LEMMA NextExtent ==
  ASSUME Numbered, t.pc = "end", t.ext # 0, ~(t.ext > 0 /\ t.noblks # 0),
         ~(t.ext > 0 /\ t.noblks = 0 /\ t.ext = t.dir.extotal),
         NEW s, s = IF t.ext + 1 = t.dir.extotal THEN t.bytes ELSE (t.tblkmax - 1) * BlkSiz,
         t.bytes \in Int, t.tblkmax \in Int,
         t'.pc = "volume", t'.ext = t.ext + 1, t'.bytes = t.bytes - s, t'.noblks = Blocks(s), t'.tblkpos = t.tblkpos,
         t'.tblkmax = t.tblkmax, t'.ihead = t.ihead,
         t'.dir = [t.dir EXCEPT !.size = s, !.extno = t.ext + 1]
  PROVE  Numbered' /\ t.noblks = 0
<1>1. FileOk /\ t.dir.link = <<>> /\ t.noblks \in Nat
  BY DEF Numbered, InFile, FileOk, InData
<1>2. /\ t.ext \in Nat /\ t.dir.extotal \in Nat /\ t.ext <= t.dir.extotal /\ t.tblkmax >= 2
      /\ t.ext < t.dir.extotal => t.bytes > (t.dir.extotal - t.ext - 1) * (t.tblkmax - 1) * BlkSiz
  BY <1>1 DEF FileOk, Split
<1>3. t.noblks = 0 /\ t.ext < t.dir.extotal
  BY <1>1, <1>2
<1> DEFINE x == t.dir.extotal
           i == t.ext
           max == t.tblkmax
           bytes == t.bytes
<1>4. x \in Int /\ i \in Int /\ max \in Int /\ bytes \in Int /\ max >= 2 /\ bytes > (x - i - 1) * (max - 1) * BlkSiz
  BY <1>2, <1>3
<1> HIDE DEF x, i, max, bytes
<1>5. /\ (max - 1) * BlkSiz \in Nat
      /\ bytes - (max - 1) * BlkSiz > (x - (i + 1) - 1) * (max - 1) * BlkSiz
      /\ x = i + 1 => bytes > 0
  BY <1>4, SplitGoesOn
<1>6. s \in Nat
  BY <1>4, <1>5 DEF x, i, max, bytes
<1>7. /\ DOMAIN t'.dir = HeadFields /\ t'.dir.kind = "head" /\ t'.dir.size = s /\ t'.dir.link = <<>> /\ t'.dir.extotal = t.dir.extotal
  BY <1>1 DEF FileOk, HeadFields
<1>8. Split'
  <2>1. t'.ext \in Nat /\ t'.dir.extotal \in Nat /\ t'.ext <= t'.dir.extotal /\ t'.tblkmax >= 2
    BY <1>2, <1>3, <1>7
  <2>2. t'.ext < t'.dir.extotal => t'.bytes > (t'.dir.extotal - t'.ext - 1) * (t'.tblkmax - 1) * BlkSiz
    <3>1. ASSUME t'.ext < t'.dir.extotal
          PROVE  s = (max - 1) * BlkSiz
      BY <1>2, <1>7, <3>1 DEF max
    <3>2. t'.ext < t'.dir.extotal => t'.bytes = bytes - (max - 1) * BlkSiz
      BY <3>1 DEF bytes
    <3> QED BY <1>5, <1>7, <3>2 DEF x, i, max
  <2> QED BY <2>1, <2>2 DEF Split
<1>9. Header(t.dir)' /\ Blocks(t.dir.size)' = t'.noblks
  BY <1>6, <1>7 DEF Header, Blocks
<1>10. ~InData'
  BY DEF InData
<1>11. FileOk'
  BY <1>7, <1>8, <1>9, <1>10 DEF FileOk
<1>12. Known1'
  BY DEF Numbered, Known1
<1> QED BY <1>3, <1>11, <1>12 DEF Numbered

LEMMA WholePutEnd ==
  ASSUME WholeInv, TarInv', PutEnd
  PROVE  WholeInv'
<1>1. t.pc = "end" /\ unit.call.done /\ ~Refused(unit.call) /\ UNCHANGED <<tree, vols>>
  BY AtIs DEF PutEnd
<1>2. DOMAIN t = TFields
  BY <1>1 DEF WholeInv, TarInv, Running
<1> DEFINE i == t.ext + 1
           s == IF i = t.dir.extotal THEN t.bytes ELSE (t.tblkmax - 1) * BlkSiz
           Fills == Write(Shortfall) /\ UNCHANGED lost /\ t' = [t EXCEPT !.pc = "next", !.tblkpos = @ + t.noblks]
           GivesUp == UNCHANGED unit /\ lost' /\ t' = [t EXCEPT !.pc = "next"]
           Ends == UNCHANGED <<unit, lost>> /\ t.noblks = 0 /\ t' = [t EXCEPT !.pc = "next"]
           GoesOn == /\ t.ext # 0 /\ ~(t.ext > 0 /\ t.noblks # 0) /\ ~(t.ext > 0 /\ t.noblks = 0 /\ t.ext = t.dir.extotal)
                     /\ UNCHANGED <<unit, lost>>
                     /\ t' = [t EXCEPT !.pc = "volume", !.ext = i, !.bytes = @ - s, !.noblks = Blocks(s), !.dir.size = s, !.dir.extno = i]
<1>3. Fills \/ GivesUp \/ Ends \/ GoesOn
  BY DEF PutEnd
<1>4. CASE Fills
  <2>1. /\ t'.job = t.job /\ t'.status = t.status /\ t'.pc = "next" /\ t'.tblkmax = t.tblkmax
        /\ t'.tblkpos = t.tblkpos + t.noblks /\ t'.ihead = t.ihead
    BY <1>2, <1>4 DEF TFields
  <2>2. CASE ~Writes
    <3>1. ~Writes'
      BY <1>1, <2>1, <2>2 DEF Writes
    <3> QED BY <1>1, <1>4, <2>2, <3>1, WholeIdle
  <2>3. CASE Writes
    <3> DEFINE data == Shortfall
    <3>1. IsSeq(data) /\ (t.noblks \in Nat => Len(data) = t.noblks)
      <4>1. t.noblks \in Int
        BY <2>3 DEF WholeInv, TarInv, Numbers
      <4> QED BY <4>1, EmptyIs DEF Shortfall
    <3>2. Write(data)
      BY <1>4
    <3> HIDE DEF data
    <3>3. Numbered => t.noblks \in Nat /\ t.tblkpos \in Nat
      BY <1>1 DEF Numbered, InFile, FileOk, InData
    <3>4. Numbered => Numbered'
      <4>1. ~InFile'
        BY <2>1 DEF InFile
      <4>2. Numbered => Known1'
        BY <2>1 DEF Numbered, Known1
      <4> QED BY <2>1, <3>3, <4>1, <4>2 DEF Numbered
    <3>5. ASSUME Numbered, NEW m, IsSeq(m), Account(t.pc, t.noblks, m)
          PROVE  Account(t'.pc, t'.noblks, m \o data)
      <4>1. From(m)[0] = Len(m) + t.noblks
        BY <1>1, <3>5 DEF Account
      <4> DEFINE n == t.noblks
      <4>2. n \in Nat /\ Len(data) = n /\ From(m)[0] = Len(m) + n
        BY <3>1, <3>3, <3>5, <4>1
      <4> HIDE DEF n
      <4>3. Len(data) <= n
        BY <4>2
      <4>4. From(m \o data)[0] = Len(m) + n
        BY <3>1, <3>5, <4>2, <4>3, AppendData
      <4>5. Len(m \o data) = Len(m) + n
        BY <3>1, <3>5, <4>2, JoinSeq
      <4> QED BY <2>1, <4>4, <4>5 DEF Account
    <3>6. t.pc \in {"next", "head", "volume", "chunk", "end"} /\ t'.pc \in {"next", "data", "fill"} /\ lost' = lost
          /\ (t.pc = "chunk" => ~(unit.call.i <= 0)) /\ (t.pc \in {"next", "head", "volume"} => Len(data) # 0)
      BY <1>1, <1>4, <2>1
    <3> QED BY <1>1, <2>1, <3>1, <3>2, <3>4, <3>5, <3>6, WholeWrite
  <2> QED BY <2>2, <2>3
<1>5. CASE GivesUp
  <2>1. t'.job = t.job /\ t'.status = t.status /\ t'.pc = "next"
    BY <1>2, <1>5 DEF TFields
  <2> QED BY <1>1, <1>5, <2>1, WholeStay
<1>6. CASE Ends
  <2>1. t'.job = t.job /\ t'.status = t.status /\ t'.pc = "next" /\ SameFile
    BY <1>2, <1>6 DEF TFields, SameFile
  <2>2. Numbered => Numbered'
    BY <2>1, NumberedStay DEF InFile
  <2>3. \A m : IsSeq(m) /\ Account(t.pc, t.noblks, m) => Account(t'.pc, t'.noblks, m)
    <3> SUFFICES ASSUME NEW m, IsSeq(m), Account(t.pc, t.noblks, m) PROVE From(m)[0] = Len(m)
      BY <2>1 DEF Account
    <3>1. From(m)[0] = Len(m) + 0 /\ Len(m) \in Nat
      BY <1>1, <1>6, JoinSeq DEF Account
    <3> QED BY <3>1
  <2> QED BY <1>1, <1>6, <2>1, <2>2, <2>3, WholeStay
<1>7. CASE GoesOn
  <2>1. t'.job = t.job /\ t'.status = t.status /\ t'.pc = "volume" /\ t'.ext = i /\ t'.bytes = t.bytes - s /\ t'.noblks = Blocks(s)
        /\ t'.tblkpos = t.tblkpos /\ t'.tblkmax = t.tblkmax /\ t'.ihead = t.ihead /\ t'.dir = [t.dir EXCEPT !.size = s, !.extno = i]
    <3> HIDE DEF i, s
    <3> QED BY <1>2, <1>7 DEF TFields
  <2>2. Writes => t.bytes \in Int /\ t.tblkmax \in Int
    BY DEF WholeInv, TarInv, Numbers
  <2>3. ASSUME Sailing, Numbered
        PROVE  Numbered' /\ t.noblks = 0
    <3>1. s = IF t.ext + 1 = t.dir.extotal THEN t.bytes ELSE (t.tblkmax - 1) * BlkSiz
      OBVIOUS
    <3>2. t'.ext = t.ext + 1 /\ t'.dir = [t.dir EXCEPT !.size = s, !.extno = t.ext + 1]
      BY <2>1
    <3>3. t.bytes \in Int /\ t.tblkmax \in Int
      BY <2>2, <2>3 DEF Sailing
    <3>4. t.ext # 0 /\ ~(t.ext > 0 /\ t.noblks # 0) /\ ~(t.ext > 0 /\ t.noblks = 0 /\ t.ext = t.dir.extotal)
      BY <1>7
    <3> HIDE DEF s, i
    <3> QED BY <1>1, <2>1, <2>3, <3>1, <3>2, <3>3, <3>4, NextExtent
  <2>4. ASSUME t.noblks = 0, NEW m, IsSeq(m), Account(t.pc, t.noblks, m)
        PROVE  Account(t'.pc, t'.noblks, m)
    <3>1. From(m)[0] = Len(m) + 0 /\ Len(m) \in Nat
      BY <1>1, <2>4, JoinSeq DEF Account
    <3> QED BY <2>1, <3>1 DEF Account
  <2> QED BY <1>1, <1>7, <2>1, <2>3, <2>4, WholeStay
<1> QED BY <1>3, <1>4, <1>5, <1>6, <1>7

\* A file with several names was dumped under one of them.
LEMMA KnownNamed ==
  ASSUME Known1, NEW ino, Known(ino) # {}
  PROVE  t.ihead[Min(Known(ino))].path # <<>>
<1>1. Known(ino) \subseteq DOMAIN t.ihead /\ DOMAIN t.ihead \subseteq Nat
  BY DEF Known1, IsSeq, Known
<1>2. PICK k \in Known(ino) : \A y \in Known(ino) : k <= y
  <2>1. \E N \in Nat : Known(ino) \subseteq 0..N
    <3>1. DOMAIN t.ihead = 1..Len(t.ihead) /\ Len(t.ihead) \in Nat
      BY DEF Known1, IsSeq
    <3> QED BY <1>1, <3>1
  <2> QED BY <1>1, <2>1, FirstOf
<1>3. Min(Known(ino)) \in Known(ino)
  BY <1>2 DEF Min
<1> QED BY <1>1, <1>3 DEF Known1

LEMMA HeadIs ==
  ASSUME NEW path, NEW st
  PROVE  LET h == Head1(path, st) IN DOMAIN h = HeadFields /\ h.kind = "head" /\ h.size = st.size /\ h.link = <<>>
BY DEF Head1, HeadFields

\* A named file in front of named files.
LEMMA FrontNamed ==
  ASSUME NEW e, e.path # <<>>, NEW u, IsSeq(u), \A k \in DOMAIN u : u[k].path # <<>>
  PROVE  LET w == <<e>> \o u IN IsSeq(w) /\ \A k \in DOMAIN w : w[k].path # <<>>
<1>1. PICK S : u \in Seq(S)
  BY DEF IsSeq
<1> DEFINE T == {u[k] : k \in DOMAIN u}
           V == T \cup {e}
           w == <<e>> \o u
<1>2. u \in Seq(T)
  <2>1. DOMAIN u = 1..Len(u) /\ Len(u) \in Nat
    BY <1>1
  <2>2. u = [k \in 1..Len(u) |-> u[k]]
    BY <1>1
  <2>3. \A k \in 1..Len(u) : u[k] \in T
    BY <2>1
  <2> QED BY <2>1, <2>2, <2>3
<1>3. \A x \in V : x.path # <<>>
  OBVIOUS
<1> HIDE DEF T
<1>4. u \in Seq(V) /\ <<e>> \in Seq(V)
  BY <1>2
<1> HIDE DEF V
<1>5. w \in Seq(V)
  BY <1>4
<1> HIDE DEF w
<1>6. \A k \in DOMAIN w : w[k] \in V
  BY <1>5
<1>7. IsSeq(w)
  BY <1>5 DEF IsSeq
<1> QED BY <1>3, <1>6, <1>7 DEF w

LEMMA WholePut ==
  ASSUME WholeInv, TarInv', Put
  PROVE  WholeInv'
<1>1. t.pc = "put" /\ unit.call.done /\ ~Refused(unit.call) /\ UNCHANGED <<tree, vols, unit>>
  BY AtIs DEF Put
<1>2. DOMAIN t = TFields
  BY <1>1 DEF WholeInv, TarInv, Running
<1> DEFINE path == t.path
           ino == tree[path]
           linked == Links(ino) > 1
           back == [t EXCEPT !.pc = "next"]
           st == [ino |-> ino, size |-> Len(Content(ino)), mtime |-> version[ino].mtime, of |-> version[ino].of]
           n == Blocks(st.size)
           h == Head1(path, st)
           full(k) == t.job.tblkmax > 0 /\ t.tblkpos + k + 1 > t.tblkmax
           ihead == IF linked THEN <<[ino |-> ino, path |-> path]>> \o t.ihead ELSE t.ihead
           go == [t EXCEPT !.st = st, !.dir = h, !.off = 0, !.noblks = n, !.ext = 0, !.ihead = ihead]
           s == t.tblkmax - t.tblkpos - 1
           split == [go EXCEPT !.pc = "head", !.ext = 1, !.noblks = s, !.bytes = st.size - s * BlkSiz,
                               !.dir = [h EXCEPT !.size = s * BlkSiz, !.extno = 1, !.extotal = Extents(n), !.efsize = st.size]]
           from == t.ihead[Min(Known(ino))].path
           link == [t EXCEPT !.st = st, !.dir = [h EXCEPT !.link = from], !.pc = IF full(1) THEN "volume" ELSE "head"]
           Skips == t' = back \/ t' = [back EXCEPT !.walk = Append(@, [dir |-> path, i |-> 1])]
           Links1 == path \in DOMAIN tree /\ Known(ino) # {} /\ t' = link
           Goes == path \in DOMAIN tree /\ (t' = [go EXCEPT !.pc = "head"] \/ t' = [go EXCEPT !.pc = "volume"])
           GivesUp == lost' /\ t' = [back EXCEPT !.ihead = ihead]
           Splits == path \in DOMAIN tree /\ ~(t.tblkmax - t.tblkpos < ExtMin) /\ Extents(n) \in 2..MaxExt /\ t' = split
<1>3. (lost => lost') /\ (Skips \/ Links1 \/ Goes \/ GivesUp \/ Splits)
  BY DEF Put
<1>4. \A m : t'.pc \in {"next", "head", "volume"} /\ Account(t.pc, t.noblks, m) => Account(t'.pc, t'.noblks, m)
  BY <1>1 DEF Account
<1>5. path \in DOMAIN tree => path # <<>> /\ (Sailing => st.size \in Nat)
  <2>1. path \in DOMAIN tree => path # <<>>
    BY TarAssumption DEF WholeInv
  <2>2. ASSUME path \in DOMAIN tree
        PROVE  Len(Content(ino)) \in Nat
    <3>1. World /\ ino \in DOMAIN version
      BY <2>2 DEF WholeInv, TarInv, World
    <3> QED BY <3>1, ContentSeq
  <2> QED BY <2>1, <2>2
<1>6. ASSUME Numbered, path \in DOMAIN tree
      PROVE  IsSeq(ihead) /\ \A k \in DOMAIN ihead : ihead[k].path # <<>>
  <2>1. IsSeq(t.ihead) /\ \A k \in DOMAIN t.ihead : t.ihead[k].path # <<>>
    BY <1>6 DEF Numbered, Known1
  <2> DEFINE one == [ino |-> ino, path |-> path]
             both == <<one>> \o t.ihead
  <2>2. one.path = path
    OBVIOUS
  <2> HIDE DEF one
  <2>3. IsSeq(both) /\ \A k \in DOMAIN both : both[k].path # <<>>
    BY <1>5, <1>6, <2>1, <2>2, FrontNamed
  <2> HIDE DEF both
  <2>4. ihead = (IF linked THEN both ELSE t.ihead)
    BY DEF both, one
  <2> HIDE DEF ihead, linked
  <2> QED BY <2>1, <2>3, <2>4
<1>7. DOMAIN h = HeadFields /\ h.kind = "head" /\ h.size = st.size /\ h.link = <<>>
  BY HeadIs
<1> HIDE DEF path, ino, linked, st, n, h, s, ihead, from
<1>8. CASE Skips
  <2>1. t'.job = t.job /\ t'.status = t.status /\ t'.pc = "next" /\ SameFile
    BY <1>2, <1>8 DEF TFields, SameFile
  <2>2. Numbered => Numbered'
    BY <2>1, NumberedStay DEF InFile
  <2> QED BY <1>1, <1>3, <1>4, <2>1, <2>2, WholeStay
<1>9. CASE GivesUp
  <2>1. t'.job = t.job /\ t'.status = t.status /\ t'.pc = "next"
    BY <1>2, <1>9 DEF TFields
  <2> QED BY <1>1, <1>3, <1>9, <2>1, WholeStay
<1>10. CASE Links1
  <2>1. /\ t'.job = t.job /\ t'.status = t.status /\ t'.pc \in {"head", "volume"} /\ t'.dir = [h EXCEPT !.link = from]
        /\ t'.tblkpos = t.tblkpos /\ t'.ihead = t.ihead
    <3> HIDE DEF full
    <3> QED BY <1>2, <1>10 DEF TFields
  <2>2. ASSUME Sailing, Numbered
        PROVE  Numbered'
    <3>1. from # <<>>
      BY <1>10, <2>2, KnownNamed DEF Numbered, from
    <3>2. DOMAIN t'.dir = HeadFields /\ t'.dir.kind = "head" /\ t'.dir.size = st.size /\ t'.dir.link = from
      BY <1>7, <2>1 DEF HeadFields
    <3>3. Header(t.dir)' /\ ~InData'
      BY <1>5, <1>10, <2>1, <2>2, <3>2 DEF Header, InData
    <3>4. FileOk'
      BY <3>1, <3>2, <3>3 DEF FileOk, Split
    <3> QED BY <2>1, <2>2, <3>4 DEF Numbered, Known1
  <2> QED BY <1>1, <1>3, <1>4, <2>1, <2>2, WholeStay
<1>11. CASE Goes
  <2>1. /\ t'.job = t.job /\ t'.status = t.status /\ t'.pc \in {"head", "volume"} /\ t'.dir = h
        /\ t'.tblkpos = t.tblkpos /\ t'.ihead = ihead /\ t'.noblks = n /\ t'.ext = 0
    <3>1. CASE t' = [go EXCEPT !.pc = "head"]
      BY <1>2, <3>1 DEF TFields
    <3>2. CASE t' = [go EXCEPT !.pc = "volume"]
      BY <1>2, <3>2 DEF TFields
    <3> QED BY <1>11, <3>1, <3>2
  <2>2. ASSUME Sailing, Numbered
        PROVE  Numbered'
    <3>1. Header(t.dir)' /\ ~InData'
      BY <1>5, <1>7, <1>11, <2>1, <2>2 DEF Header, InData
    <3>2. Blocks(t.dir.size)' = t'.noblks
      BY <1>7, <2>1 DEF n, Blocks
    <3>3. FileOk'
      BY <1>7, <2>1, <3>1, <3>2 DEF FileOk, Split
    <3>4. Known1'
      BY <1>6, <1>11, <2>1, <2>2 DEF Known1
    <3> QED BY <2>1, <2>2, <3>3, <3>4 DEF Numbered
  <2> QED BY <1>1, <1>3, <1>4, <2>1, <2>2, WholeStay
<1>12. CASE Splits
  <2> DEFINE sh == [h EXCEPT !.size = s * BlkSiz, !.extno = 1, !.extotal = Extents(n), !.efsize = st.size]
  <2>1. DOMAIN sh = HeadFields /\ sh.kind = "head" /\ sh.size = s * BlkSiz /\ sh.link = <<>> /\ sh.extotal = Extents(n)
    BY <1>7 DEF HeadFields
  <2> HIDE DEF sh
  <2>2. /\ t'.job = t.job /\ t'.status = t.status /\ t'.pc = "head" /\ t'.dir = sh /\ t'.tblkmax = t.tblkmax
        /\ t'.tblkpos = t.tblkpos /\ t'.ihead = ihead /\ t'.noblks = s /\ t'.ext = 1 /\ t'.bytes = st.size - s * BlkSiz
    BY <1>2, <1>12 DEF TFields, sh
  <2>3. ASSUME Sailing, Numbered
        PROVE  Numbered'
    <3>1. t.tblkmax \in Int /\ t.tblkpos \in Nat
      BY <2>3 DEF WholeInv, TarInv, Numbers, Sailing, Numbered
    <3>2. t.tblkmax - t.tblkpos >= 2 /\ t.tblkmax >= 2
      BY <1>12, <3>1, TarAssumption
    <3> DEFINE size == st.size
               x == (Blocks(size) + t.tblkpos - 1) \div (t.tblkmax - 1) + 1
    <3>3. size \in Nat /\ x = Extents(n)
      BY <1>5, <1>12, <2>3 DEF Extents, n
    <3> HIDE DEF size
    <3>4. s \in Nat /\ x \in Int /\ s * BlkSiz \in Int /\ size - s * BlkSiz > (x - 1 - 1) * (t.tblkmax - 1) * BlkSiz
      BY <3>1, <3>2, <3>3, SplitStarts DEF s
    <3> HIDE DEF x
    <3>5. x \in 2..MaxExt
      BY <1>12, <3>3
    <3>6. x \in Nat /\ 1 <= x
      BY <3>4, <3>5
    <3>7. s * BlkSiz \in Nat /\ Blocks(s * BlkSiz) = s
      BY <3>4, BlocksTimes
    <3>8. Header(t.dir)' /\ ~InData' /\ Blocks(t.dir.size)' = t'.noblks
      BY <2>1, <2>2, <3>7 DEF Header, InData, Blocks
    <3>9. t'.bytes > (t'.dir.extotal - t'.ext - 1) * (t'.tblkmax - 1) * BlkSiz
      BY <2>1, <2>2, <3>3, <3>4 DEF size
    <3>10. Split'
      BY <2>1, <2>2, <3>2, <3>3, <3>6, <3>9 DEF Split
    <3>11. FileOk'
      BY <2>1, <2>2, <3>8, <3>10 DEF FileOk
    <3>12. Known1'
      BY <1>6, <1>12, <2>2, <2>3 DEF Known1
    <3> QED BY <2>2, <2>3, <3>11, <3>12 DEF Numbered
  <2>4. t'.pc \in {"next", "head", "volume"}
    BY <2>2
  <2> QED BY <1>1, <1>3, <1>4, <2>2, <2>3, <2>4, WholeStay
<1> QED BY <1>3, <1>8, <1>9, <1>10, <1>11, <1>12

\* The volume that is written is full and whole, and goes away: the next medium
\* begins with the header of the next file or of the next part of it.
LEMMA WholeNewVolume ==
  ASSUME WholeInv, TarInv', NewVolume
  PROVE  WholeInv'
<1>1. t.pc = "mount" /\ unit.call.done /\ Writes /\ UNCHANGED tree /\ vols' = Shelved /\ lost' = (lost \/ (t.term /\ t.ext > 1))
  BY AtIs DEF NewVolume
<1>2. DOMAIN t = TFields /\ t.status = 0 /\ Typed(unit)
  BY <1>1 DEF WholeInv, TarInv, Running, UnitOk, Clear
<1>3. \/ unit.call.i < 0 /\ UNCHANGED unit /\ t' = Over(3)
      \/ ~(unit.call.i < 0) /\ UNCHANGED unit /\ t' = Over(0)
      \/ ~(unit.call.i < 0) /\ unit' = Ioopcre(unit, <<>>) /\ t' = [t EXCEPT !.pc = "head", !.at = @ + 1, !.tblkpos = 0]
  BY DEF NewVolume, Back
<1>4. DOMAIN vols' = {t.at} \cup DOMAIN vols /\ vols'[t.at] = unit.medium /\ \A v \in DOMAIN vols \ {t.at} : vols'[v] = vols[v]
  BY <1>1 DEF Shelved
<1>5. ASSUME ~lost
      PROVE  Numbered /\ Aboard /\ \A v \in DOMAIN vols : Whole(vols[v])
  BY <1>1, <1>2, <1>5 DEF WholeInv, Sailing, Shelf
<1>6. ASSUME ~lost, ~(unit.call.i < 0)
      PROVE  \E m : IsSeq(m) /\ Settled(unit, m) /\ Whole(m)
  <2>1. ~Short(t.pc, unit)
    BY <1>1, <1>6 DEF Short, EarlyPcs
  <2>2. PICK m : IsSeq(m) /\ Berth(t.pc, unit, m) /\ Account(t.pc, t.noblks, m)
    BY <1>1, <1>5, <1>6, <2>1 DEF Aboard, Laden
  <2>3. Settled(unit, m)
    BY <1>1, <2>2 DEF Berth, EarlyPcs
  <2>4. Whole(m)
    BY <1>1, <2>2 DEF Account
  <2> QED BY <2>2, <2>3, <2>4
<1>7. ASSUME ~lost, ~(unit.call.i < 0)
      PROVE  \A v \in DOMAIN vols' : Whole(vols'[v])
  <2>1. PICK m : IsSeq(m) /\ Settled(unit, m) /\ Whole(m)
    BY <1>6, <1>7
  <2>2. Stays(unit.medium, m, Len(m)) /\ IsSeq(unit.medium)
    BY <2>1 DEF Settled, Dead, Typed
  <2>3. Whole(unit.medium)
    BY <2>1, <2>2, WholeOn
  <2>4. ASSUME NEW v \in DOMAIN vols'
        PROVE  Whole(vols'[v])
    <3>1. CASE v = t.at
      BY <1>4, <2>3, <3>1
    <3>2. CASE v # t.at
      <4>1. v \in DOMAIN vols /\ vols'[v] = vols[v]
        BY <1>4, <2>4, <3>2
      <4> QED BY <1>5, <1>7, <4>1
    <3> QED BY <3>1, <3>2
  <2> QED BY <2>4
<1>8. DOMAIN tree' \subseteq DOMAIN Files
  BY <1>1 DEF WholeInv
<1>9. ~lost' => ~lost
  BY <1>1
<1>10. CASE unit.call.i < 0 /\ UNCHANGED unit /\ t' = Over(3)
  <2>1. t'.pc = "over" /\ t'.status = 3 /\ t'.job = t.job
    BY <1>2, <1>10 DEF TFields, Over
  <2>2. Writes'
    BY <1>1, <2>1 DEF Writes
  <2>3. Clear' /\ Shelf' /\ ~Sailing'
    BY <2>1, <2>2 DEF Clear, Shelf, Sailing
  <2> QED BY <1>8, <2>3 DEF WholeInv
<1>11. CASE ~(unit.call.i < 0) /\ UNCHANGED unit /\ t' = Over(0)
  <2>1. t'.pc = "over" /\ t'.status = 0 /\ t'.tblkpos = t.tblkpos /\ t'.ihead = t.ihead /\ t'.noblks = t.noblks
    BY <1>2, <1>11 DEF TFields, Over
  <2>2. Clear' /\ Shelf'
    BY <1>7, <1>9, <1>11, <2>1 DEF Clear, Shelf
  <2>3. ASSUME ~lost
        PROVE  Numbered' /\ Aboard'
    <3>1. Numbered'
      BY <1>5, <2>1, <2>3 DEF Numbered, Known1, InFile
    <3>2. PICK m : IsSeq(m) /\ Settled(unit, m) /\ Whole(m)
      BY <1>6, <1>11, <2>3
    <3>3. Berth(t'.pc, unit', m)
      BY <1>1, <1>11, <2>1, <3>2 DEF Berth
    <3>4. Account(t'.pc, t'.noblks, m)
      BY <2>1, <3>2 DEF Account
    <3>5. Laden'
      BY <3>2, <3>3, <3>4 DEF Laden
    <3> QED BY <2>1, <3>1, <3>5 DEF Aboard
  <2> QED BY <1>8, <1>9, <2>2, <2>3 DEF WholeInv, Sailing
<1>12. CASE ~(unit.call.i < 0) /\ unit' = Ioopcre(unit, <<>>) /\ t' = [t EXCEPT !.pc = "head", !.at = @ + 1, !.tblkpos = 0]
  <2>1. /\ t'.pc = "head" /\ t'.status = t.status /\ t'.tblkpos = 0 /\ t'.ihead = t.ihead /\ t'.noblks = t.noblks
        /\ t'.dir = t.dir /\ t'.ext = t.ext /\ t'.bytes = t.bytes /\ t'.tblkmax = t.tblkmax
    BY <1>2, <1>12 DEF TFields
  <2>2. Clear' /\ Shelf'
    BY <1>2, <1>7, <1>9, <1>12, <2>1 DEF Clear, Shelf
  <2>3. ASSUME ~lost
        PROVE  Numbered' /\ Aboard'
    <3>1. Numbered /\ FileOk /\ ~InData /\ ~InData'
      BY <1>1, <1>5, <2>1, <2>3 DEF Numbered, InFile, InData
    <3>2. Split'
      BY <2>1, <3>1 DEF FileOk, Split
    <3>3. (Header(t.dir)' <=> Header(t.dir)) /\ Blocks(t.dir.size)' = Blocks(t.dir.size)
      BY <2>1 DEF Header, Blocks
    <3>4. FileOk'
      BY <2>1, <3>1, <3>2, <3>3 DEF FileOk
    <3>5. Numbered'
      BY <2>1, <3>1, <3>4 DEF Numbered, Known1
    <3>6. PICK m : IsSeq(m) /\ Settled(unit, m) /\ Whole(m)
      BY <1>6, <1>12, <2>3
    <3>7. unit.bcnt \in 0..unit.bsz
      BY <3>6 DEF Settled
    <3>8. IsSeq(<<>>) /\ Len(<<>>) = 0
      <4>1. <<>> \in Seq(Int) /\ Len(<<>>) = 0
        OBVIOUS
      <4> QED BY <4>1 DEF IsSeq
    <3>9. Typed(Ioopcre(unit, <<>>))
      BY <1>2, <3>8, OpcreTyped
    <3>10. Poised(unit', <<>>) /\ unit'.qrnd = 0 /\ unit'.call = NoCall
      BY <1>12, <3>7, <3>9, PoisedNew
    <3>11. Berth(t'.pc, unit', <<>>)
      BY <2>1, <3>8, <3>10 DEF Berth, Refused, NoCall
    <3>12. Account(t'.pc, t'.noblks, <<>>)
      BY <2>1, <3>8, FromNone DEF Account
    <3>13. Laden'
      BY <3>8, <3>11, <3>12 DEF Laden
    <3> QED BY <2>1, <3>5, <3>13 DEF Aboard
  <2> QED BY <1>8, <1>9, <2>2, <2>3 DEF WholeInv, Sailing
<1> QED BY <1>3, <1>10, <1>11, <1>12

\* A block of the archive was read on the way to its end.
LEMMA SeenIs ==
  ASSUME WholeInv, Sailing, t.pc = "seen", unit.call.done, ~Refused(unit.call), Header(Got) \/ Got.kind = "zero"
  PROVE  /\ t.job.op \in {"r", "u"} /\ t.at = t.job.from /\ t.at \in DOMAIN vols /\ IsSeq(vols[t.at]) /\ Whole(vols[t.at])
         /\ End(vols[t.at]) \in Nat /\ End(vols[t.at]) < Len(vols[t.at])
         /\ Looking(unit, vols[t.at], End(vols[t.at]), t.job.s) /\ Got = unit.call.data[1] /\ unit.call.i = 1
<1>1. Search
  BY DEF WholeInv, Aboard
<1>2. ~(unit.call.i <= 0)
  BY DEF Got, Back, Header
<1> DEFINE new == Ioopcre(NoUnit(t.job.tblksz, t.job.capacity), <<>>)
<1>3. ~Called(new, "transfer", "read", t.job.s, <<>>, 1).call.done
  BY DEF Called, Ioopcre
<1>4. ~Blank(t.pc, unit)
  <2> HIDE DEF new
  <2> QED BY <1>2, <1>3 DEF Blank, new
<1>5. t.job.op \in {"r", "u"} /\ t.at = t.job.from /\ t.at \in DOMAIN vols
  BY <1>1, <1>4 DEF Search
<1> DEFINE m == vols[t.at]
           e == End(m)
<1>6. IsSeq(m) /\ Whole(m)
  BY <1>5 DEF WholeInv, Shelf, Sailing, TarInv, Media
<1>7. e \in Nat /\ e < Len(m)
  <2>1. 0 \in Nat
    OBVIOUS
  <2> QED BY <1>6, <2>1, FromGrows DEF Whole, End
<1>8. Phase(t.pc, unit, m, e, t.job.s)
  BY <1>5, <1>6 DEF WholeInv, TarInv, KeptOk, Appends, Sailing
<1> HIDE DEF m, e
<1>9. Looking(unit, m, e, t.job.s)
  BY <1>7, <1>8, LookingIs
<1>10. unit.call.i = 1
  BY <1>6, <1>7, <1>9, SeekSees
<1>11. Got = unit.call.data[1]
  BY <1>10 DEF Got, Back
<1> QED BY <1>5, <1>6, <1>7, <1>9, <1>10, <1>11 DEF m, e

\* The unit is back over the end of the archive: what comes before it is the
\* volume that is written on.
LEMMA TurnsPoised ==
  ASSUME NEW d, NEW m, IsSeq(m), NEW e \in Nat, e = End(m), e < Len(m), NEW s, Looking(d, m, e, s), d.call.done,
         d.call.data[1].kind = "zero"
  PROVE  LET w == SubSeq(m, 1, e)
             r == Seek(d, -1) IN
         IsSeq(w) /\ Berth("next", r, w) /\ From(w)[0] = Len(w)
<1> DEFINE k == d.qrnd - 1
           r == Seek(d, -1)
           w == SubSeq(m, 1, e)
<1>1. k \in Nat /\ k < Len(m) /\ From(m)[k] = e /\ d.call.i = 1
  BY SeekSees
<1>2. d.qrnd \in Int /\ Reading(d, m, s) /\ Reads(d, m, s)
  BY DEF Looking, Reading, Quiet, Typed, Counts
<1>3. k + 1 = d.qrnd
  BY <1>2
<1>4. m[k + 1].kind = "zero"
  BY <1>3, SeekSees
<1>5. ~Heads(m, k)
  BY <1>4 DEF Heads, Header
<1>6. e <= Len(m)
  BY JoinSeq
<1>7. IsSeq(w) /\ Len(w) = e /\ Stays(m, w, Len(w)) /\ From(w)[0] = Len(w)
  BY <1>6, EndEnds
<1> HIDE DEF k, w
<1>8. k = e
  BY <1>1, <1>5, FromIs DEF Steps
<1>9. d.qrnd = e + 1 /\ d.call.i > 0
  BY <1>1, <1>3, <1>8
<1>10. Turned(r, m, e) /\ r.call = d.call
  BY <1>2, <1>9, ReadingTurns
<1> HIDE DEF r
<1>11. r.medium = m /\ r.qrnd = e
  BY <1>10 DEF Turned, Quiet
<1>12. Poised(r, w)
  BY <1>7, <1>10, <1>11 DEF Poised
<1>13. d.call.done /\ ~Refused(d.call)
  BY <1>2 DEF Reads, Refused
<1>14. Berth("next", r, w)
  BY <1>7, <1>10, <1>11, <1>12, <1>13 DEF Berth
<1> QED BY <1>7, <1>14 DEF r, w

\* The search for the end of the archive: on, over its end, or given up.
LEMMA WholeSeekEnd ==
  ASSUME WholeInv, TarInv', SeekEnd
  PROVE  WholeInv'
<1>1. t.pc \in {"seek", "seen"} /\ unit.call.done /\ ~Refused(unit.call) /\ UNCHANGED <<tree, vols, lost>>
  BY AtIs DEF SeekEnd
<1>2. DOMAIN t = TFields
  BY <1>1 DEF WholeInv, TarInv, Running
<1> DEFINE h == Got
           on == [t EXCEPT !.pc = "seek", !.tfile = @ \cup {[name |-> h.name, mtime |-> h.mtime]}]
           Looks == t.pc = "seek" /\ Read(1) /\ t' = [t EXCEPT !.pc = "seen"]
           Stops == t.pc = "seen" /\ UNCHANGED unit /\ Header(h) /\ t' = Over(0)
           GivesUp == \E k \in {2, 3} : t' = Over(k)
           GoesOn == t.pc = "seen" /\ Header(h) /\ Read(Ahead(h)) /\ t' = on
           Turns == t.pc = "seen" /\ h.kind = "zero" /\ unit' = Seek(unit, -1) /\ t' = [t EXCEPT !.pc = "next"]
<1>3. Looks \/ Stops \/ GivesUp \/ GoesOn \/ Turns
  <2>1. CASE At("seek") /\ Read(1) /\ t' = [t EXCEPT !.pc = "seen"]
    BY <2>1, AtIs
  <2>2. CASE At("seen") /\ Header(h) /\ t' = Over(0) /\ UNCHANGED unit
    BY <2>2, AtIs
  <2>3. CASE At("seen") /\ Header(h) /\ Forwfile(h, on)
    <3>1. t.pc = "seen"
      BY <2>3, AtIs
    <3> HIDE DEF h, on
    <3> QED BY <2>3, <3>1 DEF Forwfile
  <2>4. CASE At("seen") /\ h.kind = "zero" /\ unit' = Seek(unit, -1) /\ t' = [t EXCEPT !.pc = "next"]
    BY <2>4, AtIs
  <2>5. CASE t' = Over(IF h.kind = "eof" THEN 3 ELSE 2)
    <3> HIDE DEF h
    <3> QED BY <2>5
  <2> QED BY <2>1, <2>2, <2>3, <2>4, <2>5 DEF SeekEnd
<1>4. CASE GivesUp
  <2>1. PICK k \in {2, 3} : t' = Over(k)
    BY <1>4
  <2>2. k \in Int /\ k # 0
    OBVIOUS
  <2> QED BY <1>1, <2>1, <2>2, WholeOver
<1>5. CASE Looks
  <2>1. t'.job = t.job /\ t'.status = t.status /\ t'.at = t.at /\ SameFile /\ t'.pc = "seen"
    BY <1>2, <1>5 DEF TFields, SameFile
  <2>2. ASSUME Numbered, Aboard
        PROVE  Numbered' /\ Aboard'
    <3>1. Numbered'
      BY <2>1, <2>2, NumberedStay DEF InFile
    <3>2. Search
      BY <1>5, <2>2 DEF Aboard
    <3>3. unit' = Called(unit, "transfer", "read", t.job.s, <<>>, 1)
      BY <1>5 DEF Read, Call
    <3> DEFINE new == Ioopcre(NoUnit(t.job.tblksz, t.job.capacity), <<>>)
    <3>4. Blank(t.pc, unit) => unit = new
      BY <1>5 DEF Blank
    <3>5. new' = new
      BY <2>1
    <3>6. Blank(t.pc, unit) => Blank(t.pc, unit)'
      <4> HIDE DEF new
      <4> QED BY <2>1, <3>3, <3>4, <3>5 DEF Blank, new
    <3>7. Search'
      BY <1>1, <2>1, <3>2, <3>6 DEF Search
    <3> QED BY <2>1, <3>1, <3>7 DEF Aboard
  <2> QED BY <1>1, <1>5, <2>1, <2>2, WholeStep
<1>6. CASE GoesOn
  <2>1. t'.job = t.job /\ t'.status = t.status /\ t'.at = t.at /\ SameFile /\ t'.pc = "seek"
    <3> USE DEF on
    <3> QED BY <1>2, <1>6 DEF TFields, SameFile
  <2>2. ASSUME Sailing, Numbered
        PROVE  Numbered' /\ Aboard'
    <3>1. Numbered'
      BY <2>1, <2>2, NumberedStay DEF InFile
    <3>2. t.job.op \in {"r", "u"} /\ t.at = t.job.from /\ t.at \in DOMAIN vols
      BY <1>1, <1>6, <2>2, SeenIs
    <3>3. Search'
      BY <1>1, <2>1, <3>2 DEF Search
    <3> QED BY <2>1, <3>1, <3>3 DEF Aboard
  <2> QED BY <1>1, <1>6, <2>1, <2>2, WholeStep
<1>7. CASE Stops
  <2>1. t'.job = t.job /\ t'.status = 0 /\ SameFile /\ t'.pc = "over"
    BY <1>2, <1>7 DEF TFields, SameFile, Over
  <2>2. ASSUME Sailing, Numbered
        PROVE  Numbered' /\ Aboard'
    <3>1. Numbered'
      BY <2>1, <2>2, NumberedStay DEF InFile
    <3> DEFINE m == vols[t.at]
               e == End(m)
    <3>2. IsSeq(m) /\ Whole(m) /\ e \in Nat /\ e < Len(m) /\ Looking(unit, m, e, t.job.s) /\ unit.call.i = 1
      BY <1>1, <1>7, <2>2, SeenIs
    <3> HIDE DEF m, e
    <3>3. Reading(unit, m, t.job.s) /\ Reads(unit, m, t.job.s) /\ Window(unit, m) /\ Len(m) \in 0..Len(m)
      BY <3>2, JoinSeq DEF Looking, Reads
    <3>4. Dead(unit, m, Len(m))
      BY <3>3, ReadingDead
    <3>5. unit.bcnt \in 0..unit.bsz /\ ~unit.writ
      BY <3>3 DEF Window, Reading, Quiet
    <3>6. Settled(unit, m)
      BY <3>4, <3>5 DEF Settled
    <3>7. Berth(t'.pc, unit', m)
      BY <1>1, <1>7, <2>1, <3>6 DEF Berth
    <3>8. Account(t'.pc, t'.noblks, m)
      BY <2>1, <3>2 DEF Account
    <3>9. Laden'
      BY <3>2, <3>7, <3>8 DEF Laden
    <3> QED BY <2>1, <3>1, <3>9 DEF Aboard
  <2> QED BY <1>1, <1>7, <2>1, <2>2, WholeStep
<1>8. CASE Turns
  <2>1. t'.job = t.job /\ t'.status = t.status /\ SameFile /\ t'.pc = "next"
    BY <1>2, <1>8 DEF TFields, SameFile
  <2>2. ASSUME Sailing, Numbered
        PROVE  Numbered' /\ Aboard'
    <3>1. Numbered'
      BY <2>1, <2>2, NumberedStay DEF InFile
    <3> DEFINE m == vols[t.at]
               e == End(m)
               w == SubSeq(m, 1, e)
    <3>2. /\ IsSeq(m) /\ e \in Nat /\ e < Len(m) /\ Looking(unit, m, e, t.job.s)
          /\ unit.call.data[1].kind = "zero"
      BY <1>1, <1>8, <2>2, SeenIs
    <3>3. e = End(m)
      OBVIOUS
    <3> HIDE DEF m, e
    <3>4. IsSeq(w) /\ Berth("next", Seek(unit, -1), w) /\ From(w)[0] = Len(w)
      BY <1>1, <3>2, <3>3, TurnsPoised
    <3> HIDE DEF w
    <3>5. Berth(t'.pc, unit', w)
      BY <1>8, <2>1, <3>4
    <3>6. Account(t'.pc, t'.noblks, w)
      BY <2>1, <3>4 DEF Account
    <3>7. Laden'
      BY <3>4, <3>5, <3>6 DEF Laden
    <3> QED BY <2>1, <3>1, <3>7 DEF Aboard
  <2> QED BY <1>1, <1>8, <2>1, <2>2, WholeStep
<1> QED BY <1>3, <1>4, <1>5, <1>6, <1>7, <1>8

\* A call begins with a medium: a new one, or one to append to.
LEMMA WholeBegin ==
  ASSUME WholeInv, TarInv', Begin
  PROVE  WholeInv'
<1> DEFINE j == Head(jobs)
           m == IF j.from \in DOMAIN vols THEN vols[j.from] ELSE <<>>
<1>1. /\ t.pc = "idle" /\ jobs # <<>> /\ jobs \in Seq(TarCall) /\ UNCHANGED <<tree, vols, lost>>
      /\ unit' = Ioopcre(NoUnit(j.tblksz, j.capacity), m)
  BY DEF Begin, WholeInv, TarInv, Running
<1>2. j \in TarCall
  BY <1>1
<1>3. /\ t'.job = j /\ t'.at = j.from /\ t'.tblkpos = 0 /\ t'.status = 0 /\ t'.ihead = <<>>
      /\ t'.pc = CASE j.op = "c" -> "next" [] j.op \in {"r", "u"} -> "seek" [] OTHER -> "read"
  BY DEF Begin
<1> HIDE DEF j
<1>4. j.tblksz \in Nat \ {0} /\ j.capacity \in Int /\ j.op \in {"c", "r", "u", "x", "t"}
  BY <1>2 DEF TarCall
<1>5. ~Writes
  BY <1>1 DEF Writes
<1>6. DOMAIN tree' \subseteq DOMAIN Files /\ Clear' /\ Shelf'
  BY <1>1, <1>3, <1>5 DEF WholeInv, Clear, Shelf
<1>7. IsSeq(<<>>) /\ Len(<<>>) = 0 /\ DOMAIN <<>> = {}
  <2>1. <<>> \in Seq(Int) /\ Len(<<>>) = 0
    OBVIOUS
  <2>2. DOMAIN <<>> = 1..0
    BY <2>1
  <2> QED BY <2>1, <2>2 DEF IsSeq
<1>8. IsSeq(m)
  BY <1>7 DEF WholeInv, TarInv, Media
<1> DEFINE d == Ioopcre(NoUnit(j.tblksz, j.capacity), m)
<1>9. Typed(d) /\ unit' = d
  <2>1. Reading(d, m, j.s)
    BY <1>4, <1>8, OpcreReads
  <2> QED BY <1>1, <2>1 DEF Reading, Quiet
<1>10. ASSUME Sailing'
       PROVE  Numbered' /\ Aboard'
  <2>1. t'.pc \in {"next", "seek"} /\ (t'.pc = "next" <=> j.op = "c") /\ (t'.pc = "seek" => j.op \in {"r", "u"})
    BY <1>3, <1>10 DEF Sailing, Writes
  <2>2. Numbered'
    BY <1>3, <1>7, <2>1 DEF Numbered, Known1, InFile
  <2>3. CASE t'.pc = "seek"
    <3>1. t'.at \in DOMAIN vols \/ (m = <<>> /\ unit' = d)
      BY <1>3, <1>9
    <3>2. t'.at \in DOMAIN vols' \/ Blank(t.pc, unit)'
      BY <1>1, <1>3, <2>3, <3>1 DEF Blank
    <3>3. Search'
      BY <1>3, <2>1, <2>3, <3>2 DEF Search
    <3> QED BY <2>2, <2>3, <3>3 DEF Aboard
  <2>4. CASE t'.pc = "next"
    <3> DEFINE u == NoUnit(j.tblksz, j.capacity)
    <3>1. u.bcnt \in 0..u.bsz
      BY <1>4 DEF NoUnit
    <3>2. Poised(d, <<>>) /\ d.qrnd = 0 /\ d.call = NoCall
      BY <1>9, <3>1, PoisedNew
    <3>3. Berth(t'.pc, unit', <<>>)
      <4> HIDE DEF d
      <4> QED BY <1>7, <1>9, <2>4, <3>2 DEF Berth, Refused, NoCall
    <3>4. Account(t'.pc, t'.noblks, <<>>)
      BY <1>7, <2>4, FromNone DEF Account
    <3>5. Laden'
      BY <1>7, <3>3, <3>4 DEF Laden
    <3> QED BY <2>2, <2>4, <3>5 DEF Aboard
  <2> QED BY <2>1, <2>3, <2>4
<1> QED BY <1>6, <1>10 DEF WholeInv

\* The end of a call: the medium is left, and tar says so when it gave up.
LEMMA WholeEndProg ==
  ASSUME WholeInv, TarInv', EndProg
  PROVE  WholeInv'
<1>1. unit.call.done /\ UNCHANGED tree
  BY DEF EndProg, Ready
<1>2. CASE t.pc = "over" /\ Call("close", "write", <<>>, 0) /\ t' = [t EXCEPT !.pc = "closed"] /\ UNCHANGED <<jobs, vols, lost>>
  <2>1. DOMAIN t = TFields
    BY <1>2 DEF WholeInv, TarInv, Running
  <2>2. t'.job = t.job /\ t'.status = t.status /\ SameFile /\ t'.pc = "closed"
    BY <1>2, <2>1 DEF TFields, SameFile
  <2> QED BY <1>1, <1>2, <2>2, WholeClose
<1>3. CASE /\ t.pc = "closed" /\ t' = [pc |-> "idle"] /\ UNCHANGED unit
           /\ IF Writes THEN vols' = Shelved /\ lost' = (lost \/ t.status # 0 \/ Back.i < 0) ELSE UNCHANGED <<vols, lost>>
  <2>1. ~Writes'
    BY <1>3 DEF Writes
  <2>2. CASE ~Writes
    BY <1>1, <1>3, <2>1, <2>2, WholeIdle DEF WholeInv
  <2>3. CASE Writes
    <3>1. Clear' /\ ~Sailing' /\ DOMAIN tree' \subseteq DOMAIN Files
      BY <1>1, <2>1 DEF Clear, Sailing, WholeInv
    <3>2. ASSUME ~lost', NEW v \in DOMAIN vols'
          PROVE  Whole(vols'[v])
      <4>1. ~lost /\ t.status = 0 /\ ~(unit.call.i < 0)
        BY <1>3, <2>3, <3>2 DEF Back
      <4>2. Aboard /\ \A x \in DOMAIN vols : Whole(vols[x])
        BY <2>3, <4>1 DEF WholeInv, Sailing, Shelf
      <4>3. ~Short(t.pc, unit)
        BY <1>1, <1>3, <4>1 DEF Short, EarlyPcs
      <4>4. PICK m : IsSeq(m) /\ Berth(t.pc, unit, m) /\ Account(t.pc, t.noblks, m)
        BY <1>3, <4>2, <4>3 DEF Aboard, Laden
      <4>5. Settled(unit, m) /\ Whole(m)
        BY <1>1, <1>3, <4>4 DEF Berth, EarlyPcs, Account
      <4>6. Stays(unit.medium, m, Len(m)) /\ IsSeq(unit.medium)
        BY <4>5 DEF Settled, Dead, Typed
      <4>7. Whole(unit.medium)
        BY <4>4, <4>5, <4>6, WholeOn
      <4>8. vols' = Shelved
        BY <1>3, <2>3
      <4>9. CASE v = t.at
        <5>1. vols'[v] = unit.medium
          BY <3>2, <4>8, <4>9 DEF Shelved
        <5> QED BY <4>7, <5>1
      <4>10. CASE v # t.at
        <5>1. v \in DOMAIN vols /\ vols'[v] = vols[v]
          BY <3>2, <4>8, <4>10 DEF Shelved
        <5> QED BY <4>2, <5>1
      <4> QED BY <4>9, <4>10
    <3>3. Shelf'
      BY <3>2 DEF Shelf
    <3> QED BY <3>1, <3>3 DEF WholeInv
  <2> QED BY <2>2, <2>3
<1> QED BY <1>2, <1>3 DEF EndProg

LEMMA WholeInit ==
  ASSUME Init
  PROVE  WholeInv
<1>1. t.pc = "idle" /\ tree = Files /\ vols = <<>>
  BY DEF Init
<1>2. DOMAIN vols = {}
  <2>1. <<>> \in Seq(Int) /\ Len(<<>>) = 0
    OBVIOUS
  <2>2. DOMAIN <<>> = 1..0
    BY <2>1
  <2> QED BY <1>1, <2>2
<1> QED BY <1>1, <1>2, TarInit DEF WholeInv, Clear, Shelf, Sailing, Writes

LEMMA WholeNext ==
  ASSUME WholeInv, [Next]_vars
  PROVE  WholeInv'
<1>1. TarInv'
  BY TarNext DEF WholeInv
<1>2. CASE Begin BY <1>1, <1>2, WholeBegin
<1>3. CASE SeekEnd BY <1>1, <1>3, WholeSeekEnd
<1>4. CASE NextFile BY <1>1, <1>4, WholeNextFile
<1>5. CASE Put BY <1>1, <1>5, WholePut
<1>6. CASE CloseVolume BY <1>1, <1>6, WholeCloseVolume
<1>7. CASE NewVolume BY <1>1, <1>7, WholeNewVolume
<1>8. CASE PutHead BY <1>1, <1>8, WholePutHead
<1>9. CASE PutData BY <1>1, <1>9, WholePutData
<1>10. CASE PutEnd BY <1>1, <1>10, WholePutEnd
<1>11. CASE ReadNext \/ Extract \/ AskFirst \/ Mount BY <1>11, WholeReads
<1>12. CASE Tape BY <1>1, <1>12, WholeTape
<1>13. CASE WriteFails BY <1>1, <1>13, WholeFails
<1>14. CASE EndProg BY <1>1, <1>14, WholeEndProg
<1>15. CASE DeviceRuns BY <1>1, <1>15, WholeDevice
<1>16. CASE Change \/ Unlink \/ Interrupt BY <1>1, <1>16, WholeOthers
<1>17. CASE UNCHANGED vars
  <2>1. UNCHANGED <<tree, version, t, unit, vols, lost>>
    BY <1>17 DEF vars
  <2>2. Numbered => Numbered'
    BY <2>1, NumberedStay DEF SameFile, InFile, InData
  <2>3. Aboard => Aboard'
    BY <2>1 DEF Aboard, Search, Blank, Laden
  <2> QED BY <1>1, <2>1, <2>2, <2>3 DEF WholeInv, Clear, Shelf, Sailing, Writes
<1>18. CASE Finished BY <1>17, <1>18 DEF Finished
<1> QED BY <1>2, <1>3, <1>4, <1>5, <1>6, <1>7, <1>8, <1>9, <1>10, <1>11, <1>12, <1>13, <1>14, <1>15, <1>16, <1>17, <1>18 DEF Next

\* Each medium that tar left without a word is an archive to its end, of whole
\* blocks of the tape: for any files and sizes, however they change, shrink or go
\* away while they are dumped, whenever an interrupt comes, on whichever volume a
\* file is split, and when the device gets to each request (putfile, splitfile,
\* putext, closevol, iordwr).
THEOREM VolumesWholeTheorem == Spec => []VolumesWhole
<1>1. Init => WholeInv
  BY WholeInit
<1>2. WholeInv /\ [Next]_vars => WholeInv'
  BY WholeNext
<1>3. WholeInv => VolumesWhole
  BY DEF WholeInv, Shelf, VolumesWhole, Writes
<1> QED BY <1>1, <1>2, <1>3, PTL DEF Spec
=============================================================================

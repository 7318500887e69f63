--------------------------- MODULE InitProcProofs ---------------------------
(***************************************************************************)
(* init, for any number of terminals, slots and processes and any file:    *)
(* the types, one process for each terminal, and what rdttys makes of the  *)
(* table and does to the processes.                                        *)
(***************************************************************************)
EXTENDS InitProc, FiniteSetTheorems, TLAPS

-----------------------------------------------------------------------------
(* The table after each line of the file *)

\* The first of the numbers up to N for which something fails.
LEMMA First ==
  ASSUME NEW N \in Nat, NEW S, S \subseteq 0..N, S # {}
  PROVE  \E x \in S : \A y \in S : x <= y
<1> DEFINE F == {0..(x - 1) : x \in S}
<1>1. F \subseteq FiniteSubsetsOf(0..N) /\ F # {}
  <2>1. ASSUME NEW x \in S PROVE 0..(x - 1) \subseteq 0..N /\ IsFiniteSet(0..(x - 1))
    BY FS_Interval
  <2> QED
    BY <2>1 DEF FiniteSubsetsOf
<1>2. PICK T \in F : \A U \in F : <<U, T>> \notin StrictSubsetOrdering(0..N)
  BY <1>1, FS_StrictSubsetOrderingWellFounded, WFMin
<1>3. PICK x \in S : T = 0..(x - 1)
  OBVIOUS
<1>4. ASSUME NEW y \in S, y < x PROVE FALSE
  <2>1. 0..(y - 1) \subseteq 0..N /\ 0..(x - 1) \subseteq 0..N /\ 0..(y - 1) \subseteq 0..(x - 1)
    BY <1>4
  <2>2. y \in 0..(x - 1) /\ y \notin 0..(y - 1)
    BY <1>4
  <2>3. 0..(y - 1) \in F
    OBVIOUS
  <2> HIDE DEF F
  <2> QED
    BY <1>2, <1>3, <2>1, <2>2, <2>3 DEF StrictSubsetOrdering
<1> QED
  BY <1>4

Clear(t) == [k \in Slots |-> [t[k] EXCEPT !.xflag = {}]]
Follows(t, f, g, n) == g = [k \in 0..n |-> IF k = 0 THEN Clear(t) ELSE Merge(g[k - 1], f[k])]

\* There is such a function: the recursion is well-founded.
LEMMA MergedExists ==
  ASSUME NEW t, NEW f \in Seq(Entry)
  PROVE  \E g : Follows(t, f, g, Len(f))
<1> DEFINE N == Len(f)
           S == {n \in 0..N : \A g : ~Follows(t, f, g, n)}
<1>1. SUFFICES ASSUME S # {} PROVE FALSE
  <2>1. N \in 0..N
    OBVIOUS
  <2> QED
    BY <2>1
<1>2. PICK n \in S : \A m \in S : n <= m
  <2>1. N \in Nat /\ S \subseteq 0..N
    OBVIOUS
  <2> HIDE DEF S, N
  <2> QED
    BY <1>1, <2>1, First
<1>3. CASE n = 0
  <2>1. PICK g : g = [k \in 0..0 |-> Clear(t)]
    OBVIOUS
  <2>2. g = [k \in 0..0 |-> IF k = 0 THEN Clear(t) ELSE Merge(g[k - 1], f[k])]
    BY <2>1
  <2> QED
    BY <1>3, <2>2 DEF Follows
<1>4. CASE n # 0
  <2>1. n - 1 \in 0..N /\ n - 1 \notin S /\ n \in Nat /\ n - 1 < n
    BY <1>2, <1>4
  <2>2. PICK g : Follows(t, f, g, n - 1)
    BY <2>1
  <2>3. PICK h : h = [k \in 0..n |-> IF k = n THEN Merge(g[n - 1], f[n]) ELSE g[k]]
    OBVIOUS
  <2>4. ASSUME NEW k \in 0..n PROVE h[k] = IF k = 0 THEN Clear(t) ELSE Merge(h[k - 1], f[k])
    <3>1. CASE k = n
      BY <1>4, <2>1, <2>3, <3>1
    <3>2. CASE k # n
      <4>1. h[k] = g[k] /\ k \in 0..(n - 1)
        BY <2>1, <2>3, <3>2
      <4>2. g[k] = IF k = 0 THEN Clear(t) ELSE Merge(g[k - 1], f[k])
        BY <2>2, <4>1 DEF Follows
      <4>3. k # 0 => h[k - 1] = g[k - 1]
        BY <2>1, <2>3, <3>2
      <4> QED
        BY <4>1, <4>2, <4>3
    <3> QED
      BY <3>1, <3>2
  <2>5. h = [k \in 0..n |-> IF k = 0 THEN Clear(t) ELSE Merge(h[k - 1], f[k])]
    <3>1. h = [k \in 0..n |-> h[k]]
      BY <2>3
    <3> QED
      BY <2>4, <3>1
  <2> QED
    BY <2>5 DEF Follows
<1> QED
  BY <1>3, <1>4

LEMMA MergedIs ==
  ASSUME NEW t, NEW f \in Seq(Entry)
  PROVE  /\ Merged(t, f)[0] = Clear(t)
         /\ \A n \in 1..Len(f) : Merged(t, f)[n] = Merge(Merged(t, f)[n - 1], f[n])
<1> DEFINE m == Merged(t, f)
<1>1. Follows(t, f, m, Len(f))
  <2> DEFINE Next1(g) == [n \in 0..Len(f) |-> IF n = 0 THEN [k \in Slots |-> [t[k] EXCEPT !.xflag = {}]]
                                              ELSE Merge(g[n - 1], f[n])]
  <2>1. m = CHOOSE g : g = Next1(g)
    BY DEF Merged
  <2>2. \E g : g = Next1(g)
    <3>1. PICK g : Follows(t, f, g, Len(f))
      BY MergedExists
    <3>2. g = Next1(g)
      BY <3>1 DEF Follows, Clear
    <3> QED
      BY <3>2
  <2>3. m = Next1(m)
    <3> HIDE DEF Next1, m
    <3> QED
      BY <2>1, <2>2
  <2> QED
    BY <2>3 DEF Follows, Clear
<1> HIDE DEF m
<1>2. Len(f) \in Nat
  OBVIOUS
<1>3. m[0] = Clear(t)
  BY <1>1, <1>2 DEF Follows
<1>4. ASSUME NEW n \in 1..Len(f) PROVE m[n] = Merge(m[n - 1], f[n])
  BY <1>1, <1>2 DEF Follows
<1> QED
  BY <1>3, <1>4 DEF m

Row == [line : TtyLines \cup {NoTty}, comn : Comns \cup {NoTty},
        pid : Pids \cup {0, -1}, xflag : SUBSET {"FOUND", "CHANGE"}]
Tables == [Slots -> Row]

\* No terminal has two slots.
Distinct(t) == \A j, k \in Slots : t[j].line = t[k].line /\ t[j].line # NoTty => j = k

LEMMA InTableIs ==
  ASSUME NEW t, NEW l
  PROVE  l \in InTable(t) <=> l # NoTty /\ \E k \in Slots : t[k].line = l
  BY DEF InTable

\* What one line of the file does: to the slot of its terminal, or to an
\* empty one, or nothing.
MarksKnown(s, e, u) ==
    /\ e.line \in InTable(s)
    /\ \A k \in Slots :
          /\ s[k].line # e.line => u[k] = s[k]
          /\ s[k].line = e.line =>
                /\ u[k].line = e.line /\ u[k].comn = e.comn /\ u[k].pid = s[k].pid
                /\ u[k].xflag = s[k].xflag \cup {"FOUND"} \cup (IF s[k].comn # e.comn THEN {"CHANGE"} ELSE {})
TakesEmpty(s, e, u) ==
    /\ e.line \notin InTable(s)
    /\ \E k \in Slots :
          /\ s[k].line = NoTty
          /\ u[k].line = e.line /\ u[k].comn = e.comn /\ u[k].pid = s[k].pid /\ u[k].xflag = {"FOUND", "CHANGE"}
          /\ \A j \in Slots \ {k} : u[j] = s[j]
NoRoom(s, e, u) == e.line \notin InTable(s) /\ u = s /\ \A k \in Slots : s[k].line # NoTty

LEMMA MergeIs ==
  ASSUME NEW s \in Tables, Distinct(s), NEW e \in Entry, NEW u, u = Merge(s, e)
  PROVE  /\ u \in Tables /\ Distinct(u) /\ e.line # NoTty
         /\ MarksKnown(s, e, u) \/ TakesEmpty(s, e, u) \/ NoRoom(s, e, u)
<1>1. e.line \in TtyLines /\ e.comn \in Comns /\ e.line # NoTty
  BY InitProcAssumption DEF Entry
<1>2. CASE e.line \in InTable(s)
  <2>1. u = [k \in Slots |-> IF s[k].line # e.line THEN s[k]
                  ELSE [s[k] EXCEPT !.comn = e.comn, !.xflag = @ \cup {"FOUND"} \cup
                                        (IF s[k].comn # e.comn THEN {"CHANGE"} ELSE {})]]
    BY <1>2 DEF Merge
  <2>2. ASSUME NEW k \in Slots
        PROVE  /\ u[k] \in Row
               /\ s[k].line # e.line => u[k] = s[k]
               /\ s[k].line = e.line =>
                     /\ u[k].line = e.line /\ u[k].comn = e.comn /\ u[k].pid = s[k].pid
                     /\ u[k].xflag = s[k].xflag \cup {"FOUND"} \cup (IF s[k].comn # e.comn THEN {"CHANGE"} ELSE {})
    <3>1. s[k] \in Row
      BY DEF Tables
    <3>2. CASE s[k].line # e.line
      BY <2>1, <3>1, <3>2
    <3>3. CASE s[k].line = e.line
      <4>1. u[k] = [s[k] EXCEPT !.comn = e.comn, !.xflag = @ \cup {"FOUND"} \cup
                                        (IF s[k].comn # e.comn THEN {"CHANGE"} ELSE {})]
        BY <2>1, <3>3
      <4> QED
        BY <1>1, <3>1, <3>3, <4>1 DEF Row
    <3> QED
      BY <3>2, <3>3
  <2>3. u \in Tables
    <3>1. u = [k \in Slots |-> u[k]]
      BY <2>1
    <3> QED
      BY <2>2, <3>1 DEF Tables
  <2>4. \A k \in Slots : u[k].line = s[k].line
    BY <2>2
  <2>5. Distinct(u)
    BY <2>4 DEF Distinct
  <2> QED
    BY <1>1, <1>2, <2>2, <2>3, <2>5 DEF MarksKnown
<1>3. CASE e.line \notin InTable(s)
  <2> DEFINE empty == {k \in Slots : s[k].line = NoTty}
             first == CHOOSE k \in empty : \A j \in empty : k <= j
  <2>1. u = IF empty = {} THEN s
            ELSE [s EXCEPT ![first] = [@ EXCEPT !.line = e.line, !.comn = e.comn, !.xflag = {"FOUND", "CHANGE"}]]
    BY <1>3 DEF Merge
  <2>2. CASE empty = {}
    BY <1>1, <1>3, <2>1, <2>2 DEF NoRoom
  <2>3. CASE empty # {}
    <3>1. \E k \in empty : \A j \in empty : k <= j
      <4>1. NSlots \in Nat /\ empty \subseteq 0..NSlots
        BY InitProcAssumption DEF Slots
      <4> HIDE DEF empty
      <4> QED
        BY <2>3, <4>1, First
    <3>2. PICK k \in empty : k = first
      <4> HIDE DEF empty
      <4> QED
        BY <3>1
    <3>3. k \in Slots /\ s[k].line = NoTty
      OBVIOUS
    <3>4. u = [s EXCEPT ![k] = [@ EXCEPT !.line = e.line, !.comn = e.comn, !.xflag = {"FOUND", "CHANGE"}]]
      <4> HIDE DEF empty, first
      <4> QED
        BY <2>1, <2>3, <3>2
    <3> HIDE DEF empty, first
    <3>5. s[k] \in Row
      BY <3>3 DEF Tables
    <3>6. PICK r : r = [s[k] EXCEPT !.line = e.line, !.comn = e.comn, !.xflag = {"FOUND", "CHANGE"}]
      OBVIOUS
    <3>7. r \in Row /\ r.line = e.line /\ r.comn = e.comn /\ r.pid = s[k].pid /\ r.xflag = {"FOUND", "CHANGE"}
      BY <1>1, <3>5, <3>6 DEF Row
    <3>8. u = [s EXCEPT ![k] = r]
      BY <3>4, <3>6
    <3>9. u \in Tables /\ u[k] = r /\ \A j \in Slots \ {k} : u[j] = s[j]
      BY <3>3, <3>7, <3>8 DEF Tables
    <3>10. Distinct(u)
      <4> SUFFICES ASSUME NEW i1 \in Slots, NEW j1 \in Slots, u[i1].line = u[j1].line, u[i1].line # NoTty, i1 # j1
                   PROVE  FALSE
        BY DEF Distinct
      <4>1. \A j \in Slots : s[j].line # e.line
        BY <1>1, <1>3, InTableIs
      <4>2. CASE i1 = k \/ j1 = k
        BY <3>7, <3>9, <4>1, <4>2
      <4>3. CASE i1 # k /\ j1 # k
        BY <3>9, <4>3 DEF Distinct
      <4> QED
        BY <4>2, <4>3
    <3>11. TakesEmpty(s, e, u)
      BY <1>3, <3>3, <3>7, <3>9 DEF TakesEmpty
    <3> QED
      BY <1>1, <3>9, <3>10, <3>11
  <2> QED
    BY <2>2, <2>3
<1> QED
  BY <1>2, <1>3

-----------------------------------------------------------------------------
(* Room for every terminal *)

LinesOf(f) == {f[n].line : n \in DOMAIN f}
Wanted(t, f) == InTable(t) \cup LinesOf(f)

LEMMA ImageFinite ==
  ASSUME NEW S, IsFiniteSet(S), NEW g, DOMAIN g = S
  PROVE  IsFiniteSet({g[x] : x \in S})
<1> DEFINE T == {g[x] : x \in S}
           h == [x \in S |-> g[x]]
<1>1. h \in Surjection(S, T)
  BY DEF Surjection
<1> QED
  BY <1>1, FS_Surjection

LEMMA WantedFinite ==
  ASSUME NEW t, NEW f \in Seq(Entry)
  PROVE  IsFiniteSet(Wanted(t, f))
<1>1. PICK g : g = [k \in Slots |-> t[k].line]
  OBVIOUS
<1>2. IsFiniteSet({g[k] : k \in Slots})
  <2>1. IsFiniteSet(Slots)
    BY FS_Interval, InitProcAssumption DEF Slots
  <2> QED
    BY <1>1, <2>1, ImageFinite
<1>3. InTable(t) \subseteq {g[k] : k \in Slots}
  BY <1>1 DEF InTable
<1>4. IsFiniteSet(InTable(t))
  BY <1>2, <1>3, FS_Subset
<1>5. PICK h : h = [n \in DOMAIN f |-> f[n].line]
  OBVIOUS
<1>6. IsFiniteSet({h[n] : n \in DOMAIN f})
  <2>1. DOMAIN f = 1..Len(f) /\ Len(f) \in Nat
    OBVIOUS
  <2>2. IsFiniteSet(DOMAIN f)
    BY <2>1, FS_Interval
  <2> QED
    BY <1>5, <2>2, ImageFinite
<1>7. {h[n] : n \in DOMAIN f} = LinesOf(f)
  BY <1>5 DEF LinesOf
<1> QED
  BY <1>4, <1>6, <1>7, FS_Union DEF Wanted

\* A table without an empty slot holds as many terminals as it has slots.
LEMMA EmptySlot ==
  ASSUME NEW s \in Tables, Distinct(s), NEW U, IsFiniteSet(U), Cardinality(U) <= NSlots,
         InTable(s) \subseteq U, NEW l \in U, l \notin InTable(s)
  PROVE  \E k \in Slots : s[k].line = NoTty
<1> SUFFICES ASSUME \A k \in Slots : s[k].line # NoTty PROVE FALSE
  OBVIOUS
<1>1. PICK g : g = [k \in Slots |-> s[k].line]
  OBVIOUS
<1>2. PICK V : V = U \ {l}
  OBVIOUS
<1>3. IsFiniteSet(V) /\ Cardinality(V) = Cardinality(U) - 1 /\ Cardinality(U) \in Nat
  BY <1>2, FS_RemoveElement, FS_CardinalityType
<1>4. g \in Injection(Slots, V)
  <2>1. \A k \in Slots : g[k] \in V
    BY <1>1, <1>2, InTableIs
  <2>2. \A j, k \in Slots : g[j] = g[k] => j = k
    BY <1>1 DEF Distinct
  <2>3. g \in [Slots -> V]
    BY <1>1, <2>1
  <2> QED
    BY <2>2, <2>3 DEF Injection, IsInjective
<1>5. Cardinality(Slots) <= Cardinality(V)
  BY <1>3, <1>4, FS_Injection
<1>6. Cardinality(Slots) = NSlots /\ NSlots \in Nat
  <2>1. NSlots \in Nat \ {0}
    BY InitProcAssumption
  <2>2. 1 \in Int /\ NSlots \in Int /\ ~(1 > NSlots) /\ NSlots - 1 + 1 = NSlots
    BY <2>1
  <2> QED
    BY <2>1, <2>2, FS_Interval DEF Slots
<1> QED
  BY <1>3, <1>5, <1>6

-----------------------------------------------------------------------------
(* rdttys reads the file *)

Room(t, f) == Cardinality(Wanted(t, f)) <= NSlots

\* The table s after n lines of f, when it was t before.
LinesRead(t, f, s, n) ==
    /\ s \in Tables /\ Distinct(s)
    /\ InTable(s) \subseteq Wanted(t, f)
    /\ \A k \in Slots :
          /\ s[k].pid = t[k].pid
          /\ t[k].line # NoTty => s[k].line = t[k].line
          /\ "FOUND" \in s[k].xflag <=> \E m \in 1..n : f[m].line = s[k].line
          /\ "CHANGE" \in s[k].xflag <=>
                /\ s[k].line # NoTty
                /\ t[k].line = NoTty \/ \E m \in 1..n : f[m].line = s[k].line /\ f[m].comn # t[k].comn
          /\ "CHANGE" \notin s[k].xflag => s[k].comn = t[k].comn
          /\ \A m \in 1..n : f[m].line = s[k].line /\ (\A j \in 1..n : f[j].line = f[m].line => j <= m)
                                => s[k].comn = f[m].comn
    /\ Room(t, f) => \A m \in 1..n : f[m].line \in InTable(s)

LEMMA NoLineRead ==
  ASSUME NEW t \in Tables, Distinct(t), NEW f \in Seq(Entry)
  PROVE  LinesRead(t, f, Clear(t), 0)
<1> DEFINE s == Clear(t)
<1>1. \A k \in Slots : s[k] \in Row /\ s[k].line = t[k].line /\ s[k].comn = t[k].comn /\ s[k].pid = t[k].pid /\ s[k].xflag = {}
  <2> SUFFICES ASSUME NEW k \in Slots
               PROVE  s[k] \in Row /\ s[k].line = t[k].line /\ s[k].comn = t[k].comn /\ s[k].pid = t[k].pid /\ s[k].xflag = {}
    OBVIOUS
  <2>1. t[k] \in Row /\ s[k] = [t[k] EXCEPT !.xflag = {}]
    BY DEF Clear, Tables
  <2>2. {} \in SUBSET {"FOUND", "CHANGE"}
    OBVIOUS
  <2> HIDE DEF s
  <2> QED
    BY <2>1, <2>2 DEF Row
<1>2. s \in Tables
  <2>1. s = [k \in Slots |-> s[k]]
    BY DEF Clear
  <2> HIDE DEF s
  <2> QED
    BY <1>1, <2>1 DEF Tables
<1> HIDE DEF s
<1>3. Distinct(s)
  BY <1>1 DEF Distinct
<1>4. InTable(s) \subseteq Wanted(t, f)
  BY <1>1 DEF InTable, Wanted
<1>5. \A m \in 1..0 : FALSE
  OBVIOUS
<1>6. LinesRead(t, f, s, 0)
  BY <1>1, <1>2, <1>3, <1>4, <1>5 DEF LinesRead
<1> QED
  BY <1>6 DEF s

LEMMA LineRead ==
  ASSUME NEW t \in Tables, NEW f \in Seq(Entry),
         NEW n \in 1..Len(f), NEW s, LinesRead(t, f, s, n - 1), NEW u, u = Merge(s, f[n])
  PROVE  LinesRead(t, f, u, n)
<1>1. PICK e \in Entry : e = f[n]
  OBVIOUS
<1>2. /\ s \in Tables /\ Distinct(s) /\ u \in Tables /\ Distinct(u) /\ e.line # NoTty
      /\ MarksKnown(s, e, u) \/ TakesEmpty(s, e, u) \/ NoRoom(s, e, u)
  BY <1>1, MergeIs DEF LinesRead
<1>3. e.line \in LinesOf(f)
  <2>1. n \in DOMAIN f
    OBVIOUS
  <2> QED
    BY <1>1, <2>1 DEF LinesOf
<1>4. 1..n = 1..(n - 1) \cup {n} /\ n \notin 1..(n - 1) /\ \A m \in 1..n : m <= n
  OBVIOUS
\* A slot the line does not touch.
<1>5. ASSUME NEW k \in Slots, u[k] = s[k], s[k].line # e.line
      PROVE  /\ u[k].pid = t[k].pid
             /\ t[k].line # NoTty => u[k].line = t[k].line
             /\ "FOUND" \in u[k].xflag <=> \E m \in 1..n : f[m].line = u[k].line
             /\ "CHANGE" \in u[k].xflag <=>
                   /\ u[k].line # NoTty
                   /\ t[k].line = NoTty \/ \E m \in 1..n : f[m].line = u[k].line /\ f[m].comn # t[k].comn
             /\ "CHANGE" \notin u[k].xflag => u[k].comn = t[k].comn
             /\ \A m \in 1..n : f[m].line = u[k].line /\ (\A j \in 1..n : f[j].line = f[m].line => j <= m)
                                   => u[k].comn = f[m].comn
  <2>1. \A m \in 1..n : f[m].line = u[k].line => m \in 1..(n - 1)
    BY <1>1, <1>4, <1>5
  <2>2. ASSUME NEW m \in 1..n, f[m].line = u[k].line, \A j \in 1..n : f[j].line = f[m].line => j <= m
        PROVE  u[k].comn = f[m].comn
    BY <1>4, <1>5, <2>1, <2>2 DEF LinesRead
  <2> QED
    BY <1>4, <1>5, <2>1, <2>2 DEF LinesRead
<1>6. CASE MarksKnown(s, e, u)
  <2>1. \A k \in Slots : u[k].line = s[k].line
    BY <1>6 DEF MarksKnown
  <2>2. InTable(u) = InTable(s)
    BY <2>1 DEF InTable
  <2>3. ASSUME NEW k \in Slots, s[k].line = e.line
        PROVE  /\ u[k].pid = t[k].pid
               /\ t[k].line # NoTty => u[k].line = t[k].line
               /\ "FOUND" \in u[k].xflag <=> \E m \in 1..n : f[m].line = u[k].line
               /\ "CHANGE" \in u[k].xflag <=>
                     /\ u[k].line # NoTty
                     /\ t[k].line = NoTty \/ \E m \in 1..n : f[m].line = u[k].line /\ f[m].comn # t[k].comn
               /\ "CHANGE" \notin u[k].xflag => u[k].comn = t[k].comn
               /\ \A m \in 1..n : f[m].line = u[k].line /\ (\A j \in 1..n : f[j].line = f[m].line => j <= m)
                                     => u[k].comn = f[m].comn
    <3>1. /\ u[k].line = e.line /\ u[k].comn = e.comn /\ u[k].pid = s[k].pid
          /\ u[k].xflag = s[k].xflag \cup {"FOUND"} \cup (IF s[k].comn # e.comn THEN {"CHANGE"} ELSE {})
      BY <1>6, <2>3 DEF MarksKnown
    <3>2. /\ s[k].pid = t[k].pid
          /\ t[k].line # NoTty => s[k].line = t[k].line
          /\ "CHANGE" \in s[k].xflag <=>
                /\ s[k].line # NoTty
                /\ t[k].line = NoTty \/ \E m \in 1..(n - 1) : f[m].line = s[k].line /\ f[m].comn # t[k].comn
          /\ "CHANGE" \notin s[k].xflag => s[k].comn = t[k].comn
      BY DEF LinesRead
    <3>3. "FOUND" \in u[k].xflag /\ f[n].line = u[k].line /\ n \in 1..n /\ f[n].comn = e.comn
      BY <1>1, <3>1
    <3>4. "CHANGE" \in u[k].xflag <=> "CHANGE" \in s[k].xflag \/ s[k].comn # e.comn
      BY <3>1
    <3>5. (\E m \in 1..n : f[m].line = u[k].line /\ f[m].comn # t[k].comn) <=>
            (\E m \in 1..(n - 1) : f[m].line = s[k].line /\ f[m].comn # t[k].comn) \/ e.comn # t[k].comn
      BY <1>4, <2>1, <3>3
    <3>6. ASSUME NEW m \in 1..n, \A j \in 1..n : f[j].line = f[m].line => j <= m, f[m].line = u[k].line
          PROVE  u[k].comn = f[m].comn
      <4>1. m = n
        BY <1>4, <3>3, <3>6
      <4> QED
        BY <3>1, <3>3, <4>1
    <3>7. u[k].pid = t[k].pid /\ (t[k].line # NoTty => u[k].line = t[k].line)
          /\ u[k].line = e.line /\ u[k].comn = e.comn
      BY <2>3, <3>1, <3>2
    <3>8. "CHANGE" \in u[k].xflag <=>
             /\ u[k].line # NoTty
             /\ t[k].line = NoTty \/ \E m \in 1..n : f[m].line = u[k].line /\ f[m].comn # t[k].comn
      <4>1. s[k].line # NoTty /\ u[k].line # NoTty
        BY <1>2, <2>3, <3>7
      <4> QED
        BY <3>2, <3>4, <3>5, <4>1
    <3>9. "CHANGE" \notin u[k].xflag => u[k].comn = t[k].comn
      BY <3>2, <3>4, <3>7
    <3> QED
      BY <3>3, <3>6, <3>7, <3>8, <3>9
  <2>4. Room(t, f) => \A m \in 1..n : f[m].line \in InTable(u)
    BY <1>1, <1>4, <1>6, <2>2 DEF LinesRead, MarksKnown
  <2> QED
    BY <1>2, <1>5, <1>6, <2>2, <2>3, <2>4 DEF LinesRead, MarksKnown
<1>7. CASE TakesEmpty(s, e, u)
  <2>1. PICK k \in Slots :
          /\ s[k].line = NoTty
          /\ u[k].line = e.line /\ u[k].comn = e.comn /\ u[k].pid = s[k].pid /\ u[k].xflag = {"FOUND", "CHANGE"}
          /\ \A j \in Slots \ {k} : u[j] = s[j]
    BY <1>7 DEF TakesEmpty
  <2>2. \A j \in Slots : s[j].line # e.line
    BY <1>2, <1>7, InTableIs DEF TakesEmpty
  <2>3. InTable(u) = InTable(s) \cup {e.line}
    BY <1>2, <2>1 DEF InTable
  <2>4. t[k].line = NoTty /\ s[k].pid = t[k].pid
    BY <2>1 DEF LinesRead
  <2>5. f[n].line = u[k].line /\ n \in 1..n /\ f[n].comn = e.comn
    BY <1>1, <2>1
  <2>6. ASSUME NEW m \in 1..n, \A j \in 1..n : f[j].line = f[m].line => j <= m, f[m].line = u[k].line
        PROVE  u[k].comn = f[m].comn
    <3>1. m = n
      BY <1>4, <2>5, <2>6
    <3> QED
      BY <2>1, <2>5, <3>1
  <2>7. Room(t, f) => \A m \in 1..n : f[m].line \in InTable(u)
    BY <1>1, <1>4, <2>3 DEF LinesRead
  <2>8. InTable(u) \subseteq Wanted(t, f)
    BY <1>3, <2>3 DEF LinesRead, Wanted
  <2>9. ASSUME NEW j \in Slots, j # k PROVE u[j] = s[j] /\ s[j].line # e.line
    BY <2>1, <2>2, <2>9
  <2> QED
    BY <1>2, <1>5, <2>1, <2>4, <2>5, <2>6, <2>7, <2>8, <2>9 DEF LinesRead
<1>8. CASE NoRoom(s, e, u)
  <2>1. \A j \in Slots : s[j].line # e.line
    BY <1>2, <1>8, InTableIs DEF NoRoom
  <2>2. ~Room(t, f)
    <3>1. e.line \in Wanted(t, f) /\ InTable(s) \subseteq Wanted(t, f) /\ e.line \notin InTable(s)
      BY <1>3, <1>8 DEF Wanted, LinesRead, NoRoom
    <3> QED
      BY <1>2, <1>8, <3>1, EmptySlot, WantedFinite DEF Room, NoRoom
  <2> QED
    BY <1>2, <1>5, <1>8, <2>1, <2>2 DEF LinesRead, NoRoom
<1> QED
  BY <1>2, <1>6, <1>7, <1>8

LEMMA ReadIntoIs ==
  ASSUME NEW t \in Tables, Distinct(t), NEW f \in Seq(Entry)
  PROVE  LinesRead(t, f, ReadInto(t, f), Len(f))
<1> DEFINE N == Len(f)
           m == Merged(t, f)
           S == {n \in 0..N : ~LinesRead(t, f, m[n], n)}
<1>1. N \in Nat /\ S \subseteq 0..N
  OBVIOUS
<1>2. m[0] = Clear(t) /\ \A n \in 1..N : m[n] = Merge(m[n - 1], f[n])
  BY MergedIs
<1>3. ASSUME S # {} PROVE FALSE
  <2>1. PICK n \in S : \A j \in S : n <= j
    <3> HIDE DEF S, N
    <3> QED
      BY <1>1, <1>3, First
  <2>2. CASE n = 0
    BY <1>2, <2>2, NoLineRead
  <2>3. CASE n # 0
    <3>1. n \in 1..N /\ n - 1 \in 0..N /\ n - 1 < n /\ n - 1 \in Nat
      BY <1>1, <2>3
    <3>2. n - 1 \notin S
      <4> HIDE DEF S
      <4> QED
        BY <1>1, <2>1, <3>1
    <3>3. LinesRead(t, f, m[n - 1], n - 1)
      BY <3>1, <3>2
    <3>4. m[n] = Merge(m[n - 1], f[n])
      BY <1>2, <3>1
    <3>5. ~LinesRead(t, f, m[n], n)
      OBVIOUS
    <3> HIDE DEF m, S
    <3> QED
      BY <3>1, <3>3, <3>4, <3>5, LineRead
  <2> QED
    BY <2>2, <2>3
<1>4. N \in 0..N /\ ReadInto(t, f) = m[N]
  BY <1>1 DEF ReadInto
<1>5. LinesRead(t, f, m[N], N)
  BY <1>3, <1>4
<1> QED
  BY <1>4, <1>5

-----------------------------------------------------------------------------
(* The inductive invariant *)

\* A slot without a terminal has no process.
Empty == \A k \in Slots : itab[k].line = NoTty => itab[k].pid = 0

\* What rdttys knows of the slot in hand from the flags.
Flagged == pc \in {"slot", "kill", "fork"} =>
    /\ \A k \in Slots : "CHANGE" \in itab[k].xflag => "FOUND" \in itab[k].xflag /\ itab[k].line # NoTty
    /\ pc = "kill" => /\ itab[i].pid # 0 /\ itab[i].line # NoTty
                      /\ "CHANGE" \in itab[i].xflag \/ "FOUND" \notin itab[i].xflag
    /\ pc = "fork" /\ ("CHANGE" \in itab[i].xflag \/ "FOUND" \notin itab[i].xflag) => itab[i].pid = 0

Frees == \A q \in Pids : FreePid(q) => child[q] = NoProc

\* Outside multusr, until rdttys has run, there is nothing.
Down == pc \in {"single", "rc", "halted"} =>
    /\ \A k \in Slots : itab[k].line = NoTty
    /\ \A q \in Pids : ~Live(q)
    /\ utmp = {} /\ ~multi /\ armed = {}

Modes ==
    /\ pc \in {"loop", "top", "blocked", "got", "scan", "stop"} => multi
    /\ ~multi => armed = {}
    /\ pc = "scan" => got \in Pids
    /\ pc \in {"top", "blocked", "loop"} => i = 1

\* A living process that was started for a terminal is the one its slot names.
Owner == \A q \in Pids : Live(q) /\ child[q].line # NoTty =>
            \E k \in Slots : itab[k].line = child[q].line /\ itab[k].pid = q

\* The two reasons for a stale process id.
Known(k) == itab[k].line \in missed \/ (quitflag /\ multi)
\* The process of slot k, alive or not, was started for its terminal.
Has(k) == itab[k].pid \in Pids /\ ~FreePid(itab[k].pid) /\ child[itab[k].pid].line = itab[k].line
Own(k) == Known(k) \/ itab[k].pid \in {0, -1} \/ Has(k)
Served(k) == \/ Known(k) \/ itab[k].line = NoTty \/ itab[k].pid = -1
             \/ Has(k) /\ child[itab[k].pid].comn = itab[k].comn
\* Its process has been reaped, and the loop after wait comes to it yet.
InHand(k) == (pc = "got" \/ (pc = "scan" /\ k >= i)) /\ itab[k].pid = got
\* rdttys comes to it yet.
Marked(k) == \/ "CHANGE" \in itab[k].xflag /\ pc \in {"slot", "kill", "fork"} /\ k >= i
             \/ "FOUND" \notin itab[k].xflag /\ pc \in {"kill", "fork"} /\ k = i

Owns == pc # "stop" => \A k \in Slots : Own(k) \/ InHand(k)
Serves == pc # "stop" => \A k \in Slots : Served(k) \/ InHand(k) \/ Marked(k)

\* The process id that wait returned is free, or used again for a slot the
\* loop has passed.
GotFree ==
    /\ pc = "got" /\ got \in Pids => child[got].line = NoTty
    /\ pc = "scan" => child[got].line = NoTty \/ \E k \in Slots : k < i /\ itab[k].line = child[got].line

Logged == pc # "stop" => \A l \in utmp :
    l \in missed \cup late \/ \E k \in Slots : itab[k].line = l /\ (Has(k) \/ InHand(k))

Shape == Distinct(itab) /\ Empty /\ Flagged /\ Frees /\ Down /\ Modes
Bonds == Owner /\ Owns /\ Serves /\ GotFree /\ Logged
Inv == TypeOK /\ Shape /\ Bonds

-----------------------------------------------------------------------------
(* Slots and processes *)

LEMMA Types ==
  ASSUME TypeOK
  PROVE  /\ itab \in Tables /\ i \in Slots /\ i \in Nat /\ Slots \subseteq Nat
         /\ \A k \in Slots : /\ itab[k].line \in TtyLines \cup {NoTty} /\ itab[k].comn \in Comns \cup {NoTty}
                             /\ itab[k].pid \in Pids \cup {0, -1} /\ itab[k].xflag \in SUBSET {"FOUND", "CHANGE"}
         /\ \A q \in Pids : /\ child[q].line \in TtyLines \cup {NoTty} /\ child[q].comn \in Comns \cup {NoTty}
                            /\ child[q].st \in {"free", "live", "zombie"}
<1>1. itab \in Tables
  BY DEF TypeOK, Tables, Row
<1>2. i \in Slots /\ Slots \subseteq Nat
  BY DEF TypeOK, Slots
<1>3. ASSUME NEW k \in Slots
      PROVE  /\ itab[k].line \in TtyLines \cup {NoTty} /\ itab[k].comn \in Comns \cup {NoTty}
             /\ itab[k].pid \in Pids \cup {0, -1} /\ itab[k].xflag \in SUBSET {"FOUND", "CHANGE"}
  <2>1. itab[k] \in Row
    BY <1>1 DEF Tables
  <2> QED
    BY <2>1 DEF Row
<1>4. ASSUME NEW q \in Pids
      PROVE  /\ child[q].line \in TtyLines \cup {NoTty} /\ child[q].comn \in Comns \cup {NoTty}
             /\ child[q].st \in {"free", "live", "zombie"}
  <2>1. child[q] \in Proc
    BY DEF TypeOK
  <2> QED
    BY <2>1 DEF Proc
<1> QED
  BY <1>1, <1>2, <1>3, <1>4

LEMMA NoPids == -1 \notin Pids /\ 0 \notin Pids /\ NoChild \notin Pids /\ Eintr \notin Pids /\ Pids \subseteq Nat
<1>1. Pids \subseteq Nat \ {0}
  BY InitProcAssumption
<1>2. -1 \notin Nat /\ -2 \notin Nat /\ -3 \notin Nat
  OBVIOUS
<1> QED
  BY <1>1, <1>2 DEF NoChild, Eintr

WithPid(t, k, p) == [t EXCEPT ![k].pid = p]
WithLine(t, k, l) == [t EXCEPT ![k].line = l]

LEMMA SetPid ==
  ASSUME NEW t \in Tables, NEW k \in Slots, NEW p \in Pids \cup {0, -1}, NEW u, u = WithPid(t, k, p)
  PROVE  /\ u \in Tables
         /\ \A j \in Slots : u[j].line = t[j].line /\ u[j].comn = t[j].comn /\ u[j].xflag = t[j].xflag
         /\ u[k].pid = p /\ \A j \in Slots \ {k} : u[j].pid = t[j].pid
<1>1. t[k] \in Row
  BY DEF Tables
<1>2. PICK r : r = [t[k] EXCEPT !.pid = p]
  OBVIOUS
<1>3. r \in Row /\ r.line = t[k].line /\ r.comn = t[k].comn /\ r.xflag = t[k].xflag /\ r.pid = p
  BY <1>1, <1>2 DEF Row
<1>4. u = [t EXCEPT ![k] = r]
  BY <1>2 DEF WithPid
<1>5. u \in Tables /\ u[k] = r /\ \A j \in Slots \ {k} : u[j] = t[j]
  BY <1>3, <1>4 DEF Tables
<1> QED
  BY <1>3, <1>5

LEMMA SetLine ==
  ASSUME NEW t \in Tables, NEW k \in Slots, NEW l \in TtyLines \cup {NoTty}, NEW u, u = WithLine(t, k, l)
  PROVE  /\ u \in Tables
         /\ \A j \in Slots : u[j].pid = t[j].pid /\ u[j].comn = t[j].comn /\ u[j].xflag = t[j].xflag
         /\ u[k].line = l /\ \A j \in Slots \ {k} : u[j].line = t[j].line
<1>1. t[k] \in Row
  BY DEF Tables
<1>2. PICK r : r = [t[k] EXCEPT !.line = l]
  OBVIOUS
<1>3. r \in Row /\ r.pid = t[k].pid /\ r.comn = t[k].comn /\ r.xflag = t[k].xflag /\ r.line = l
  BY <1>1, <1>2 DEF Row
<1>4. u = [t EXCEPT ![k] = r]
  BY <1>2 DEF WithLine
<1>5. u \in Tables /\ u[k] = r /\ \A j \in Slots \ {k} : u[j] = t[j]
  BY <1>3, <1>4 DEF Tables
<1> QED
  BY <1>3, <1>5

\* kill ends living processes and leaves the rest.
LEMMA KilledIs ==
  ASSUME TypeOK, NEW p, NEW c, c = Killed(p)
  PROVE  /\ c \in [Pids -> Proc]
         /\ \A q \in Pids : /\ c[q].line = child[q].line /\ c[q].comn = child[q].comn
                            /\ c[q].st = IF Live(q) /\ p \in {q, -1} THEN "zombie" ELSE child[q].st
                            /\ ~Live(q) => c[q] = child[q]
<1>1. ASSUME NEW q \in Pids
      PROVE  /\ c[q] \in Proc /\ c[q].line = child[q].line /\ c[q].comn = child[q].comn
             /\ c[q].st = IF Live(q) /\ p \in {q, -1} THEN "zombie" ELSE child[q].st
             /\ ~Live(q) => c[q] = child[q]
  <2>1. child[q] \in Proc
    BY DEF TypeOK
  <2>2. c[q] = IF Live(q) /\ p \in {q, -1} THEN [child[q] EXCEPT !.st = "zombie"] ELSE child[q]
    BY DEF Killed
  <2>3. PICK r : r = [child[q] EXCEPT !.st = "zombie"]
    OBVIOUS
  <2>4. r \in Proc /\ r.line = child[q].line /\ r.comn = child[q].comn /\ r.st = "zombie"
    BY <2>1, <2>3 DEF Proc
  <2> QED
    BY <2>1, <2>2, <2>3, <2>4
<1>2. c = [q \in Pids |-> c[q]]
  BY DEF Killed
<1> QED
  BY <1>1, <1>2

\* What a fork does to slot k and to the processes.
Forks(k, q) ==
    /\ q \in Pids /\ FreePid(q)
    /\ child' \in [Pids -> Proc]
    /\ child'[q].line = itab[k].line /\ child'[q].comn = itab[k].comn /\ child'[q].st = "live"
    /\ \A r \in Pids \ {q} : child'[r] = child[r]
    /\ itab'[k].pid = q
ForkFails(k) == child' = child /\ itab'[k].pid = -1
OnlyPid(k) ==
    /\ itab' \in Tables
    /\ \A j \in Slots : itab'[j].line = itab[j].line /\ itab'[j].comn = itab[j].comn /\ itab'[j].xflag = itab[j].xflag
    /\ \A j \in Slots \ {k} : itab'[j].pid = itab[j].pid

LEMMA DforkIs ==
  ASSUME TypeOK, NEW k \in Slots, Dfork(k)
  PROVE  OnlyPid(k) /\ (ForkFails(k) \/ \E q \in Pids : Forks(k, q))
<1>0. itab \in Tables
  BY Types
<1>1. CASE itab' = [itab EXCEPT ![k].pid = -1] /\ child' = child
  <2>1. -1 \in Pids \cup {0, -1}
    OBVIOUS
  <2>2. PICK u : u = itab' /\ u = WithPid(itab, k, -1)
    BY <1>1 DEF WithPid
  <2>3. /\ u \in Tables
        /\ \A j \in Slots : u[j].line = itab[j].line /\ u[j].comn = itab[j].comn /\ u[j].xflag = itab[j].xflag
        /\ u[k].pid = -1 /\ \A j \in Slots \ {k} : u[j].pid = itab[j].pid
    BY <1>0, <2>1, <2>2, SetPid
  <2> QED
    BY <1>1, <2>2, <2>3 DEF OnlyPid, ForkFails
<1>2. ASSUME NEW q \in Pids, FreePid(q), itab' = [itab EXCEPT ![k].pid = q],
             child' = [child EXCEPT ![q] = [line |-> itab[k].line, comn |-> itab[k].comn, st |-> "live"]]
      PROVE  OnlyPid(k) /\ Forks(k, q)
  <2>1. OnlyPid(k) /\ itab'[k].pid = q
    <3>1. PICK u : u = itab' /\ u = WithPid(itab, k, q)
      BY <1>2 DEF WithPid
    <3>2. /\ u \in Tables
          /\ \A j \in Slots : u[j].line = itab[j].line /\ u[j].comn = itab[j].comn /\ u[j].xflag = itab[j].xflag
          /\ u[k].pid = q /\ \A j \in Slots \ {k} : u[j].pid = itab[j].pid
      BY <1>0, <3>1, SetPid
    <3> QED
      BY <3>1, <3>2 DEF OnlyPid
  <2>2. PICK r : r = [line |-> itab[k].line, comn |-> itab[k].comn, st |-> "live"]
    OBVIOUS
  <2>3. r \in Proc /\ r.line = itab[k].line /\ r.comn = itab[k].comn /\ r.st = "live"
    BY <2>2, Types DEF Proc
  <2>4. child' = [child EXCEPT ![q] = r] /\ child \in [Pids -> Proc]
    BY <1>2, <2>2 DEF TypeOK
  <2>5. child' \in [Pids -> Proc] /\ child'[q] = r /\ \A p \in Pids \ {q} : child'[p] = child[p]
    BY <2>3, <2>4
  <2> QED
    BY <1>2, <2>1, <2>3, <2>5 DEF Forks
<1> QED
  BY <1>1, <1>2 DEF Dfork

\* A slot that stays as it is, with a process that is not reaped.
LEMMA Kept ==
  ASSUME TypeOK, NEW k \in Slots,
         itab'[k].line = itab[k].line, itab'[k].comn = itab[k].comn, itab'[k].pid = itab[k].pid,
         itab[k].pid \in Pids /\ ~FreePid(itab[k].pid) =>
            LET c == child'[itab[k].pid] IN
            c.st # "free" /\ c.line = child[itab[k].pid].line /\ c.comn = child[itab[k].pid].comn,
         Known(k) => Known(k)'
  PROVE  (Own(k) => Own(k)') /\ (Served(k) => Served(k)') /\ (Has(k) => Has(k)')
<1>1. Has(k) => Has(k)' /\ child'[itab'[k].pid].comn = child[itab[k].pid].comn
  BY DEF Has, FreePid
<1> QED
  BY <1>1 DEF Own, Served

\* The parts of the type.
LEMMA TypeParts ==
  ASSUME pc' \in {"single", "rc", "read", "slot", "kill", "fork", "loop", "top", "blocked",
                  "got", "scan", "stop", "halted"},
         i' \in Slots, itab' \in Tables, got' \in Pids \cup {NoChild, Eintr},
         {mergflag', quitflag', gosingle', multi'} \subseteq BOOLEAN,
         armed' \subseteq Sigs, ttys' \in Files, child' \in [Pids -> Proc],
         utmp' \subseteq TtyLines, missed' \subseteq TtyLines \cup {NoTty}, late' \subseteq TtyLines
  PROVE  TypeOK'
<1>1. itab' \in [Slots -> [line : TtyLines \cup {NoTty}, comn : Comns \cup {NoTty},
                           pid : Pids \cup {0, -1}, xflag : SUBSET {"FOUND", "CHANGE"}]]
  BY DEF Tables, Row
<1> QED
  BY <1>1 DEF TypeOK

\* Without terminals, processes and logins nothing is owed.
LEMMA Quiet ==
  ASSUME \A k \in Slots : itab'[k].line = NoTty /\ itab'[k].pid = 0,
         \A q \in Pids : ~Live(q)', utmp' = {}, pc' \notin {"got", "scan"}
  PROVE  Bonds' /\ Distinct(itab)' /\ Empty'
<1>1. Distinct(itab)' /\ Empty' /\ Owner' /\ GotFree' /\ Logged'
  BY DEF Distinct, Empty, Owner, GotFree, Logged
<1>2. Owns'
  BY DEF Owns, Own
<1>3. Serves'
  BY DEF Serves, Served
<1> QED
  BY <1>1, <1>2, <1>3 DEF Bonds

-----------------------------------------------------------------------------
(* The steps of init preserve the invariant *)

LEMMA InitInv == Init => Inv
<1> SUFFICES ASSUME Init PROVE Inv
  OBVIOUS
<1>1. PICK r : r = NoSlot
  OBVIOUS
<1>2. r.line = NoTty /\ r.pid = 0 /\ r \in Row
  BY <1>1 DEF NoSlot, Row
<1>3. \A k \in Slots : itab[k] = r
  BY <1>1 DEF Init
<1>4. itab \in Tables
  BY <1>1, <1>2 DEF Init, Tables
<1>5. \A k \in Slots : itab[k].line = NoTty /\ itab[k].pid = 0
  BY <1>2, <1>3
<1>6. PICK c : c = NoProc
  OBVIOUS
<1>7. c \in Proc /\ c.st = "free"
  BY <1>6 DEF NoProc, Proc
<1>8. child \in [Pids -> Proc] /\ \A q \in Pids : child[q] = NoProc /\ ~Live(q)
  BY <1>6, <1>7 DEF Init, Live
<1>9. 1 \in Slots
  BY InitProcAssumption DEF Slots
<1>10. TypeOK
  <2>1. itab \in [Slots -> [line : TtyLines \cup {NoTty}, comn : Comns \cup {NoTty},
                           pid : Pids \cup {0, -1}, xflag : SUBSET {"FOUND", "CHANGE"}]]
    BY <1>4 DEF Tables, Row
  <2> QED
    BY <1>8, <1>9, <2>1 DEF Init, TypeOK
<1>11. Shape
  BY <1>5, <1>8 DEF Init, Shape, Distinct, Empty, Flagged, Frees, Down, Modes
<1>12. Owner /\ GotFree /\ Logged
  BY <1>8 DEF Init, Owner, GotFree, Logged
<1>13. Owns /\ Serves
  BY <1>5 DEF Owns, Serves, Own, Served
<1> QED
  BY <1>10, <1>11, <1>12, <1>13 DEF Inv, Bonds

\* What single user mode waits for.
LEMMA SingUsrInv == ASSUME Inv, SingUsr PROVE Inv'
<1> USE DEF Inv, Shape
<1>1. \A k \in Slots : itab'[k].line = NoTty /\ itab'[k].pid = 0
  BY DEF SingUsr, Down, Empty
<1>2. ASSUME NEW q \in Pids PROVE child'[q] \in Proc /\ (FreePid(q)' => child'[q] = NoProc) /\ ~Live(q)'
  <2>1. PICK c : c = NoProc
    OBVIOUS
  <2>2. c \in Proc /\ c.st = "free"
    BY <2>1 DEF NoProc, Proc
  <2>3. child[q] \in Proc /\ ~Live(q) /\ child'[q] = IF Zombie(q) THEN c ELSE child[q]
    BY <2>1 DEF SingUsr, Down, TypeOK
  <2> QED
    BY <2>1, <2>2, <2>3 DEF Frees, FreePid, Live
<1>3. child' \in [Pids -> Proc]
  <2>1. child' = [q \in Pids |-> child'[q]]
    BY DEF SingUsr
  <2> QED
    BY <1>2, <2>1
<1>4. TypeOK'
  BY <1>3, Types, TypeParts DEF SingUsr, TypeOK, flags, hist
<1>5. Bonds' /\ Distinct(itab)' /\ Empty'
  BY <1>1, <1>2, Quiet DEF SingUsr, Down
<1>6. Flagged' /\ Frees' /\ Modes'
  BY <1>2 DEF SingUsr, Flagged, Frees, Modes, Down, flags
<1>7. Down'
  BY <1>1, <1>2 DEF SingUsr, Down, flags
<1> QED
  BY <1>4, <1>5, <1>6, <1>7

LEMMA RunRcInv == ASSUME Inv, RunRc PROVE Inv'
<1> USE DEF Inv, Shape
<1>1. \A k \in Slots : itab'[k].line = NoTty /\ itab'[k].pid = 0
  BY DEF RunRc, Down, Empty
<1>2. ASSUME NEW q \in Pids PROVE child'[q] \in Proc /\ (FreePid(q)' => child'[q] = NoProc) /\ ~Live(q)'
  <2>1. PICK c : c = NoProc
    OBVIOUS
  <2>2. c \in Proc /\ c.st = "free"
    BY <2>1 DEF NoProc, Proc
  <2>3. child[q] \in Proc /\ ~Live(q) /\ child'[q] = IF Zombie(q) THEN c ELSE child[q]
    BY <2>1 DEF RunRc, Down, TypeOK
  <2> QED
    BY <2>1, <2>2, <2>3 DEF Frees, FreePid, Live
<1>3. child' \in [Pids -> Proc]
  <2>1. child' = [q \in Pids |-> child'[q]]
    BY DEF RunRc
  <2> QED
    BY <1>2, <2>1
<1>4. TypeOK'
  BY <1>3, Types, TypeParts DEF RunRc, TypeOK, flags, hist
<1>5. Bonds' /\ Distinct(itab)' /\ Empty'
  BY <1>1, <1>2, Quiet DEF RunRc, Down
<1>6. Flagged' /\ Frees' /\ Down' /\ Modes'
  BY <1>2 DEF RunRc, Flagged, Frees, Modes, Down, flags
<1> QED
  BY <1>4, <1>5, <1>6

\* rdttys reads the file.
LEMMA RdReadIs ==
  ASSUME Inv, RdRead
  PROVE  LinesRead(itab, ttys, itab', Len(ttys)) /\ ttys \in Seq(Entry) /\ itab \in Tables /\ Distinct(itab)
<1>1. ttys \in Seq(Entry)
  BY InitProcAssumption DEF Inv, TypeOK
<1>2. itab \in Tables /\ Distinct(itab) /\ itab' = ReadInto(itab, ttys)
  BY Types DEF Inv, Shape, RdRead
<1>3. LinesRead(itab, ttys, ReadInto(itab, ttys), Len(ttys))
  BY <1>1, <1>2, ReadIntoIs
<1> QED
  BY <1>1, <1>2, <1>3

\* A slot that was empty and is not holds a terminal of the file.
LEMMA NewLine ==
  ASSUME NEW t, NEW f \in Seq(Entry), NEW s, NEW n, LinesRead(t, f, s, n),
         NEW k \in Slots, t[k].line = NoTty, s[k].line # NoTty
  PROVE  \E m \in 1..Len(f) : f[m].line = s[k].line
<1>1. s[k].line \in InTable(s) /\ InTable(s) \subseteq Wanted(t, f)
  BY InTableIs DEF LinesRead
<1>2. s[k].line \notin InTable(t)
  <2>1. ASSUME NEW j \in Slots, t[j].line = s[k].line PROVE FALSE
    <3>1. s[j].line = s[k].line
      BY <2>1 DEF LinesRead
    <3>2. j = k
      BY <3>1 DEF LinesRead, Distinct
    <3> QED
      BY <2>1, <3>2
  <2> QED
    BY <2>1, InTableIs
<1>3. s[k].line \in LinesOf(f)
  BY <1>1, <1>2 DEF Wanted
<1>4. DOMAIN f = 1..Len(f)
  OBVIOUS
<1> QED
  BY <1>3, <1>4 DEF LinesOf

LEMMA RdReadInv == ASSUME Inv, RdRead PROVE Inv'
<1> USE DEF Inv, Shape
<1> DEFINE N == Len(ttys)
<1>1. LinesRead(itab, ttys, itab', N) /\ ttys \in Seq(Entry) /\ N \in Nat
  BY RdReadIs
<1>2. itab' \in Tables /\ Distinct(itab)'
  BY <1>1 DEF LinesRead, Distinct
<1>3. 1 \in Slots
  BY InitProcAssumption DEF Slots
<1>4. TypeOK'
  BY <1>2, <1>3, TypeParts DEF RdRead, TypeOK, flags, sys, hist
<1>5. ASSUME NEW k \in Slots
      PROVE  /\ itab'[k].pid = itab[k].pid
             /\ itab[k].line # NoTty => itab'[k].line = itab[k].line
             /\ "CHANGE" \in itab'[k].xflag => itab'[k].line # NoTty
             /\ "CHANGE" \notin itab'[k].xflag => itab'[k].comn = itab[k].comn
             /\ "CHANGE" \notin itab'[k].xflag /\ itab'[k].line # NoTty => itab[k].line # NoTty
  BY <1>1 DEF LinesRead
<1>6. Empty' /\ Frees' /\ Down' /\ Modes' /\ Flagged'
  <2>1. Empty'
    BY <1>5 DEF Empty
  <2>2. Frees' /\ Down' /\ Modes'
    BY DEF RdRead, Frees, FreePid, Down, Modes, sys, flags
  <2>3. ASSUME NEW k \in Slots, "CHANGE" \in itab'[k].xflag PROVE "FOUND" \in itab'[k].xflag
    <3>1. \E m \in 1..N : ttys[m].line = itab'[k].line
      <4>1. CASE itab[k].line = NoTty
        BY <1>1, <1>5, <2>3, <4>1, NewLine
      <4>2. CASE itab[k].line # NoTty
        BY <1>1, <2>3, <4>2 DEF LinesRead
      <4> QED
        BY <4>1, <4>2
    <3> QED
      BY <1>1, <3>1 DEF LinesRead
  <2> QED
    BY <1>5, <2>1, <2>2, <2>3 DEF Flagged, RdRead
<1>7. Owner'
  <2>1. ASSUME NEW q \in Pids, Live(q)', child'[q].line # NoTty
        PROVE  \E k \in Slots : itab'[k].line = child'[q].line /\ itab'[k].pid = q
    <3>1. PICK k \in Slots : itab[k].line = child[q].line /\ itab[k].pid = q
      BY <2>1 DEF RdRead, sys, Bonds, Owner, Live
    <3> QED
      BY <1>5, <2>1, <3>1 DEF RdRead, sys
  <2> QED
    BY <2>1 DEF Owner
<1>8. ASSUME NEW k \in Slots, itab[k].line # NoTty
      PROVE  (Own(k) => Own(k)') /\ (Has(k) => Has(k)') /\ (Known(k) => Known(k)')
  <2>1. Known(k) => Known(k)'
    BY <1>5, <1>8 DEF Known, RdRead, flags, hist
  <2>2. Has(k) => Has(k)'
    BY <1>5, <1>8 DEF Has, FreePid, RdRead, sys
  <2> QED
    BY <1>5, <2>1, <2>2 DEF Own
<1>9. pc # "stop" /\ \A k \in Slots : ~InHand(k) /\ ~Marked(k)
  BY DEF RdRead, InHand, Marked
<1>10. Owns'
  <2>1. ASSUME NEW k \in Slots PROVE Own(k)'
    <3>1. CASE itab[k].line = NoTty
      BY <1>5, <3>1 DEF Empty, Own
    <3>2. CASE itab[k].line # NoTty
      BY <1>8, <1>9, <3>2 DEF Bonds, Owns
    <3> QED
      BY <3>1, <3>2
  <2> QED
    BY <2>1 DEF Owns
<1>11. Serves'
  <2>1. ASSUME NEW k \in Slots PROVE Served(k)' \/ Marked(k)'
    <3>1. CASE "CHANGE" \in itab'[k].xflag
      <4>1. k >= 1
        BY DEF Slots
      <4> QED
        BY <3>1, <4>1 DEF Marked, RdRead
    <3>2. CASE "CHANGE" \notin itab'[k].xflag
      <4>1. CASE itab'[k].line = NoTty
        BY <4>1 DEF Served
      <4>2. CASE itab'[k].line # NoTty
        <5>1. itab[k].line # NoTty /\ itab'[k].comn = itab[k].comn /\ itab'[k].pid = itab[k].pid
          BY <1>5, <3>2, <4>2
        <5>2. Served(k)
          BY <1>9 DEF Bonds, Serves
        <5> QED
          BY <1>8, <5>1, <5>2 DEF Served, RdRead, sys
      <4> QED
        BY <4>1, <4>2
    <3> QED
      BY <3>1, <3>2
  <2> QED
    BY <2>1 DEF Serves
<1>12. GotFree'
  BY DEF GotFree, RdRead
<1>13. Logged'
  <2>1. ASSUME NEW l \in utmp' PROVE l \in missed' \cup late' \/ \E k \in Slots : itab'[k].line = l /\ Has(k)'
    <3>1. l \in utmp /\ missed' = missed /\ late' = late /\ l # NoTty
      BY InitProcAssumption DEF RdRead, sys, hist, TypeOK
    <3>2. CASE l \in missed \cup late
      BY <3>1, <3>2
    <3>3. CASE l \notin missed \cup late
      <4>1. PICK k \in Slots : itab[k].line = l /\ Has(k)
        BY <1>9, <3>1, <3>3 DEF Bonds, Logged
      <4> QED
        BY <1>5, <1>8, <3>1, <4>1
    <3> QED
      BY <3>2, <3>3
  <2> QED
    BY <2>1 DEF Logged
<1> QED
  BY <1>2, <1>4, <1>6, <1>7, <1>10, <1>11, <1>12, <1>13 DEF Bonds

\* Without the file nothing is done: what was known is known.
LEMMA RdMissingInv == ASSUME Inv, RdMissing PROVE Inv'
<1> USE DEF Inv, Shape
<1>1. /\ pc = "read" /\ pc' = "loop" /\ i' = 1 /\ multi' = TRUE
      /\ UNCHANGED <<itab, got, mergflag, armed, ttys, child, utmp, missed, late>>
      /\ (quitflag' = quitflag /\ gosingle' = gosingle /\ multi) \/ (quitflag' = FALSE /\ gosingle' = FALSE /\ ~multi)
  BY DEF RdMissing, sys
<1>2. TypeOK'
  <2>1. 1 \in Slots
    BY InitProcAssumption DEF Slots
  <2> QED
    BY <1>1, <2>1, Types, TypeParts DEF TypeOK
<1>3. Distinct(itab)' /\ Empty' /\ Flagged' /\ Frees' /\ Down' /\ Modes'
  BY <1>1 DEF Distinct, Empty, Flagged, Frees, FreePid, Down, Modes
<1>4. Owner' /\ GotFree'
  BY <1>1 DEF Bonds, Owner, Live, GotFree
<1>5. ASSUME NEW k \in Slots
      PROVE  /\ Own(k)' <=> Own(k)
             /\ Served(k)' <=> Served(k)
             /\ Has(k)' <=> Has(k)
             /\ ~InHand(k) /\ ~Marked(k)
  <2>1. Known(k)' <=> Known(k)
    BY <1>1 DEF Known
  <2>2. Has(k)' <=> Has(k)
    BY <1>1 DEF Has, FreePid
  <2> QED
    BY <1>1, <2>1, <2>2 DEF Own, Served, InHand, Marked
<1>6. Owns' /\ Serves' /\ Logged'
  BY <1>1, <1>5 DEF Bonds, Owns, Serves, Logged
<1> QED
  BY <1>2, <1>3, <1>4, <1>6 DEF Bonds

\* A slot is looked at; the terminal that is to end is logged out.
LEMMA RdSlotInv == ASSUME Inv, RdSlot PROVE Inv'
<1> USE DEF Inv, Shape
<1>1. /\ pc = "slot" /\ pc' \in {"kill", "fork"} /\ utmp' \subseteq utmp
      /\ UNCHANGED <<i, itab, got, multi, flags, ttys, child, hist>>
  BY DEF RdSlot
<1>2. TypeOK'
  BY <1>1, Types, TypeParts DEF TypeOK, flags, hist
<1>3. Distinct(itab)' /\ Empty' /\ Frees' /\ Down' /\ Modes'
  BY <1>1 DEF Distinct, Empty, Frees, FreePid, Down, Modes, flags
<1>4. Flagged'
  <2>1. \A k \in Slots : "CHANGE" \in itab[k].xflag => "FOUND" \in itab[k].xflag /\ itab[k].line # NoTty
    BY <1>1 DEF Flagged
  <2>2. i \in Slots
    BY Types
  <2>3. pc' = "kill" => /\ itab[i].pid # 0 /\ itab[i].line # NoTty
                        /\ "CHANGE" \in itab[i].xflag \/ "FOUND" \notin itab[i].xflag
    BY <2>1, <2>2 DEF RdSlot
  <2>4. pc' = "fork" /\ ("CHANGE" \in itab[i].xflag \/ "FOUND" \notin itab[i].xflag) => itab[i].pid = 0
    BY <2>1, <2>2 DEF RdSlot, Empty
  <2> QED
    BY <1>1, <2>1, <2>3, <2>4 DEF Flagged
<1>5. ASSUME NEW k \in Slots
      PROVE  (Own(k) => Own(k)') /\ (Served(k) => Served(k)') /\ (Has(k) => Has(k)') /\ ~InHand(k)
             /\ (Marked(k) => Marked(k)')
  <2>1. Known(k) => Known(k)'
    BY <1>1 DEF Known, flags, hist
  <2>2. Marked(k) => Marked(k)'
    BY <1>1 DEF Marked
  <2>3. ~InHand(k)
    BY <1>1 DEF InHand
  <2>4. (Own(k) => Own(k)') /\ (Served(k) => Served(k)') /\ (Has(k) => Has(k)')
    BY <1>1, <2>1, Kept DEF FreePid
  <2> QED
    BY <2>2, <2>3, <2>4
<1>6. Owner' /\ GotFree'
  BY <1>1 DEF Bonds, Owner, Live, GotFree
<1>7. Owns' /\ Serves'
  BY <1>1, <1>5 DEF Bonds, Owns, Serves
<1>8. Logged'
  BY <1>1, <1>5 DEF Bonds, Logged, hist
<1> QED
  BY <1>2, <1>3, <1>4, <1>6, <1>7, <1>8 DEF Bonds

\* The process of the terminal in hand is killed.
LEMMA RdKillIs ==
  ASSUME Inv, RdKill
  PROVE  /\ OnlyPid(i) /\ itab'[i].pid = 0 /\ child' \in [Pids -> Proc]
         /\ \A q \in Pids : /\ child'[q].line = child[q].line /\ child'[q].comn = child[q].comn
                            /\ child'[q].st = IF Live(q) /\ itab[i].pid \in {q, -1} THEN "zombie" ELSE child[q].st
                            /\ ~Live(q) => child'[q] = child[q]
<1> USE DEF Inv
<1>1. itab \in Tables /\ i \in Slots /\ 0 \in Pids \cup {0, -1}
  BY Types
<1>2. PICK u : u = itab' /\ u = WithPid(itab, i, 0)
  BY DEF WithPid, RdKill
<1>3. /\ u \in Tables
      /\ \A j \in Slots : u[j].line = itab[j].line /\ u[j].comn = itab[j].comn /\ u[j].xflag = itab[j].xflag
      /\ u[i].pid = 0 /\ \A j \in Slots \ {i} : u[j].pid = itab[j].pid
  BY <1>1, <1>2, SetPid
<1>4. OnlyPid(i) /\ itab'[i].pid = 0
  BY <1>2, <1>3 DEF OnlyPid
<1>5. PICK c : c = child' /\ c = Killed(itab[i].pid)
  BY DEF RdKill
<1>6. /\ c \in [Pids -> Proc]
      /\ \A q \in Pids : /\ c[q].line = child[q].line /\ c[q].comn = child[q].comn
                         /\ c[q].st = IF Live(q) /\ itab[i].pid \in {q, -1} THEN "zombie" ELSE child[q].st
                         /\ ~Live(q) => c[q] = child[q]
  BY <1>5, KilledIs
<1> QED
  BY <1>4, <1>5, <1>6

LEMMA RdKillInv == ASSUME Inv, RdKill PROVE Inv'
<1> USE DEF Inv, Shape
<1>1. /\ pc = "kill" /\ pc' = "fork"
      /\ UNCHANGED <<i, got, multi, flags, ttys, utmp, signals, events, edits>>
      /\ missed' = missed \ {itab[i].line} /\ late' = late \cup (utmp \cap {itab[i].line})
  BY DEF RdKill
<1>2. /\ OnlyPid(i) /\ itab'[i].pid = 0 /\ child' \in [Pids -> Proc]
      /\ \A q \in Pids : /\ child'[q].line = child[q].line /\ child'[q].comn = child[q].comn
                         /\ child'[q].st = IF Live(q) /\ itab[i].pid \in {q, -1} THEN "zombie" ELSE child[q].st
                         /\ ~Live(q) => child'[q] = child[q]
  BY RdKillIs
<1>3. i \in Slots /\ i \in Nat
  BY Types
<1>4. TypeOK'
  BY <1>1, <1>2, <1>3, TypeParts DEF TypeOK, flags, OnlyPid
<1>5. /\ itab[i].line # NoTty /\ ("CHANGE" \in itab[i].xflag \/ "FOUND" \notin itab[i].xflag)
      /\ \A k \in Slots : "CHANGE" \in itab[k].xflag => "FOUND" \in itab[k].xflag /\ itab[k].line # NoTty
  BY <1>1 DEF Flagged
<1>6. Distinct(itab)' /\ Empty' /\ Flagged'
  BY <1>1, <1>2, <1>5 DEF Distinct, Empty, Flagged, OnlyPid
<1>7. Frees' /\ Down' /\ Modes'
  <2>1. Frees'
    BY <1>2 DEF Frees, FreePid, Live
  <2> QED
    BY <1>1, <2>1 DEF Down, Modes, flags
<1>8. ASSUME NEW k \in Slots, k # i PROVE itab[k].line # itab[i].line /\ (Known(k) => Known(k)')
  <2>1. itab[k].line # itab[i].line
    BY <1>3, <1>5, <1>8 DEF Distinct
  <2> QED
    BY <1>1, <1>2, <2>1 DEF Known, flags, OnlyPid
<1>9. ASSUME NEW k \in Slots, k # i
      PROVE  (Own(k) => Own(k)') /\ (Served(k) => Served(k)') /\ (Has(k) => Has(k)')
  <2>1. itab'[k].line = itab[k].line /\ itab'[k].comn = itab[k].comn /\ itab'[k].pid = itab[k].pid
    BY <1>2, <1>9 DEF OnlyPid
  <2>2. ASSUME NEW q \in Pids, ~FreePid(q)
        PROVE  child'[q].st # "free" /\ child'[q].line = child[q].line /\ child'[q].comn = child[q].comn
    BY <1>2, <2>2 DEF FreePid
  <2> QED
    BY <1>8, <1>9, <2>1, <2>2, Kept
<1>10. \A k \in Slots : ~InHand(k)
  BY <1>1 DEF InHand
<1>11. Owner'
  <2>1. ASSUME NEW q \in Pids, Live(q)', child'[q].line # NoTty
        PROVE  \E k \in Slots : itab'[k].line = child'[q].line /\ itab'[k].pid = q
    <3>1. Live(q) /\ itab[i].pid # q /\ child[q].line # NoTty
      BY <1>2, <2>1 DEF Live
    <3>2. PICK k \in Slots : itab[k].line = child[q].line /\ itab[k].pid = q
      BY <3>1 DEF Bonds, Owner
    <3> QED
      BY <1>2, <3>1, <3>2 DEF OnlyPid
  <2> QED
    BY <2>1 DEF Owner
<1>12. Owns'
  <2>1. Own(i)'
    BY <1>1, <1>2 DEF Own
  <2>2. ASSUME NEW k \in Slots, k # i PROVE Own(k)'
    BY <1>1, <1>9, <1>10, <2>2 DEF Bonds, Owns
  <2>3. \A k \in Slots : Own(k)'
    BY <1>1, <2>1, <2>2
  <2> QED
    BY <2>3 DEF Owns
<1>13. Serves'
  <2>1. Marked(i)'
    <3>1. i' = i /\ pc' = "fork" /\ itab'[i].xflag = itab[i].xflag /\ i >= i
      BY <1>1, <1>2, <1>3 DEF OnlyPid
    <3> QED
      BY <1>5, <3>1 DEF Marked
  <2>2. ASSUME NEW k \in Slots, k # i PROVE Served(k)' \/ Marked(k)'
    <3>1. Served(k) \/ Marked(k)
      BY <1>1, <1>10 DEF Bonds, Serves
    <3>2. Marked(k) => Marked(k)'
      BY <1>1, <1>2, <2>2 DEF Marked, OnlyPid
    <3> QED
      BY <1>9, <2>2, <3>1, <3>2
  <2>3. \A k \in Slots : Served(k)' \/ Marked(k)'
    BY <1>1, <2>1, <2>2
  <2> QED
    BY <2>3 DEF Serves
<1>14. GotFree'
  BY <1>1 DEF GotFree
<1>15. Logged'
  <2>1. ASSUME NEW l \in utmp' PROVE l \in missed' \cup late' \/ \E k \in Slots : itab'[k].line = l /\ Has(k)'
    <3>1. CASE l = itab[i].line
      BY <1>1, <3>1
    <3>2. CASE l # itab[i].line
      <4>1. CASE l \in missed \cup late
        BY <1>1, <3>2, <4>1
      <4>2. CASE l \notin missed \cup late
        <5>1. PICK k \in Slots : itab[k].line = l /\ Has(k)
          BY <1>1, <1>10, <4>2 DEF Bonds, Logged
        <5> QED
          BY <1>2, <1>9, <3>2, <5>1 DEF OnlyPid
      <4> QED
        BY <4>1, <4>2
    <3> QED
      BY <3>1, <3>2
  <2> QED
    BY <2>1 DEF Logged
<1> QED
  BY <1>4, <1>6, <1>7, <1>11, <1>12, <1>13, <1>14, <1>15 DEF Bonds

\* The slots after the one in hand are those of the next round of the loop.
LEMMA NextSlotIs ==
  ASSUME TypeOK, NEW l, NEW end, NextSlot(l, end)
  PROVE  /\ i' \in Slots
         /\ \/ pc' = l /\ i' = i + 1
            \/ pc' = end /\ i' = 1 /\ \A k \in Slots : k <= i
<1>1. i \in Slots /\ NSlots \in Nat \ {0} /\ Slots = 1..NSlots
  BY InitProcAssumption, Types DEF Slots
<1>2. CASE i + 1 \in Slots
  BY <1>2 DEF NextSlot
<1>3. CASE i + 1 \notin Slots
  BY <1>1, <1>3 DEF NextSlot
<1> QED
  BY <1>2, <1>3

\* A fork for slot k serves it, and leaves the others as they are.
LEMMA ForkSlots ==
  ASSUME TypeOK, NEW k \in Slots, OnlyPid(k), ForkFails(k) \/ \E q \in Pids : Forks(k, q)
  PROVE  /\ child' \in [Pids -> Proc] /\ Own(k)' /\ Served(k)'
         /\ \A j \in Slots \ {k} : (Known(j) => Known(j)') =>
               (Own(j) => Own(j)') /\ (Served(j) => Served(j)') /\ (Has(j) => Has(j)')
         /\ Frees => Frees'
         /\ Distinct(itab) => Distinct(itab)'
         /\ Empty /\ itab[k].line # NoTty => Empty'
         /\ Owner /\ ~(itab[k].pid \in Pids /\ Live(itab[k].pid) /\ child[itab[k].pid].line = itab[k].line) => Owner'
<1>1. \A j \in Slots : itab'[j].line = itab[j].line /\ itab'[j].comn = itab[j].comn
  BY DEF OnlyPid
<1>2. \A j \in Slots \ {k} : itab'[j].pid = itab[j].pid
  BY DEF OnlyPid
<1>3. Distinct(itab) => Distinct(itab)'
  BY <1>1 DEF Distinct
<1>4. Empty /\ itab[k].line # NoTty => Empty'
  BY <1>1, <1>2 DEF Empty
<1>5. CASE ForkFails(k)
  <2>1. child' = child /\ itab'[k].pid = -1 /\ child' \in [Pids -> Proc]
    BY <1>5 DEF ForkFails, TypeOK
  <2>2. Own(k)' /\ Served(k)'
    BY <2>1 DEF Own, Served
  <2>3. ASSUME NEW j \in Slots \ {k}, Known(j) => Known(j)'
        PROVE  (Own(j) => Own(j)') /\ (Served(j) => Served(j)') /\ (Has(j) => Has(j)')
    BY <1>1, <1>2, <2>1, <2>3, Kept DEF FreePid
  <2>4. Frees => Frees'
    BY <2>1 DEF Frees, FreePid
  <2>5. Owner /\ ~(itab[k].pid \in Pids /\ Live(itab[k].pid) /\ child[itab[k].pid].line = itab[k].line) => Owner'
    <3> SUFFICES ASSUME Owner, ~(itab[k].pid \in Pids /\ Live(itab[k].pid) /\ child[itab[k].pid].line = itab[k].line),
                        NEW q \in Pids, Live(q), child[q].line # NoTty
                 PROVE  \E j \in Slots : itab'[j].line = child[q].line /\ itab'[j].pid = q
      BY <2>1 DEF Owner, Live
    <3>1. PICK j \in Slots : itab[j].line = child[q].line /\ itab[j].pid = q
      BY DEF Owner
    <3>2. j # k
      BY <3>1
    <3> QED
      BY <1>1, <1>2, <3>1, <3>2
  <2> QED
    BY <1>3, <1>4, <2>1, <2>2, <2>3, <2>4, <2>5
<1>6. ASSUME NEW q \in Pids, Forks(k, q)
      PROVE  /\ child' \in [Pids -> Proc] /\ Own(k)' /\ Served(k)'
             /\ \A j \in Slots \ {k} : (Known(j) => Known(j)') =>
                   (Own(j) => Own(j)') /\ (Served(j) => Served(j)') /\ (Has(j) => Has(j)')
             /\ Frees => Frees'
             /\ Owner /\ ~(itab[k].pid \in Pids /\ Live(itab[k].pid) /\ child[itab[k].pid].line = itab[k].line) => Owner'
  <2>1. /\ FreePid(q) /\ child' \in [Pids -> Proc]
        /\ child'[q].line = itab[k].line /\ child'[q].comn = itab[k].comn /\ child'[q].st = "live"
        /\ \A r \in Pids \ {q} : child'[r] = child[r]
        /\ itab'[k].pid = q
    BY <1>6 DEF Forks
  <2>2. Has(k)' /\ child'[itab'[k].pid].comn = itab'[k].comn
    BY <1>1, <2>1 DEF Has, FreePid
  <2>3. ASSUME NEW j \in Slots \ {k}, Known(j) => Known(j)'
        PROVE  (Own(j) => Own(j)') /\ (Served(j) => Served(j)') /\ (Has(j) => Has(j)')
    <3>1. ASSUME itab[j].pid \in Pids, ~FreePid(itab[j].pid) PROVE child'[itab[j].pid] = child[itab[j].pid]
      BY <2>1, <3>1
    <3> QED
      BY <1>1, <1>2, <2>3, <3>1, Kept DEF FreePid
  <2>4. Frees => Frees'
    BY <2>1 DEF Frees, FreePid
  <2>5. Owner /\ ~(itab[k].pid \in Pids /\ Live(itab[k].pid) /\ child[itab[k].pid].line = itab[k].line) => Owner'
    <3> SUFFICES ASSUME Owner, ~(itab[k].pid \in Pids /\ Live(itab[k].pid) /\ child[itab[k].pid].line = itab[k].line),
                        NEW p \in Pids, Live(p)', child'[p].line # NoTty
                 PROVE  \E j \in Slots : itab'[j].line = child'[p].line /\ itab'[j].pid = p
      BY DEF Owner
    <3>1. CASE p = q
      BY <1>1, <2>1, <3>1
    <3>2. CASE p # q
      <4>1. child'[p] = child[p] /\ Live(p)
        BY <2>1, <3>2 DEF Live
      <4>2. PICK j \in Slots : itab[j].line = child[p].line /\ itab[j].pid = p
        BY <4>1 DEF Owner
      <4>3. j # k
        BY <4>1, <4>2
      <4> QED
        BY <1>1, <1>2, <4>1, <4>2, <4>3
    <3> QED
      BY <3>1, <3>2
  <2>6. Own(k)' /\ Served(k)'
    BY <2>2 DEF Own, Served
  <2> QED
    BY <2>1, <2>3, <2>4, <2>5, <2>6
<1> QED
  BY <1>3, <1>4, <1>5, <1>6

\* rdttys starts what is to be started, and takes out what the file does not
\* name.
LEMMA RdForkInv == ASSUME Inv, RdFork PROVE Inv'
<1> USE DEF Inv, Shape
<1>1. /\ pc = "fork" /\ i \in Slots /\ i \in Nat /\ Slots \subseteq Nat
      /\ UNCHANGED <<got, mergflag, armed, ttys, utmp, missed, late>>
  BY Types DEF RdFork
<1>2. /\ i' \in Slots
      /\ \/ pc' = "slot" /\ i' = i + 1
         \/ pc' = "loop" /\ i' = 1 /\ \A k \in Slots : k <= i
  BY NextSlotIs DEF RdFork
<1>3. /\ multi' = (multi \/ pc' = "loop")
      /\ {quitflag', gosingle', multi'} \subseteq BOOLEAN
      /\ multi => quitflag' = quitflag
  <2>1. multi' = (multi \/ pc' = "loop") /\ {quitflag, gosingle, multi} \subseteq BOOLEAN
    BY DEF RdFork, TypeOK
  <2>2. CASE multi \/ pc' # "loop"
    BY <2>1, <2>2 DEF RdFork
  <2>3. CASE ~(multi \/ pc' # "loop")
    BY <2>1, <2>3 DEF RdFork
  <2> QED
    BY <2>1, <2>2, <2>3
<1>4. ASSUME NEW k \in Slots, itab'[k].line = itab[k].line PROVE Known(k) => Known(k)'
  BY <1>1, <1>3, <1>4 DEF Known
<1>5. /\ \A k \in Slots : ~InHand(k)
      /\ \A k \in Slots : "CHANGE" \in itab[k].xflag => "FOUND" \in itab[k].xflag /\ itab[k].line # NoTty
      /\ "CHANGE" \in itab[i].xflag \/ "FOUND" \notin itab[i].xflag => itab[i].pid = 0
  BY <1>1 DEF InHand, Flagged
<1>6. Modes' /\ Down' /\ GotFree'
  BY <1>1, <1>2, <1>3 DEF Modes, Down, GotFree
\* It is enough to know what becomes of the slot in hand and of the others.
<1>7. SUFFICES
        /\ itab' \in Tables /\ child' \in [Pids -> Proc]
        /\ Distinct(itab)' /\ Empty' /\ Frees' /\ Owner'
        /\ \A k \in Slots : "CHANGE" \in itab'[k].xflag =>
              "CHANGE" \in itab[k].xflag /\ "FOUND" \in itab'[k].xflag /\ itab'[k].line # NoTty
        /\ \A k \in Slots : Own(k) => Own(k)'
        /\ \A k \in Slots \ {i} : Served(k) => Served(k)'
        /\ Served(i) \/ Marked(i) => \A k \in Slots : k = i => Served(k)'
        /\ \A k \in Slots \ {i} : Has(k) => Has(k)' /\ itab'[k].line = itab[k].line
        /\ \A k \in Slots : k = i => (Has(k) => Has(k)' /\ itab'[k].line = itab[k].line)
        /\ \A k \in Slots : k # i => ("CHANGE" \in itab[k].xflag => "CHANGE" \in itab'[k].xflag)
  <2>1. TypeOK'
    BY <1>1, <1>2, <1>3, <1>7, TypeParts DEF TypeOK
  <2>2. Flagged'
    BY <1>2, <1>7 DEF Flagged
  <2>3. Owns'
    BY <1>1, <1>5, <1>7 DEF Owns, Bonds
  <2>4. Serves'
    <3>1. ASSUME NEW k \in Slots PROVE Served(k)' \/ Marked(k)'
      <4>1. Served(k) \/ Marked(k)
        BY <1>1, <1>5 DEF Bonds, Serves
      <4>2. CASE k = i
        BY <1>7, <4>1, <4>2
      <4>3. CASE k # i /\ Served(k)
        BY <1>7, <4>3
      <4>4. CASE k # i /\ Marked(k)
        <5>1. "CHANGE" \in itab[k].xflag /\ k >= i /\ k \in Nat
          BY <1>1, <4>4 DEF Marked
        <5>2. pc' = "slot" /\ i' = i + 1 /\ k >= i + 1 /\ "CHANGE" \in itab'[k].xflag
          BY <1>1, <1>2, <1>7, <4>4, <5>1
        <5> QED
          BY <5>2 DEF Marked
      <4> QED
        BY <4>1, <4>2, <4>3, <4>4
    <3> QED
      BY <3>1 DEF Serves
  <2>5. Logged'
    <3>1. ASSUME NEW l \in utmp' PROVE l \in missed' \cup late' \/ \E k \in Slots : itab'[k].line = l /\ Has(k)'
      <4>1. CASE l \in missed \cup late
        BY <1>1, <4>1
      <4>2. CASE l \notin missed \cup late
        <5>1. PICK k \in Slots : itab[k].line = l /\ Has(k)
          BY <1>1, <1>5, <4>2 DEF Bonds, Logged
        <5> QED
          BY <1>7, <5>1
      <4> QED
        BY <4>1, <4>2
    <3> QED
      BY <3>1 DEF Logged
  <2> QED
    BY <1>6, <1>7, <2>1, <2>2, <2>3, <2>4, <2>5 DEF Bonds
<1>8. CASE "CHANGE" \in itab[i].xflag
  <2>1. OnlyPid(i) /\ (ForkFails(i) \/ \E q \in Pids : Forks(i, q))
    BY <1>1, <1>8, DforkIs DEF RdFork
  <2>2. itab[i].pid = 0 /\ itab[i].line # NoTty /\ 0 \notin Pids /\ ~Has(i)
    BY <1>1, <1>5, <1>8, NoPids DEF Has
  <2>3. PICK k \in Slots : k = i
    BY <1>1
  <2>4. /\ child' \in [Pids -> Proc] /\ Own(k)' /\ Served(k)'
        /\ \A j \in Slots \ {k} : (Known(j) => Known(j)') =>
              (Own(j) => Own(j)') /\ (Served(j) => Served(j)') /\ (Has(j) => Has(j)')
        /\ Frees' /\ Distinct(itab)' /\ Empty' /\ Owner'
    BY <2>1, <2>2, <2>3, ForkSlots DEF Bonds
  <2>5. \A j \in Slots : itab'[j].line = itab[j].line /\ itab'[j].xflag = itab[j].xflag
    BY <2>1 DEF OnlyPid
  <2>6. itab' \in Tables
    BY <2>1 DEF OnlyPid
  <2>7. \A j \in Slots : Known(j) => Known(j)'
    BY <1>4, <2>5
  <2>8. \A j \in Slots : Own(j) => Own(j)'
    BY <2>4, <2>7
  <2>9. \A j \in Slots \ {i} : (Served(j) => Served(j)') /\ (Has(j) => Has(j)')
    BY <2>3, <2>4, <2>7
  <2> QED
    BY <1>5, <2>2, <2>3, <2>4, <2>5, <2>6, <2>8, <2>9
<1>9. CASE "CHANGE" \notin itab[i].xflag
  <2> DEFINE l == IF "FOUND" \in itab[i].xflag THEN itab[i].line ELSE NoTty
  <2>1. itab' = WithLine(itab, i, l) /\ child' = child
    BY <1>9 DEF RdFork, WithLine
  <2>2. PICK u : u = itab'
    OBVIOUS
  <2>3. l \in TtyLines \cup {NoTty} /\ itab \in Tables
    BY <1>1, Types
  <2>4. /\ itab' \in Tables
        /\ \A j \in Slots : itab'[j].pid = itab[j].pid /\ itab'[j].comn = itab[j].comn /\ itab'[j].xflag = itab[j].xflag
        /\ itab'[i].line = l /\ \A j \in Slots \ {i} : itab'[j].line = itab[j].line
    <3> HIDE DEF l
    <3>1. /\ u \in Tables
          /\ \A j \in Slots : u[j].pid = itab[j].pid /\ u[j].comn = itab[j].comn /\ u[j].xflag = itab[j].xflag
          /\ u[i].line = l /\ \A j \in Slots \ {i} : u[j].line = itab[j].line
      BY <1>1, <2>1, <2>2, <2>3, SetLine
    <3> QED
      BY <2>2, <3>1
  <2>5. itab'[i].line = itab[i].line \/ (itab'[i].line = NoTty /\ itab[i].pid = 0 /\ "FOUND" \notin itab[i].xflag)
    BY <1>5, <2>4
  <2>6. 0 \notin Pids
    BY NoPids
  <2> HIDE DEF l
  <2>7. Distinct(itab)' /\ Empty' /\ Frees'
    BY <2>1, <2>4, <2>5 DEF Distinct, Empty, Frees, FreePid
  <2>8. Owner'
    <3>1. ASSUME NEW q \in Pids, Live(q)', child'[q].line # NoTty
          PROVE  \E k \in Slots : itab'[k].line = child'[q].line /\ itab'[k].pid = q
      <4>1. PICK k \in Slots : itab[k].line = child[q].line /\ itab[k].pid = q
        BY <2>1, <3>1 DEF Bonds, Owner, Live
      <4>2. itab'[k].line = itab[k].line
        BY <2>4, <2>5, <2>6, <4>1
      <4> QED
        BY <2>1, <2>4, <4>1, <4>2
    <3> QED
      BY <3>1 DEF Owner
  <2>9. ASSUME NEW k \in Slots, itab'[k].line = itab[k].line
        PROVE  (Own(k) => Own(k)') /\ (Served(k) => Served(k)') /\ (Has(k) => Has(k)')
    BY <1>4, <2>1, <2>4, <2>9, Kept DEF FreePid
  <2>10. ASSUME NEW k \in Slots, itab'[k].line # itab[k].line
         PROVE  k = i /\ Own(k)' /\ Served(k)' /\ ~Has(k)
    <3>1. k = i /\ itab[k].pid = 0 /\ itab'[k].pid = 0 /\ itab'[k].line = NoTty
      BY <2>4, <2>5, <2>10
    <3>2. Own(k)' /\ Served(k)'
      BY <3>1 DEF Own, Served
    <3> QED
      BY <2>6, <3>1, <3>2 DEF Has
  <2>11. ASSUME NEW k \in Slots, k = i, Served(i) \/ Marked(i) PROVE Served(k)'
    <3>1. CASE itab'[k].line # itab[k].line
      BY <2>10, <3>1
    <3>2. CASE itab'[k].line = itab[k].line
      <4>1. CASE Marked(i)
        <5>1. "FOUND" \notin itab[i].xflag
          BY <1>9, <4>1 DEF Marked
        <5>2. itab'[k].line = NoTty
          BY <2>4, <2>11, <5>1 DEF l
        <5> QED
          BY <5>2 DEF Served
      <4>2. CASE Served(i)
        BY <2>9, <2>11, <3>2, <4>2
      <4> QED
        BY <2>11, <4>1, <4>2
    <3> QED
      BY <3>1, <3>2
  <2>12. \A k \in Slots : Own(k) => Own(k)'
    BY <2>9, <2>10
  <2>13. \A k \in Slots \ {i} : (Served(k) => Served(k)') /\ (Has(k) => Has(k)' /\ itab'[k].line = itab[k].line)
    BY <2>4, <2>9
  <2>14. \A k \in Slots : k = i => (Has(k) => Has(k)' /\ itab'[k].line = itab[k].line)
    BY <2>9, <2>10
  <2>15. \A k \in Slots : "CHANGE" \in itab'[k].xflag =>
              "CHANGE" \in itab[k].xflag /\ "FOUND" \in itab'[k].xflag /\ itab'[k].line # NoTty
    BY <1>5, <1>9, <2>4
  <2>16. child' \in [Pids -> Proc]
    BY <2>1 DEF TypeOK
  <2> QED
    BY <2>4, <2>7, <2>8, <2>11, <2>12, <2>13, <2>14, <2>15, <2>16
<1> QED
  BY <1>8, <1>9

LEMMA LoopInv == ASSUME Inv, Loop PROVE Inv'
<1> USE DEF Inv, Shape
<1>1. /\ pc = "loop" /\ pc' = "top" /\ armed' = Sigs /\ mergflag' = FALSE
      /\ UNCHANGED <<i, got, multi, quitflag, gosingle, sys, hist>>
  BY DEF Loop
<1>2. ASSUME NEW k \in Slots
      PROVE  itab'[k] \in Row /\ itab'[k].line = itab[k].line /\ itab'[k].comn = itab[k].comn /\ itab'[k].pid = itab[k].pid
  <2>1. itab[k] \in Row
    BY Types DEF Tables
  <2>2. PICK r : r = [itab[k] EXCEPT !.xflag = {}]
    OBVIOUS
  <2>3. r \in Row /\ r.line = itab[k].line /\ r.comn = itab[k].comn /\ r.pid = itab[k].pid
    BY <2>1, <2>2 DEF Row
  <2>4. itab'[k] = r
    BY <2>2 DEF Loop
  <2> QED
    BY <2>3, <2>4
<1>3. itab' \in Tables
  <2>1. itab' = [k \in Slots |-> itab'[k]]
    BY DEF Loop
  <2> QED
    BY <1>2, <2>1 DEF Tables
<1>4. TypeOK'
  BY <1>1, <1>3, Types, TypeParts DEF TypeOK, sys, hist
<1>5. Distinct(itab)' /\ Empty' /\ Flagged'
  BY <1>1, <1>2 DEF Distinct, Empty, Flagged
<1>6. Frees' /\ Down' /\ Modes'
  BY <1>1 DEF Frees, FreePid, Down, Modes, sys
<1>7. Owner' /\ GotFree'
  BY <1>1, <1>2 DEF Bonds, Owner, Live, GotFree, sys
<1>8. ASSUME NEW k \in Slots
      PROVE  (Own(k) => Own(k)') /\ (Served(k) => Served(k)') /\ (Has(k) => Has(k)') /\ ~InHand(k) /\ ~Marked(k)
  <2>1. Known(k) => Known(k)'
    BY <1>1, <1>2 DEF Known, hist
  <2>2. (Own(k) => Own(k)') /\ (Served(k) => Served(k)') /\ (Has(k) => Has(k)')
    BY <1>1, <1>2, <2>1, Kept DEF FreePid, sys
  <2> QED
    BY <1>1, <2>2 DEF InHand, Marked
<1>9. Owns' /\ Serves'
  BY <1>1, <1>8 DEF Bonds, Owns, Serves
<1>10. Logged'
  BY <1>1, <1>2, <1>8 DEF Bonds, Logged, sys, hist
<1> QED
  BY <1>4, <1>5, <1>6, <1>7, <1>9, <1>10 DEF Bonds

\* wait answers with a process that has ended.
LEMMA ReapInv ==
  ASSUME Inv, NEW q \in Pids, Reap(q), pc \in {"top", "blocked"},
         UNCHANGED <<i, itab, multi, flags, ttys, utmp, hist>>
  PROVE  Inv'
<1> USE DEF Inv, Shape
<1>1. PICK c : c = NoProc
  OBVIOUS
<1>2. c \in Proc /\ c.line = NoTty /\ c.st = "free"
  BY <1>1 DEF NoProc, Proc
<1>3. /\ child' \in [Pids -> Proc] /\ child'[q] = c /\ \A p \in Pids \ {q} : child'[p] = child[p]
      /\ got' = q /\ pc' = "got" /\ ~Live(q)
  <2>1. child' = [child EXCEPT ![q] = c] /\ child \in [Pids -> Proc]
    BY <1>1 DEF Reap, TypeOK
  <2>2. got' = q /\ pc' = "got" /\ ~Live(q)
    BY DEF Reap, Zombie, Live
  <2> QED
    BY <1>2, <2>1, <2>2
<1>4. TypeOK'
  BY <1>3, Types, TypeParts DEF TypeOK, flags, hist
<1>5. Distinct(itab)' /\ Empty' /\ Flagged' /\ Down' /\ Modes'
  BY <1>3 DEF Distinct, Empty, Flagged, Down, Modes, flags
<1>6. Frees'
  BY <1>1, <1>3 DEF Frees, FreePid
<1>7. GotFree' /\ Owner'
  BY <1>2, <1>3 DEF GotFree, Bonds, Owner, Live
<1>8. ASSUME NEW k \in Slots
      PROVE  /\ (Own(k) => Own(k)' \/ InHand(k)') /\ (Served(k) => Served(k)' \/ InHand(k)')
             /\ (Has(k) => Has(k)' \/ InHand(k)') /\ ~InHand(k) /\ ~Marked(k)
  <2>1. CASE itab[k].pid = q
    BY <1>3, <2>1 DEF InHand, Marked
  <2>2. CASE itab[k].pid # q
    <3>1. Known(k) => Known(k)'
      BY DEF Known, hist, flags
    <3>2. itab[k].pid \in Pids => child'[itab[k].pid] = child[itab[k].pid]
      BY <1>3, <2>2
    <3>3. (Own(k) => Own(k)') /\ (Served(k) => Served(k)') /\ (Has(k) => Has(k)')
      BY <3>1, <3>2, Kept DEF FreePid
    <3> QED
      BY <3>3 DEF InHand, Marked
  <2> QED
    BY <2>1, <2>2
<1>9. Owns' /\ Serves'
  BY <1>8 DEF Bonds, Owns, Serves
<1>10. Logged'
  BY <1>8 DEF Bonds, Logged, hist
<1> QED
  BY <1>4, <1>5, <1>6, <1>7, <1>9, <1>10 DEF Bonds

\* A step that leaves the table, the processes, utmp and what is known.
LEMMA StillInv ==
  ASSUME Inv, TypeOK', UNCHANGED <<itab, multi, quitflag, sys, missed, late, armed>>,
         Flagged', Modes', Down', GotFree',
         \A k \in Slots : InHand(k) => InHand(k)',
         \A k \in Slots : Marked(k) => Marked(k)',
         pc # "stop"
  PROVE  Inv'
<1> USE DEF Inv, Shape
<1>1. Distinct(itab)' /\ Empty' /\ Frees' /\ Owner'
  BY DEF Distinct, Empty, Frees, FreePid, Bonds, Owner, Live, sys
<1>2. ASSUME NEW k \in Slots
      PROVE  (Own(k) => Own(k)') /\ (Served(k) => Served(k)') /\ (Has(k) => Has(k)')
  <2>1. Known(k) => Known(k)'
    BY DEF Known
  <2> QED
    BY <2>1, Kept DEF FreePid, sys
<1>3. Owns' /\ Serves'
  BY <1>2 DEF Bonds, Owns, Serves
<1>4. Logged'
  BY <1>2 DEF Bonds, Logged, sys
<1> QED
  BY <1>1, <1>3, <1>4 DEF Bonds

LEMMA CallWaitInv == ASSUME Inv, CallWait PROVE Inv'
<1> USE DEF Inv, Shape
<1>1. /\ pc = "top" /\ multi
      /\ UNCHANGED <<i, itab, multi, flags, ttys, utmp, hist>>
  BY DEF CallWait, Modes
<1>2. CASE \E q \in Pids : Reap(q)
  BY <1>1, <1>2, ReapInv
<1>3. CASE got' = NoChild /\ pc' = "got" /\ child' = child
  <2>1. TypeOK'
    BY <1>1, <1>3, Types, TypeParts DEF TypeOK, flags, hist
  <2>2. Flagged' /\ Modes' /\ Down'
    BY <1>1, <1>3 DEF Flagged, Modes, Down
  <2>3. GotFree'
    BY <1>3, NoPids DEF GotFree
  <2>4. \A k \in Slots : ~InHand(k) /\ ~Marked(k)
    BY <1>1 DEF InHand, Marked
  <2> QED
    BY <1>1, <1>3, <2>1, <2>2, <2>3, <2>4, StillInv DEF flags, sys, hist
<1>4. CASE got' = got /\ pc' = "blocked" /\ child' = child
  <2>1. TypeOK'
    BY <1>1, <1>4, Types, TypeParts DEF TypeOK, flags, hist
  <2>2. Flagged' /\ Modes' /\ Down' /\ GotFree'
    BY <1>1, <1>4 DEF Flagged, Modes, Down, GotFree
  <2>4. \A k \in Slots : ~InHand(k) /\ ~Marked(k)
    BY <1>1 DEF InHand, Marked
  <2> QED
    BY <1>1, <1>4, <2>1, <2>2, <2>4, StillInv DEF flags, sys, hist
<1> QED
  BY <1>2, <1>3, <1>4 DEF CallWait

LEMMA WaitReturnsInv == ASSUME Inv, WaitReturns PROVE Inv'
  BY ReapInv DEF WaitReturns

\* What is done after wait: the process found is looked for, or given up for
\* another reading of the file.
LEMMA AfterWaitInv == ASSUME Inv, AfterWait PROVE Inv'
<1> USE DEF Inv, Shape
<1>1. /\ pc = "got" /\ i' = 1 /\ 1 \in Slots /\ multi
      /\ UNCHANGED <<itab, multi, flags, sys, signals, events, late, edits>>
  BY InitProcAssumption DEF AfterWait, Slots, Modes
<1>2. ASSUME NEW k \in Slots PROVE k >= 1 /\ ~Marked(k)
  BY <1>1 DEF Slots, Marked
<1>3. CASE mergflag
  <2>1. /\ pc' = "read" /\ got' = NoChild
        /\ missed' = missed \cup {itab[k].line : k \in {j \in Slots : itab[j].pid = got}}
    BY <1>3 DEF AfterWait
  <2>2. missed' \subseteq TtyLines \cup {NoTty}
    BY <2>1, Types DEF TypeOK
  <2>3. TypeOK'
    BY <1>1, <2>1, <2>2, Types, TypeParts DEF TypeOK, flags, sys
  <2>4. Distinct(itab)' /\ Empty' /\ Flagged' /\ Frees' /\ Down' /\ Modes'
    BY <1>1, <2>1 DEF Distinct, Empty, Flagged, Frees, FreePid, Down, Modes, sys, flags
  <2>5. Owner' /\ GotFree'
    BY <1>1, <2>1 DEF Bonds, Owner, Live, GotFree, sys
  <2>6. ASSUME NEW k \in Slots
        PROVE  /\ (Own(k) => Own(k)') /\ (Served(k) => Served(k)') /\ (Has(k) => Has(k)')
               /\ InHand(k) => itab'[k].line \in missed'
    <3>1. Known(k) => Known(k)'
      BY <1>1, <2>1 DEF Known, flags
    <3>2. InHand(k) => itab'[k].line \in missed'
      BY <1>1, <2>1 DEF InHand
    <3>3. (Own(k) => Own(k)') /\ (Served(k) => Served(k)') /\ (Has(k) => Has(k)')
      BY <1>1, <3>1, Kept DEF FreePid, sys
    <3> QED
      BY <3>2, <3>3
  <2>7. \A k \in Slots : InHand(k) => Own(k)' /\ Served(k)'
    BY <2>6 DEF Own, Served, Known
  <2>8. Owns' /\ Serves'
    BY <1>1, <1>2, <2>6, <2>7 DEF Bonds, Owns, Serves
  <2>9. Logged'
    BY <1>1, <2>1, <2>6 DEF Bonds, Logged, sys
  <2> QED
    BY <2>3, <2>4, <2>5, <2>8, <2>9 DEF Bonds
<1>4. CASE ~mergflag
  <2>1. /\ UNCHANGED missed
        /\ \/ pc' = "stop"
           \/ pc' = "loop" /\ got = Eintr
           \/ pc' = "scan" /\ got # Eintr /\ got # NoChild
        /\ got' = IF pc' = "scan" THEN got ELSE NoChild
    BY <1>4 DEF AfterWait
  <2>2. TypeOK'
    BY <1>1, <2>1, Types, TypeParts DEF TypeOK, flags, sys
  <2>3. pc' = "scan" => got' = got /\ got \in Pids
    BY <2>1 DEF TypeOK
  <2>4. Flagged' /\ Modes' /\ Down'
    BY <1>1, <2>1, <2>3 DEF Flagged, Modes, Down
  <2>5. GotFree'
    BY <1>1, <2>1, <2>3 DEF Bonds, GotFree, sys
  <2>6. CASE pc' = "stop"
    <3>1. Distinct(itab)' /\ Empty' /\ Frees' /\ Owner'
      BY <1>1 DEF Distinct, Empty, Frees, FreePid, Bonds, Owner, Live, sys
    <3>2. Owns' /\ Serves' /\ Logged'
      BY <2>6 DEF Owns, Serves, Logged
    <3> QED
      BY <2>2, <2>4, <2>5, <3>1, <3>2 DEF Bonds
  <2>7. CASE pc' = "loop"
    <3>1. ASSUME NEW k \in Slots PROVE ~InHand(k)
      BY <1>1, <2>1, <2>7, Types, NoPids DEF InHand, Eintr
    <3> QED
      BY <1>1, <1>2, <2>1, <2>2, <2>4, <2>5, <3>1, StillInv DEF flags, sys
  <2>8. CASE pc' = "scan"
    <3>1. ASSUME NEW k \in Slots PROVE InHand(k) => InHand(k)'
      BY <1>1, <1>2, <2>3, <2>8 DEF InHand
    <3> QED
      BY <1>1, <1>2, <2>1, <2>2, <2>4, <2>5, <3>1, StillInv DEF flags, sys
  <2> QED
    BY <2>1, <2>6, <2>7, <2>8
<1> QED
  BY <1>3, <1>4

\* One slot of the loop that looks for the process that ended.
LEMMA ScanInv == ASSUME Inv, Scan PROVE Inv'
<1> USE DEF Inv, Shape
<1>1. /\ pc = "scan" /\ multi /\ got \in Pids /\ i \in Slots /\ i \in Nat /\ Slots \subseteq Nat
      /\ UNCHANGED <<multi, flags, ttys, signals, edits>>
  BY Types DEF Scan, Modes
<1>2. /\ i' \in Slots
      /\ \/ pc' = "scan" /\ i' = i + 1
         \/ pc' = "top" /\ i' = 1 /\ \A k \in Slots : k <= i
  BY NextSlotIs DEF Scan
<1>3. got' = IF pc' = "scan" THEN got ELSE NoChild
  BY DEF Scan
<1>4. UNCHANGED <<mergflag, quitflag, gosingle, armed, ttys>>
  BY <1>1 DEF flags
<1>5. \A k \in Slots : ~Marked(k)
  BY <1>1 DEF Marked
<1>6. ASSUME NEW k \in Slots, k # i, InHand(k), itab'[k].pid = itab[k].pid PROVE InHand(k)'
  <2>1. k >= i /\ k \in Nat /\ itab[k].pid = got
    BY <1>1, <1>6 DEF InHand
  <2>2. k >= i + 1 /\ ~(k <= i)
    BY <1>1, <1>6, <2>1
  <2>3. pc' = "scan" /\ i' = i + 1 /\ got' = got
    BY <1>2, <1>3, <2>2
  <2> QED
    BY <1>6, <2>1, <2>2, <2>3 DEF InHand
<1>7. Flagged' /\ Modes' /\ Down'
  BY <1>1, <1>2, <1>3, <1>4 DEF Flagged, Modes, Down
<1>8. got' \in Pids \cup {NoChild, Eintr}
  BY <1>1, <1>3
\* Neither this process nor one to be tried again.
<1>9. CASE itab[i].pid \notin {got, -1}
  <2>1. UNCHANGED <<utmp, itab, child, events, missed, late>>
    BY <1>9 DEF Scan
  <2>2. TypeOK'
    BY <1>1, <1>2, <1>4, <1>8, <2>1, Types, TypeParts DEF TypeOK
  <2>3. ASSUME NEW k \in Slots PROVE InHand(k) => InHand(k)'
    <3>1. InHand(k) => k # i
      BY <1>9 DEF InHand
    <3> QED
      BY <1>6, <2>1, <3>1
  <2>4. GotFree'
    <3>1. ASSUME pc' = "scan" PROVE child'[got'].line = NoTty \/ \E k \in Slots : k < i' /\ itab'[k].line = child'[got'].line
      <4>1. got' = got /\ i' = i + 1 /\ child' = child /\ itab' = itab
        BY <1>2, <1>3, <2>1, <3>1
      <4>2. child[got].line = NoTty \/ \E k \in Slots : k < i /\ itab[k].line = child[got].line
        BY <1>1 DEF Bonds, GotFree
      <4>3. \A k \in Slots : k < i => k < i + 1
        BY <1>1
      <4> QED
        BY <4>1, <4>2, <4>3
    <3> QED
      BY <1>2, <3>1 DEF GotFree
  <2> QED
    BY <1>1, <1>4, <1>5, <1>7, <2>1, <2>2, <2>3, <2>4, StillInv DEF sys
<1>10. CASE itab[i].pid \in {got, -1}
  <2>1. utmp' = utmp \ {itab[i].line} /\ missed' = missed \ {itab[i].line} /\ late' = late \ {itab[i].line}
    BY <1>10 DEF Scan
  <2>2. itab[i].line # NoTty
    <3>1. itab[i].pid # 0
      BY <1>1, <1>10, NoPids
    <3> QED
      BY <1>1, <3>1 DEF Empty
  <2>3. \A k \in Slots \ {i} : itab[k].line # itab[i].line
    BY <1>1, <2>2 DEF Distinct
  \* What is left to be said of utmp, when the other slots stay as they are.
  <2>4. ASSUME \A k \in Slots \ {i} : /\ itab'[k].line = itab[k].line /\ itab'[k].pid = itab[k].pid
                                      /\ Has(k) => Has(k)'
        PROVE  Logged'
    <3>1. ASSUME NEW l \in utmp'
          PROVE  l \in missed' \cup late' \/ \E k \in Slots : itab'[k].line = l /\ (Has(k)' \/ InHand(k)')
      <4>1. l \in utmp /\ l # itab[i].line
        BY <2>1
      <4>2. CASE l \in missed \cup late
        BY <2>1, <4>1, <4>2
      <4>3. CASE l \notin missed \cup late
        <5>1. PICK k \in Slots : itab[k].line = l /\ (Has(k) \/ InHand(k))
          BY <1>1, <4>1, <4>3 DEF Bonds, Logged
        <5>2. k # i
          BY <4>1, <5>1
        <5> QED
          BY <1>6, <2>4, <5>1, <5>2
      <4> QED
        BY <4>2, <4>3
    <3> QED
      BY <3>1 DEF Logged
  <2>5. CASE quitflag
    <3>1. itab' = itab /\ child' = child
      BY <1>10, <2>5 DEF Scan
    <3>2. TypeOK'
      BY <1>1, <1>2, <1>4, <1>8, <2>1, <3>1, Types, TypeParts DEF TypeOK
    <3>3. Distinct(itab)' /\ Empty' /\ Frees' /\ Owner'
      BY <3>1 DEF Distinct, Empty, Frees, FreePid, Bonds, Owner, Live
    <3>4. \A k \in Slots : Known(k)'
      BY <1>1, <1>4, <2>5 DEF Known
    <3>5. Owns' /\ Serves'
      BY <3>4 DEF Owns, Serves, Own, Served
    <3>6. \A k \in Slots \ {i} : Has(k) => Has(k)'
      BY <3>1 DEF Has, FreePid
    <3>7. Logged'
      BY <2>4, <3>1, <3>6
    <3>8. GotFree'
      <4>1. ASSUME pc' = "scan" PROVE child'[got'].line = NoTty \/ \E k \in Slots : k < i' /\ itab'[k].line = child'[got'].line
        <5>1. got' = got /\ i' = i + 1
          BY <1>2, <1>3, <4>1
        <5>2. child[got].line = NoTty \/ \E k \in Slots : k < i /\ itab[k].line = child[got].line
          BY <1>1 DEF Bonds, GotFree
        <5>3. \A k \in Slots : k < i => k < i + 1
          BY <1>1
        <5> QED
          BY <3>1, <5>1, <5>2, <5>3
      <4> QED
        BY <1>2, <4>1 DEF GotFree
    <3> QED
      BY <1>7, <3>2, <3>3, <3>5, <3>7, <3>8 DEF Bonds
  <2>6. CASE ~quitflag
    <3>1. OnlyPid(i) /\ (ForkFails(i) \/ \E q \in Pids : Forks(i, q))
      BY <1>1, <1>10, <2>6, DforkIs DEF Scan
    <3>2. /\ itab' \in Tables
          /\ \A j \in Slots : itab'[j].line = itab[j].line
          /\ \A j \in Slots \ {i} : itab'[j].pid = itab[j].pid
      BY <3>1 DEF OnlyPid
    \* The slot whose number was used again lies before this one.
    <3>3. ~(itab[i].pid \in Pids /\ Live(itab[i].pid) /\ child[itab[i].pid].line = itab[i].line)
      <4>1. SUFFICES ASSUME itab[i].pid \in Pids, child[itab[i].pid].line = itab[i].line PROVE FALSE
        OBVIOUS
      <4>2. itab[i].pid = got
        BY <1>10, <4>1, NoPids
      <4>3. PICK k \in Slots : k < i /\ itab[k].line = itab[i].line
        BY <1>1, <2>2, <4>1, <4>2 DEF Bonds, GotFree
      <4>4. k # i
        BY <1>1, <4>3
      <4> QED
        BY <2>3, <4>3, <4>4
    <3>4. PICK n \in Slots : n = i
      BY <1>1
    <3>5. /\ child' \in [Pids -> Proc] /\ Own(n)' /\ Served(n)'
          /\ \A j \in Slots \ {n} : (Known(j) => Known(j)') =>
                (Own(j) => Own(j)') /\ (Served(j) => Served(j)') /\ (Has(j) => Has(j)')
          /\ Frees' /\ Distinct(itab)' /\ Empty' /\ Owner'
      BY <2>2, <3>1, <3>3, <3>4, ForkSlots DEF Bonds
    <3>6. \A j \in Slots \ {i} : Known(j) => Known(j)'
      BY <1>1, <1>4, <2>1, <2>3, <3>2 DEF Known
    <3>7. \A j \in Slots \ {i} : (Own(j) => Own(j)') /\ (Served(j) => Served(j)') /\ (Has(j) => Has(j)')
      BY <3>4, <3>5, <3>6
    <3>8. TypeOK'
      BY <1>1, <1>2, <1>4, <1>8, <2>1, <3>2, <3>5, TypeParts DEF TypeOK
    <3>9. ASSUME NEW k \in Slots PROVE (Own(k)' \/ InHand(k)') /\ (Served(k)' \/ InHand(k)')
      <4>1. CASE k = n
        BY <3>5, <4>1
      <4>2. CASE k # n
        <5>1. Own(k) \/ InHand(k)
          BY <1>1 DEF Bonds, Owns
        <5>2. Served(k) \/ InHand(k)
          BY <1>1, <1>5 DEF Bonds, Serves
        <5>3. InHand(k) => InHand(k)'
          BY <1>6, <3>2, <3>4, <4>2
        <5> QED
          BY <3>4, <3>7, <4>2, <5>1, <5>2, <5>3
      <4> QED
        BY <4>1, <4>2
    <3>10. Owns' /\ Serves'
      BY <3>9 DEF Owns, Serves
    <3>11. Logged'
      BY <2>4, <3>2, <3>7
    <3>12. GotFree'
      <4>1. ASSUME pc' = "scan" PROVE child'[got'].line = NoTty \/ \E k \in Slots : k < i' /\ itab'[k].line = child'[got'].line
        <5>1. got' = got /\ i' = i + 1
          BY <1>2, <1>3, <4>1
        <5>2. child[got].line = NoTty \/ \E k \in Slots : k < i /\ itab[k].line = child[got].line
          BY <1>1 DEF Bonds, GotFree
        <5>3. (\A k \in Slots : k < i => k < i + 1) /\ i < i + 1
          BY <1>1
        <5>4. child'[got].line = child[got].line \/ child'[got].line = itab[i].line
          BY <1>1, <3>1 DEF ForkFails, Forks
        <5> QED
          BY <1>1, <3>2, <5>1, <5>2, <5>3, <5>4
      <4> QED
        BY <1>2, <4>1 DEF GotFree
    <3> QED
      BY <1>7, <3>5, <3>8, <3>10, <3>11, <3>12 DEF Bonds
  <2> QED
    BY <2>5, <2>6
<1> QED
  BY <1>9, <1>10

LEMMA StopSysInv == ASSUME Inv, StopSys PROVE Inv'
<1> USE DEF Inv, Shape
<1>1. /\ pc = "stop" /\ armed' = {} /\ utmp' = {} /\ multi' = FALSE /\ pc' = "single"
      /\ UNCHANGED <<i, got, mergflag, quitflag, gosingle, ttys, hist>>
  BY DEF StopSys
<1>2. ASSUME NEW k \in Slots PROVE itab'[k] \in Row /\ itab'[k].line = NoTty /\ itab'[k].pid = 0
  <2>1. itab[k] \in Row
    BY Types DEF Tables
  <2>2. PICK r : r = [itab[k] EXCEPT !.pid = 0, !.line = NoTty]
    OBVIOUS
  <2>3. r \in Row /\ r.line = NoTty /\ r.pid = 0
    BY <2>1, <2>2 DEF Row
  <2>4. itab'[k] = r
    BY <2>2 DEF StopSys
  <2> QED
    BY <2>3, <2>4
<1>3. itab' \in Tables
  <2>1. itab' = [k \in Slots |-> itab'[k]]
    BY DEF StopSys
  <2> QED
    BY <1>2, <2>1 DEF Tables
<1>4. /\ child' \in [Pids -> Proc]
      /\ \A q \in Pids : ~Live(q)' /\ (~Live(q) => child'[q] = child[q])
                         /\ (Live(q) => child'[q].st = "zombie")
  <2>1. PICK c : c = child' /\ c = Killed(-1)
    BY DEF StopSys
  <2>2. /\ c \in [Pids -> Proc]
        /\ \A q \in Pids : /\ c[q].st = IF Live(q) /\ -1 \in {q, -1} THEN "zombie" ELSE child[q].st
                           /\ ~Live(q) => c[q] = child[q]
    BY <2>1, KilledIs
  <2> QED
    BY <2>1, <2>2 DEF Live
<1>5. TypeOK'
  BY <1>1, <1>3, <1>4, Types, TypeParts DEF TypeOK, hist
<1>6. Bonds' /\ Distinct(itab)' /\ Empty'
  BY <1>1, <1>2, <1>4, Quiet
<1>7. Frees'
  BY <1>4 DEF Frees, FreePid, Live
<1>8. Flagged' /\ Modes' /\ Down'
  BY <1>1, <1>2, <1>4 DEF Flagged, Modes, Down
<1> QED
  BY <1>5, <1>6, <1>7, <1>8

-----------------------------------------------------------------------------
(* Signals and the other actors *)

LEMMA SignalInv == ASSUME Inv, NEW s \in Sigs, Signal(s) PROVE Inv'
<1> USE DEF Inv, Shape
<1>1. /\ s \in armed /\ armed' = armed \ {s} /\ multi
      /\ mergflag' = (mergflag \/ s = "INT") /\ quitflag' = (quitflag \/ s = "QUIT")
      /\ gosingle' = (gosingle \/ s = "HUP")
      /\ UNCHANGED <<i, itab, multi, sys, missed, late>>
      /\ pc \notin {"single", "rc", "halted"}
  BY DEF Signal, Modes, Down
<1>2. \/ pc = "blocked" /\ pc' = "got" /\ got' = Eintr
      \/ pc # "blocked" /\ pc' = pc /\ got' = got
  BY DEF Signal
<1>3. TypeOK'
  <2>1. {mergflag', quitflag', gosingle', multi'} \subseteq BOOLEAN
    BY <1>1 DEF TypeOK
  <2>2. pc' \in {"single", "rc", "read", "slot", "kill", "fork", "loop", "top", "blocked",
                  "got", "scan", "stop", "halted"} /\ got' \in Pids \cup {NoChild, Eintr}
    BY <1>2 DEF TypeOK
  <2> QED
    BY <1>1, <2>1, <2>2, Types, TypeParts DEF TypeOK, sys
<1>4. Flagged' /\ Modes' /\ Down'
  BY <1>1, <1>2 DEF Flagged, Modes, Down
<1>5. Distinct(itab)' /\ Empty' /\ Frees' /\ Owner'
  BY <1>1 DEF Distinct, Empty, Frees, FreePid, Bonds, Owner, Live, sys
<1>6. GotFree'
  BY <1>1, <1>2, NoPids DEF Bonds, GotFree, sys
<1>7. ASSUME NEW k \in Slots
      PROVE  /\ (Own(k) => Own(k)') /\ (Served(k) => Served(k)') /\ (Has(k) => Has(k)')
             /\ (InHand(k) => InHand(k)') /\ (Marked(k) => Marked(k)')
  <2>1. Known(k) => Known(k)'
    BY <1>1 DEF Known
  <2>2. (InHand(k) => InHand(k)') /\ (Marked(k) => Marked(k)')
    BY <1>1, <1>2 DEF InHand, Marked
  <2> QED
    BY <1>1, <2>1, <2>2, Kept DEF FreePid, sys
<1>8. pc' # "stop" => pc # "stop"
  BY <1>2
<1>9. Owns' /\ Serves'
  BY <1>7, <1>8 DEF Bonds, Owns, Serves
<1>10. Logged'
  BY <1>1, <1>7, <1>8 DEF Bonds, Logged, sys
<1> QED
  BY <1>3, <1>4, <1>5, <1>6, <1>9, <1>10 DEF Bonds

LEMMA HaltSysInv == ASSUME Inv, HaltSys PROVE Inv'
<1> USE DEF Inv, Shape
<1>1. /\ pc' = "halted" /\ i' = 1 /\ got' = NoChild
      /\ mergflag' = FALSE /\ quitflag' = FALSE /\ gosingle' = FALSE
      /\ multi' = FALSE /\ armed' = {} /\ utmp' = {} /\ missed' = {} /\ late' = {} /\ ttys' = ttys
  BY DEF HaltSys
<1>2. PICK r : r = NoSlot
  OBVIOUS
<1>3. r.line = NoTty /\ r.pid = 0 /\ r \in Row
  BY <1>2 DEF NoSlot, Row
<1>4. itab' = [k \in Slots |-> r]
  BY <1>2 DEF HaltSys
<1>5. itab' \in Tables /\ \A k \in Slots : itab'[k].line = NoTty /\ itab'[k].pid = 0
  BY <1>3, <1>4 DEF Tables
<1>6. PICK c : c = NoProc
  OBVIOUS
<1>7. c \in Proc /\ c.st = "free"
  BY <1>6 DEF NoProc, Proc
<1>8. child' = [q \in Pids |-> c]
  BY <1>6 DEF HaltSys
<1>9. child' \in [Pids -> Proc] /\ \A q \in Pids : child'[q] = NoProc /\ ~Live(q)'
  BY <1>6, <1>7, <1>8 DEF Live
<1>10. 1 \in Slots
  BY InitProcAssumption DEF Slots
<1>11. TypeOK'
  BY <1>1, <1>5, <1>9, <1>10, TypeParts DEF TypeOK
<1>12. Bonds' /\ Distinct(itab)' /\ Empty'
  BY <1>1, <1>5, <1>9, Quiet
<1>13. Frees'
  BY <1>9 DEF Frees
<1>14. Flagged' /\ Modes' /\ Down'
  BY <1>1, <1>5, <1>9 DEF Flagged, Modes, Down
<1> QED
  BY <1>11, <1>12, <1>13, <1>14

\* Who logs in does so on the terminal of a living process.
LEMMA LoginInv == ASSUME Inv, NEW q \in Pids, Login(q) PROVE Inv'
<1> USE DEF Inv, Shape
<1>1. /\ Live(q) /\ child[q].line \in TtyLines /\ child[q].line # NoTty /\ utmp' = utmp \cup {child[q].line}
      /\ UNCHANGED <<pc, i, itab, got, multi, flags, ttys, child, hist>>
  BY Types DEF Login
<1>2. TypeOK'
  BY <1>1, Types, TypeParts DEF TypeOK, flags, hist
<1>3. Distinct(itab)' /\ Empty' /\ Flagged' /\ Frees' /\ Down' /\ Modes'
  BY <1>1 DEF Distinct, Empty, Flagged, Frees, FreePid, Down, Modes, flags
<1>4. Owner' /\ GotFree'
  BY <1>1 DEF Bonds, Owner, Live, GotFree
<1>5. ASSUME NEW k \in Slots
      PROVE  (Own(k)' <=> Own(k)) /\ (Served(k)' <=> Served(k)) /\ (Has(k)' <=> Has(k))
             /\ (InHand(k)' <=> InHand(k)) /\ (Marked(k)' <=> Marked(k))
  BY <1>1 DEF Own, Served, Has, InHand, Marked, Known, FreePid, flags, hist
<1>6. Owns' /\ Serves'
  BY <1>1, <1>5 DEF Bonds, Owns, Serves
<1>7. Logged'
  <2>1. PICK k \in Slots : itab[k].line = child[q].line /\ itab[k].pid = q
    BY <1>1 DEF Bonds, Owner
  <2>2. Has(k)
    BY <1>1, <2>1 DEF Has, FreePid, Live
  <2> QED
    BY <1>1, <1>5, <2>1, <2>2 DEF Bonds, Logged, hist
<1> QED
  BY <1>2, <1>3, <1>4, <1>6, <1>7 DEF Bonds

\* A step that leaves all but the processes, and reaps none.
LEMMA ProcsInv ==
  ASSUME Inv, TypeOK', UNCHANGED <<pc, i, itab, got, multi, flags, ttys, utmp, missed, late>>,
         \A q \in Pids : ~FreePid(q) =>
            child'[q].st # "free" /\ child'[q].line = child[q].line /\ child'[q].comn = child[q].comn,
         \A q \in Pids : FreePid(q) => child'[q].line = NoTty,
         \A q \in Pids : Live(q)' => Live(q) \/ (child'[q].line = NoTty /\ pc \notin {"single", "rc", "halted"}),
         Frees'
  PROVE  Inv'
<1> USE DEF Inv, Shape
<1>1. Distinct(itab)' /\ Empty' /\ Flagged' /\ Down' /\ Modes'
  BY DEF Distinct, Empty, Flagged, Down, Modes, flags
<1>2. ASSUME NEW q \in Pids PROVE child[q].line = child'[q].line
  <2>1. PICK c : c = NoProc
    OBVIOUS
  <2>2. c.line = NoTty
    BY <2>1 DEF NoProc
  <2>3. CASE FreePid(q)
    BY <2>1, <2>2, <2>3 DEF Frees
  <2>4. CASE ~FreePid(q)
    BY <2>4
  <2> QED
    BY <2>3, <2>4
<1>3. Owner'
  BY <1>2 DEF Bonds, Owner
<1>4. GotFree'
  BY <1>2 DEF Bonds, GotFree, Modes
<1>5. ASSUME NEW k \in Slots
      PROVE  /\ (Own(k) => Own(k)') /\ (Served(k) => Served(k)') /\ (Has(k) => Has(k)')
             /\ (InHand(k) => InHand(k)') /\ (Marked(k) => Marked(k)')
  <2>1. (Known(k) => Known(k)') /\ (InHand(k) => InHand(k)') /\ (Marked(k) => Marked(k)')
    BY DEF Known, InHand, Marked, flags
  <2> QED
    BY <2>1, Kept
<1>6. Owns' /\ Serves'
  BY <1>5 DEF Bonds, Owns, Serves
<1>7. Logged'
  BY <1>5 DEF Bonds, Logged
<1> QED
  BY <1>1, <1>3, <1>4, <1>6, <1>7 DEF Bonds

LEMMA ExitInv == ASSUME Inv, NEW q \in Pids, Exit(q) PROVE Inv'
<1> USE DEF Inv, Shape
<1>1. child[q] \in Proc /\ child \in [Pids -> Proc] /\ child[q].st = "live"
  BY DEF TypeOK, Exit, Live
<1>2. PICK c : c = [child[q] EXCEPT !.st = "zombie"]
  OBVIOUS
<1>3. c \in Proc /\ c.line = child[q].line /\ c.comn = child[q].comn /\ c.st = "zombie"
  BY <1>1, <1>2 DEF Proc
<1>4. child' = [child EXCEPT ![q] = c]
  BY <1>2 DEF Exit
<1>5. child' \in [Pids -> Proc] /\ child'[q] = c /\ \A p \in Pids \ {q} : child'[p] = child[p]
  BY <1>1, <1>3, <1>4
<1>6. UNCHANGED <<pc, i, itab, got, multi, flags, ttys, utmp, hist>>
  BY DEF Exit
<1>7. TypeOK'
  BY <1>5, <1>6, Types, TypeParts DEF TypeOK, flags, hist
<1>8. Frees'
  BY <1>3, <1>5 DEF Frees, FreePid
<1>9. ASSUME NEW p \in Pids
      PROVE  /\ ~FreePid(p) => child'[p].st # "free" /\ child'[p].line = child[p].line /\ child'[p].comn = child[p].comn
             /\ Live(p)' => Live(p)
             /\ FreePid(p) => child'[p] = child[p]
  BY <1>1, <1>3, <1>5 DEF FreePid, Live
<1>10. ASSUME NEW p \in Pids, FreePid(p) PROVE child'[p].line = NoTty
  <2>1. PICK d : d = NoProc
    OBVIOUS
  <2>2. d.line = NoTty
    BY <2>1 DEF NoProc
  <2> QED
    BY <1>9, <1>10, <2>1, <2>2 DEF Frees
<1>11. UNCHANGED <<pc, i, itab, got, multi, flags, ttys, utmp, missed, late>>
  BY <1>6 DEF hist
<1>12. \A p \in Pids : Live(p)' => Live(p) \/ (child'[p].line = NoTty /\ pc \notin {"single", "rc", "halted"})
  BY <1>9
<1> QED
  BY <1>7, <1>8, <1>9, <1>10, <1>11, <1>12, ProcsInv

LEMMA OrphanInv == ASSUME Inv, NEW q \in Pids, Orphan(q) PROVE Inv'
<1> USE DEF Inv, Shape
<1>1. child \in [Pids -> Proc] /\ FreePid(q) /\ pc \notin {"single", "rc", "halted"}
  BY DEF TypeOK, Orphan
<1>2. PICK d : d = NoProc
  OBVIOUS
<1>3. d \in Proc /\ d.line = NoTty
  BY <1>2 DEF NoProc, Proc
<1>4. PICK c : c = [d EXCEPT !.st = "live"]
  OBVIOUS
<1>5. c \in Proc /\ c.line = NoTty /\ c.st = "live"
  BY <1>3, <1>4 DEF Proc
<1>6. child' = [child EXCEPT ![q] = c]
  BY <1>2, <1>4 DEF Orphan
<1>7. child' \in [Pids -> Proc] /\ child'[q] = c /\ \A p \in Pids \ {q} : child'[p] = child[p]
  BY <1>1, <1>5, <1>6
<1>8. UNCHANGED <<pc, i, itab, got, multi, flags, ttys, utmp, missed, late>>
  BY DEF Orphan
<1>9. TypeOK'
  BY <1>7, <1>8, Types, TypeParts DEF TypeOK, flags
<1>10. Frees'
  BY <1>5, <1>7 DEF Frees, FreePid
<1>11. ASSUME NEW p \in Pids
       PROVE  /\ ~FreePid(p) => child'[p].st # "free" /\ child'[p].line = child[p].line /\ child'[p].comn = child[p].comn
              /\ Live(p)' => Live(p) \/ child'[p].line = NoTty
              /\ FreePid(p) => child'[p].line = NoTty
  <2>1. CASE p = q
    BY <1>1, <1>5, <1>7, <2>1
  <2>2. CASE p # q
    BY <1>2, <1>3, <1>7, <2>2 DEF FreePid, Live, Frees
  <2> QED
    BY <2>1, <2>2
<1> QED
  BY <1>1, <1>8, <1>9, <1>10, <1>11, ProcsInv

LEMMA EditInv == ASSUME Inv, Edit PROVE Inv'
<1> USE DEF Inv, Shape
<1>1. ttys' \in Files /\ UNCHANGED <<pc, i, itab, got, multi, flags, child, utmp, signals, events, missed, late>>
  BY DEF Edit
<1>2. TypeOK'
  BY <1>1, Types, TypeParts DEF TypeOK, flags
<1>3. \A q \in Pids : (Live(q)' <=> Live(q)) /\ (FreePid(q) => child'[q].line = NoTty)
  <2>1. PICK d : d = NoProc
    OBVIOUS
  <2>2. d.line = NoTty
    BY <2>1 DEF NoProc
  <2> QED
    BY <1>1, <2>1, <2>2 DEF Frees, Live
<1>4. Distinct(itab)' /\ Empty' /\ Flagged' /\ Frees' /\ Down' /\ Modes'
  BY <1>1 DEF Distinct, Empty, Flagged, Frees, FreePid, Down, Modes, flags, Live
<1>5. Owner' /\ GotFree'
  BY <1>1 DEF Bonds, Owner, Live, GotFree
<1>6. ASSUME NEW k \in Slots
      PROVE  (Own(k)' <=> Own(k)) /\ (Served(k)' <=> Served(k)) /\ (Has(k)' <=> Has(k))
             /\ (InHand(k)' <=> InHand(k)) /\ (Marked(k)' <=> Marked(k))
  BY <1>1 DEF Own, Served, Has, InHand, Marked, Known, FreePid, flags
<1>7. Owns' /\ Serves' /\ Logged'
  BY <1>1, <1>6 DEF Bonds, Owns, Serves, Logged
<1> QED
  BY <1>2, <1>4, <1>5, <1>7 DEF Bonds

LEMMA NextInv == ASSUME Inv, Next PROVE Inv'
<1>1. ASSUME InitStep PROVE Inv'
  BY <1>1, SingUsrInv, RunRcInv, RdReadInv, RdMissingInv, RdSlotInv, RdKillInv, RdForkInv, LoopInv, CallWaitInv,
     WaitReturnsInv, AfterWaitInv, ScanInv, StopSysInv DEF InitStep
<1> QED
  BY <1>1, SignalInv, HaltSysInv, LoginInv, ExitInv, OrphanInv, EditInv DEF Next

\* Nothing moves.
LEMMA StutterInv == ASSUME Inv, UNCHANGED vars PROVE Inv'
<1> USE DEF Inv, Shape
<1>1. UNCHANGED <<pc, i, itab, got, multi, flags, ttys, child, utmp, missed, late>>
  BY DEF vars, sys, hist
<1>2. TypeOK'
  BY <1>1 DEF TypeOK, flags
<1>3. \A q \in Pids : FreePid(q) => child'[q].line = NoTty
  <2>1. PICK d : d = NoProc
    OBVIOUS
  <2>2. d.line = NoTty
    BY <2>1 DEF NoProc
  <2> QED
    BY <1>1, <2>1, <2>2 DEF Frees
<1>4. Frees'
  BY <1>1 DEF Frees, FreePid
<1>5. ASSUME NEW q \in Pids
      PROVE  /\ ~FreePid(q) => child'[q].st # "free" /\ child'[q].line = child[q].line /\ child'[q].comn = child[q].comn
             /\ Live(q)' => Live(q)
  BY <1>1 DEF FreePid, Live
<1> QED
  BY <1>1, <1>2, <1>3, <1>4, <1>5, ProcsInv

\* The states the proofs speak of are the reachable ones.
LEMMA AlwaysInv == Spec => []Inv
<1>1. ASSUME Inv, [Next]_vars PROVE Inv'
  BY <1>1, NextInv, StutterInv
<1> QED
  BY <1>1, InitInv, PTL DEF Spec

-----------------------------------------------------------------------------
(* The theorems *)

\* Every slot, process and flag of init keeps its type.
THEOREM InitTypeTheorem == Spec => []TypeOK
<1>1. Inv => TypeOK
  BY DEF Inv
<1> QED
  BY <1>1, AlwaysInv, PTL

\* Two living processes of one terminal would both be named by its one slot.
LEMMA OneGettyHolds == ASSUME Inv PROVE OneGetty
<1> SUFFICES ASSUME NEW q \in Pids, NEW r \in Pids, Live(q), Live(r), child[q].line = child[r].line,
                    child[q].line # NoTty
             PROVE  q = r
  BY DEF OneGetty
<1>1. PICK j \in Slots : itab[j].line = child[q].line /\ itab[j].pid = q
  BY DEF Inv, Bonds, Owner
<1>2. PICK k \in Slots : itab[k].line = child[r].line /\ itab[k].pid = r
  BY DEF Inv, Bonds, Owner
<1>3. j = k
  BY <1>1, <1>2 DEF Inv, Shape, Distinct
<1> QED
  BY <1>1, <1>2, <1>3

LEMMA LinesServedHolds == ASSUME Inv PROVE LinesServed
<1> SUFFICES ASSUME Waiting, NEW k \in Slots
             PROVE  \/ itab[k].line \in missed \cup {NoTty}
                    \/ quitflag
                    \/ itab[k].pid = -1
                    \/ /\ itab[k].pid \in Pids
                       /\ ~FreePid(itab[k].pid)
                       /\ child[itab[k].pid].line = itab[k].line
                       /\ child[itab[k].pid].comn = itab[k].comn
  BY DEF LinesServed
<1>1. Served(k) /\ ~InHand(k) /\ ~Marked(k)
  BY DEF Waiting, InHand, Marked, Inv, Bonds, Serves
<1> QED
  BY <1>1 DEF Served, Known, Has

LEMMA UtmpTrueHolds == ASSUME Inv PROVE UtmpTrue
<1> SUFFICES ASSUME Waiting, NEW l \in utmp, l \notin missed \cup late
             PROVE  \E q \in Pids : child[q].line = l
  BY DEF UtmpTrue
<1>1. PICK k \in Slots : itab[k].line = l /\ (Has(k) \/ InHand(k))
  BY DEF Waiting, Inv, Bonds, Logged
<1>2. Has(k)
  BY <1>1 DEF Waiting, InHand
<1> QED
  BY <1>1, <1>2 DEF Has

\* No terminal has two processes; each has the one the table says when init
\* waits, but for the stated cases; and utmp knows who is there.
THEOREM TerminalsServedTheorem == Spec => []TerminalsServed
<1>1. Inv => TerminalsServed
  BY OneGettyHolds, LinesServedHolds, UtmpTrueHolds DEF TerminalsServed
<1> QED
  BY <1>1, AlwaysInv, PTL

\* The reading of the file, in the words of TableIsFile.
LEMMA TableIsFileStep ==
  ASSUME Inv, RdRead, Room(itab, ttys)
  PROVE  /\ \A n \in DOMAIN ttys : \E k \in Slots :
               /\ {j \in Slots : itab'[j].line = ttys[n].line} = {k}
               /\ LastLine(n) => itab'[k].comn = ttys[n].comn
               /\ "FOUND" \in itab'[k].xflag
               /\ "CHANGE" \notin itab'[k].xflag <=>
                     \E j \in Slots :
                         /\ itab[j].line = ttys[n].line
                         /\ \A m \in DOMAIN ttys : ttys[m].line = ttys[n].line => itab[j].comn = ttys[m].comn
         /\ \A k \in Slots : "FOUND" \in itab'[k].xflag =>
               itab'[k].line \in {ttys[n].line : n \in DOMAIN ttys}
<1> DEFINE N == Len(ttys)
<1>1. LinesRead(itab, ttys, itab', N) /\ ttys \in Seq(Entry) /\ Distinct(itab)
  BY RdReadIs
<1>2. DOMAIN ttys = 1..N
  BY <1>1
<1>3. \A n \in 1..N : ttys[n].line # NoTty
  <2>1. \A n \in 1..N : ttys[n] \in Entry
    BY <1>1
  <2> QED
    BY <2>1, InitProcAssumption DEF Entry
<1>4. Distinct(itab') /\ \A m \in 1..N : ttys[m].line \in InTable(itab')
  BY <1>1 DEF LinesRead
<1>5. ASSUME NEW k \in Slots
      PROVE  /\ itab[k].line # NoTty => itab'[k].line = itab[k].line
             /\ "FOUND" \in itab'[k].xflag <=> \E m \in 1..N : ttys[m].line = itab'[k].line
             /\ "CHANGE" \in itab'[k].xflag <=>
                   /\ itab'[k].line # NoTty
                   /\ itab[k].line = NoTty \/ \E m \in 1..N : ttys[m].line = itab'[k].line /\ ttys[m].comn # itab[k].comn
             /\ \A m \in 1..N : ttys[m].line = itab'[k].line /\ (\A j \in 1..N : ttys[j].line = ttys[m].line => j <= m)
                                   => itab'[k].comn = ttys[m].comn
  BY <1>1 DEF LinesRead
<1> HIDE DEF N
<1>6. ASSUME NEW n \in 1..N
      PROVE  \E k \in Slots :
               /\ {j \in Slots : itab'[j].line = ttys[n].line} = {k}
               /\ LastLine(n) => itab'[k].comn = ttys[n].comn
               /\ "FOUND" \in itab'[k].xflag
               /\ "CHANGE" \notin itab'[k].xflag <=>
                     \E j \in Slots :
                         /\ itab[j].line = ttys[n].line
                         /\ \A m \in DOMAIN ttys : ttys[m].line = ttys[n].line => itab[j].comn = ttys[m].comn
  <2>1. PICK k \in Slots : itab'[k].line = ttys[n].line /\ itab'[k].line # NoTty
    BY <1>3, <1>4, InTableIs
  <2>2. {j \in Slots : itab'[j].line = ttys[n].line} = {k}
    BY <1>4, <2>1 DEF Distinct
  <2>3. LastLine(n) => itab'[k].comn = ttys[n].comn
    BY <1>2, <1>5, <2>1 DEF LastLine
  <2>4. "FOUND" \in itab'[k].xflag
    BY <1>5, <2>1
  <2>5. ASSUME NEW j \in Slots, itab[j].line = ttys[n].line PROVE j = k
    <3>1. itab'[j].line = itab[j].line
      BY <1>3, <1>5, <2>5
    <3> QED
      BY <2>1, <2>5, <3>1, <1>4 DEF Distinct
  <2>6. itab[k].line = NoTty \/ itab[k].line = ttys[n].line
    BY <1>5, <2>1
  <2>7. "CHANGE" \notin itab'[k].xflag <=>
          itab[k].line # NoTty /\ \A m \in 1..N : ttys[m].line = ttys[n].line => itab[k].comn = ttys[m].comn
    BY <1>5, <2>1
  <2>8. (\E j \in Slots :
            /\ itab[j].line = ttys[n].line
            /\ \A m \in DOMAIN ttys : ttys[m].line = ttys[n].line => itab[j].comn = ttys[m].comn)
         <=> itab[k].line # NoTty /\ \A m \in 1..N : ttys[m].line = ttys[n].line => itab[k].comn = ttys[m].comn
    BY <1>2, <1>3, <2>5, <2>6
  <2> QED
    BY <2>2, <2>3, <2>4, <2>7, <2>8
<1>7. ASSUME NEW k \in Slots, "FOUND" \in itab'[k].xflag PROVE itab'[k].line \in {ttys[n].line : n \in DOMAIN ttys}
  <2>1. PICK m \in 1..N : ttys[m].line = itab'[k].line
    BY <1>5, <1>7
  <2> QED
    BY <1>2, <2>1
<1> QED
  BY <1>2, <1>6, <1>7

\* The process that is killed is the one of the terminal in hand.
LEMMA KillsOwnStep ==
  ASSUME Inv, RdKill, NEW q \in Pids, Live(q), child'[q].st # "live"
  PROVE  \/ child[q].line = itab[i].line
         \/ itab[i].pid = -1 \/ quitflag \/ itab[i].line \in missed
<1>1. itab[i].pid \in {q, -1}
  BY RdKillIs DEF Live
<1>2. CASE itab[i].pid = -1
  BY <1>2
<1>3. CASE itab[i].pid = q
  <2>1. PICK k \in Slots : k = i
    BY Types DEF Inv
  <2>2. Own(k) /\ q # 0 /\ q # -1
    BY NoPids DEF Inv, Bonds, Owns, InHand, RdKill
  <2> QED
    BY <1>3, <2>1, <2>2 DEF Own, Known, Has
<1> QED
  BY <1>1, <1>2, <1>3

\* The only steps of the two forms the properties speak of.
LEMMA WhichStep ==
  ASSUME Inv, Next
  PROVE  /\ pc = "read" /\ pc' = "slot" => RdRead
         /\ pc = "kill" /\ pc' = "fork" => RdKill
<1>1. ASSUME NEW s \in Sigs, Signal(s) PROVE pc' = pc \/ pc = "blocked"
  BY <1>1 DEF Signal
<1>2. HaltSys => pc' = "halted"
  BY DEF HaltSys
<1>3. ASSUME NEW q \in Pids, Login(q) \/ Exit(q) \/ Orphan(q) PROVE pc' = pc
  BY <1>3 DEF Login, Exit, Orphan
<1>4. Edit => pc' = pc
  BY DEF Edit
<1>5. ASSUME InitStep
      PROVE  /\ pc = "read" /\ pc' = "slot" => RdRead
             /\ pc = "kill" /\ pc' = "fork" => RdKill
  <2>1. (SingUsr => pc = "single") /\ (RunRc => pc = "rc") /\ (Loop => pc = "loop") /\ (StopSys => pc = "stop")
    BY DEF SingUsr, RunRc, Loop, StopSys
  <2>m. RdMissing => pc = "read" /\ pc' = "loop"
    BY DEF RdMissing
  <2>2. (RdRead => pc = "read") /\ (RdSlot => pc = "slot") /\ (RdKill => pc = "kill") /\ (RdFork => pc = "fork")
    BY DEF RdRead, RdSlot, RdKill, RdFork
  <2>3. (CallWait => pc = "top") /\ (WaitReturns => pc = "blocked")
    BY DEF CallWait, WaitReturns
  <2>4. (AfterWait => pc = "got") /\ (Scan => pc = "scan")
    BY DEF AfterWait, Scan
  <2> QED
    BY <1>5, <2>1, <2>m, <2>2, <2>3, <2>4 DEF InitStep
<1> QED
  BY <1>1, <1>2, <1>3, <1>4, <1>5 DEF Next

\* rdttys brings the table in line with the file, and kills the process of
\* the terminal in hand alone, but for the stated stale process ids.
THEOREM RdttysSoundTheorem == Spec => RdttysSound
<1>1. ASSUME Inv, [Next]_vars, pc = "read", pc' = "slot",
             Cardinality(InTable(itab) \cup {ttys[n].line : n \in DOMAIN ttys}) <= NSlots
      PROVE  /\ \A n \in DOMAIN ttys : \E k \in Slots :
                   /\ {j \in Slots : itab'[j].line = ttys[n].line} = {k}
                   /\ LastLine(n) => itab'[k].comn = ttys[n].comn
                   /\ "FOUND" \in itab'[k].xflag
                   /\ "CHANGE" \notin itab'[k].xflag <=>
                         \E j \in Slots :
                             /\ itab[j].line = ttys[n].line
                             /\ \A m \in DOMAIN ttys : ttys[m].line = ttys[n].line => itab[j].comn = ttys[m].comn
             /\ \A k \in Slots : "FOUND" \in itab'[k].xflag =>
                   itab'[k].line \in {ttys[n].line : n \in DOMAIN ttys}
  <2>1. Next
    BY <1>1 DEF vars
  <2>2. RdRead
    BY <1>1, <2>1, WhichStep
  <2>3. Room(itab, ttys)
    BY <1>1 DEF Room, Wanted, LinesOf
  <2> QED
    BY <1>1, <2>2, <2>3, TableIsFileStep
<1>2. ASSUME Inv, [Next]_vars, pc = "kill", pc' = "fork"
      PROVE  \A q \in Pids : Live(q) /\ child'[q].st # "live" =>
                \/ child[q].line = itab[i].line
                \/ itab[i].pid = -1 \/ quitflag \/ itab[i].line \in missed
  <2>1. Next
    BY <1>2 DEF vars
  <2>2. RdKill
    BY <1>2, <2>1, WhichStep
  <2> QED
    BY <1>2, <2>2, KillsOwnStep
<1>3. Spec => TableIsFile
  BY <1>1, AlwaysInv, PTL DEF Spec, TableIsFile
<1>4. Spec => KillsOwn
  BY <1>2, AlwaysInv, PTL DEF Spec, KillsOwn
<1> QED
  BY <1>3, <1>4 DEF RdttysSound

=============================================================================

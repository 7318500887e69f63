----------------------------- MODULE MountProofs -----------------------------
(***************************************************************************)
(* The mount table, for any number of commands, devices, process numbers   *)
(* and slots: the types, TableTrue and KillsOwn.                           *)
(***************************************************************************)
EXTENDS Mount, FiniteSetTheorems, TLAPS

-----------------------------------------------------------------------------
(* Least and greatest elements, sequences *)

\* A set of numbers below a bound has a least and a greatest one: the sets of
\* the numbers beyond each of them are well-founded under inclusion.
LEMMA Least ==
  ASSUME NEW N \in Nat, NEW S, S \subseteq 0..N, S # {}
  PROVE  \E x \in S : \A y \in S : x <= y
<1> DEFINE F == {0..(x - 1) : x \in S}
<1>1. F \subseteq FiniteSubsetsOf(0..N) /\ F # {}
  <2>1. ASSUME NEW x \in S PROVE 0..(x - 1) \subseteq 0..N /\ IsFiniteSet(0..(x - 1))
    BY FS_Interval
  <2> QED
    BY <2>1 DEF FiniteSubsetsOf
<1>2. PICK T \in F : \A U \in F : <<U, T>> \notin StrictSubsetOrdering(0..N)
  BY <1>1, FS_StrictSubsetOrderingWellFounded, WFMin
<1>3. PICK x \in S : T = 0..(x - 1)
  OBVIOUS
<1>4. ASSUME NEW y \in S, y < x PROVE FALSE
  <2>1. 0..(y - 1) \subseteq 0..N /\ 0..(x - 1) \subseteq 0..N /\ 0..(y - 1) \subseteq 0..(x - 1)
    BY <1>4
  <2>2. y \in 0..(x - 1) /\ y \notin 0..(y - 1)
    BY <1>4
  <2>3. 0..(y - 1) \in F
    OBVIOUS
  <2> HIDE DEF F
  <2> QED
    BY <1>2, <1>3, <2>1, <2>2, <2>3 DEF StrictSubsetOrdering
<1> QED
  BY <1>4

LEMMA Greatest ==
  ASSUME NEW N \in Nat, NEW S, S \subseteq 0..N, S # {}
  PROVE  \E x \in S : \A y \in S : x >= y
<1> DEFINE R == {N - x : x \in S}
<1>1. \A x \in S : x \in Nat /\ N - x \in 0..N
  OBVIOUS
<1>2. R \subseteq 0..N /\ R # {}
  BY <1>1
<1>3. PICK r \in R : \A y \in R : r <= y
  BY <1>2, Least
<1>4. PICK x \in S : r = N - x
  OBVIOUS
<1>5. \A y \in S : N - y \in R
  OBVIOUS
<1>6. \A y \in S : N - x <= N - y
  BY <1>3, <1>4, <1>5
<1> QED
  BY <1>1, <1>6

LEMMA MinMax ==
  ASSUME NEW N \in Nat, NEW S, S \subseteq 0..N, S # {}
  PROVE  Min(S) \in S /\ Max(S) \in S /\ \A y \in S : Min(S) <= y /\ y <= Max(S)
  BY Least, Greatest DEF Min, Max

Tables == [1..NMOUNT -> Slot2]

LEMMA SlotsType ==
  ASSUME NEW file \in Seq(Slot2) PROVE Slots(file) \in Tables
  BY DEF Slots, Tables, Slot2

LEMMA SlotsNone == Slots(<<>>) = [i \in 1..NMOUNT |-> Free] /\ Slots(<<>>) \in Tables
<1>1. Slots(<<>>) = [i \in 1..NMOUNT |-> Free]
  BY DEF Slots
<1> QED
  BY <1>1 DEF Tables, Slot2

\* What a command writes at the start of the file.
Written(m) == SubSeq(m, 1, Max({1, Last1(m)}))

LEMMA WrittenType ==
  ASSUME NEW m \in Tables, NEW file \in Seq(Slot2), Len(file) <= NMOUNT
  PROVE  /\ Over(file, Written(m)) \in Seq(Slot2)
         /\ Len(Over(file, Written(m))) <= NMOUNT
         /\ file = <<>> => Slots(Over(file, Written(m))) = m
<1>0. NMOUNT \in Nat \ {0}
  BY MountAssumption
<1>1. /\ Last1(m) \in 0..NMOUNT
      /\ \A i \in 1..NMOUNT : m[i] # Free => i <= Last1(m)
  <2>1. {0} \cup {i \in DOMAIN m : m[i] # Free} \subseteq 0..NMOUNT
    BY <1>0 DEF Tables
  <2> QED
    BY <1>0, <2>1, MinMax DEF Last1, Tables
<1> DEFINE n == Max({1, Last1(m)})
<1>2. n \in 1..NMOUNT /\ n >= Last1(m)
  <2>1. {1, Last1(m)} \subseteq 0..NMOUNT
    BY <1>0, <1>1
  <2>2. n \in {1, Last1(m)} /\ n >= 1 /\ n >= Last1(m)
    BY <1>0, <2>1, MinMax
  <2> QED
    BY <1>1, <2>1, <2>2
<1>3. m \in Seq(Slot2) /\ Len(m) = NMOUNT
  BY <1>0 DEF Tables
<1> HIDE DEF n
<1>4. Written(m) = SubSeq(m, 1, n)
  BY DEF Written, n
<1>5. /\ Len(Written(m)) = n /\ Written(m) \in Seq(Slot2)
      /\ \A i \in 1..n : Written(m)[i] = m[i]
  BY <1>0, <1>2, <1>3, <1>4
<1> DEFINE k == Max({Len(file), Len(Written(m))})
<1>6. k \in 1..NMOUNT /\ k \in {Len(file), n} /\ k >= Len(file) /\ k >= n
  <2>1. {Len(file), n} \subseteq 0..NMOUNT
    BY <1>2
  <2>2. k \in {Len(file), n} /\ k >= Len(file) /\ k >= n
    BY <1>0, <1>5, <2>1, MinMax
  <2> QED
    BY <1>2, <2>1, <2>2
<1> HIDE DEF k
<1>7. Over(file, Written(m)) = [i \in 1..k |-> IF i <= n THEN m[i] ELSE file[i]]
  <2>1. Over(file, Written(m)) = [i \in 1..k |-> IF i <= n THEN Written(m)[i] ELSE file[i]]
    BY <1>5 DEF Over, k
  <2>2. \A i \in 1..k : i <= n => i \in 1..n
    BY <1>2, <1>6
  <2> QED
    BY <1>5, <2>1, <2>2
<1>8. Over(file, Written(m)) \in Seq(Slot2) /\ Len(Over(file, Written(m))) = k
  <2>1. \A i \in 1..k : (IF i <= n THEN m[i] ELSE file[i]) \in Slot2
    <3> SUFFICES ASSUME NEW i \in 1..k PROVE (IF i <= n THEN m[i] ELSE file[i]) \in Slot2
      OBVIOUS
    <3>1. CASE i <= n
      <4>1. i \in 1..NMOUNT
        BY <1>0, <1>2, <1>6, <3>1
      <4> QED
        BY <3>1, <4>1 DEF Tables
    <3>2. CASE ~(i <= n)
      <4>1. i \in 1..Len(file)
        BY <1>2, <1>6, <3>2
      <4> QED
        BY <3>2, <4>1
    <3> QED
      BY <3>1, <3>2
  <2>2. k \in Nat
    BY <1>6
  <2> QED
    BY <1>7, <2>1, <2>2
<1>9. ASSUME file = <<>> PROVE Slots(Over(file, Written(m))) = m
  <2>1. k = n
    BY <1>2, <1>6, <1>9
  <2>2. ASSUME NEW i \in 1..NMOUNT PROVE Slots(Over(file, Written(m)))[i] = m[i]
    <3>1. CASE i <= n
      BY <1>2, <1>8, <1>7, <2>1, <3>1 DEF Slots
    <3>2. CASE ~(i <= n)
      <4>1. m[i] = Free
        BY <1>1, <1>2, <3>2
      <4> QED
        BY <1>2, <1>8, <2>1, <3>2, <4>1 DEF Slots
    <3> QED
      BY <3>1, <3>2
  <2> QED
    BY <2>2 DEF Slots, Tables
<1> QED
  BY <1>6, <1>8, <1>9

-----------------------------------------------------------------------------
(* Types *)

LEMMA LeavesType ==
  ASSUME TypeOK, NEW p \in Procs, Ends(p)
  PROVE  /\ (pc \in [Procs -> {"idle", "fork", "wait", "enter", "kill", "clear", "write", "rewrite"}])'
         /\ (dev \in [Procs -> Devs \cup {""}])' /\ (pid \in [Procs -> Pids \cup {0}])'
         /\ (mem \in [Procs -> Tables])'
<1>1. Slots(<<>>) \in Tables
  BY SlotsNone
<1> QED
  BY <1>1 DEF TypeOK, Ends, Tables

LEMMA SlotFound ==
  ASSUME NEW m \in Tables, NEW d, \E i \in 1..NMOUNT : m[i].spec = d
  PROVE  LET s == Min({i \in 1..NMOUNT : m[i].spec = d}) IN s \in 1..NMOUNT /\ m[s].spec = d
<1> DEFINE S == {i \in 1..NMOUNT : m[i].spec = d}
<1>1. S \subseteq 0..NMOUNT /\ S # {}
  OBVIOUS
<1>2. Min(S) \in S
  BY <1>1, MinMax, MountAssumption
<1> QED
  BY <1>2

LEMMA FreeSlot ==
  ASSUME NEW p \in Procs, FreeSlots(p) # {}
  PROVE  Min(FreeSlots(p)) \in 1..NMOUNT /\ mem[p][Min(FreeSlots(p))] = Free
<1>1. FreeSlots(p) \subseteq 0..NMOUNT
  BY DEF FreeSlots
<1>2. Min(FreeSlots(p)) \in FreeSlots(p)
  BY <1>1, MinMax, MountAssumption
<1> QED
  BY <1>2 DEF FreeSlots

\* What a command knows: its device, the number of the handler, and a place
\* of its device in the table that it has read.
Knows(p) ==
    /\ pc[p] # "idle" => dev[p] \in Devs
    /\ pc[p] \in {"wait", "enter", "clear", "write", "rewrite"} => pid[p] \in Pids
    /\ pc[p] \in {"kill", "clear"} => \E i \in 1..NMOUNT : mem[p][i].spec = dev[p]
Found == \A p \in Procs : Knows(p)

LEMMA FoundSlot ==
  ASSUME TypeOK, Found, NEW p \in Procs, pc[p] \in {"kill", "clear"}
  PROVE  /\ Slot(p) \in 1..NMOUNT /\ mem[p][Slot(p)].spec = dev[p]
         /\ mem[p][Slot(p)].pid \in Pids /\ mem[p][Slot(p)] # Free
<1>1. mem[p] \in Tables
  BY DEF TypeOK, Tables
<1>2. Slot(p) \in 1..NMOUNT /\ mem[p][Slot(p)].spec = dev[p]
  BY <1>1, SlotFound DEF Found, Knows, Slot
<1>3. mem[p][Slot(p)] \in Slot2 /\ dev[p] # ""
  BY <1>1, <1>2, MountAssumption DEF Found, Knows, Tables
<1>4. mem[p][Slot(p)] # Free
  <2>1. Free.spec = ""
    BY DEF Free
  <2> QED
    BY <1>2, <1>3, <2>1
<1>5. mem[p][Slot(p)] \in [spec : Devs, pid : Pids]
  BY <1>3, <1>4 DEF Slot2
<1> QED
  BY <1>2, <1>4, <1>5

PCs == {"idle", "fork", "wait", "enter", "kill", "clear", "write", "rewrite"}

\* The other commands keep what they have.
OthersKeep(p) ==
    \A q \in Procs \ {p} : pc'[q] = pc[q] /\ dev'[q] = dev[q] /\ mem'[q] = mem[q] /\ pid'[q] = pid[q]

LEMMA CommandOthers == ASSUME TypeOK, NEW p \in Procs, Command(p) PROVE OthersKeep(p)
<1>1. CASE \E d \in Devs : Mnt(p, d) \/ Unmnt(p, d)
  BY <1>1 DEF Mnt, Unmnt, ReadTable, At, Goes, TypeOK, OthersKeep
<1>2. CASE ForkFails(p) \/ NotMounted(p) \/ NoRoom(p) \/ CannotCreat(p) \/ WriteTable(p)
  BY <1>2 DEF ForkFails, NotMounted, NoRoom, CannotCreat, WriteTable, Leaves, Ends, TypeOK, OthersKeep
<1>3. CASE (\E x \in Pids : ForkHandler(p, x)) \/ Clock(p) \/ EnterCreat(p) \/ Kill(p) \/ ClearCreat(p)
  BY <1>3 DEF ForkHandler, Clock, EnterCreat, Kill, ClearCreat, At, Goes, TypeOK, OthersKeep
<1> QED
  BY <1>1, <1>2, <1>3 DEF Command

LEMMA FoundStep == TypeOK /\ Found /\ [Next]_vars => Found'
<1> SUFFICES ASSUME TypeOK, Found, [Next]_vars PROVE Found'
  OBVIOUS
<1>1. ASSUME NEW p \in Procs, Command(p) PROVE Found'
  <2>1. ASSUME NEW q \in Procs \ {p} PROVE Knows(q)'
    BY <1>1, <2>1, CommandOthers DEF OthersKeep, Found, Knows
  <2>2. Knows(p)'
    <3>0. Knows(p)
      BY DEF Found
    <3>1. CASE \E d \in Devs : Mnt(p, d) \/ Unmnt(p, d)
      <4>1. PICK d \in Devs : Mnt(p, d) \/ Unmnt(p, d)
        BY <3>1
      <4>2. dev'[p] = d /\ mem'[p] = Slots(mtab) /\ pc'[p] \in {"fork", "kill"}
        BY <4>1 DEF Mnt, Unmnt, ReadTable, Goes, TypeOK
      <4>3. pc'[p] = "kill" => d \in {Slots(mtab)[i].spec : i \in 1..NMOUNT}
        BY <4>1 DEF Mnt, Unmnt, ReadTable, Goes, TypeOK
      <4> QED
        BY <4>2, <4>3 DEF Knows
    <3>2. CASE \E x \in Pids : ForkHandler(p, x)
      BY <3>0, <3>2 DEF ForkHandler, At, Goes, Knows, TypeOK
    <3>3. CASE ForkFails(p) \/ NotMounted(p) \/ NoRoom(p) \/ CannotCreat(p) \/ WriteTable(p)
      BY <3>3 DEF ForkFails, NotMounted, NoRoom, CannotCreat, WriteTable, Leaves, Ends, Knows, TypeOK
    <3>4. CASE Clock(p)
      BY <3>0, <3>4 DEF Clock, At, Goes, Knows, TypeOK
    <3>5. CASE EnterCreat(p) \/ ClearCreat(p)
      BY <3>0, <3>5 DEF EnterCreat, ClearCreat, At, Goes, Knows, TypeOK
    <3>6. CASE Kill(p)
      <4>1. mem[p][Slot(p)].pid \in Pids
        BY <3>6, FoundSlot DEF Kill, At
      <4>2. pc[p] = "kill" /\ pc'[p] = "clear" /\ pid'[p] = mem[p][Slot(p)].pid /\ dev' = dev /\ mem' = mem
        BY <3>6 DEF Kill, At, Goes, TypeOK
      <4> QED
        BY <3>0, <4>1, <4>2 DEF Knows
    <3> QED
      BY <1>1, <3>1, <3>2, <3>3, <3>4, <3>5, <3>6 DEF Command
  <2> QED
    BY <2>1, <2>2 DEF Found
<1>2. ASSUME NEW x \in Pids, HandlerEnds(x) \/ StrangerBegins(x) \/ StrangerEnds(x) PROVE Found'
  BY <1>2 DEF HandlerEnds, StrangerBegins, StrangerEnds, Found, Knows
<1>3. CASE UNCHANGED vars
  BY <1>3 DEF vars, Found, Knows
<1> QED
  BY <1>1, <1>2, <1>3 DEF Next

LEMMA TypeStep == TypeOK /\ Found /\ [Next]_vars => TypeOK'
<1> SUFFICES ASSUME TypeOK, Found, [Next]_vars PROVE TypeOK'
  OBVIOUS
<1>0. Slots(mtab) \in Tables /\ Slots(<<>>) \in Tables /\ <<>> \in Seq(Slot2) /\ Len(<<>>) <= NMOUNT
  <2>1. <<>> \in Seq(Slot2)
    OBVIOUS
  <2>2. Len(<<>>) = 0
    OBVIOUS
  <2>3. NMOUNT \in Nat
    BY MountAssumption
  <2>4. Len(<<>>) <= NMOUNT
    BY <2>2, <2>3
  <2>5. Slots(mtab) \in Tables /\ Slots(<<>>) \in Tables
    BY SlotsType, SlotsNone DEF TypeOK
  <2> QED
    BY <2>1, <2>4, <2>5
<1>1. ASSUME NEW p \in Procs, NEW d \in Devs, Mnt(p, d) \/ Unmnt(p, d) PROVE TypeOK'
  <2>0. pc' = [pc EXCEPT ![p] = "fork"] \/ pc' = [pc EXCEPT ![p] = "kill"]
    BY <1>1 DEF Mnt, Unmnt, ReadTable, Goes
  <2>1. pc' \in [Procs -> PCs]
    BY <2>0 DEF TypeOK, PCs
  <2>3. dev' \in [Procs -> Devs \cup {""}]
    BY <1>1 DEF Mnt, Unmnt, ReadTable, TypeOK
  <2>2. (mem \in [Procs -> [1..NMOUNT -> Slot2]])'
    BY <1>0, <1>1 DEF Mnt, Unmnt, ReadTable, TypeOK, Tables
  <2> QED
    BY <1>1, <2>1, <2>2, <2>3 DEF Mnt, Unmnt, ReadTable, TypeOK, Used, PCs
<1>2. ASSUME NEW p \in Procs, NEW x \in Pids, ForkHandler(p, x) PROVE TypeOK'
  <2>1. (pc \in [Procs -> PCs])' /\ (pid \in [Procs -> Pids \cup {0}])'
    BY <1>2 DEF ForkHandler, Goes, TypeOK, PCs
  <2>2. (Used \subseteq Pids)' /\ (\A y \in Used : owner[y] \in Devs \cup {"stranger"})'
    BY <1>2 DEF ForkHandler, TypeOK, Used, At, Found, Knows
  <2> QED
    BY <1>2, <2>1, <2>2 DEF ForkHandler, TypeOK, PCs
<1>3. ASSUME NEW p \in Procs, ForkFails(p) \/ NotMounted(p) PROVE TypeOK'
  BY <1>3, LeavesType DEF ForkFails, NotMounted, Leaves, TypeOK, Used, Tables
<1>4. ASSUME NEW p \in Procs, Clock(p) PROVE TypeOK'
  BY <1>4 DEF Clock, At, Goes, TypeOK, Used
<1>5. ASSUME NEW p \in Procs, NoRoom(p) \/ CannotCreat(p) PROVE TypeOK'
  <2>1. pid[p] \in Pids
    BY <1>5 DEF NoRoom, CannotCreat, At, Found, Knows
  <2> QED
    BY <1>5, <2>1, LeavesType DEF NoRoom, CannotCreat, Leaves, TypeOK, Used, Tables
<1>6. ASSUME NEW p \in Procs, EnterCreat(p) PROVE TypeOK'
  <2>1. mem' \in [Procs -> [1..NMOUNT -> Slot2]]
    <3>1. Entry(p) \in Slot2
      BY <1>6 DEF EnterCreat, At, Entry, Found, Knows, Slot2
    <3> QED
      BY <1>6, <3>1 DEF EnterCreat, TypeOK
  <2> QED
    BY <1>0, <1>6, <2>1 DEF EnterCreat, At, Goes, Changes, TypeOK, Used
<1>7. ASSUME NEW p \in Procs, Kill(p) PROVE TypeOK'
  <2>1. mem[p][Slot(p)].pid \in Pids
    BY <1>7, FoundSlot DEF Kill, At
  <2> QED
    BY <1>7, <2>1 DEF Kill, At, Goes, TypeOK, Used
<1>8. ASSUME NEW p \in Procs, ClearCreat(p) PROVE TypeOK'
  <2>1. mem' \in [Procs -> [1..NMOUNT -> Slot2]]
    BY <1>8 DEF ClearCreat, TypeOK, Slot2
  <2> QED
    BY <1>0, <1>8, <2>1 DEF ClearCreat, At, Goes, Changes, TypeOK, Used
<1>9. ASSUME NEW p \in Procs, WriteTable(p) PROVE TypeOK'
  <2>1. mem[p] \in Tables /\ mtab' = Over(mtab, Written(mem[p]))
    BY <1>9 DEF WriteTable, Written, TypeOK, Tables
  <2>2. mtab' \in Seq(Slot2) /\ Len(mtab') <= NMOUNT
    BY <2>1, WrittenType DEF TypeOK
  <2> QED
    BY <1>9, <2>2, LeavesType DEF WriteTable, Changes, TypeOK, Used, Tables
<1>10. ASSUME NEW x \in Pids, HandlerEnds(x) \/ StrangerBegins(x) \/ StrangerEnds(x) PROVE TypeOK'
  BY <1>10 DEF HandlerEnds, StrangerBegins, StrangerEnds, TypeOK, Used
<1>11. CASE UNCHANGED vars
  BY <1>11 DEF vars, TypeOK, Used
<1> QED
  BY <1>1, <1>2, <1>3, <1>4, <1>5, <1>6, <1>7, <1>8, <1>9, <1>10, <1>11 DEF Next, Command

-----------------------------------------------------------------------------
(* Which copies are those of the file *)

Writes(p) == pc[p] \in {"write", "rewrite"}
Current(p) == pc[p] # "idle" /\ p \notin stale

\* A copy that is not old is what the file holds, or what will be written to a
\* file that is empty until then.
Copies == \A p \in Procs : /\ Current(p) /\ ~Writes(p) => mem[p] = Slots(mtab)
                           /\ Current(p) /\ Writes(p) => mtab = <<>>
                           /\ p \in stale => pc[p] # "idle"

\* What a command does to the file and to the copies: it reads, ...
Reads(p) == /\ pc[p] = "idle" /\ pc'[p] \notin {"idle", "write", "rewrite"} /\ mem'[p] = Slots(mtab)
            /\ UNCHANGED <<mtab, stale, spoilt>>
\* ... goes on, ...
GoesOn(p) == /\ pc[p] # "idle" /\ ~Writes(p) /\ pc'[p] \notin {"idle", "write", "rewrite"}
             /\ mem'[p] = mem[p] /\ UNCHANGED <<mtab, stale, spoilt>>
\* ... gives up, ...
GivesUp(p) == ~Writes(p) /\ pc'[p] = "idle" /\ stale' = stale \ {p} /\ UNCHANGED <<mtab, spoilt>>
\* ... empties the file, or fills it again.
Empties(p) == ~Writes(p) /\ pc[p] # "idle" /\ pc'[p] \in {"write", "rewrite"} /\ mtab' = <<>> /\ Changes(p)
Fills(p) == Writes(p) /\ pc'[p] = "idle" /\ mtab' = Over(mtab, Written(mem[p])) /\ Changes(p)

LEMMA TableEffects ==
  ASSUME TypeOK, NEW p \in Procs, Command(p)
  PROVE  OthersKeep(p) /\ (Reads(p) \/ GoesOn(p) \/ GivesUp(p) \/ Empties(p) \/ Fills(p))
<1>1. CASE \E d \in Devs : Mnt(p, d) \/ Unmnt(p, d)
  <2>1. PICK to \in {"fork", "kill"}, d \in Devs : ReadTable(p, d, to)
    BY <1>1 DEF Mnt, Unmnt
  <2> QED
    BY <1>1, <2>1, CommandOthers DEF ReadTable, At, Goes, TypeOK, Reads
<1>2. CASE (\E x \in Pids : ForkHandler(p, x)) \/ Clock(p) \/ Kill(p)
  BY <1>2, CommandOthers DEF ForkHandler, Clock, Kill, At, Goes, TypeOK, GoesOn, Writes
<1>3. CASE ForkFails(p) \/ NotMounted(p) \/ NoRoom(p) \/ CannotCreat(p)
  BY <1>3, CommandOthers DEF ForkFails, NotMounted, NoRoom, CannotCreat, Leaves, Ends, At, TypeOK, GivesUp, Writes
<1>4. CASE EnterCreat(p) \/ ClearCreat(p)
  BY <1>4, CommandOthers DEF EnterCreat, ClearCreat, At, Goes, TypeOK, Empties, Writes
<1>5. CASE WriteTable(p)
  BY <1>5, CommandOthers DEF WriteTable, Ends, Written, TypeOK, Fills, Writes
<1> QED
  BY <1>1, <1>2, <1>3, <1>4, <1>5 DEF Command

LEMMA CopiesStep == TypeOK /\ Copies /\ [Next]_vars => Copies'
<1> SUFFICES ASSUME TypeOK, Copies, [Next]_vars PROVE Copies'
  OBVIOUS
<1>1. ASSUME NEW p \in Procs, Command(p) PROVE Copies'
  <2>1. OthersKeep(p) /\ (Reads(p) \/ GoesOn(p) \/ GivesUp(p) \/ Empties(p) \/ Fills(p))
    BY <1>1, TableEffects
  <2>2. CASE Reads(p) \/ GoesOn(p)
    <3>1. mtab' = mtab /\ stale' = stale
      BY <2>2 DEF Reads, GoesOn
    <3> QED
      BY <2>1, <2>2, <3>1 DEF OthersKeep, Reads, GoesOn, Copies, Current, Writes
  <2>3. CASE GivesUp(p)
    BY <2>1, <2>3 DEF OthersKeep, GivesUp, Copies, Current, Writes
  <2>4. CASE Empties(p)
    BY <2>1, <2>4 DEF OthersKeep, Empties, Changes, Copies, Current, Writes
  <2>5. CASE Fills(p)
    BY <2>1, <2>5 DEF OthersKeep, Fills, Changes, Copies, Current, Writes
  <2> QED
    BY <2>1, <2>2, <2>3, <2>4, <2>5
<1>2. ASSUME NEW x \in Pids, HandlerEnds(x) \/ StrangerBegins(x) \/ StrangerEnds(x) PROVE Copies'
  <2>1. mtab' = mtab
    BY <1>2 DEF HandlerEnds, StrangerBegins, StrangerEnds
  <2> QED
    BY <1>2, <2>1 DEF HandlerEnds, StrangerBegins, StrangerEnds, Copies, Current, Writes
<1>3. CASE UNCHANGED vars
  <2>1. mtab' = mtab
    BY <1>3 DEF vars
  <2> QED
    BY <1>3, <2>1 DEF vars, Copies, Current, Writes
<1> QED
  BY <1>1, <1>2, <1>3 DEF Next

\* The tables that somebody still goes by.
Read == {Slots(mtab)} \cup {mem[p] : p \in {q \in Procs : Current(q)}}

LEMMA ReadType == ASSUME TypeOK, NEW T \in Read PROVE T \in Tables
<1>1. Slots(mtab) \in Tables
  BY SlotsType DEF TypeOK
<1>2. \A p \in Procs : mem[p] \in Tables
  BY DEF TypeOK, Tables
<1> QED
  BY <1>1, <1>2 DEF Read

\* A command makes no table but the one it is going to write.
LEMMA ReadStep ==
  ASSUME TypeOK, Copies, NEW p \in Procs, Command(p), ~spoilt', NEW T \in Read'
  PROVE  /\ ~spoilt
         /\ ~Empties(p) => T \in Read
         /\ Empties(p) => Current(p) /\ T \in {Slots(<<>>), mem'[p]}
<1>1. OthersKeep(p) /\ (Reads(p) \/ GoesOn(p) \/ GivesUp(p) \/ Empties(p) \/ Fills(p))
  BY TableEffects
<1>2. T = Slots(mtab)' \/ \E q \in Procs : Current(q)' /\ T = mem'[q]
  BY DEF Read
<1>3. CASE Reads(p) \/ GoesOn(p)
  <2>1. mtab' = mtab /\ stale' = stale /\ spoilt' = spoilt /\ ~Empties(p)
    BY <1>3 DEF Reads, GoesOn, Empties
  <2>2. ASSUME NEW q \in Procs, Current(q)' PROVE mem'[q] \in Read
    BY <1>1, <1>3, <2>1, <2>2 DEF OthersKeep, Reads, GoesOn, Current, Read
  <2> QED
    BY <1>2, <2>1, <2>2 DEF Read
<1>4. CASE GivesUp(p)
  <2>1. mtab' = mtab /\ spoilt' = spoilt /\ ~Empties(p)
    BY <1>4 DEF GivesUp, Empties
  <2>2. ASSUME NEW q \in Procs, Current(q)' PROVE mem'[q] \in Read
    BY <1>1, <1>4, <2>2 DEF OthersKeep, GivesUp, Current, Read
  <2> QED
    BY <1>2, <2>1, <2>2 DEF Read
<1>5. CASE Empties(p)
  BY <1>1, <1>2, <1>5 DEF OthersKeep, Empties, Changes, Current
<1>6. CASE Fills(p)
  <2>1. ~spoilt /\ p \notin stale /\ Current(p) /\ mtab = <<>> /\ ~Empties(p)
    BY <1>6 DEF Fills, Empties, Changes, Current, Copies, Writes
  <2>2. ASSUME NEW q \in Procs, Current(q)' PROVE FALSE
    BY <1>1, <1>6, <2>2 DEF OthersKeep, Fills, Changes, Current
  <2>3. Slots(mtab)' = mem[p]
    <3>1. mem[p] \in Tables /\ mtab \in Seq(Slot2) /\ Len(mtab) <= NMOUNT
      BY DEF TypeOK, Tables
    <3>2. Slots(Over(mtab, Written(mem[p]))) = mem[p]
      BY <2>1, <3>1, WrittenType
    <3>3. mtab' = Over(mtab, Written(mem[p]))
      BY <1>6 DEF Fills
    <3> QED
      BY <3>2, <3>3
  <2> QED
    BY <1>2, <2>1, <2>2, <2>3 DEF Read
<1> QED
  BY <1>1, <1>3, <1>4, <1>5, <1>6

-----------------------------------------------------------------------------
(* Which numbers are whose *)

Starts(p) == pc[p] \in {"wait", "enter"}
Killed == {pid[q] : q \in {r \in Procs : pc[r] = "clear"}}
Listed(T) == {T[i].pid : i \in 1..NMOUNT}

\* The number a command holds is its own handler's, or that of the handler it
\* has ended, and nobody gets it meanwhile.
Number(p) ==
    /\ pc[p] \in {"idle", "fork", "kill"} => pid[p] = 0
    /\ Starts(p) /\ pid[p] \in Used => owner[pid[p]] = dev[p]
    /\ pc[p] = "clear" => pid[p] \notin Used /\ mem[p][Slot(p)].pid = pid[p]
Numbers ==
    /\ \A p \in Procs : Number(p)
    /\ \A p, q \in Procs : Starts(p) /\ Starts(q) /\ pid[p] = pid[q] => p = q

\* Handlers and strangers come and go, but never with a number that is held.
OwnersKeep ==
    \A x \in Pids \cap Held : x \in Used' => x \in Used /\ owner'[x] = owner[x]

LEMMA OwnersStep ==
  ASSUME TypeOK, [Next]_vars,
         \A p \in Procs, x \in Pids : ~ForkHandler(p, x)
  PROVE  OwnersKeep
<1>1. ASSUME NEW p \in Procs, Command(p) PROVE OwnersKeep
  BY <1>1 DEF Command, Mnt, Unmnt, ReadTable, ForkFails, NotMounted, Clock, NoRoom, EnterCreat, CannotCreat,
     Kill, ClearCreat, WriteTable, OwnersKeep, Used
<1>2. ASSUME NEW x \in Pids, HandlerEnds(x) \/ StrangerBegins(x) \/ StrangerEnds(x) PROVE OwnersKeep
  BY <1>2 DEF HandlerEnds, StrangerBegins, StrangerEnds, OwnersKeep, Used
<1>3. CASE UNCHANGED vars
  BY <1>3 DEF vars, OwnersKeep, Used
<1> QED
  BY <1>1, <1>2, <1>3 DEF Next

LEMMA HeldNumber == ASSUME Found, NEW p \in Procs, pc[p] \in {"wait", "enter", "clear"} PROVE pid[p] \in Pids \cap Held
  BY DEF Found, Knows, Held

LEMMA NumbersStep == TypeOK /\ Found /\ Numbers /\ [Next]_vars => Numbers'
<1> SUFFICES ASSUME TypeOK, Found, Numbers, [Next]_vars PROVE Numbers'
  OBVIOUS
<1>0. \A q \in Procs : Slot(q) = Min({i \in 1..NMOUNT : mem[q][i].spec = dev[q]})
  BY DEF Slot
<1>1. ASSUME NEW p \in Procs, NEW x \in Pids, ForkHandler(p, x) PROVE Numbers'
  <2>1. /\ OthersKeep(p) /\ pc'[p] = "wait" /\ pid'[p] = x /\ dev'[p] = dev[p]
        /\ Used' = Used \cup {x} /\ owner'[x] = dev[p] /\ \A y \in Used \ {x} : owner'[y] = owner[y]
        /\ x \notin Used \cup Held
    BY <1>1, CommandOthers DEF ForkHandler, At, Goes, TypeOK, Command, Used
  <2>2. ASSUME NEW q \in Procs \ {p} PROVE Number(q)' /\ pid'[q] # x
    <3>1. pid'[q] = pid[q] /\ pid[q] # x
      BY <2>1 DEF OthersKeep, Held
    <3>2. pid[q] \in Used' => pid[q] \in Used /\ owner'[pid[q]] = owner[pid[q]]
      BY <2>1, <3>1
    <3>3. pc'[q] = pc[q] /\ dev'[q] = dev[q] /\ mem'[q] = mem[q] /\ Number(q)
      BY <2>1 DEF OthersKeep, Numbers
    <3> QED
      BY <3>1, <3>2, <3>3 DEF Number, Starts, Slot
  <2>3. Number(p)'
    BY <2>1 DEF Number, Starts
  <2> QED
    BY <2>1, <2>2, <2>3 DEF Numbers, OthersKeep, Starts
<1>2. ASSUME NEW p \in Procs, Command(p), \A q \in Procs, x \in Pids : ~ForkHandler(q, x) PROVE Numbers'
  <2>1. OthersKeep(p) /\ OwnersKeep
    BY <1>2, CommandOthers, OwnersStep
  <2>2. ASSUME NEW q \in Procs \ {p} PROVE Number(q)'
    <3>1. pc'[q] = pc[q] /\ pid'[q] = pid[q] /\ dev'[q] = dev[q] /\ mem'[q] = mem[q] /\ Number(q)
      BY <2>1 DEF OthersKeep, Numbers
    <3>2. pc[q] \in {"wait", "enter", "clear"} => (pid[q] \in Used' => pid[q] \in Used /\ owner'[pid[q]] = owner[pid[q]])
      BY <2>1, HeldNumber DEF OwnersKeep
    <3> QED
      BY <3>1, <3>2 DEF Number, Starts, Slot
  <2>3. Number(p)' /\ (Starts(p)' => Starts(p) /\ pid'[p] = pid[p])
    <3>1. CASE (\E d \in Devs : Mnt(p, d) \/ Unmnt(p, d))
      BY <3>1 DEF Mnt, Unmnt, ReadTable, At, Goes, TypeOK, Numbers, Number, Starts
    <3>2. CASE ForkFails(p) \/ NotMounted(p) \/ NoRoom(p) \/ CannotCreat(p) \/ WriteTable(p)
      BY <3>2 DEF ForkFails, NotMounted, NoRoom, CannotCreat, WriteTable, Leaves, Ends, TypeOK, Number, Starts
    <3>3. CASE Clock(p)
      BY <3>3 DEF Clock, At, Goes, TypeOK, Numbers, Number, Starts, Used
    <3>4. CASE EnterCreat(p) \/ ClearCreat(p)
      BY <3>4 DEF EnterCreat, ClearCreat, At, Goes, TypeOK, Number, Starts
    <3>5. CASE Kill(p)
      <4>1. pc'[p] = "clear" /\ pid'[p] = mem[p][Slot(p)].pid /\ mem' = mem /\ dev' = dev /\ Used' = Used \ {pid'[p]}
        BY <3>5 DEF Kill, At, Goes, TypeOK, Used
      <4> QED
        BY <4>1 DEF Number, Starts, Slot
    <3> QED
      BY <1>2, <3>1, <3>2, <3>3, <3>4, <3>5 DEF Command
  <2>4. \A q \in Procs : Starts(q)' => Starts(q) /\ pid'[q] = pid[q]
    BY <2>1, <2>3 DEF OthersKeep, Starts
  <2> QED
    BY <2>2, <2>3, <2>4 DEF Numbers
<1>3. ASSUME UNCHANGED <<pc, dev, mem, pid>>, \A q \in Procs, x \in Pids : ~ForkHandler(q, x) PROVE Numbers'
  <2>1. OwnersKeep
    BY <1>3, OwnersStep
  <2>2. ASSUME NEW q \in Procs PROVE Number(q)'
    <3>1. pc'[q] = pc[q] /\ pid'[q] = pid[q] /\ dev'[q] = dev[q] /\ mem'[q] = mem[q] /\ Number(q)
      BY <1>3 DEF Numbers
    <3>2. pc[q] \in {"wait", "enter", "clear"} => (pid[q] \in Used' => pid[q] \in Used /\ owner'[pid[q]] = owner[pid[q]])
      BY <2>1, HeldNumber DEF OwnersKeep
    <3> QED
      BY <3>1, <3>2 DEF Number, Starts, Slot
  <2> QED
    BY <1>3, <2>2 DEF Numbers, Starts
<1> QED
  BY <1>1, <1>2, <1>3 DEF Next, HandlerEnds, StrangerBegins, StrangerEnds, vars

-----------------------------------------------------------------------------
(* A table that says the truth *)

\* The number is that of a handler of the device, unless it is one that the
\* table cannot know of, or that umount has just ended.
Ok(x, d) == x \in outside \cup Killed \/ (x \in Used /\ owner[x] = d)

Distinct(T) == \A i, j \in 1..NMOUNT : i # j /\ T[i].pid = T[j].pid => T[i] = Free
Good(T) ==
    /\ \A i \in 1..NMOUNT : T[i] = Free \/ Ok(T[i].pid, T[i].spec)
    /\ Distinct(T)
    /\ \A p \in Procs : Starts(p) => pid[p] \notin Listed(T)

Truth == ~spoilt => \A T \in Read : Good(T)
Entering == ~spoilt => \A p \in Procs : pc[p] = "enter" => pid[p] \in Used \cup outside \cup Killed

\* All an entry depends on.
Entries(T) == {e \in [spec : Devs, pid : Pids] : \E i \in 1..NMOUNT : T[i] = e}

LEMMA EntryType ==
  ASSUME NEW T \in Tables, NEW i \in 1..NMOUNT
  PROVE  /\ T[i] # Free => T[i] \in Entries(T)
         /\ T[i].pid \in Pids => T[i] # Free
<1>1. T[i] \in [spec : Devs, pid : Pids] \cup {Free}
  BY DEF Tables, Slot2
<1>2. Free.pid \notin Pids
  BY MountAssumption DEF Free
<1> QED
  BY <1>1, <1>2 DEF Entries

LEMMA GoodEntries ==
  ASSUME NEW T \in Tables, Good(T), NEW e \in Entries(T)
  PROVE  Ok(e.pid, e.spec) /\ e.pid \in Pids /\ e.spec \in Devs /\ \A p \in Procs : Starts(p) => pid[p] # e.pid
<1>1. PICK i \in 1..NMOUNT : T[i] = e
  BY DEF Entries
<1>2. e.pid \in Pids /\ e.spec \in Devs
  BY DEF Entries
<1> QED
  BY <1>1, <1>2, EntryType DEF Good, Listed

LEMMA GoodKept ==
  ASSUME NEW T \in Tables, Good(T),
         \A e \in Entries(T) : Ok(e.pid, e.spec)',
         \A q \in Procs : Starts(q)' => (Starts(q) /\ pid'[q] = pid[q]) \/ \A e \in Entries(T) : e.pid # pid'[q],
         \A q \in Procs : Starts(q)' => pid'[q] \in Pids
  PROVE  Good(T)'
<1>1. ASSUME NEW i \in 1..NMOUNT PROVE T[i] = Free \/ Ok(T[i].pid, T[i].spec)'
  BY EntryType
<1>2. ASSUME NEW q \in Procs, Starts(q)' PROVE pid'[q] \notin Listed(T)
  <2>1. CASE Starts(q) /\ pid'[q] = pid[q]
    BY <2>1 DEF Good
  <2>2. CASE \A e \in Entries(T) : e.pid # pid'[q]
    BY <1>2, <2>2, EntryType DEF Listed
  <2> QED
    BY <1>2, <2>1, <2>2
<1>3. (\A i \in 1..NMOUNT : T[i] = Free \/ Ok(T[i].pid, T[i].spec))'
  BY <1>1
<1>4. Distinct(T)'
  BY DEF Good, Distinct
<1>5. (\A q \in Procs : Starts(q) => pid[q] \notin Listed(T))'
  BY <1>2 DEF Listed
<1> QED
  BY <1>3, <1>4, <1>5 DEF Good

LEMMA GoodEmpty == Found => Good(Slots(<<>>))
<1> SUFFICES ASSUME Found PROVE Good(Slots(<<>>))
  OBVIOUS
<1>1. \A i \in 1..NMOUNT : Slots(<<>>)[i] = Free /\ Slots(<<>>)[i].pid = 0
  <2>1. Free.pid = 0
    BY DEF Free
  <2>2. \A i \in 1..NMOUNT : Slots(<<>>)[i] = Free
    BY SlotsNone
  <2> QED
    BY <2>1, <2>2
<1>2. \A p \in Procs : Starts(p) => pid[p] # 0
  BY MountAssumption DEF Found, Knows, Starts
<1> QED
  BY <1>1, <1>2 DEF Good, Distinct, Listed

LEMMA KilledStep ==
  ASSUME NEW p \in Procs, OthersKeep(p)
  PROVE  /\ \A x \in Killed : x \in Killed' \/ (pc[p] = "clear" /\ x = pid[p])
         /\ pc'[p] = "clear" => pid'[p] \in Killed'
<1>1. ASSUME NEW x \in Killed PROVE x \in Killed' \/ (pc[p] = "clear" /\ x = pid[p])
  <2>1. PICK q \in Procs : pc[q] = "clear" /\ x = pid[q]
    BY DEF Killed
  <2> QED
    BY <2>1 DEF OthersKeep, Killed
<1>2. pc'[p] = "clear" => pid'[p] \in Killed'
  BY DEF Killed
<1> QED
  BY <1>1, <1>2

\* A step keeps what a table says, but for umount taking its entry out.
LEMMA GoodStep ==
  ASSUME TypeOK, Found, Found', Numbers, [Next]_vars, \A p \in Procs : ~ClearCreat(p),
         NEW T \in Tables, Good(T)
  PROVE  Good(T)'
<1>0. \A q \in Procs : Starts(q)' => pid'[q] \in Pids
  BY DEF Found, Knows, Starts
<1>1. ASSUME NEW p \in Procs, NEW x \in Pids, ForkHandler(p, x) PROVE Good(T)'
  <2>1. /\ OthersKeep(p) /\ pc[p] = "fork" /\ pc'[p] = "wait" /\ pid'[p] = x
        /\ Used' = Used \cup {x} /\ \A y \in Used \ {x} : owner'[y] = owner[y]
        /\ x \notin Used \cup Held \cup outside /\ outside' = outside
    BY <1>1, CommandOthers DEF ForkHandler, At, Goes, TypeOK, Command, Used
  <2>2. \A y \in Killed : y \in Killed' /\ y # x
    BY <2>1, KilledStep DEF Killed, Held
  <2>3. \A e \in Entries(T) : e.pid # x /\ Ok(e.pid, e.spec)'
    BY <2>1, <2>2, GoodEntries DEF Ok
  <2>4. \A q \in Procs : Starts(q)' => (Starts(q) /\ pid'[q] = pid[q]) \/ \A e \in Entries(T) : e.pid # pid'[q]
    BY <2>1, <2>3 DEF OthersKeep, Starts
  <2> QED
    BY <1>0, <2>3, <2>4, GoodKept
<1>2. ASSUME NEW p \in Procs, Command(p), OthersKeep(p), outside \subseteq outside',
             \A y \in Used : (y \in Used' /\ owner'[y] = owner[y]) \/ y \in Killed',
             pc[p] = "clear" => pid[p] \in outside', Starts(p)' => Starts(p) /\ pid'[p] = pid[p]
      PROVE  Good(T)'
  <2>1. \A e \in Entries(T) : Ok(e.pid, e.spec)'
    BY <1>2, GoodEntries, KilledStep DEF Ok
  <2>2. \A q \in Procs : Starts(q)' => Starts(q) /\ pid'[q] = pid[q]
    BY <1>2 DEF OthersKeep, Starts
  <2> QED
    BY <1>0, <2>1, <2>2, GoodKept
<1>3. ASSUME NEW p \in Procs, Command(p), \A q \in Procs, x \in Pids : ~ForkHandler(q, x) PROVE Good(T)'
  <2>0. OthersKeep(p)
    BY <1>3, CommandOthers
  <2>1. CASE (\E d \in Devs : Mnt(p, d) \/ Unmnt(p, d)) \/ Clock(p) \/ EnterCreat(p)
    BY <1>2, <1>3, <2>0, <2>1 DEF Mnt, Unmnt, ReadTable, Clock, EnterCreat, At, Goes, TypeOK, Starts, Used
  <2>2. CASE ForkFails(p) \/ NotMounted(p) \/ NoRoom(p) \/ CannotCreat(p) \/ WriteTable(p)
    BY <1>2, <1>3, <2>0, <2>2 DEF ForkFails, NotMounted, NoRoom, CannotCreat, WriteTable, Leaves, Ends, At, TypeOK, Starts, Used
  <2>3. CASE Kill(p)
    <3>1. /\ pc[p] = "kill" /\ pc'[p] = "clear" /\ outside' = outside
          /\ Used' = Used \ {pid'[p]} /\ \A y \in Used \ {pid'[p]} : owner'[y] = owner[y]
      BY <2>3 DEF Kill, At, Goes, TypeOK, Used
    <3>2. \A y \in Used : (y \in Used' /\ owner'[y] = owner[y]) \/ y \in Killed'
      BY <2>0, <3>1, KilledStep
    <3> QED
      BY <1>2, <1>3, <2>0, <3>1, <3>2 DEF Starts
  <2> QED
    BY <1>3, <2>1, <2>2, <2>3 DEF Command
<1>4. ASSUME UNCHANGED <<pc, pid>>, \A e \in Entries(T) : Ok(e.pid, e.spec)' PROVE Good(T)'
  BY <1>0, <1>4, GoodKept DEF Starts
<1>5. UNCHANGED <<pc, pid>> => Killed' = Killed
  BY DEF Killed
<1>6. ASSUME NEW x \in Pids, HandlerEnds(x) PROVE Good(T)'
  <2>1. /\ Used' = Used \ {x} /\ \A y \in Used \ {x} : owner'[y] = owner[y]
        /\ outside \subseteq outside' /\ UNCHANGED <<pc, pid>>
        /\ x \in outside' \/ \E p \in Procs : Starts(p) /\ pid[p] = x
    BY <1>6 DEF HandlerEnds, Used, At, Starts
  <2>2. \A e \in Entries(T) : Ok(e.pid, e.spec)'
    BY <1>5, <2>1, GoodEntries DEF Ok
  <2> QED
    BY <1>4, <2>1, <2>2
<1>7. ASSUME NEW x \in Pids, StrangerBegins(x) \/ StrangerEnds(x) PROVE Good(T)'
  <2>1. /\ outside' = outside /\ UNCHANGED <<pc, pid>>
        /\ \A y \in Used : (y \in Used' /\ owner'[y] = owner[y]) \/ owner[y] \notin Devs
    BY <1>7 DEF StrangerBegins, StrangerEnds, Used, Handlers
  <2>2. \A e \in Entries(T) : Ok(e.pid, e.spec)'
    BY <1>5, <2>1, GoodEntries DEF Ok
  <2> QED
    BY <1>4, <2>1, <2>2
<1>8. CASE UNCHANGED vars
  <2>1. \A e \in Entries(T) : Ok(e.pid, e.spec)'
    BY <1>5, <1>8, GoodEntries DEF vars, Ok, Used
  <2> QED
    BY <1>4, <1>8, <2>1 DEF vars
<1> QED
  BY <1>1, <1>3, <1>6, <1>7, <1>8 DEF Next

LEMMA GoodEmptyNext == Found' => Good(Slots(<<>>))'
  BY GoodEmpty, PTL

\* mount puts its handler in a free slot, ...
LEMMA GoodEntered ==
  ASSUME TypeOK, Found, Found', Numbers, Entering, ~spoilt, [Next]_vars,
         NEW p \in Procs, EnterCreat(p), Good(mem[p])
  PROVE  \E T \in Tables : T = mem'[p] /\ Good(T)'
<1>0. PICK T0 \in Tables : T0 = mem[p]
  BY DEF TypeOK, Tables
<1> DEFINE k == Min(FreeSlots(p))
<1>a. PICK e : e = [spec |-> dev[p], pid |-> pid[p]]
  OBVIOUS
<1>1. /\ OthersKeep(p) /\ pc[p] = "enter" /\ pc'[p] = "write" /\ FreeSlots(p) # {}
      /\ mem'[p] = [mem[p] EXCEPT ![k] = e] /\ outside' = outside /\ owner' = owner
  BY <1>a, CommandOthers DEF EnterCreat, Entry, At, Goes, TypeOK, Command
<1>2. k \in 1..NMOUNT /\ T0[k] = Free
  BY <1>0, <1>1, FreeSlot
<1>3. e \in [spec : Devs, pid : Pids]
  BY <1>1, <1>a DEF Found, Knows
<1>b. e.pid = pid[p] /\ e.spec = dev[p]
  BY <1>a
<1> HIDE DEF k
<1>4. PICK T : T = [T0 EXCEPT ![k] = e]
  OBVIOUS
<1>5. T \in Tables /\ T = mem'[p] /\ T[k] = e /\ \A i \in 1..NMOUNT : i # k => T[i] = T0[i]
  BY <1>0, <1>1, <1>2, <1>3, <1>4 DEF Tables, Slot2
<1>6. Good(T0)'
  <2>1. \A q \in Procs : ~ClearCreat(q)
    BY <1>1 DEF ClearCreat, At, Goes, TypeOK, OthersKeep
  <2> QED
    BY <1>0, <2>1, GoodStep
<1>7. Ok(e.pid, e.spec)'
  <2>1. e.pid \in Used \cup outside \cup Killed
    BY <1>1, <1>b DEF Entering
  <2>2. e.pid \in Killed => e.pid \in Killed'
    BY <1>1, KilledStep
  <2>3. e.pid \in Used => owner[e.pid] = e.spec
    BY <1>1, <1>b DEF Numbers, Number, Starts
  <2> QED
    BY <1>1, <2>1, <2>2, <2>3 DEF Ok, Used
<1>8. pid[p] \notin Listed(T0)
  BY <1>0, <1>1 DEF Good, Starts
<1>9. (\A i \in 1..NMOUNT : T[i] = Free \/ Ok(T[i].pid, T[i].spec))'
  <2>1. ASSUME NEW i \in 1..NMOUNT PROVE T[i] = Free \/ Ok(T[i].pid, T[i].spec)'
    <3>1. CASE i = k
      BY <1>5, <1>7, <3>1
    <3>2. CASE i # k
      BY <1>5, <1>6, <3>2 DEF Good
    <3> QED
      BY <3>1, <3>2
  <2> QED
    BY <2>1
<1>10. Distinct(T)
  BY <1>0, <1>5, <1>8, <1>b DEF Good, Distinct, Listed
<1>11. ASSUME NEW q \in Procs, Starts(q)' PROVE pid'[q] \notin Listed(T)
  <2>1. q # p /\ Starts(q) /\ pid'[q] = pid[q]
    BY <1>1, <1>11 DEF OthersKeep, Starts
  <2>2. pid[q] # pid[p]
    BY <1>1, <2>1 DEF Numbers, Starts
  <2>3. pid[q] \notin Listed(T0)
    BY <1>0, <2>1 DEF Good
  <2> QED
    BY <1>5, <1>b, <2>1, <2>2, <2>3 DEF Listed
<1>12. (\A q \in Procs : Starts(q) => pid[q] \notin Listed(T))'
  BY <1>11 DEF Listed
<1>13. Good(T)'
  BY <1>9, <1>10, <1>12 DEF Good, Distinct
<1> QED
  BY <1>5, <1>13

\* ... and umount takes the one it has ended out of its slot.
LEMMA GoodCleared ==
  ASSUME TypeOK, Found, Found', Numbers, ~spoilt, NEW p \in Procs, ClearCreat(p), Good(mem[p])
  PROVE  \E T \in Tables : T = mem'[p] /\ Good(T)'
<1>0. PICK T0 \in Tables : T0 = mem[p]
  BY DEF TypeOK, Tables
<1>1. /\ OthersKeep(p) /\ pc[p] = "clear" /\ pc'[p] = "rewrite"
      /\ mem'[p] = [mem[p] EXCEPT ![Slot(p)] = Free] /\ outside' = outside /\ owner' = owner
  BY CommandOthers DEF ClearCreat, At, Goes, TypeOK, Command
<1>2. PICK k \in 1..NMOUNT : k = Slot(p) /\ T0[k].pid = pid[p]
  BY <1>0, <1>1, FoundSlot DEF Numbers, Number
<1>4. PICK T : T = [T0 EXCEPT ![k] = Free]
  OBVIOUS
<1>5. T \in Tables /\ T = mem'[p] /\ T[k] = Free /\ \A i \in 1..NMOUNT : i # k => T[i] = T0[i]
  BY <1>0, <1>1, <1>2, <1>4 DEF Tables, Slot2
<1>6. ASSUME NEW i \in 1..NMOUNT PROVE T[i] = Free \/ Ok(T[i].pid, T[i].spec)'
  <2>1. CASE i # k /\ T0[i] # Free
    <3>1. T0[i].pid # pid[p] /\ Ok(T0[i].pid, T0[i].spec)
      BY <1>0, <1>2, <2>1 DEF Good, Distinct
    <3>2. T0[i].pid \in Killed => T0[i].pid \in Killed'
      BY <1>1, <3>1, KilledStep
    <3> QED
      BY <1>1, <1>5, <2>1, <3>1, <3>2 DEF Ok, Used
  <2> QED
    BY <1>5, <2>1
<1>7. (\A i \in 1..NMOUNT : T[i] = Free \/ Ok(T[i].pid, T[i].spec))'
  BY <1>6
<1>8. \A i \in 1..NMOUNT : T[i].pid = 0 => T[i] = Free
  <2>1. \A i \in 1..NMOUNT : T[i] \in [spec : Devs, pid : Pids] \cup {Free}
    BY <1>5 DEF Tables, Slot2
  <2>2. \A f \in [spec : Devs, pid : Pids] : f.pid # 0
    BY MountAssumption
  <2> QED
    BY <2>1, <2>2
<1>9. Distinct(T)
  <2>1. Free.pid = 0
    BY DEF Free
  <2> QED
    BY <1>0, <1>5, <1>8, <2>1 DEF Good, Distinct
<1>10. ASSUME NEW q \in Procs, Starts(q)' PROVE pid'[q] \notin Listed(T)
  <2>1. Starts(q) /\ pid'[q] = pid[q] /\ pid[q] \in Pids
    BY <1>1, <1>10 DEF OthersKeep, Starts, Found, Knows
  <2>2. pid[q] \notin Listed(T0) /\ Free.pid # pid[q]
    BY <1>0, <2>1, MountAssumption DEF Good, Free
  <2> QED
    BY <1>5, <2>1, <2>2 DEF Listed
<1>11. (\A q \in Procs : Starts(q) => pid[q] \notin Listed(T))'
  BY <1>10 DEF Listed
<1>12. Good(T)'
  BY <1>7, <1>9, <1>11 DEF Good, Distinct
<1> QED
  BY <1>5, <1>12

LEMMA EmptiesAre ==
  ASSUME TypeOK, NEW p \in Procs, Command(p), Empties(p) PROVE EnterCreat(p) \/ ClearCreat(p)
  BY DEF Command, Mnt, Unmnt, ReadTable, ForkHandler, ForkFails, NotMounted, Clock, NoRoom, CannotCreat, Kill,
     WriteTable, Leaves, Ends, At, Goes, TypeOK, Empties, Writes

LEMMA TruthStep ==
  ASSUME TypeOK, Found, Found', Numbers, Copies, Truth, Entering, [Next]_vars
  PROVE  Truth'
<1> SUFFICES ASSUME ~spoilt', NEW T \in Read' PROVE Good(T)'
  BY DEF Truth
<1>1. ASSUME NEW p \in Procs, Command(p), ~Empties(p) PROVE Good(T)'
  <2>1. ~spoilt /\ T \in Read
    BY <1>1, ReadStep
  <2>2. Good(T) /\ T \in Tables
    BY <2>1, ReadType DEF Truth
  <2>3. ASSUME NEW q \in Procs, ClearCreat(q) PROVE FALSE
    <3>1. /\ pc[q] = "clear" /\ pc'[q] = "rewrite" /\ mtab' = <<>> /\ Changes(q)
      BY <2>3 DEF ClearCreat, At, Goes, TypeOK
    <3>2. q = p
      BY <1>1, <3>1, CommandOthers DEF OthersKeep
    <3> QED
      BY <1>1, <3>1, <3>2 DEF Empties, Writes
  <2> QED
    BY <2>2, <2>3, GoodStep
<1>2. ASSUME NEW p \in Procs, Command(p), Empties(p) PROVE Good(T)'
  <2>1. ~spoilt /\ Current(p) /\ T \in {Slots(<<>>), mem'[p]}
    BY <1>2, ReadStep
  <2>2. Good(mem[p])
    BY <2>1 DEF Truth, Read
  <2>3. CASE T = Slots(<<>>)
    BY <2>3, GoodEmptyNext
  <2>4. CASE T = mem'[p]
    BY <1>2, <2>1, <2>2, <2>4, EmptiesAre, GoodEntered, GoodCleared
  <2> QED
    BY <2>1, <2>3, <2>4
<1>3. ASSUME UNCHANGED <<mtab, pc, mem, stale, spoilt>>, \A q \in Procs : ~ClearCreat(q) PROVE Good(T)'
  <2>1. ~spoilt /\ T \in Read
    BY <1>3 DEF Read, Current
  <2> QED
    BY <1>3, <2>1, GoodStep, ReadType DEF Truth
<1>4. ASSUME NEW x \in Pids, HandlerEnds(x) \/ StrangerBegins(x) \/ StrangerEnds(x) PROVE Good(T)'
  BY <1>3, <1>4 DEF HandlerEnds, StrangerBegins, StrangerEnds, ClearCreat, Goes, At, TypeOK
<1>5. CASE UNCHANGED vars
  BY <1>3, <1>5 DEF vars, ClearCreat, Goes, At, TypeOK
<1> QED
  BY <1>1, <1>2, <1>4, <1>5 DEF Next

\* A step that takes a number away, or ends the command that has ended it.
LEMMA NumbersGo ==
  ASSUME TypeOK, [Next]_vars
  PROVE  /\ outside \subseteq outside'
         /\ \A x \in Used \ Used' : \/ \E p \in Procs : Kill(p) /\ pid'[p] = x /\ pc'[p] = "clear"
                                    \/ HandlerEnds(x)
                                    \/ StrangerEnds(x)
<1>1. ASSUME NEW p \in Procs, Kill(p)
      PROVE  outside' = outside /\ pc'[p] = "clear" /\ Used' = Used \ {pid'[p]}
  BY <1>1 DEF Kill, At, Goes, TypeOK, Used
<1>2. ASSUME NEW p \in Procs, Command(p), ~Kill(p) PROVE outside \subseteq outside' /\ Used \subseteq Used'
  BY <1>2 DEF Command, Mnt, Unmnt, ReadTable, ForkHandler, ForkFails, NotMounted, Clock, NoRoom, EnterCreat,
     CannotCreat, ClearCreat, WriteTable, Used
<1>3. ASSUME NEW x \in Pids, HandlerEnds(x) \/ StrangerEnds(x) PROVE outside \subseteq outside' /\ Used' = Used \ {x}
  BY <1>3 DEF HandlerEnds, StrangerEnds, Used
<1>4. ASSUME NEW x \in Pids, StrangerBegins(x) PROVE outside \subseteq outside' /\ Used \subseteq Used'
  BY <1>4 DEF StrangerBegins, Used
<1>5. CASE UNCHANGED vars
  BY <1>5 DEF vars, Used
<1> QED
  BY <1>1, <1>2, <1>3, <1>4, <1>5 DEF Next

LEMMA EnteringStep ==
  ASSUME TypeOK, Found, Found', Numbers, Copies, Truth, Entering, [Next]_vars
  PROVE  Entering'
<1> SUFFICES ASSUME ~spoilt', NEW p \in Procs, pc'[p] = "enter"
             PROVE  pid'[p] \in Used' \cup outside' \cup Killed'
  BY DEF Entering
<1>1. ~spoilt
  BY DEF Next, Command, Mnt, Unmnt, ReadTable, ForkHandler, ForkFails, NotMounted, Clock, NoRoom, EnterCreat,
     CannotCreat, Kill, ClearCreat, WriteTable, Changes, HandlerEnds, StrangerBegins, StrangerEnds, vars
<1>2. ASSUME Command(p) PROVE pid'[p] \in Used'
  <2>1. Clock(p)
    BY <1>2 DEF Command, Mnt, Unmnt, ReadTable, ForkHandler, ForkFails, NotMounted, NoRoom, EnterCreat,
       CannotCreat, Kill, ClearCreat, WriteTable, Leaves, Ends, Goes, TypeOK
  <2> QED
    BY <2>1 DEF Clock, Used
<1>3. ASSUME ~Command(p) PROVE pc[p] = "enter" /\ pid'[p] = pid[p]
  BY <1>3, CommandOthers DEF Next, OthersKeep, HandlerEnds, StrangerBegins, StrangerEnds, vars
<1>4. ASSUME pc[p] = "enter", pid'[p] = pid[p], pid[p] \in Used \ Used' PROVE pid[p] \in outside' \cup Killed'
  <2>1. CASE \E c \in Procs : Kill(c) /\ pid'[c] = pid[p] /\ pc'[c] = "clear"
    BY <2>1 DEF Killed
  <2>2. CASE HandlerEnds(pid[p])
    <3>1. ~\E c \in Procs : At(c, "wait") /\ pid[c] = pid[p]
      BY <1>4 DEF At, Numbers, Starts
    <3> QED
      BY <2>2, <3>1 DEF HandlerEnds
  <2>3. CASE StrangerEnds(pid[p])
    <3>1. owner[pid[p]] = dev[p] /\ dev[p] \in Devs
      BY <1>4 DEF Numbers, Number, Starts, Found, Knows
    <3> QED
      BY <2>3, <3>1 DEF StrangerEnds, Handlers
  <2> QED
    BY <1>4, <2>1, <2>2, <2>3, NumbersGo
<1>5. ASSUME pc[p] = "enter", pid'[p] = pid[p], pid[p] \in Killed PROVE pid[p] \in outside' \cup Killed'
  <2>1. ASSUME NEW c \in Procs, Command(c), pc[c] = "clear", pid[c] = pid[p] PROVE pid[p] \in outside'
    <3>1. ClearCreat(c) \/ CannotCreat(c)
      BY <2>1 DEF Command, Mnt, Unmnt, ReadTable, ForkHandler, ForkFails, NotMounted, Clock, NoRoom, EnterCreat,
         Kill, WriteTable, At
    <3>2. CASE ClearCreat(c)
      <4>1. c \notin stale
        BY <1>1, <3>2 DEF ClearCreat, Changes
      <4>2. Good(mem[c])
        BY <1>1, <2>1, <4>1 DEF Truth, Read, Current
      <4>3. Slot(c) \in 1..NMOUNT /\ mem[c][Slot(c)].pid = pid[c]
        BY <2>1, FoundSlot DEF Numbers, Number
      <4>4. pid[p] \notin Listed(mem[c])
        BY <1>5, <4>2 DEF Good, Starts
      <4> QED
        BY <2>1, <4>3, <4>4 DEF Listed
    <3>3. CASE CannotCreat(c)
      BY <2>1, <3>3 DEF CannotCreat
    <3> QED
      BY <3>1, <3>2, <3>3
  <2>2. ASSUME NEW c \in Procs, Command(c) PROVE pid[p] \in outside' \cup Killed'
    BY <1>5, <2>1, <2>2, CommandOthers, KilledStep
  <2>3. ASSUME UNCHANGED <<pc, pid>> PROVE pid[p] \in Killed'
    BY <1>5, <2>3 DEF Killed
  <2> QED
    BY <2>2, <2>3 DEF Next, HandlerEnds, StrangerBegins, StrangerEnds, vars
<1>6. ASSUME pc[p] = "enter", pid'[p] = pid[p] PROVE pid'[p] \in Used' \cup outside' \cup Killed'
  BY <1>1, <1>4, <1>5, <1>6, NumbersGo DEF Entering
<1> QED
  BY <1>2, <1>3, <1>6

-----------------------------------------------------------------------------
(* Every handler that can be known of is listed *)

\* An old copy is being written, or has been.
Doomed == spoilt \/ \E p \in Procs : Writes(p) /\ p \in stale
Lists(x) == \/ \E w \in Procs : Writes(w) /\ x \in Listed(mem[w])
            \/ (\A w \in Procs : ~Writes(w)) /\ x \in Listed(Slots(mtab))
Orphans == Handlers \ (outside \cup Waiting)
Complete == ~Doomed => \A x \in Orphans : Lists(x)

\* A handler is on its own when its mount has entered it.
LEMMA OrphansStep ==
  ASSUME TypeOK, Found, Numbers, [Next]_vars, NEW x \in Orphans'
  PROVE  x \in Orphans \/ \E p \in Procs : EnterCreat(p) /\ x = pid[p]
<1>1. x \in Used' /\ owner'[x] \in Devs /\ x \notin outside' /\ x \notin Waiting'
  BY DEF Orphans, Handlers
<1>2. x \notin outside
  BY <1>1, NumbersGo
<1>3. ASSUME NEW p \in Procs, NEW y \in Pids, ForkHandler(p, y) PROVE x \in Used /\ owner[x] \in Devs
  <2>1. y \in Waiting'
    BY <1>3 DEF ForkHandler, Goes, TypeOK, Waiting
  <2> QED
    BY <1>1, <1>3, <2>1 DEF ForkHandler, Used
<1>4. ASSUME NEW p \in Procs, Command(p), \A y \in Pids : ~ForkHandler(p, y) PROVE x \in Used /\ owner[x] \in Devs
  BY <1>1, <1>4 DEF Command, Mnt, Unmnt, ReadTable, ForkFails, NotMounted, Clock, NoRoom, EnterCreat,
     CannotCreat, Kill, ClearCreat, WriteTable, Used
<1>5. ASSUME NEW y \in Pids, HandlerEnds(y) \/ StrangerBegins(y) \/ StrangerEnds(y) PROVE x \in Used /\ owner[x] \in Devs
  BY <1>1, <1>5, MountAssumption DEF HandlerEnds, StrangerBegins, StrangerEnds, Used
<1>6. x \in Used /\ owner[x] \in Devs
  BY <1>1, <1>3, <1>4, <1>5 DEF Next, vars, Used
<1>7. ASSUME x \in Waiting PROVE \E p \in Procs : EnterCreat(p) /\ x = pid[p]
  <2>1. PICK p \in Procs : pc[p] \in {"wait", "enter"} /\ x = pid[p]
    BY <1>7 DEF Waiting
  <2>2. ~(pc'[p] \in {"wait", "enter"} /\ pid'[p] = pid[p])
    BY <1>1, <2>1 DEF Waiting
  <2>3. Command(p)
    BY <2>1, <2>2, CommandOthers DEF Next, OthersKeep, HandlerEnds, StrangerBegins, StrangerEnds, vars
  <2>4. ~NotMounted(p) /\ ~NoRoom(p) /\ ~CannotCreat(p)
    BY <1>1, <1>6, <2>1 DEF NotMounted, NoRoom, CannotCreat
  <2>5. ~Clock(p)
    BY <2>1, <2>2 DEF Clock, Goes, TypeOK
  <2> QED
    BY <2>1, <2>3, <2>4, <2>5 DEF Command, Mnt, Unmnt, ReadTable, ForkHandler, ForkFails, Kill, ClearCreat, WriteTable, At
<1> QED
  BY <1>2, <1>6, <1>7 DEF Orphans, Handlers

\* Who empties or fills the file is alone in it, unless an old copy gets there.
LEMMA Alone ==
  ASSUME TypeOK, NEW p \in Procs, Command(p), Empties(p) \/ Fills(p), ~Doomed'
  PROVE  p \notin stale /\ \A w \in Procs \ {p} : ~Writes(w)
<1>1. OthersKeep(p) /\ Changes(p)
  BY CommandOthers DEF Empties, Fills
<1>2. p \notin stale
  BY <1>1 DEF Changes, Doomed
<1>3. ASSUME NEW w \in Procs \ {p}, Writes(w) PROVE FALSE
  <2>1. w \in stale' /\ Writes(w)'
    BY <1>1, <1>3 DEF Changes, OthersKeep, Writes
  <2> QED
    BY <2>1 DEF Doomed
<1> QED
  BY <1>2, <1>3

LEMMA DoomedStep == ASSUME TypeOK, [Next]_vars, Doomed PROVE Doomed'
<1>1. ASSUME NEW p \in Procs, Command(p) PROVE Doomed'
  <2>1. OthersKeep(p) /\ (Reads(p) \/ GoesOn(p) \/ GivesUp(p) \/ Empties(p) \/ Fills(p))
    BY <1>1, TableEffects
  <2>2. CASE spoilt
    BY <2>1, <2>2 DEF Reads, GoesOn, GivesUp, Empties, Fills, Changes, Doomed
  <2>3. CASE Writes(p) /\ p \in stale
    BY <2>1, <2>3 DEF Reads, GoesOn, GivesUp, Empties, Fills, Changes, Doomed, Writes
  <2>4. ASSUME NEW w \in Procs \ {p}, Writes(w), w \in stale PROVE Doomed'
    <3>1. Writes(w)' /\ pc[w] # "idle"
      BY <2>1, <2>4 DEF OthersKeep, Writes
    <3>2. w \in stale'
      BY <2>1, <2>4, <3>1 DEF Reads, GoesOn, GivesUp, Empties, Fills, Changes
    <3> QED
      BY <3>1, <3>2 DEF Doomed
  <2> QED
    BY <2>2, <2>3, <2>4 DEF Doomed
<1>2. ASSUME UNCHANGED <<pc, stale, spoilt>> PROVE Doomed'
  BY <1>2 DEF Doomed, Writes
<1> QED
  BY <1>1, <1>2 DEF Next, HandlerEnds, StrangerBegins, StrangerEnds, vars

\* An entry that the emptying command does not take out goes to its copy, and
\* from there to the file.
LEMMA ListsStep ==
  ASSUME TypeOK, Found, Numbers, Copies, [Next]_vars, ~Doomed', NEW x \in Used, Lists(x)
  PROVE  Lists(x)'
<1>1. ASSUME NEW p \in Procs, Command(p), Reads(p) \/ GoesOn(p) \/ GivesUp(p) PROVE Lists(x)'
  <2>1. mtab' = mtab /\ ~Writes(p) /\ ~Writes(p)'
    BY <1>1 DEF Reads, GoesOn, GivesUp, Writes
  <2>2. \A w \in Procs : (Writes(w)' <=> Writes(w)) /\ (Writes(w) => mem'[w] = mem[w])
    BY <1>1, <2>1, CommandOthers DEF OthersKeep, Writes
  <2> QED
    BY <2>1, <2>2 DEF Lists, Listed
<1>2. ASSUME NEW p \in Procs, Command(p), Empties(p) PROVE Lists(x)'
  <2>1. p \notin stale /\ \A w \in Procs : ~Writes(w)
    BY <1>2, Alone DEF Empties
  <2>2. mem[p] = Slots(mtab) /\ Writes(p)'
    BY <1>2, <2>1 DEF Copies, Current, Empties, Writes
  <2>3. PICK i \in 1..NMOUNT : mem[p][i].pid = x
    BY <2>1, <2>2 DEF Lists, Listed
  <2>4. mem'[p][i].pid = x
    <3>1. mem[p] \in Tables /\ x \in Pids
      BY DEF TypeOK, Tables
    <3>2. CASE EnterCreat(p)
      <4>1. mem'[p] = [mem[p] EXCEPT ![Min(FreeSlots(p))] = Entry(p)] /\ FreeSlots(p) # {}
        BY <3>2 DEF EnterCreat, TypeOK
      <4>2. mem[p][Min(FreeSlots(p))] = Free
        BY <4>1, FreeSlot
      <4>3. Free.pid # x
        BY <3>1, MountAssumption DEF Free
      <4> QED
        BY <2>3, <3>1, <4>1, <4>2, <4>3 DEF Tables
    <3>3. CASE ClearCreat(p)
      <4>1. mem'[p] = [mem[p] EXCEPT ![Slot(p)] = Free] /\ pc[p] = "clear"
        BY <3>3 DEF ClearCreat, At, TypeOK
      <4>2. mem[p][Slot(p)].pid # x
        BY <4>1 DEF Numbers, Number
      <4> QED
        BY <2>3, <3>1, <4>1, <4>2 DEF Tables
    <3> QED
      BY <1>2, <3>2, <3>3, EmptiesAre
  <2> QED
    BY <2>2, <2>4 DEF Lists, Listed
<1>3. ASSUME NEW p \in Procs, Command(p), Fills(p) PROVE Lists(x)'
  <2>1. p \notin stale /\ Writes(p) /\ \A w \in Procs \ {p} : ~Writes(w)
    BY <1>3, Alone DEF Fills
  <2>2. mtab = <<>> /\ x \in Listed(mem[p])
    BY <2>1 DEF Copies, Current, Writes, Lists
  <2>3. mem[p] \in Tables /\ mtab \in Seq(Slot2) /\ Len(mtab) <= NMOUNT
    BY DEF TypeOK, Tables
  <2>4. Slots(mtab)' = mem[p]
    <3>1. Slots(Over(mtab, Written(mem[p]))) = mem[p]
      BY <2>2, <2>3, WrittenType
    <3>2. mtab' = Over(mtab, Written(mem[p]))
      BY <1>3 DEF Fills
    <3> QED
      BY <3>1, <3>2
  <2>5. \A w \in Procs : ~Writes(w)'
    BY <1>3, <2>1, CommandOthers DEF OthersKeep, Writes, Fills
  <2> QED
    BY <2>2, <2>4, <2>5 DEF Lists, Listed
<1>4. ASSUME UNCHANGED <<mtab, pc, mem>> PROVE Lists(x)'
  BY <1>4 DEF Lists, Listed, Writes
<1> QED
  BY <1>1, <1>2, <1>3, <1>4, TableEffects DEF Next, HandlerEnds, StrangerBegins, StrangerEnds, vars

LEMMA CompleteStep ==
  ASSUME TypeOK, Found, Numbers, Copies, Complete, [Next]_vars
  PROVE  Complete'
<1> SUFFICES ASSUME ~Doomed', NEW x \in Orphans' PROVE Lists(x)'
  BY DEF Complete
<1>1. ~Doomed
  BY DoomedStep
<1>2. CASE x \in Orphans
  BY <1>1, <1>2, ListsStep DEF Complete, Orphans, Handlers
<1>3. ASSUME NEW p \in Procs, EnterCreat(p), x = pid[p] PROVE Lists(x)'
  <2>1. mem'[p] = [mem[p] EXCEPT ![Min(FreeSlots(p))] = Entry(p)] /\ FreeSlots(p) # {} /\ Writes(p)'
    BY <1>3 DEF EnterCreat, Goes, TypeOK, Writes
  <2>2. Min(FreeSlots(p)) \in 1..NMOUNT
    BY <2>1, FreeSlot
  <2>3. mem'[p][Min(FreeSlots(p))].pid = x
    <3>1. mem[p] \in Tables
      BY DEF TypeOK, Tables
    <3>2. Entry(p).pid = x
      BY <1>3 DEF Entry
    <3> QED
      BY <2>1, <2>2, <3>1, <3>2 DEF Tables
  <2> QED
    BY <2>1, <2>2, <2>3 DEF Lists, Listed
<1> QED
  BY <1>2, <1>3, OrphansStep

-----------------------------------------------------------------------------
(* The theorems *)

\* The inductive invariant.
Inv == TypeOK /\ Found /\ Numbers /\ Copies /\ Truth /\ Entering /\ Complete

LEMMA InvInit == Init => Inv
<1> SUFFICES ASSUME Init PROVE Inv
  OBVIOUS
<1>1. Slots(<<>>) \in Tables /\ mtab = <<>>
  BY SlotsNone DEF Init
<1>2. Used = {} /\ outside = {} /\ stale = {} /\ spoilt = FALSE
  BY DEF Init, Used
<1>3. \A p \in Procs : pc[p] = "idle" /\ dev[p] = "" /\ pid[p] = 0 /\ mem[p] = Slots(<<>>)
  BY DEF Init
<1>4. TypeOK
  <2>1. <<>> \in Seq(Slot2)
    OBVIOUS
  <2>a. Len(<<>>) = 0
    OBVIOUS
  <2>b. NMOUNT \in Nat
    BY MountAssumption
  <2>2. mtab \in Seq(Slot2) /\ Len(mtab) <= NMOUNT
    BY <1>1, <2>1, <2>a, <2>b
  <2>3. pc \in [Procs -> {"idle", "fork", "wait", "enter", "kill", "clear", "write", "rewrite"}] /\ dev \in [Procs -> Devs \cup {""}]
    BY DEF Init
  <2>4. mem \in [Procs -> [1..NMOUNT -> Slot2]] /\ pid \in [Procs -> Pids \cup {0}]
    BY <1>1 DEF Init, Tables
  <2> QED
    BY <1>2, <2>2, <2>3, <2>4 DEF TypeOK
<1>5. Found /\ Numbers /\ Copies
  BY <1>2, <1>3 DEF Found, Knows, Numbers, Number, Starts, Copies, Current
<1>6. Truth
  BY <1>1, <1>3, <1>5, GoodEmpty DEF Truth, Read, Current
<1>7. Entering /\ Complete
  BY <1>2, <1>3 DEF Entering, Complete, Orphans, Handlers
<1> QED
  BY <1>4, <1>5, <1>6, <1>7 DEF Inv

LEMMA InvNext == Inv /\ [Next]_vars => Inv'
<1> SUFFICES ASSUME Inv, [Next]_vars PROVE Inv'
  OBVIOUS
<1>1. TypeOK /\ Found /\ Numbers /\ Copies /\ Truth /\ Entering /\ Complete
  BY DEF Inv
<1>2. TypeOK' /\ Found' /\ Numbers' /\ Copies'
  BY <1>1, FoundStep, TypeStep, NumbersStep, CopiesStep
<1>3. Truth' /\ Entering' /\ Complete'
  BY <1>1, <1>2, TruthStep, EnteringStep, CompleteStep
<1> QED
  BY <1>2, <1>3 DEF Inv

LEMMA InvHolds == Spec => []Inv
  BY InvInit, InvNext, PTL DEF Spec

\* The types of the table, of the commands and of the numbers.
THEOREM MountTypeTheorem == Spec => []TypeOK
<1>1. Inv => TypeOK
  BY DEF Inv
<1> QED
  BY <1>1, InvHolds, PTL

\* The table is the truth between two commands, until one writes an old copy.
THEOREM TableTrueTheorem == Spec => []TableTrue
<1>1. Inv => TableTrue
  <2> SUFFICES ASSUME Inv, ~spoilt, \A p \in Procs : pc[p] \notin {"clear", "write", "rewrite"}
               PROVE  /\ Known \ outside = Handlers \ (outside \cup Waiting)
                      /\ \A i \in 1..NMOUNT : LET e == Slots(mtab)[i] IN e.pid \in Handlers \ outside => owner[e.pid] = e.spec
                      /\ \A i, j \in 1..NMOUNT : Slots(mtab)[i].pid = Slots(mtab)[j].pid /\ i # j => Slots(mtab)[i] = Free
    BY DEF TableTrue
  <2>1. PICK T \in Tables : T = Slots(mtab) /\ Good(T)
    BY SlotsType DEF Inv, TypeOK, Truth, Read
  <2>2. Killed = {} /\ \A p \in Procs : ~Writes(p)
    BY DEF Killed, Writes
  <2>3. \A e \in Entries(T) : e.pid \notin outside => e.pid \in Used /\ owner[e.pid] = e.spec /\ e.spec \in Devs
    BY <2>1, <2>2, GoodEntries DEF Ok
  <2>4. \A i \in 1..NMOUNT : T[i].pid # 0 => T[i] \in Entries(T)
    <3>1. Free.pid = 0
      BY DEF Free
    <3> QED
      BY <2>1, <3>1, EntryType
  <2>5. ASSUME NEW y \in Known \ outside PROVE y \in Handlers \ (outside \cup Waiting)
    <3>1. PICK i \in 1..NMOUNT : T[i].pid = y /\ y # 0
      BY <2>1, <2>5 DEF Known
    <3>2. y \in Handlers
      BY <2>3, <2>4, <2>5, <3>1 DEF Handlers
    <3>3. y \notin Waiting
      BY <2>1, <3>1 DEF Good, Listed, Starts, Waiting
    <3> QED
      BY <2>5, <3>2, <3>3
  <2>6. ASSUME NEW y \in Handlers \ (outside \cup Waiting) PROVE y \in Known \ outside
    <3>1. Lists(y)
      BY <2>2, <2>6 DEF Inv, Complete, Doomed, Orphans
    <3>2. y \in Listed(Slots(mtab)) /\ y # 0
      BY <2>2, <2>6, <3>1, MountAssumption DEF Lists, Inv, TypeOK, Handlers
    <3> QED
      BY <2>6, <3>2 DEF Listed, Known
  <2>7. \A i \in 1..NMOUNT : T[i].pid \in Handlers \ outside => owner[T[i].pid] = T[i].spec
    <3>1. 0 \notin Handlers
      BY MountAssumption DEF Inv, TypeOK, Handlers
    <3> QED
      BY <2>3, <2>4, <3>1
  <2>8. \A i, j \in 1..NMOUNT : T[i].pid = T[j].pid /\ i # j => T[i] = Free
    BY <2>1 DEF Good, Distinct
  <2> QED
    BY <2>1, <2>5, <2>6, <2>7, <2>8
<1> QED
  BY <1>1, InvHolds, PTL

\* umount signals the handler of its device or nobody, as long as its copy is
\* the newest and nobody has written an old one.
THEOREM KillsOwnTheorem == Spec => KillsOwn
<1> DEFINE A == \A p \in Procs :
      pc[p] = "kill" /\ pc'[p] = "clear" /\ ~spoilt /\ p \notin stale /\ pid'[p] \in Used \ outside
      => owner[pid'[p]] = dev[p]
<1>1. Inv /\ [Next]_vars => A
  <2> SUFFICES ASSUME Inv, [Next]_vars, NEW p \in Procs, pc[p] = "kill", pc'[p] = "clear", ~spoilt,
                      p \notin stale, pid'[p] \in Used \ outside
               PROVE  owner[pid'[p]] = dev[p]
    OBVIOUS
  <2>0. TypeOK /\ Found /\ Numbers /\ Truth
    BY DEF Inv
  <2>1. Command(p)
    BY <2>0, CommandOthers DEF Next, OthersKeep, HandlerEnds, StrangerBegins, StrangerEnds, vars
  <2>2. Kill(p)
    BY <2>0, <2>1 DEF Command, Mnt, Unmnt, ReadTable, ForkHandler, ForkFails, NotMounted, Clock, NoRoom, EnterCreat,
       CannotCreat, ClearCreat, WriteTable, At
  <2>3. pid'[p] = mem[p][Slot(p)].pid
    BY <2>0, <2>2 DEF Kill, TypeOK
  <2>4. Good(mem[p])
    BY <2>0 DEF Truth, Read, Current
  <2>5. Slot(p) \in 1..NMOUNT /\ mem[p][Slot(p)].spec = dev[p] /\ mem[p][Slot(p)] # Free
    BY <2>0, FoundSlot
  <2>6. Ok(pid'[p], dev[p])
    BY <2>3, <2>4, <2>5 DEF Good
  <2>7. pid'[p] \notin Killed
    BY <2>0 DEF Numbers, Number, Killed
  <2> QED
    BY <2>6, <2>7 DEF Ok
<1>2. Spec => [][A]_vars
  <2> HIDE DEF A
  <2> QED
    BY <1>1, InvHolds, PTL DEF Spec
<1> QED
  BY <1>2 DEF KillsOwn
=============================================================================

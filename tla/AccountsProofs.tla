--------------------------- MODULE AccountsProofs ---------------------------
(***************************************************************************)
(* The account files, for any number of commands, users, files and failing *)
(* calls: the types; and, for commands one at a time, that no user is lost *)
(* or given the user id of another, and that a step takes away what it may.*)
(***************************************************************************)
EXTENDS Accounts, FiniteSetTheorems, TLAPS

-----------------------------------------------------------------------------
(* Types *)

PasswdPCs == {"rlock", "tmp", "linkbak", "unlink", "stat", "rglink", "creat", "write",
              "restore", "rmtmp", "unlock", "access", "alock", "append", "aunlock"}
AdminPCs == {"ptmp", "pcopy", "punlink", "plink", "prmtmp",
             "gtmp", "gcopy", "gunlink", "glink", "grmtmp"}

\* Which command has which statements.
Role(p, l) ==
    /\ l \in PasswdPCs => Cmd[p] = "passwd"
    /\ l \in {"uid", "mkdir"} => Cmd[p] = "mkuser"
    /\ l \in AdminPCs => Cmd[p] \in {"mkuser", "rmuser"}
    /\ l = "deldir" => Cmd[p] = "rmuser"
Roles == \A p \in Procs : Role(p, pc[p])

TypeInv == TypeOK /\ Roles

LEMMA NamesAre ==
  /\ "passwd" \in Paths /\ "passwd.bak" \in Paths /\ "passwd.tmp" \in Paths
  /\ "group" \in Paths /\ "group.tmp" \in Paths
  /\ \A p \in Procs : p \in Paths /\ p \notin Names
  BY AccountsAssumption DEF AccountsAssumption, Paths, Names

\* An upper bound on the inodes that are linked or open.
LEMMA ImageBound ==
  ASSUME NEW S, IsFiniteSet(S), NEW T, NEW f \in [S -> T]
  PROVE  IsFiniteSet({f[x] : x \in S}) /\ Cardinality({f[x] : x \in S}) <= Cardinality(S)
<1> DEFINE R == {f[x] : x \in S}
<1>1. f \in [S -> R]
  OBVIOUS
<1>2. f \in Surjection(S, R)
  BY <1>1 DEF Surjection
<1> QED
  BY <1>2, FS_Surjection

LEMMA PathsFinite ==
  IsFiniteSet(Paths) /\ Cardinality(Paths) \in Nat \ {0} /\ Cardinality(Procs) \in Nat /\ Cardinality(Inodes) \in Nat
<1>1. IsFiniteSet(Names)
  <2>1. IsFiniteSet({"passwd"})
    BY FS_Singleton
  <2>2. IsFiniteSet({"passwd"} \cup {"passwd.bak"})
    BY <2>1, FS_AddElement
  <2>3. IsFiniteSet(({"passwd"} \cup {"passwd.bak"}) \cup {"passwd.tmp"})
    BY <2>2, FS_AddElement
  <2>4. IsFiniteSet((({"passwd"} \cup {"passwd.bak"}) \cup {"passwd.tmp"}) \cup {"group"})
    BY <2>3, FS_AddElement
  <2>5. IsFiniteSet(((({"passwd"} \cup {"passwd.bak"}) \cup {"passwd.tmp"}) \cup {"group"}) \cup {"group.tmp"})
    BY <2>4, FS_AddElement
  <2>6. Names = ((({"passwd"} \cup {"passwd.bak"}) \cup {"passwd.tmp"}) \cup {"group"}) \cup {"group.tmp"}
    BY DEF Names
  <2> QED
    BY <2>5, <2>6
<1>2. IsFiniteSet(Procs) /\ IsFiniteSet(Inodes)
  BY AccountsAssumption DEF AccountsAssumption
<1>3. IsFiniteSet(Paths)
  BY <1>1, <1>2, FS_Union DEF Paths
<1>4. Paths # {}
  BY NamesAre
<1>5. Cardinality(Paths) \in Nat /\ Cardinality(Paths) # 0
  BY <1>3, <1>4, FS_CardinalityType, FS_EmptySet
<1> QED
  BY <1>2, <1>3, <1>5, FS_CardinalityType

\* creat always finds an inode.
LEMMA SomeFree ==
  ASSUME TypeOK
  PROVE  \E i \in Inodes : Free(i)
<1> DEFINE D == {dir[x] : x \in Paths}
           F == {from[p] : p \in Procs}
           T == {to[p] : p \in Procs}
           I == Cardinality(Inodes)
           C == Cardinality(Paths)
           P == Cardinality(Procs)
<1>0. IsFiniteSet(Procs) /\ IsFiniteSet(Inodes) /\ I > C + 2 * P
  BY AccountsAssumption DEF AccountsAssumption
<1> DEFINE J == Inodes \cup {NoFile}
<1>t. dir \in [Paths -> J] /\ from \in [Procs -> J] /\ to \in [Procs -> J]
  BY DEF TypeOK
<1> HIDE DEF J
<1>1. IsFiniteSet(D) /\ Cardinality(D) <= C
  BY <1>t, PathsFinite, ImageBound
<1>2. IsFiniteSet(F) /\ Cardinality(F) <= P
  BY <1>t, <1>0, ImageBound
<1>3. IsFiniteSet(T) /\ Cardinality(T) <= P
  BY <1>t, <1>0, ImageBound
<1> HIDE DEF D, F, T
<1>4. IsFiniteSet(F \cup T) /\ Cardinality(F \cup T) <= 2 * P
  <2>1. IsFiniteSet(F \cap T) /\ IsFiniteSet(F \cup T)
    BY <1>2, <1>3, FS_Subset, FS_Union
  <2>2. Cardinality(F \cup T) = Cardinality(F) + Cardinality(T) - Cardinality(F \cap T)
    BY <1>2, <1>3, FS_Union
  <2>3. Cardinality(F) \in Nat /\ Cardinality(T) \in Nat /\ Cardinality(F \cap T) \in Nat /\ P \in Nat
    BY <1>2, <1>3, <2>1, FS_CardinalityType, PathsFinite
  <2> QED
    BY <1>2, <1>3, <2>1, <2>2, <2>3
<1>5. IsFiniteSet(D \cup (F \cup T)) /\ Cardinality(D \cup (F \cup T)) <= C + 2 * P
  <2>1. IsFiniteSet(D \cap (F \cup T)) /\ IsFiniteSet(D \cup (F \cup T))
    BY <1>1, <1>4, FS_Subset, FS_Union
  <2>2. Cardinality(D \cup (F \cup T)) = Cardinality(D) + Cardinality(F \cup T) - Cardinality(D \cap (F \cup T))
    BY <1>1, <1>4, FS_Union
  <2>3. Cardinality(D) \in Nat /\ Cardinality(F \cup T) \in Nat /\ Cardinality(D \cap (F \cup T)) \in Nat
        /\ P \in Nat /\ C \in Nat
    BY <1>1, <1>4, <2>1, FS_CardinalityType, PathsFinite
  <2> QED
    BY <1>1, <1>4, <2>1, <2>2, <2>3
<1>6. \E i \in Inodes : i \notin D \cup (F \cup T)
  <2> SUFFICES ASSUME Inodes \subseteq D \cup (F \cup T) PROVE FALSE
    OBVIOUS
  <2>1. I <= Cardinality(D \cup (F \cup T))
    BY <1>5, FS_Subset
  <2>2. Cardinality(D \cup (F \cup T)) \in Nat /\ P \in Nat /\ C \in Nat /\ I \in Nat
    BY <1>5, FS_CardinalityType, PathsFinite
  <2> QED
    BY <1>0, <1>5, <2>1, <2>2
<1> QED
  BY <1>6 DEF Free, D, F, T

LEMMA TargetType ==
  ASSUME TypeOK, NEW x \in Paths
  PROVE  /\ Target(x) \in Inodes
         /\ dir[x] = NoFile => Free(Target(x))
         /\ dir[x] # NoFile => Target(x) = dir[x]
<1>1. dir[x] = NoFile => Target(x) \in Inodes /\ Free(Target(x))
  BY SomeFree DEF Target
<1>2. dir[x] # NoFile => Target(x) = dir[x]
  BY DEF Target
<1> QED
  BY <1>1, <1>2 DEF TypeOK

-----------------------------------------------------------------------------
(* What a step does to the files and to the command that makes it *)

There(x) == dir[x] # NoFile
Same(x, y) == There(x) /\ dir[x] = dir[y]

FilesType == dir \in [Paths -> Inodes \cup {NoFile}] /\ data \in [Inodes -> SUBSET Line]

Except(x) == \A y \in Paths \ {x} : dir'[y] = dir[y] /\ Lines(y)' = Lines(y)
Still == \A y \in Paths : dir'[y] = dir[y] /\ Lines(y)' = Lines(y)
Removed(x) == dir'[x] = NoFile /\ Except(x)
Linked(x, y) == dir'[y] = dir[x] /\ Lines(y)' = Lines(x) /\ Except(y)
Made(x, ls) ==
    /\ dir'[x] # NoFile /\ Lines(x)' = ls /\ Except(x)
    /\ \A y \in Paths \ {x} : dir'[y] # dir'[x]
Rewritten(x, ls) ==
    /\ There(x)
    /\ \A y \in Paths : dir'[y] = dir[y] /\ Lines(y)' = IF dir[y] = dir[x] THEN ls ELSE Lines(y)

LEMMA LinesType == ASSUME FilesType, NEW x \in Paths PROVE Lines(x) \subseteq Line
  BY DEF FilesType, Lines

LEMMA StillIs ==
  ASSUME FilesType, UNCHANGED <<dir, data>>
  PROVE  Still /\ FilesType'
  BY DEF Still, Lines, FilesType

LEMMA UnlinkIs ==
  ASSUME FilesType, NEW x \in Paths, Unlink(x)
  PROVE  Removed(x) /\ FilesType'
<1>1. dir' = [dir EXCEPT ![x] = NoFile] /\ data' = data
  BY DEF Unlink
<1>2. dir'[x] = NoFile /\ \A y \in Paths \ {x} : dir'[y] = dir[y]
  BY <1>1 DEF FilesType
<1> QED
  BY <1>1, <1>2 DEF FilesType, Removed, Except, Lines

LEMMA LinkIs ==
  ASSUME FilesType, NEW x \in Paths, NEW y \in Paths, Link(x, y)
  PROVE  Linked(x, y) /\ FilesType'
<1>1. dir' = [dir EXCEPT ![y] = dir[x]] /\ data' = data
  BY DEF Link
<1>2. dir'[y] = dir[x] /\ \A z \in Paths \ {y} : dir'[z] = dir[z]
  BY <1>1 DEF FilesType
<1> QED
  BY <1>1, <1>2 DEF FilesType, Linked, Except, Lines

LEMMA CreatIs ==
  ASSUME TypeOK, NEW x \in Paths, NEW ls \in SUBSET Line, Creat(x, ls)
  PROVE  /\ FilesType'
         /\ There(x) => Rewritten(x, ls)
         /\ ~There(x) => Made(x, ls)
         /\ dir'[x] = Target(x)
<1> DEFINE i == Target(x)
<1>1. i \in Inodes /\ (dir[x] = NoFile => Free(i)) /\ (dir[x] # NoFile => i = dir[x])
  BY TargetType
<1>2. dir' = [dir EXCEPT ![x] = i] /\ data' = [data EXCEPT ![i] = ls]
  BY DEF Creat
<1> HIDE DEF i
<1>3. FilesType
  BY DEF TypeOK, FilesType
<1>4. FilesType' /\ dir'[x] = i
  BY <1>1, <1>2, <1>3 DEF FilesType
<1>5. \A y \in Paths \ {x} : dir'[y] = dir[y]
  BY <1>2, <1>3 DEF FilesType
<1>6. data'[i] = ls /\ \A j \in Inodes \ {i} : data'[j] = data[j]
  BY <1>1, <1>2, <1>3 DEF FilesType
<1>7. NoFile \notin Inodes
  BY AccountsAssumption DEF AccountsAssumption
<1>8. ASSUME There(x) PROVE Rewritten(x, ls)
  <2>1. i = dir[x]
    BY <1>1, <1>8 DEF There
  <2>2. ASSUME NEW y \in Paths PROVE dir'[y] = dir[y] /\ Lines(y)' = IF dir[y] = dir[x] THEN ls ELSE Lines(y)
    <3>1. dir'[y] = dir[y]
      BY <1>4, <1>5, <2>1
    <3>2. CASE dir[y] = i
      BY <1>1, <1>6, <1>7, <2>1, <3>1, <3>2 DEF Lines
    <3>3. CASE dir[y] # i
      BY <1>3, <1>6, <2>1, <3>1, <3>3 DEF Lines, FilesType
    <3> QED
      BY <3>1, <3>2, <3>3
  <2> QED
    BY <1>8, <2>2 DEF Rewritten
<1>9. ASSUME ~There(x) PROVE Made(x, ls)
  <2>1. Free(i)
    BY <1>1, <1>9 DEF There
  <2>2. ASSUME NEW y \in Paths \ {x} PROVE dir'[y] = dir[y] /\ Lines(y)' = Lines(y) /\ dir'[y] # i
    BY <1>3, <1>5, <1>6, <2>1 DEF Lines, FilesType, Free
  <2>3. Lines(x)' = ls /\ dir'[x] # NoFile
    BY <1>1, <1>4, <1>6, <1>7 DEF Lines
  <2> QED
    BY <1>4, <2>2, <2>3 DEF Made, Except
<1> QED
  BY <1>4, <1>8, <1>9 DEF i

\* Writing to the inode that a path leads to.
LEMMA WriteIs ==
  ASSUME FilesType, NEW x \in Paths, There(x), NEW ls \in SUBSET Line,
         dir' = dir, data' = [data EXCEPT ![dir[x]] = ls]
  PROVE  Rewritten(x, ls) /\ FilesType'
<1>1. dir[x] \in Inodes /\ NoFile \notin Inodes
  BY AccountsAssumption DEF AccountsAssumption, FilesType, There
<1>2. data'[dir[x]] = ls /\ \A j \in Inodes \ {dir[x]} : data'[j] = data[j]
  BY <1>1 DEF FilesType
<1>3. ASSUME NEW y \in Paths PROVE Lines(y)' = IF dir[y] = dir[x] THEN ls ELSE Lines(y)
  BY <1>1, <1>2 DEF Lines, FilesType
<1> QED
  BY <1>1, <1>3 DEF Rewritten, FilesType

\* The command goes on, and the others stay where they are.
Moves(p, l) ==
    /\ pc' \in [Procs -> PCs] /\ pc'[p] = l
    /\ \A q \in Procs \ {p} : pc'[q] = pc[q]

LEMMA GotoIs ==
  ASSUME TypeOK, NEW p \in Procs, NEW l \in PCs, Goto(p, l)
  PROVE  Moves(p, l)
  BY DEF TypeOK, Goto, Moves

Alone(p) == \A q \in Procs \ {p} : line'[q] = line[q] /\ from'[q] = from[q] /\ to'[q] = to[q] /\ seen'[q] = seen[q]

\* What is to be shown of a step for the types.
Typed(p, l) ==
    /\ onedev' = onedev /\ lock' \in BOOLEAN
    /\ FilesType'
    /\ line' \in [Procs -> Line \cup {NoLine}] /\ seen' \in [Procs -> SUBSET Line]
    /\ from' \in [Procs -> Inodes \cup {NoFile}]
    /\ to' \in [Procs -> Inodes \cup {NoFile}]
    /\ home' \subseteq Users
    /\ faults' \in 0..MaxFaults /\ crashes' \in 0..MaxCrashes
    /\ l \in {"pcopy", "gcopy"} => to'[p] # NoFile /\ from'[p] # NoFile
    /\ l = "write" => to'[p] # NoFile
    /\ l \notin {"idle", "done", "failed", "dead", "uid"} /\ Cmd[p] # "rmuser" => line'[p] # NoLine

LEMMA TypedIs ==
  ASSUME TypeInv, NEW p \in Procs, NEW l \in PCs, Moves(p, l), Role(p, l), Typed(p, l),
         \A q \in Procs \ {p} : line'[q] = line[q] /\ from'[q] = from[q] /\ to'[q] = to[q]
  PROVE  TypeInv'
<1>1. Roles'
  <2>1. ASSUME NEW q \in Procs PROVE Role(q, pc'[q])
    BY <2>1 DEF Moves, TypeInv, Roles
  <2> QED
    BY <2>1 DEF Roles, Role
<1>2. \A q \in Procs : pc'[q] \in {"pcopy", "gcopy"} => to'[q] # NoFile /\ from'[q] # NoFile
  BY DEF Moves, Typed, TypeInv, TypeOK
<1>3. \A q \in Procs : pc'[q] = "write" => to'[q] # NoFile
  BY DEF Moves, Typed, TypeInv, TypeOK, At
<1>4. \A q \in Procs : Running(q)' /\ pc'[q] # "uid" /\ Cmd[q] # "rmuser" => line'[q] # NoLine
  BY DEF Moves, Typed, TypeInv, TypeOK, Running
<1>5. TypeOK'
  BY <1>2, <1>3, <1>4 DEF Moves, Typed, TypeInv, TypeOK, FilesType, At
<1> QED
  BY <1>1, <1>5 DEF TypeInv

LEMMA FailIs ==
  ASSUME TypeOK, NEW k, Fail(k)
  PROVE  faults' = faults + 1 /\ faults' \in 0..MaxFaults /\ faults \in Nat /\ k \in FaultKinds /\ faults < MaxFaults
  BY AccountsAssumption DEF AccountsAssumption, TypeOK, Fail

-----------------------------------------------------------------------------
(* The types, action by action *)

Steps(p) == TypeInv' /\ Moves(p, pc'[p]) /\ Alone(p) /\ onedev' = onedev

LEMMA Stepped ==
  ASSUME TypeInv, NEW p \in Procs, NEW l \in PCs, Moves(p, l), Role(p, l), Typed(p, l), Alone(p)
  PROVE  Steps(p)
<1>1. TypeInv'
  BY TypedIs DEF Alone
<1>2. Moves(p, pc'[p])
  BY DEF Moves
<1>3. onedev' = onedev
  BY DEF Typed
<1> QED
  BY <1>1, <1>2, <1>3 DEF Steps

\* A step that leaves the descriptors and the line of the command alone.
LEMMA SteppedPlain ==
  ASSUME TypeInv, NEW p \in Procs, NEW l \in PCs, Goto(p, l), Role(p, l),
         l \notin {"pcopy", "gcopy", "write"}, pc[p] \notin {"idle", "uid", "done", "failed", "dead"},
         UNCHANGED <<onedev, line, from, to, seen, crashes>>, lock' \in BOOLEAN, FilesType',
         home' \subseteq Users, faults' \in 0..MaxFaults
  PROVE  Steps(p)
<1>1. Moves(p, l)
  BY GotoIs DEF TypeInv
<1>2. Cmd[p] # "rmuser" => line[p] # NoLine
  BY DEF TypeInv, TypeOK, Running
<1>3. Typed(p, l)
  BY <1>2 DEF Typed, TypeInv, TypeOK
<1>4. Alone(p)
  BY DEF Alone
<1> QED
  BY <1>1, <1>3, <1>4, Stepped

LEMMA PasswdStartTyped ==
  ASSUME TypeInv, NEW p \in Procs, PasswdStart(p)
  PROVE  Steps(p)
<1>1. TypeOK /\ FilesType
  BY DEF TypeInv, TypeOK, FilesType
<1>2. PICK l \in {"rlock", "failed"} : Goto(p, l) /\ (l = "failed" => line' = line)
        /\ (l = "rlock" => \E m \in Lines("passwd") : m.user = User[p] /\ line' = [line EXCEPT ![p] = [m EXCEPT !.pw = NewPw[p]]])
  BY DEF PasswdStart
<1>3. Moves(p, l) /\ Role(p, l) /\ l \in PCs
  <2>1. l \in PCs
    BY DEF PCs
  <2>2. Role(p, l)
    BY DEF PasswdStart, Role, PasswdPCs, AdminPCs
  <2> QED
    BY <1>1, <1>2, <2>1, <2>2, GotoIs
<1>4. line' \in [Procs -> Line \cup {NoLine}] /\ (\A q \in Procs \ {p} : line'[q] = line[q])
      /\ (l = "rlock" => line'[p] # NoLine)
  <2>1. CASE l = "failed"
    BY <1>1, <1>2, <2>1 DEF TypeOK
  <2>2. CASE l = "rlock"
    <3>1. PICK m \in Lines("passwd") : line' = [line EXCEPT ![p] = [m EXCEPT !.pw = NewPw[p]]]
      BY <1>2, <2>2
    <3>2. m \in Line
      BY <1>1, NamesAre, LinesType
    <3>3. NewPw[p] \in Pws
      BY DEF Pws
    <3>4. [m EXCEPT !.pw = NewPw[p]] \in Line
      BY <3>2, <3>3 DEF Line
    <3>5. NoLine \notin Line
      BY AccountsAssumption DEF AccountsAssumption
    <3> QED
      BY <1>1, <2>2, <3>1, <3>4, <3>5 DEF TypeOK
  <2> QED
    BY <2>1, <2>2
<1>5. UNCHANGED <<onedev, dir, data, from, to, lock, home, faults, crashes>>
      /\ \A q \in Procs \ {p} : seen'[q] = seen[q]
  <2>1. UNCHANGED <<dir, data, from, to>> /\ UNCHANGED <<onedev, crashes>> /\ UNCHANGED <<lock, home, faults>>
    BY DEF PasswdStart, Begin, files, counts
  <2>2. seen' = [seen EXCEPT ![p] = Lines("passwd")]
    BY DEF PasswdStart, Begin
  <2> QED
    BY <2>1, <2>2
<1>s. seen' \in [Procs -> SUBSET Line]
  <2>1. seen' = [seen EXCEPT ![p] = Lines("passwd")] /\ Lines("passwd") \in SUBSET Line
    BY <1>1, NamesAre, LinesType DEF PasswdStart, Begin
  <2> QED
    BY <1>1, <2>1 DEF TypeOK
<1>6. Typed(p, l)
  BY <1>1, <1>2, <1>4, <1>5, <1>s, StillIs DEF Typed, TypeOK
<1>7. Alone(p)
  BY <1>4, <1>5 DEF Alone
<1> QED
  BY <1>3, <1>6, <1>7, Stepped

LEMMA PasswdRole ==
  ASSUME TypeInv, NEW p \in Procs, pc[p] \in PasswdPCs, NEW l \in PasswdPCs \cup {"done", "failed"}
  PROVE  /\ Role(p, l) /\ l \in PCs /\ Cmd[p] = "passwd"
         /\ pc[p] \notin {"idle", "uid", "done", "failed", "dead"} /\ l \notin {"pcopy", "gcopy"}
<1>1. Cmd[p] = "passwd"
  BY DEF TypeInv, Roles, Role
<1> QED
  BY <1>1 DEF Role, PasswdPCs, AdminPCs, PCs

LEMMA AdminRole ==
  ASSUME TypeInv, NEW p \in Procs, pc[p] \in AdminPCs, NEW l \in AdminPCs \cup {"done", "failed"}
  PROVE  /\ Role(p, l) /\ l \in PCs /\ Cmd[p] \in {"mkuser", "rmuser"}
         /\ pc[p] \notin {"idle", "uid", "done", "failed", "dead"} /\ l # "write"
<1>1. Cmd[p] \in {"mkuser", "rmuser"}
  BY DEF TypeInv, Roles, Role
<1> QED
  BY <1>1 DEF Role, PasswdPCs, AdminPCs, PCs

LEMMA MakeLockTyped ==
  ASSUME TypeInv, NEW p \in Procs, MakeLock(p)
  PROVE  Steps(p)
<1>1. PICK l \in {"tmp", "append"} : Goto(p, l) /\ pc[p] \in {"rlock", "alock"}
  BY DEF MakeLock
<1>2. Role(p, l) /\ l \in PCs /\ pc[p] \notin {"idle", "uid", "done", "failed", "dead"}
  BY <1>1, PasswdRole DEF PasswdPCs
<1>3. UNCHANGED <<onedev, line, from, to, seen, crashes>> /\ UNCHANGED <<dir, data, home, faults>> /\ lock'
  BY DEF MakeLock, files, counts
<1>4. FilesType' /\ home' \subseteq Users /\ faults' \in 0..MaxFaults
  BY <1>3, StillIs DEF TypeInv, TypeOK, FilesType
<1> QED
  BY <1>1, <1>2, <1>3, <1>4, SteppedPlain

LEMMA FilterTyped ==
  ASSUME TypeInv, NEW p \in Procs, Filter(p)
  PROVE  Steps(p)
<1>0. TypeOK /\ FilesType /\ p \in Paths
  BY NamesAre DEF TypeInv, TypeOK, FilesType
<1>1. PICK l \in {"linkbak", "failed"} : Goto(p, l) /\ pc[p] = "tmp"
  BY DEF Filter, At
<1>2. Role(p, l) /\ l \in PCs /\ pc[p] \notin {"idle", "uid", "done", "failed", "dead"}
  BY <1>1, PasswdRole DEF PasswdPCs
<1>3. UNCHANGED <<onedev, line, from, to, seen, crashes>> /\ home' = home
  BY DEF Filter, counts
<1>4. FilesType'
  <2>1. {m \in Lines("passwd") : m.user # User[p]} \in SUBSET Line
    BY <1>0, NamesAre, LinesType
  <2>2. \A ls \in SUBSET Line : Creat(p, ls) => FilesType'
    BY <1>0, CreatIs
  <2>3. UNCHANGED <<dir, data>> => FilesType'
    BY <1>0, StillIs
  <2> QED
    BY <2>1, <2>2, <2>3 DEF Filter
<1>5. lock' \in BOOLEAN /\ home' \subseteq Users
  BY <1>0, <1>3 DEF Filter, TypeOK
<1>6. faults' \in 0..MaxFaults
  <2>1. NoFault \/ Fail("write") \/ Fail("creat")
    BY DEF Filter
  <2> QED
    BY <1>0, <2>1, FailIs DEF NoFault, TypeOK
<1> QED
  BY <1>1, <1>2, <1>3, <1>4, <1>5, <1>6, SteppedPlain

LEMMA LinkBakTyped ==
  ASSUME TypeInv, NEW p \in Procs, LinkBak(p)
  PROVE  Steps(p)
<1>0. TypeOK /\ FilesType
  BY DEF TypeInv, TypeOK, FilesType
<1>1. PICK l \in {"unlink", "stat"} : Goto(p, l) /\ pc[p] = "linkbak"
  BY DEF LinkBak, At
<1>2. Role(p, l) /\ l \in PCs /\ pc[p] \notin {"idle", "uid", "done", "failed", "dead"}
  BY <1>1, PasswdRole DEF PasswdPCs
<1>3. UNCHANGED <<onedev, line, from, to, seen, crashes>> /\ UNCHANGED <<lock, home, faults>>
  BY DEF LinkBak, counts
<1>4. FilesType'
  <2>1. Link("passwd", "passwd.bak") \/ UNCHANGED <<dir, data>>
    BY DEF LinkBak
  <2> QED
    BY <1>0, <2>1, LinkIs, StillIs, NamesAre
<1>5. lock' \in BOOLEAN /\ home' \subseteq Users /\ faults' \in 0..MaxFaults
  BY <1>0, <1>3 DEF TypeOK
<1> QED
  BY <1>1, <1>2, <1>3, <1>4, <1>5, SteppedPlain

LEMMA UnlinkPasswdTyped ==
  ASSUME TypeInv, NEW p \in Procs, UnlinkPasswd(p)
  PROVE  Steps(p)
<1>0. TypeOK /\ FilesType
  BY DEF TypeInv, TypeOK, FilesType
<1>1. Goto(p, "stat") /\ pc[p] = "unlink"
  BY DEF UnlinkPasswd, At
<1>2. Role(p, "stat") /\ "stat" \in PCs /\ pc[p] \notin {"idle", "uid", "done", "failed", "dead"}
  BY <1>1, PasswdRole DEF PasswdPCs
<1>3. UNCHANGED <<onedev, line, from, to, seen, crashes>> /\ UNCHANGED <<lock, home, faults>>
  BY DEF UnlinkPasswd, counts
<1>4. FilesType'
  BY <1>0, UnlinkIs, NamesAre DEF UnlinkPasswd
<1>5. lock' \in BOOLEAN /\ home' \subseteq Users /\ faults' \in 0..MaxFaults
  BY <1>0, <1>3 DEF TypeOK
<1> QED
  BY <1>1, <1>2, <1>3, <1>4, <1>5, SteppedPlain

LEMMA RgStatTyped ==
  ASSUME TypeInv, NEW p \in Procs, RgStat(p)
  PROVE  Steps(p)
<1>0. TypeOK /\ FilesType
  BY DEF TypeInv, TypeOK, FilesType
<1>1. Goto(p, "rglink") /\ pc[p] = "stat"
  BY DEF RgStat, At
<1>2. Role(p, "rglink") /\ "rglink" \in PCs /\ pc[p] \notin {"idle", "uid", "done", "failed", "dead"}
  BY <1>1, PasswdRole DEF PasswdPCs
<1>3. UNCHANGED <<onedev, line, from, to, seen, crashes>> /\ UNCHANGED <<lock, home, faults>>
  BY DEF RgStat, counts
<1>4. FilesType'
  <2>1. Unlink("passwd") \/ UNCHANGED <<dir, data>>
    BY DEF RgStat
  <2> QED
    BY <1>0, <2>1, UnlinkIs, StillIs, NamesAre
<1>5. lock' \in BOOLEAN /\ home' \subseteq Users /\ faults' \in 0..MaxFaults
  BY <1>0, <1>3 DEF TypeOK
<1> QED
  BY <1>1, <1>2, <1>3, <1>4, <1>5, SteppedPlain

LEMMA RgLinkTyped ==
  ASSUME TypeInv, NEW p \in Procs, RgLink(p)
  PROVE  Steps(p)
<1>0. TypeOK /\ FilesType
  BY DEF TypeInv, TypeOK, FilesType
<1>1. PICK l \in {"rmtmp", "creat"} : Goto(p, l) /\ pc[p] = "rglink"
  BY DEF RgLink, At
<1>2. Role(p, l) /\ l \in PCs /\ pc[p] \notin {"idle", "uid", "done", "failed", "dead"}
  BY <1>1, PasswdRole DEF PasswdPCs
<1>3. UNCHANGED <<onedev, line, from, to, seen, crashes>> /\ UNCHANGED <<lock, home>>
  BY DEF RgLink, counts
<1>4. FilesType'
  <2>1. Link(p, "passwd") \/ UNCHANGED <<dir, data>>
    BY DEF RgLink
  <2> QED
    BY <1>0, <2>1, LinkIs, StillIs, NamesAre
<1>5. lock' \in BOOLEAN /\ home' \subseteq Users
  BY <1>0, <1>3 DEF TypeOK
<1>6. faults' \in 0..MaxFaults
  <2>1. NoFault \/ Fail("link")
    BY DEF RgLink
  <2> QED
    BY <1>0, <2>1, FailIs DEF NoFault, TypeOK
<1> QED
  BY <1>1, <1>2, <1>3, <1>4, <1>5, <1>6, SteppedPlain

LEMMA CopyCreatTyped ==
  ASSUME TypeInv, NEW p \in Procs, CopyCreat(p)
  PROVE  Steps(p)
<1>0. TypeOK /\ FilesType
  BY DEF TypeInv, TypeOK, FilesType
<1>2. pc[p] = "creat" /\ Role(p, "write") /\ "write" \in PCs /\ Role(p, "restore") /\ "restore" \in PCs
      /\ pc[p] \notin {"idle", "uid", "done", "failed", "dead"}
  BY PasswdRole DEF PasswdPCs, CopyCreat, At
<1>3. UNCHANGED <<onedev, line, from, seen, crashes>> /\ UNCHANGED <<lock, home>>
  BY DEF CopyCreat, counts
<1>4. CASE Fail("copy") /\ Goto(p, "restore") /\ UNCHANGED <<dir, data, to>>
  <2>1. FilesType' /\ lock' \in BOOLEAN /\ home' \subseteq Users
    BY <1>0, <1>3, <1>4, StillIs DEF TypeOK
  <2>2. faults' \in 0..MaxFaults
    BY <1>0, <1>4, FailIs
  <2> QED
    BY <1>2, <1>3, <1>4, <2>1, <2>2, SteppedPlain
<1>5. CASE /\ Creat("passwd", {}) /\ Goto(p, "write") /\ NoFault
           /\ to' = [to EXCEPT ![p] = Target("passwd")]
  <2>1. FilesType'
    BY <1>0, <1>5, CreatIs, NamesAre
  <2>2. Target("passwd") \in Inodes /\ NoFile \notin Inodes
    BY <1>0, NamesAre, TargetType, AccountsAssumption DEF AccountsAssumption
  <2>3. to' \in [Procs -> Inodes \cup {NoFile}] /\ to'[p] # NoFile /\ \A q \in Procs \ {p} : to'[q] = to[q]
    BY <1>0, <1>5, <2>2 DEF TypeOK
  <2>4. Cmd[p] # "rmuser" => line[p] # NoLine
    BY <1>0, <1>2 DEF TypeOK, Running
  <2>5. Typed(p, "write")
    BY <1>0, <1>3, <1>5, <2>1, <2>3, <2>4 DEF Typed, TypeOK, NoFault
  <2>6. Alone(p)
    BY <1>3, <2>3 DEF Alone
  <2>7. Moves(p, "write")
    BY <1>0, <1>2, <1>5, GotoIs
  <2> QED
    BY <1>2, <2>5, <2>6, <2>7, Stepped
<1> QED
  BY <1>4, <1>5 DEF CopyCreat

LEMMA CopyWriteTyped ==
  ASSUME TypeInv, NEW p \in Procs, CopyWrite(p)
  PROVE  Steps(p)
<1>0. TypeOK /\ FilesType
  BY DEF TypeInv, TypeOK, FilesType
<1>1. PICK l \in {"rmtmp", "restore"} : Goto(p, l) /\ pc[p] = "write"
  BY DEF CopyWrite, At
<1>2. Role(p, l) /\ l \in PCs /\ pc[p] \notin {"idle", "uid", "done", "failed", "dead"}
  BY <1>1, PasswdRole DEF PasswdPCs
<1>3. UNCHANGED <<onedev, line, from, seen, crashes>> /\ UNCHANGED <<dir, lock, home>>
  BY DEF CopyWrite, counts
<1>4. FilesType'
  <2>1. Lines(p) \subseteq Line
    BY <1>0, NamesAre, LinesType
  <2>2. data' = [data EXCEPT ![to[p]] = Lines(p)] \/ data' = data
    BY DEF CopyWrite
  <2> QED
    BY <1>0, <1>3, <2>1, <2>2 DEF FilesType
<1>5. to' \in [Procs -> Inodes \cup {NoFile}] /\ \A q \in Procs \ {p} : to'[q] = to[q]
  BY <1>0 DEF CopyWrite, TypeOK
<1>6. Cmd[p] # "rmuser" => line[p] # NoLine
  BY <1>0, <1>2 DEF TypeOK, Running
<1>7. faults' \in 0..MaxFaults
  <2>1. NoFault \/ Fail("write")
    BY DEF CopyWrite
  <2> QED
    BY <1>0, <2>1, FailIs DEF NoFault, TypeOK
<1>8. Typed(p, l)
  BY <1>0, <1>1, <1>3, <1>4, <1>5, <1>6, <1>7 DEF Typed, TypeOK
<1>9. Alone(p)
  BY <1>3, <1>5 DEF Alone
<1> QED
  BY <1>0, <1>1, <1>2, <1>8, <1>9, GotoIs, Stepped

LEMMA RestoreTyped ==
  ASSUME TypeInv, NEW p \in Procs, Restore(p)
  PROVE  Steps(p)
<1>0. TypeOK /\ FilesType
  BY DEF TypeInv, TypeOK, FilesType
<1>1. Goto(p, "rmtmp") /\ pc[p] = "restore"
  BY DEF Restore, At
<1>2. Role(p, "rmtmp") /\ "rmtmp" \in PCs /\ pc[p] \notin {"idle", "uid", "done", "failed", "dead"}
  BY <1>1, PasswdRole DEF PasswdPCs
<1>3. UNCHANGED <<onedev, line, from, to, seen, crashes>> /\ UNCHANGED <<lock, home, faults>>
  BY DEF Restore, counts
<1>4. FilesType'
  <2>1. Link("passwd.bak", "passwd") \/ UNCHANGED <<dir, data>>
    BY DEF Restore
  <2> QED
    BY <1>0, <2>1, LinkIs, StillIs, NamesAre
<1>5. lock' \in BOOLEAN /\ home' \subseteq Users /\ faults' \in 0..MaxFaults
  BY <1>0, <1>3 DEF TypeOK
<1> QED
  BY <1>1, <1>2, <1>3, <1>4, <1>5, SteppedPlain

LEMMA RemoveTmpTyped ==
  ASSUME TypeInv, NEW p \in Procs, RemoveTmp(p)
  PROVE  Steps(p)
<1>0. TypeOK /\ FilesType
  BY DEF TypeInv, TypeOK, FilesType
<1>1. PICK l \in {"unlock", "failed"} : Goto(p, l) /\ pc[p] = "rmtmp"
  BY DEF RemoveTmp, At
<1>2. Role(p, l) /\ l \in PCs /\ Cmd[p] = "passwd" /\ pc[p] \notin {"idle", "uid", "done", "failed", "dead"}
  BY <1>1, PasswdRole DEF PasswdPCs
<1>3. UNCHANGED <<onedev, line, from, to, seen, crashes>> /\ home' = home
  BY DEF RemoveTmp, counts
<1>4. FilesType'
  <2>1. Unlink(p) \/ UNCHANGED <<dir, data>>
    BY DEF RemoveTmp
  <2> QED
    BY <1>0, <2>1, UnlinkIs, StillIs, NamesAre
<1>5. lock' \in BOOLEAN /\ home' \subseteq Users
  BY <1>0, <1>3 DEF RemoveTmp, TypeOK
<1>6. faults' \in 0..MaxFaults
  <2>1. NoFault \/ Fail("unlink")
    BY DEF RemoveTmp
  <2> QED
    BY <1>0, <2>1, FailIs DEF NoFault, TypeOK
<1> QED
  BY <1>1, <1>2, <1>3, <1>4, <1>5, <1>6, SteppedPlain

LEMMA RemoveLockTyped ==
  ASSUME TypeInv, NEW p \in Procs, RemoveLock(p)
  PROVE  Steps(p)
<1>1. PICK l \in {"access", "done"} : Goto(p, l) /\ pc[p] \in {"unlock", "aunlock"}
  BY DEF RemoveLock
<1>2. Role(p, l) /\ l \in PCs /\ pc[p] \notin {"idle", "uid", "done", "failed", "dead"}
  BY <1>1, PasswdRole DEF PasswdPCs
<1>3. UNCHANGED <<onedev, line, from, to, seen, crashes>> /\ UNCHANGED <<dir, data, home, faults>> /\ ~lock'
  BY DEF RemoveLock, files, counts
<1>4. FilesType' /\ home' \subseteq Users /\ faults' \in 0..MaxFaults /\ lock' \in BOOLEAN
  BY <1>3, StillIs DEF TypeInv, TypeOK, FilesType, RemoveLock
<1> QED
  BY <1>1, <1>2, <1>3, <1>4, SteppedPlain

LEMMA AccessTyped ==
  ASSUME TypeInv, NEW p \in Procs, Access(p)
  PROVE  Steps(p)
<1>0. TypeOK /\ FilesType
  BY DEF TypeInv, TypeOK, FilesType
<1>1. Goto(p, "alock") /\ pc[p] = "access"
  BY DEF Access, At
<1>2. Role(p, "alock") /\ "alock" \in PCs /\ pc[p] \notin {"idle", "uid", "done", "failed", "dead"}
  BY <1>1, PasswdRole DEF PasswdPCs
<1>3. UNCHANGED <<onedev, line, from, to, seen, crashes>> /\ UNCHANGED <<lock, home, faults>>
  BY DEF Access, counts
<1>4. FilesType'
  <2>1. Creat("passwd", {}) \/ UNCHANGED <<dir, data>>
    BY DEF Access
  <2> QED
    BY <1>0, <2>1, CreatIs, StillIs, NamesAre
<1>5. lock' \in BOOLEAN /\ home' \subseteq Users /\ faults' \in 0..MaxFaults
  BY <1>0, <1>3 DEF TypeOK
<1> QED
  BY <1>1, <1>2, <1>3, <1>4, <1>5, SteppedPlain

LEMMA AppendTyped ==
  ASSUME TypeInv, NEW p \in Procs, Append(p)
  PROVE  Steps(p)
<1>0. TypeOK /\ FilesType
  BY DEF TypeInv, TypeOK, FilesType
<1>1. PICK l \in {"aunlock", "failed"} : Goto(p, l) /\ pc[p] = "append"
  BY DEF Append, At
<1>2. Role(p, l) /\ l \in PCs /\ Cmd[p] = "passwd" /\ pc[p] \notin {"idle", "uid", "done", "failed", "dead"}
  BY <1>1, PasswdRole DEF PasswdPCs
<1>3. UNCHANGED <<onedev, line, from, to, seen, crashes>> /\ home' = home
  BY DEF Append, counts
<1>4. FilesType'
  <2>1. line[p] \in Line
    BY <1>0, <1>2 DEF TypeOK, Running
  <2>2. Lines("passwd") \cup {line[p]} \in SUBSET Line
    BY <1>0, <2>1, NamesAre, LinesType
  <2>3. Creat("passwd", Lines("passwd") \cup {line[p]}) \/ UNCHANGED <<dir, data>>
    BY DEF Append
  <2> QED
    BY <1>0, <2>2, <2>3, CreatIs, StillIs, NamesAre
<1>5. lock' \in BOOLEAN /\ home' \subseteq Users
  BY <1>0, <1>3 DEF Append, TypeOK
<1>6. faults' \in 0..MaxFaults
  <2>1. NoFault \/ Fail("append")
    BY DEF Append
  <2> QED
    BY <1>0, <2>1, FailIs DEF NoFault, TypeOK
<1> QED
  BY <1>1, <1>2, <1>3, <1>4, <1>5, <1>6, SteppedPlain

\* mkuser and rmuser begin: nothing but their place changes.
LEMMA AdminStartTyped ==
  ASSUME TypeInv, NEW p \in Procs, MkuserStart(p) \/ RmuserStart(p)
  PROVE  Steps(p)
<1>0. TypeOK /\ FilesType
  BY DEF TypeInv, TypeOK, FilesType
<1>1. PICK l \in {"failed", "uid", "ptmp"} : Goto(p, l) /\ (l = "uid" => Cmd[p] = "mkuser") /\ (l = "ptmp" => Cmd[p] = "rmuser")
  BY DEF MkuserStart, RmuserStart
<1>2. Role(p, l) /\ l \in PCs
  BY <1>1 DEF Role, PasswdPCs, AdminPCs, PCs
<1>3. UNCHANGED <<dir, data, from, to>> /\ UNCHANGED <<onedev, crashes>> /\ UNCHANGED <<lock, home, faults>> /\ line' = line
      /\ seen' = [seen EXCEPT ![p] = Lines("passwd")]
  BY DEF MkuserStart, RmuserStart, Begin, files, counts
<1>s. seen' \in [Procs -> SUBSET Line]
  BY <1>0, <1>3, NamesAre, LinesType DEF TypeOK
<1>4. Typed(p, l)
  BY <1>0, <1>1, <1>3, <1>s, StillIs DEF Typed, TypeOK
<1>5. Alone(p)
  BY <1>3 DEF Alone
<1>6. Moves(p, l)
  BY <1>0, <1>1, <1>2, GotoIs
<1> QED
  BY <1>2, <1>4, <1>5, <1>6, Stepped

LEMMA MkuserUidTyped ==
  ASSUME TypeInv, NEW p \in Procs, MkuserUid(p)
  PROVE  /\ Steps(p)
         /\ line'[p] \in [user : {User[p]}, uid : Uids \ UidsIn("passwd"), pw : Pws]
<1>0. TypeOK /\ FilesType
  BY DEF TypeInv, TypeOK, FilesType
<1>1. PICK i \in Uids \ UidsIn("passwd") : line' = [line EXCEPT ![p] = [user |-> User[p], uid |-> i, pw |-> 0]]
  BY DEF MkuserUid
<1>2. Goto(p, "mkdir") /\ pc[p] = "uid" /\ UNCHANGED <<dir, data, from, to>> /\ UNCHANGED <<onedev, crashes>>
      /\ UNCHANGED <<lock, home, faults, seen>>
  BY DEF MkuserUid, At, files, counts
<1>3. Role(p, "mkdir") /\ "mkdir" \in PCs
  <2>1. Cmd[p] = "mkuser"
    BY <1>2 DEF TypeInv, Roles, Role
  <2> QED
    BY <2>1 DEF Role, PasswdPCs, AdminPCs, PCs
<1>4. [user |-> User[p], uid |-> i, pw |-> 0] \in Line /\ [user |-> User[p], uid |-> i, pw |-> 0] # NoLine
  <2>1. User[p] \in Users /\ 0 \in Pws
    BY AccountsAssumption DEF AccountsAssumption, Pws
  <2>2. [user |-> User[p], uid |-> i, pw |-> 0] \in Line
    BY <2>1 DEF Line
  <2> QED
    BY <2>2, AccountsAssumption DEF AccountsAssumption
<1>5. line' \in [Procs -> Line \cup {NoLine}] /\ line'[p] = [user |-> User[p], uid |-> i, pw |-> 0]
      /\ \A q \in Procs \ {p} : line'[q] = line[q]
  BY <1>0, <1>1, <1>4 DEF TypeOK
<1>6. Typed(p, "mkdir")
  BY <1>0, <1>2, <1>4, <1>5, StillIs DEF Typed, TypeOK
<1>7. Alone(p)
  BY <1>2, <1>5 DEF Alone
<1>8. Moves(p, "mkdir")
  BY <1>0, <1>2, <1>3, GotoIs
<1>9. line'[p] \in [user : {User[p]}, uid : Uids \ UidsIn("passwd"), pw : Pws]
  <2>1. 0 \in Pws
    BY DEF Pws
  <2> QED
    BY <1>5, <2>1
<1> QED
  BY <1>3, <1>6, <1>7, <1>8, <1>9, Stepped

LEMMA MakeHomeTyped ==
  ASSUME TypeInv, NEW p \in Procs, MakeHome(p)
  PROVE  Steps(p)
<1>0. TypeOK /\ FilesType
  BY DEF TypeInv, TypeOK, FilesType
<1>1. PICK l \in {"ptmp", "failed"} : Goto(p, l) /\ pc[p] = "mkdir"
  BY DEF MakeHome, At
<1>2. Role(p, l) /\ l \in PCs
  <2>1. Cmd[p] = "mkuser"
    BY <1>1 DEF TypeInv, Roles, Role
  <2> QED
    BY <1>1, <2>1 DEF Role, PasswdPCs, AdminPCs, PCs
<1>3. UNCHANGED <<dir, data, from, to>> /\ UNCHANGED <<onedev, crashes>> /\ UNCHANGED <<lock, line, seen>>
  BY DEF MakeHome, files, counts
<1>4. FilesType' /\ lock' \in BOOLEAN
  BY <1>0, <1>3, StillIs DEF TypeOK
<1>5. home' \subseteq Users
  <2>1. User[p] \in Users
    BY AccountsAssumption DEF AccountsAssumption
  <2>2. home' = home \/ home' = home \cup {User[p]}
    BY DEF MakeHome
  <2> QED
    BY <1>0, <2>1, <2>2 DEF TypeOK
<1>6. faults' \in 0..MaxFaults
  <2>1. NoFault \/ Fail("mkdir") \/ Fail("chown")
    BY DEF MakeHome
  <2> QED
    BY <1>0, <2>1, FailIs DEF NoFault, TypeOK
<1> QED
  BY <1>1, <1>2, <1>3, <1>4, <1>5, <1>6, SteppedPlain

LEMMA OpenTmpTyped ==
  ASSUME TypeInv, NEW p \in Procs, NEW at \in {"ptmp", "gtmp"}, NEW x \in Paths, NEW tmp \in Paths,
         NEW next \in {"pcopy", "gcopy"}, OpenTmp(p, at, x, tmp, next)
  PROVE  Steps(p)
<1>0. TypeOK /\ FilesType
  BY DEF TypeInv, TypeOK, FilesType
<1>1. pc[p] = at /\ at \in AdminPCs /\ next \in AdminPCs
  BY DEF OpenTmp, At, AdminPCs
<1>2. Role(p, next) /\ next \in PCs /\ Role(p, "failed") /\ "failed" \in PCs
      /\ pc[p] \notin {"idle", "uid", "done", "failed", "dead"}
  BY <1>1, AdminRole
<1>3. UNCHANGED <<onedev, crashes>> /\ UNCHANGED <<lock, line, home, seen>>
  BY DEF OpenTmp, counts
<1>4. CASE Goto(p, "failed") /\ (NoFault \/ Fail("creat")) /\ UNCHANGED files
  <2>1. UNCHANGED <<dir, data, from, to>>
    BY <1>4 DEF files
  <2>2. FilesType' /\ lock' \in BOOLEAN /\ home' \subseteq Users
    BY <1>0, <1>3, <2>1, StillIs DEF TypeOK
  <2>3. faults' \in 0..MaxFaults
    BY <1>0, <1>4, FailIs DEF NoFault, TypeOK
  <2> QED
    BY <1>2, <1>3, <1>4, <2>1, <2>2, <2>3, SteppedPlain
<1>5. CASE /\ dir[x] # NoFile /\ Creat(tmp, {}) /\ from' = [from EXCEPT ![p] = dir[x]]
           /\ to' = [to EXCEPT ![p] = Target(tmp)] /\ Goto(p, next) /\ NoFault
  <2>1. FilesType'
    BY <1>0, <1>5, CreatIs
  <2>2. Target(tmp) \in Inodes /\ dir[x] \in Inodes /\ NoFile \notin Inodes
    BY <1>0, <1>5, TargetType, AccountsAssumption DEF AccountsAssumption, FilesType
  <2>3. to' \in [Procs -> Inodes \cup {NoFile}] /\ to'[p] # NoFile /\ \A q \in Procs \ {p} : to'[q] = to[q]
    BY <1>0, <1>5, <2>2 DEF TypeOK
  <2>4. from' \in [Procs -> Inodes \cup {NoFile}] /\ from'[p] # NoFile /\ \A q \in Procs \ {p} : from'[q] = from[q]
    BY <1>0, <1>5, <2>2 DEF TypeOK
  <2>5. Cmd[p] # "rmuser" => line[p] # NoLine
    BY <1>0, <1>2 DEF TypeOK, Running
  <2>6. Typed(p, next)
    BY <1>0, <1>3, <1>5, <2>1, <2>3, <2>4, <2>5 DEF Typed, TypeOK, NoFault
  <2>7. Alone(p)
    BY <1>3, <2>3, <2>4 DEF Alone
  <2>8. Moves(p, next)
    BY <1>0, <1>2, <1>5, GotoIs
  <2> QED
    BY <1>2, <2>6, <2>7, <2>8, Stepped
<1> QED
  BY <1>4, <1>5 DEF OpenTmp

LEMMA EditedType ==
  ASSUME NEW p \in Procs, Cmd[p] = "mkuser" => line[p] \in Line, NEW x, NEW ls \in SUBSET Line
  PROVE  Edited(p, x, ls) \in SUBSET Line
<1>1. CASE Cmd[p] = "mkuser"
  BY <1>1 DEF Edited
<1>2. CASE Cmd[p] # "mkuser"
  BY <1>2 DEF Edited
<1> QED
  BY <1>1, <1>2

LEMMA WriteTmpTyped ==
  ASSUME TypeInv, NEW p \in Procs, NEW at \in {"pcopy", "gcopy"}, NEW x \in Paths, NEW tmp \in Paths,
         NEW next \in {"punlink", "gunlink"}, WriteTmp(p, at, x, tmp, next)
  PROVE  Steps(p)
<1>0. TypeOK /\ FilesType
  BY DEF TypeInv, TypeOK, FilesType
<1>1. pc[p] = at /\ at \in AdminPCs /\ next \in AdminPCs
  BY DEF WriteTmp, At, AdminPCs
<1>2. PICK l \in {next, "failed"} : Goto(p, l)
  BY DEF WriteTmp
<1>3. Role(p, l) /\ l \in PCs /\ pc[p] \notin {"idle", "uid", "done", "failed", "dead"} /\ l \notin {"pcopy", "gcopy", "write"}
      /\ Cmd[p] \in {"mkuser", "rmuser"}
  BY <1>1, AdminRole
<1>4. UNCHANGED <<onedev, crashes>> /\ UNCHANGED <<lock, line, home, seen>>
  BY DEF WriteTmp, counts
<1>5. Cmd[p] # "rmuser" => line[p] # NoLine
  BY <1>0, <1>3 DEF TypeOK, Running
<1>6. FilesType'
  <2>1. CASE Unlink(tmp)
    BY <1>0, <2>1, UnlinkIs
  <2>2. CASE data' = [data EXCEPT ![to[p]] = Edited(p, x, data[from[p]])] /\ dir' = dir
    <3>1. from[p] \in Inodes
      BY <1>0, <1>1 DEF TypeOK
    <3>2. data[from[p]] \in SUBSET Line
      BY <1>0, <3>1 DEF FilesType
    <3>3. Cmd[p] = "mkuser" => line[p] \in Line
      BY <1>0, <1>5 DEF TypeOK
    <3>4. Edited(p, x, data[from[p]]) \in SUBSET Line
      BY <3>2, <3>3, EditedType
    <3> QED
      BY <1>0, <2>2, <3>4 DEF FilesType
  <2> QED
    BY <2>1, <2>2 DEF WriteTmp
<1>7. from' \in [Procs -> Inodes \cup {NoFile}] /\ to' \in [Procs -> Inodes \cup {NoFile}]
      /\ \A q \in Procs \ {p} : from'[q] = from[q] /\ to'[q] = to[q]
  BY <1>0 DEF WriteTmp, TypeOK
<1>8. faults' \in 0..MaxFaults
  <2>1. NoFault \/ Fail("write")
    BY DEF WriteTmp
  <2> QED
    BY <1>0, <2>1, FailIs DEF NoFault, TypeOK
<1>9. Typed(p, l)
  BY <1>0, <1>3, <1>4, <1>5, <1>6, <1>7, <1>8 DEF Typed, TypeOK
<1>10. Alone(p)
  BY <1>4, <1>7 DEF Alone
<1>11. Moves(p, l)
  BY <1>0, <1>2, <1>3, GotoIs
<1> QED
  BY <1>3, <1>9, <1>10, <1>11, Stepped

LEMMA ChnameUnlinkTyped ==
  ASSUME TypeInv, NEW p \in Procs, NEW at \in {"punlink", "gunlink"}, NEW x \in Paths,
         NEW next \in {"plink", "glink"}, ChnameUnlink(p, at, x, next)
  PROVE  Steps(p)
<1>0. TypeOK /\ FilesType
  BY DEF TypeInv, TypeOK, FilesType
<1>1. PICK l \in {next, "failed"} : Goto(p, l) /\ pc[p] = at /\ at \in AdminPCs /\ next \in AdminPCs
  BY DEF ChnameUnlink, At, AdminPCs
<1>2. Role(p, l) /\ l \in PCs /\ pc[p] \notin {"idle", "uid", "done", "failed", "dead"} /\ l \notin {"pcopy", "gcopy", "write"}
  BY <1>1, AdminRole
<1>3. UNCHANGED <<onedev, line, from, to, seen, crashes>> /\ UNCHANGED <<lock, home, faults>>
  BY DEF ChnameUnlink, counts
<1>4. FilesType'
  <2>1. Unlink(x) \/ UNCHANGED <<dir, data>>
    BY DEF ChnameUnlink
  <2> QED
    BY <1>0, <2>1, UnlinkIs, StillIs
<1>5. lock' \in BOOLEAN /\ home' \subseteq Users /\ faults' \in 0..MaxFaults
  BY <1>0, <1>3 DEF TypeOK
<1> QED
  BY <1>1, <1>2, <1>3, <1>4, <1>5, SteppedPlain

LEMMA ChnameLinkTyped ==
  ASSUME TypeInv, NEW p \in Procs, NEW at \in {"plink", "glink"}, NEW x \in Paths, NEW tmp \in Paths,
         NEW next \in {"prmtmp", "grmtmp"}, ChnameLink(p, at, x, tmp, next)
  PROVE  Steps(p)
<1>0. TypeOK /\ FilesType
  BY DEF TypeInv, TypeOK, FilesType
<1>1. PICK l \in {next, "failed"} : Goto(p, l) /\ pc[p] = at /\ at \in AdminPCs /\ next \in AdminPCs
  BY DEF ChnameLink, At, AdminPCs
<1>2. Role(p, l) /\ l \in PCs /\ pc[p] \notin {"idle", "uid", "done", "failed", "dead"} /\ l \notin {"pcopy", "gcopy", "write"}
  BY <1>1, AdminRole
<1>3. UNCHANGED <<onedev, line, from, to, seen, crashes>> /\ UNCHANGED <<lock, home>>
  BY DEF ChnameLink, counts
<1>4. FilesType'
  <2>1. Link(tmp, x) \/ UNCHANGED <<dir, data>>
    BY DEF ChnameLink
  <2> QED
    BY <1>0, <2>1, LinkIs, StillIs
<1>5. lock' \in BOOLEAN /\ home' \subseteq Users
  BY <1>0, <1>3 DEF TypeOK
<1>6. faults' \in 0..MaxFaults
  <2>1. NoFault \/ Fail("link")
    BY DEF ChnameLink
  <2> QED
    BY <1>0, <2>1, FailIs DEF NoFault, TypeOK
<1> QED
  BY <1>1, <1>2, <1>3, <1>4, <1>5, <1>6, SteppedPlain

LEMMA ChnameDoneTyped ==
  ASSUME TypeInv, NEW p \in Procs, NEW at \in {"prmtmp", "grmtmp"}, NEW tmp \in Paths,
         NEW next \in {"gtmp", "done", "deldir"}, next = "deldir" => Cmd[p] = "rmuser", ChnameDone(p, at, tmp, next)
  PROVE  Steps(p)
<1>0. TypeOK /\ FilesType
  BY DEF TypeInv, TypeOK, FilesType
<1>1. Goto(p, next) /\ pc[p] = at /\ at \in AdminPCs
  BY DEF ChnameDone, At, AdminPCs
<1>2. Role(p, next) /\ next \in PCs /\ pc[p] \notin {"idle", "uid", "done", "failed", "dead"}
  <2>1. Cmd[p] \in {"mkuser", "rmuser"} /\ pc[p] \notin {"idle", "uid", "done", "failed", "dead"}
    BY <1>1 DEF TypeInv, Roles, Role, AdminPCs
  <2> QED
    BY <2>1 DEF Role, PCs, PasswdPCs, AdminPCs
<1>3. UNCHANGED <<onedev, line, from, to, seen, crashes>> /\ UNCHANGED <<lock, home, faults>>
  BY DEF ChnameDone, counts
<1>4. FilesType'
  BY <1>0, UnlinkIs DEF ChnameDone
<1>5. lock' \in BOOLEAN /\ home' \subseteq Users /\ faults' \in 0..MaxFaults
  BY <1>0, <1>3 DEF TypeOK
<1> QED
  BY <1>1, <1>2, <1>3, <1>4, <1>5, SteppedPlain

LEMMA DeleteHomeTyped ==
  ASSUME TypeInv, NEW p \in Procs, DeleteHome(p)
  PROVE  Steps(p)
<1>0. TypeOK /\ FilesType
  BY DEF TypeInv, TypeOK, FilesType
<1>1. Goto(p, "done") /\ pc[p] = "deldir" /\ Role(p, "done") /\ "done" \in PCs
  BY DEF DeleteHome, At, Role, PCs, PasswdPCs, AdminPCs
<1>2. UNCHANGED <<dir, data, from, to>> /\ UNCHANGED <<onedev, crashes>> /\ UNCHANGED <<lock, line, faults, seen>>
  BY DEF DeleteHome, files, counts
<1>3. FilesType' /\ lock' \in BOOLEAN /\ faults' \in 0..MaxFaults
  BY <1>0, <1>2, StillIs DEF TypeOK
<1>4. home' \subseteq Users
  BY <1>0 DEF DeleteHome, TypeOK
<1> QED
  BY <1>1, <1>2, <1>3, <1>4, SteppedPlain

LEMMA KillTyped ==
  ASSUME TypeInv, NEW p \in Procs, Kill(p)
  PROVE  Steps(p)
<1>0. TypeOK /\ FilesType
  BY DEF TypeInv, TypeOK, FilesType
<1>1. Goto(p, "dead") /\ Role(p, "dead") /\ "dead" \in PCs /\ Running(p)
  BY DEF Kill, Role, PCs, PasswdPCs, AdminPCs
<1>2. UNCHANGED <<onedev, dir, data, lock, line, home, faults, seen>>
  BY DEF Kill
<1>3. crashes' \in 0..MaxCrashes
  BY <1>0, AccountsAssumption DEF AccountsAssumption, Kill, TypeOK
<1>4. from' \in [Procs -> Inodes \cup {NoFile}] /\ to' \in [Procs -> Inodes \cup {NoFile}]
      /\ \A q \in Procs \ {p} : from'[q] = from[q] /\ to'[q] = to[q]
  BY <1>0 DEF Kill, TypeOK
<1>5. Typed(p, "dead")
  BY <1>0, <1>2, <1>3, <1>4, StillIs DEF Typed, TypeOK
<1>6. Alone(p)
  BY <1>2, <1>4 DEF Alone
<1>7. Moves(p, "dead")
  BY <1>0, <1>1, GotoIs
<1> QED
  BY <1>1, <1>5, <1>6, <1>7, Stepped

\* A step of the system is one of one command.
LEMMA StepsLemma ==
  ASSUME TypeInv, NEW p \in Procs, PasswdStep(p) \/ AdminStep(p) \/ Kill(p)
  PROVE  Steps(p)
<1>1. CASE PasswdStep(p)
  BY <1>1, PasswdStartTyped, MakeLockTyped, FilterTyped, LinkBakTyped, UnlinkPasswdTyped, RgStatTyped,
     RgLinkTyped, CopyCreatTyped, CopyWriteTyped, RestoreTyped, RemoveTmpTyped, RemoveLockTyped,
     AccessTyped, AppendTyped DEF PasswdStep
<1>2. CASE AdminStep(p)
  <2>1. CASE MkuserStart(p) \/ RmuserStart(p) \/ MkuserUid(p) \/ MakeHome(p) \/ DeleteHome(p)
    BY <2>1, AdminStartTyped, MkuserUidTyped, MakeHomeTyped, DeleteHomeTyped
  <2>2. CASE OpenTmp(p, "ptmp", "passwd", "passwd.tmp", "pcopy") \/ OpenTmp(p, "gtmp", "group", "group.tmp", "gcopy")
    BY <2>2, NamesAre, OpenTmpTyped
  <2>3. CASE WriteTmp(p, "pcopy", "passwd", "passwd.tmp", "punlink") \/ WriteTmp(p, "gcopy", "group", "group.tmp", "gunlink")
    BY <2>3, NamesAre, WriteTmpTyped
  <2>4. CASE ChnameUnlink(p, "punlink", "passwd", "plink") \/ ChnameUnlink(p, "gunlink", "group", "glink")
    BY <2>4, NamesAre, ChnameUnlinkTyped
  <2>5. CASE ChnameLink(p, "plink", "passwd", "passwd.tmp", "prmtmp") \/ ChnameLink(p, "glink", "group", "group.tmp", "grmtmp")
    BY <2>5, NamesAre, ChnameLinkTyped
  <2>6. CASE ChnameDone(p, "prmtmp", "passwd.tmp", "gtmp")
    BY <2>6, NamesAre, ChnameDoneTyped
  <2>7. CASE ChnameDone(p, "grmtmp", "group.tmp", IF Cmd[p] = "rmuser" THEN "deldir" ELSE "done")
    BY <2>7, NamesAre, ChnameDoneTyped
  <2> QED
    BY <1>2, <2>1, <2>2, <2>3, <2>4, <2>5, <2>6, <2>7 DEF AdminStep
<1> QED
  BY <1>1, <1>2, KillTyped

LEMMA InitUidIs ==
  InitUid \in [OldUsers -> Uids] /\ \A u, v \in OldUsers : InitUid[u] = InitUid[v] => u = v
<1>1. \E f \in [OldUsers -> Uids] : \A u, v \in OldUsers : f[u] = f[v] => u = v
  BY AccountsAssumption DEF AccountsAssumption
<1> QED
  BY <1>1 DEF InitUid

LEMMA InitLinesType == InitLines \subseteq Line
<1>1. \A u \in OldUsers : u \in Users /\ InitUid[u] \in Uids /\ 0 \in Pws
  BY InitUidIs DEF Users, Pws
<1>2. \A u \in OldUsers : [user |-> u, uid |-> InitUid[u], pw |-> 0] \in Line
  BY <1>1 DEF Line
<1> QED
  BY <1>2 DEF InitLines

\* At the start passwd and group are two files with everybody, and there is
\* nothing else.
LEMMA InitFiles ==
  ASSUME Init
  PROVE  /\ FilesType
         /\ There("passwd") /\ There("group") /\ dir["passwd"] # dir["group"]
         /\ \A x \in Paths \ {"passwd", "group"} : ~There(x)
         /\ Lines("passwd") = InitLines /\ Lines("group") = InitLines
<1>1. PICK i \in Inodes, j \in Inodes : /\ i # j
        /\ dir = [x \in Paths |-> CASE x = "passwd" -> i [] x = "group" -> j [] OTHER -> NoFile]
        /\ data = [k \in Inodes |-> IF k \in {i, j} THEN InitLines ELSE {}]
  <2> DEFINE i == CHOOSE i \in Inodes : TRUE
             j == CHOOSE j \in Inodes : j # i
  <2>1. Cardinality(Inodes) > 1 /\ IsFiniteSet(Inodes)
    BY PathsFinite, AccountsAssumption DEF AccountsAssumption
  <2>2. Inodes # {}
    BY <2>1, FS_EmptySet
  <2>3. i \in Inodes
    BY <2>2
  <2>4. \E k \in Inodes : k # i
    <3> SUFFICES ASSUME \A k \in Inodes : k = i PROVE FALSE
      OBVIOUS
    <3> HIDE DEF i
    <3>0. Inodes = {i}
      BY <2>3
    <3>1. \E x : Inodes = {x}
      BY <3>0
    <3>2. Cardinality(Inodes) = 1
      BY <2>1, <3>1, FS_Singleton
    <3> QED
      BY <2>1, <3>2
  <2>5. j \in Inodes /\ j # i
    BY <2>4
  <2>6. /\ dir = [x \in Paths |-> CASE x = "passwd" -> i [] x = "group" -> j [] OTHER -> NoFile]
        /\ data = [k \in Inodes |-> IF k \in {i, j} THEN InitLines ELSE {}]
    BY DEF Init
  <2> HIDE DEF i, j
  <2> QED
    BY <2>3, <2>5, <2>6
<1>2. NoFile \notin Inodes
  BY AccountsAssumption DEF AccountsAssumption
<1>3. dir["passwd"] = i /\ dir["group"] = j /\ \A x \in Paths \ {"passwd", "group"} : dir[x] = NoFile
  BY <1>1, NamesAre
<1>4. dir \in [Paths -> Inodes \cup {NoFile}]
  BY <1>1
<1>5. data \in [Inodes -> SUBSET Line] /\ data[i] = InitLines /\ data[j] = InitLines
  BY <1>1, InitLinesType
<1> QED
  BY <1>1, <1>2, <1>3, <1>4, <1>5 DEF FilesType, There, Lines

LEMMA TypeInit == Init => TypeInv
<1> SUFFICES ASSUME Init PROVE TypeInv
  OBVIOUS
<1>1. pc \in [Procs -> PCs] /\ \A p \in Procs : pc[p] = "idle"
  BY DEF Init, PCs
<1>2. Roles
  BY <1>1 DEF Roles, Role, PasswdPCs, AdminPCs
<1>3. onedev \in BOOLEAN /\ lock \in BOOLEAN /\ faults = 0 /\ crashes = 0 /\ home \subseteq Users
  BY DEF Init, Users
<1>4. faults \in 0..MaxFaults /\ crashes \in 0..MaxCrashes
  BY <1>3, AccountsAssumption DEF AccountsAssumption
<1>5. line \in [Procs -> Line \cup {NoLine}] /\ seen \in [Procs -> SUBSET Line] /\ from \in [Procs -> Inodes \cup {NoFile}] /\ to \in [Procs -> Inodes \cup {NoFile}]
  BY DEF Init
<1>6. TypeOK
  BY <1>1, <1>3, <1>4, <1>5, InitFiles DEF TypeOK, FilesType, Running, At
<1> QED
  BY <1>2, <1>6 DEF TypeInv

LEMMA TypeStep == TypeInv /\ [Next]_vars => TypeInv'
<1> SUFFICES ASSUME TypeInv, [Next]_vars PROVE TypeInv'
  OBVIOUS
<1>1. CASE Next
  <2>1. PICK p \in Procs : PasswdStep(p) \/ AdminStep(p) \/ Kill(p)
    BY <1>1 DEF Next
  <2> QED
    BY <2>1, StepsLemma DEF Steps
<1>2. CASE UNCHANGED vars
  BY <1>2 DEF vars, files, counts, TypeInv, TypeOK, Roles, Running, At
<1> QED
  BY <1>1, <1>2

LEMMA TypeHolds == Spec => []TypeInv
  BY TypeInit, TypeStep, PTL DEF Spec

\* Whatever commands run at once, die or meet, every name leads to an inode or
\* nowhere, every file holds lines, and a command that writes has its file open
\* and its line made.
THEOREM AccountsTypeTheorem == Spec => []TypeOK
<1>1. TypeInv => TypeOK
  BY DEF TypeInv
<1> QED
  BY <1>1, TypeHolds, PTL

-----------------------------------------------------------------------------
(* One command at a time *)

\* What is assumed of the constants from here on: the administrator runs one
\* command at a time; those that may die are passwd commands, since a mkuser
\* or rmuser that dies between link and unlink leaves passwd.tmp as a second
\* name of passwd; no write is lost, as the code does not look; and link and
\* creat do not fail in one run of rgcopy, which then links back the backup of
\* an earlier run.
Setting ==
    /\ Serial
    /\ \A p \in Killable : Cmd[p] = "passwd"
    /\ "write" \notin FaultKinds
    /\ MaxFaults <= 1 \/ ~({"link", "copy"} \subseteq FaultKinds)

OneRuns == \A p, q \in Procs : Running(p) /\ Running(q) => p = q

\* The names of the passwd file and its copies, and those of the group file.
PwNames == {"passwd", "passwd.bak", "passwd.tmp"} \cup Procs
GrNames == {"group", "group.tmp"}

\* Which names may lead to one inode.
Apart ==
    /\ \A x \in GrNames, y \in PwNames : ~Same(x, y)
    /\ \A y \in PwNames \ {"passwd.tmp"} :
          Same("passwd.tmp", y) => y = "passwd" /\ \E p \in Procs : pc[p] = "prmtmp"
    /\ ~onedev => \A p \in Procs : \A y \in PwNames \ {p} : ~Same(p, y)
NoTmp(p) == pc[p] \in {"idle", "rlock", "tmp"} => ~There(p)

\* What the descriptors of a command are.
Opened(p) ==
    /\ pc[p] = "pcopy" => /\ from[p] = dir["passwd"] /\ There("passwd")
                          /\ to[p] = dir["passwd.tmp"] /\ There("passwd.tmp")
    /\ pc[p] = "gcopy" => /\ from[p] = dir["group"] /\ There("group")
                          /\ to[p] = dir["group.tmp"] /\ There("group.tmp")
    /\ pc[p] = "write" => /\ to[p] = dir["passwd"] /\ There("passwd")
                          /\ \A y \in PwNames : Same("passwd", y) => y \in {"passwd", "passwd.bak"}

Uniq(ls) == \A l, m \in ls : l.uid = m.uid => l.user = m.user
Others(p, ls) == {l \in ls : l.user # User[p]}
LinkFailed == faults > 0 /\ "link" \in FaultKinds

\* passwd: where the old lines are, and the others without the one to change.
Entry(p) == line[p] \in Line /\ line[p].user = User[p] /\ Uniq(seen[p] \cup {line[p]})
Old(p) == There("passwd") /\ Lines("passwd") = seen[p]
Aside(p) == There(p) /\ Lines(p) = Others(p, seen[p])
Without(p) == /\ There("passwd") /\ Others(p, Lines("passwd")) = Others(p, seen[p])
              /\ Lines("passwd") \subseteq seen[p]
With(p) == /\ There("passwd") /\ Others(p, Lines("passwd")) = Others(p, seen[p])
           /\ Lines("passwd") \subseteq seen[p] \cup {line[p]} /\ line[p] \in Lines("passwd")
Copying == {"stat", "rglink", "creat", "restore"}
Changing(p) ==
    /\ pc[p] \in PasswdPCs => Entry(p)
    /\ pc[p] \in {"rlock", "tmp", "linkbak", "unlink"} => Old(p)
    /\ pc[p] = "unlink" => Same("passwd", "passwd.bak")
    /\ pc[p] \in {"linkbak", "unlink", "write"} \cup Copying => Aside(p)
    /\ pc[p] \in {"write"} \cup Copying => There("passwd.bak")
    /\ pc[p] \in Copying /\ There("passwd") => Lines("passwd") = seen[p]
    /\ pc[p] \in {"rglink", "creat"} /\ There("passwd") => ~onedev
    /\ pc[p] \in Copying /\ ~There("passwd") =>
          \/ Lines("passwd.bak") = seen[p]
          \/ pc[p] = "rglink" /\ onedev
          \/ pc[p] = "creat" /\ LinkFailed
    /\ pc[p] \in {"rmtmp", "unlock", "access", "alock", "append"} => Without(p)
    /\ pc[p] = "aunlock" => With(p)

\* mkuser: the new line fits the file until it is in it.
Making(p) == Cmd[p] = "mkuser" =>
    /\ pc[p] \in AdminPCs \cup {"mkdir"} => line[p] \in Line /\ line[p].user = User[p]
    /\ pc[p] \in {"mkdir", "ptmp", "pcopy"} => Uniq(Lines("passwd") \cup {line[p]})
    /\ pc[p] \in {"punlink", "plink"} => User[p] \in UsersIn("passwd.tmp")
    /\ pc[p] \in {"prmtmp", "gtmp", "gcopy", "gunlink", "glink", "grmtmp"} => User[p] \in UsersIn("passwd")

\* rmuser: the user is out of the one file, then out of the other.
Removing(p) == Cmd[p] = "rmuser" =>
    /\ pc[p] \in {"punlink", "plink"} => User[p] \notin UsersIn("passwd.tmp")
    /\ pc[p] \in {"prmtmp", "gtmp", "gcopy", "gunlink", "glink", "grmtmp", "deldir"} => User[p] \notin UsersIn("passwd")
    /\ pc[p] \in {"gunlink", "glink"} => User[p] \notin UsersIn("group.tmp")
    /\ pc[p] \in {"grmtmp", "deldir"} => User[p] \notin UsersIn("group")

\* Both: passwd.tmp is fit to replace passwd.
Replacing(p) ==
    /\ pc[p] \in {"punlink", "plink"} => Uniq(Lines("passwd.tmp"))
    /\ pc[p] = "punlink" => \A u \in UsersIn("passwd") : u \in UsersIn("passwd.tmp") \/ (Cmd[p] = "rmuser" /\ u = User[p])
    /\ pc[p] = "plink" => ~There("passwd")
    /\ pc[p] = "prmtmp" => There("passwd")

Mine(p) == Opened(p) /\ Changing(p) /\ Making(p) /\ Removing(p) /\ Replacing(p)

UniqNow == Uniq(Lines("passwd"))

\* There is always a passwd file, but while one is replaced and after that failed.
Between == {"failed", "dead", "plink"} \cup Copying
Gone == ~There("passwd") => \E p \in Procs : pc[p] \in Between

\* The users that must not be lost, and where each of them is: in the file of a
\* passwd that died, among those its successor has read, or in the files.
Excepted == Told("rmuser", Begun) \cup Told("passwd", Begun \ {"done"})
Members == UsersIn("group") \cup UsersIn("group.tmp")
Wanted == (OldUsers \cup Told("mkuser", {"done"}) \cup Members) \ Excepted
InDead(u) == \E d \in Procs : pc[d] = "dead" /\ u \in UsersIn(d)
Was(p) == {l.user : l \in seen[p]}
InPlace(u) == u \in UsersIn("passwd") \/ (~There("passwd") /\ u \in UsersIn("passwd.bak") \cup UsersIn("passwd.tmp"))
SafeAt(p, u) ==
    \/ InDead(u)
    \/ pc[p] \in PasswdPCs /\ u \in Was(p)
    \/ pc[p] = "plink" /\ u \in UsersIn("passwd.tmp")
    \/ pc[p] \notin PasswdPCs \cup {"plink"} /\ InPlace(u)
\* Of the command that runs, or of nobody.
Kept == \A u \in Wanted :
    \/ \E p \in Procs : Running(p) /\ SafeAt(p, u)
    \/ (\A p \in Procs : ~Running(p)) /\ (InDead(u) \/ InPlace(u))

Inv ==
    /\ TypeInv /\ OneRuns /\ Apart /\ UniqNow /\ Gone /\ Kept
    /\ \A p \in Procs : NoTmp(p) /\ Mine(p)

-----------------------------------------------------------------------------
(* What is left to show of a step *)

\* The command that steps is the one that runs, or begins when none does.
Turn(p) == Running(p) \/ \A q \in Procs : ~Running(q)

LEMMA RunningPCs ==
  ASSUME NEW p \in Procs
  PROVE  /\ pc[p] \in PasswdPCs \cup AdminPCs \cup {"uid", "mkdir", "deldir"} => Running(p)
         /\ Running(p) => pc[p] \notin {"idle", "done", "failed", "dead"}
  BY DEF Running, PasswdPCs, AdminPCs

LEMMA RestStill ==
  ASSUME Inv, NEW p \in Procs, Steps(p), Turn(p)
  PROVE  /\ \A q \in Procs \ {p} : ~Running(q) /\ ~Running(q)' /\ pc'[q] = pc[q]
         /\ OneRuns'
<1>1. \A q \in Procs \ {p} : ~Running(q)
  BY DEF Inv, OneRuns, Turn
<1>2. \A q \in Procs \ {p} : ~Running(q)' /\ pc'[q] = pc[q]
  BY <1>1 DEF Steps, Moves, Running
<1> QED
  BY <1>1, <1>2 DEF OneRuns

LEMMA MineRest ==
  ASSUME NEW q \in Procs, ~Running(q)
  PROVE  Mine(q)
<1>1. pc[q] \notin PasswdPCs \cup AdminPCs \cup {"uid", "mkdir", "deldir"}
  BY RunningPCs
<1>2. Opened(q)
  BY <1>1 DEF Opened, PasswdPCs, AdminPCs
<1>3. Changing(q)
  BY <1>1 DEF Changing, PasswdPCs, AdminPCs, Copying
<1>4. Making(q) /\ Removing(q) /\ Replacing(q)
  BY <1>1 DEF Making, Removing, Replacing, PasswdPCs, AdminPCs
<1> QED
  BY <1>2, <1>3, <1>4 DEF Mine

LEMMA MineRestAll == \A r \in Procs : ~Running(r) => Mine(r)
  BY MineRest

LEMMA MineRestNext == (\A r \in Procs : ~Running(r) => Mine(r))'
  BY MineRestAll, PTL

Concluded(p) == Apart' /\ UniqNow' /\ Gone' /\ Kept' /\ (\A q \in Procs : NoTmp(q)') /\ Mine(p)'

LEMMA Conclude ==
  ASSUME Inv, NEW p \in Procs, Steps(p), Turn(p), Concluded(p)
  PROVE  Inv'
<1>1. TypeInv' /\ OneRuns'
  BY RestStill DEF Steps
<1>2. \A q \in Procs : Mine(q)'
  BY RestStill, MineRestNext DEF Concluded
<1> QED
  BY <1>1, <1>2 DEF Inv, Concluded

\* No two names lead to one inode that did not before.
Fewer == \A x, y \in Paths : x # y /\ Same(x, y)' => Same(x, y)

LEMMA FewerIs ==
  ASSUME NEW x \in Paths, NEW ls, Still \/ Removed(x) \/ Made(x, ls) \/ Rewritten(x, ls)
  PROVE  Fewer
<1>1. CASE Still
  BY <1>1 DEF Still, Fewer, Same, There
<1>2. CASE Removed(x)
  BY <1>2 DEF Removed, Except, Fewer, Same, There
<1>3. CASE Made(x, ls)
  <2> SUFFICES ASSUME NEW y \in Paths, NEW z \in Paths, y # z, Same(y, z)' PROVE Same(y, z)
    BY DEF Fewer
  <2>1. y # x /\ z # x
    BY <1>3 DEF Made, Same, There
  <2> QED
    BY <1>3, <2>1 DEF Made, Except, Same, There
<1>4. CASE Rewritten(x, ls)
  BY <1>4 DEF Rewritten, Fewer, Same, There
<1> QED
  BY <1>1, <1>2, <1>3, <1>4

LEMMA NamesApart ==
  /\ PwNames \subseteq Paths /\ GrNames \subseteq Paths /\ PwNames \cap GrNames = {}
  /\ "passwd" \in PwNames /\ "passwd.bak" \in PwNames /\ "passwd.tmp" \in PwNames
  /\ \A p \in Procs : p \in PwNames /\ p \notin {"passwd", "passwd.bak", "passwd.tmp", "group", "group.tmp"}
<1>1. \A p \in Procs : p \in Paths /\ p \notin Names
  BY NamesAre
<1>2. \A p \in Procs : p \in PwNames /\ p \notin {"passwd", "passwd.bak", "passwd.tmp", "group", "group.tmp"}
  BY <1>1 DEF PwNames, Names
<1> QED
  BY <1>2, NamesAre DEF PwNames, GrNames

LEMMA ApartFewer ==
  ASSUME Inv, NEW p \in Procs, Steps(p), Fewer, pc[p] # "prmtmp" \/ ~There("passwd.tmp")'
  PROVE  Apart'
<1>1. \A x \in GrNames, y \in PwNames : ~Same(x, y)'
  <2> SUFFICES ASSUME NEW x \in GrNames, NEW y \in PwNames, Same(x, y)' PROVE FALSE
    OBVIOUS
  <2>1. x \in Paths /\ y \in Paths /\ x # y
    BY NamesApart
  <2> QED
    BY <2>1 DEF Inv, Apart, Fewer
<1>2. \A y \in PwNames \ {"passwd.tmp"} :
         Same("passwd.tmp", y)' => y = "passwd" /\ \E q \in Procs : pc'[q] = "prmtmp"
  <2> SUFFICES ASSUME NEW y \in PwNames \ {"passwd.tmp"}, Same("passwd.tmp", y)'
               PROVE  y = "passwd" /\ \E q \in Procs : pc'[q] = "prmtmp"
    OBVIOUS
  <2>1. Same("passwd.tmp", y)
    BY NamesApart DEF Fewer
  <2>2. y = "passwd" /\ \E q \in Procs : pc[q] = "prmtmp"
    BY <2>1 DEF Inv, Apart
  <2>3. There("passwd.tmp")'
    BY DEF Same
  <2> QED
    BY <2>2, <2>3 DEF Steps, Moves
<1>3. ~onedev' => \A q \in Procs : \A y \in PwNames \ {q} : ~Same(q, y)'
  <2> SUFFICES ASSUME ~onedev', NEW q \in Procs, NEW y \in PwNames \ {q}, Same(q, y)' PROVE FALSE
    OBVIOUS
  <2>1. q \in Paths /\ y \in Paths /\ q # y /\ ~onedev
    BY NamesApart DEF Steps
  <2> QED
    BY <2>1 DEF Inv, Apart, Fewer
<1> QED
  BY <1>1, <1>2, <1>3 DEF Apart

LEMMA GoneKept ==
  ASSUME Inv, NEW p \in Procs, Steps(p),
         \/ There("passwd")'
         \/ pc'[p] \in Between
         \/ pc[p] \notin Between /\ dir'["passwd"] = dir["passwd"]
  PROVE  Gone'
<1>1. CASE There("passwd")'
  BY <1>1 DEF Gone
<1>2. CASE pc'[p] \in Between
  BY <1>2 DEF Gone
<1>3. CASE pc[p] \notin Between /\ dir'["passwd"] = dir["passwd"]
  <2> SUFFICES ASSUME ~There("passwd")' PROVE \E q \in Procs : pc'[q] \in Between
    BY DEF Gone
  <2>1. ~There("passwd")
    BY <1>3 DEF There
  <2>2. PICK q \in Procs : pc[q] \in Between
    BY <2>1 DEF Inv, Gone
  <2>3. pc'[q] = pc[q]
    BY <1>3, <2>2 DEF Steps, Moves
  <2> QED
    BY <2>2, <2>3
<1> QED
  BY <1>1, <1>2, <1>3

LEMMA NoTmpKept ==
  ASSUME Inv, NEW p \in Procs, Steps(p), \A q \in Procs \ {p} : dir'[q] = dir[q],
         pc'[p] \in {"idle", "rlock", "tmp"} => pc[p] \in {"idle", "rlock", "tmp"} /\ dir'[p] = dir[p]
  PROVE  \A q \in Procs : NoTmp(q)'
<1> SUFFICES ASSUME NEW q \in Procs, pc'[q] \in {"idle", "rlock", "tmp"} PROVE ~There(q)'
  BY DEF NoTmp
<1>1. dir'[q] = dir[q] /\ pc[q] \in {"idle", "rlock", "tmp"}
  BY DEF Steps, Moves
<1> QED
  BY <1>1 DEF Inv, NoTmp, There

DeadKept == \A d \in Procs : pc[d] = "dead" => Lines(d) \subseteq Lines(d)'

LEMMA KeptAt ==
  ASSUME Inv, NEW p \in Procs, Turn(p), NEW u \in Wanted
  PROVE  SafeAt(p, u)
<1>1. CASE \E q \in Procs : Running(q) /\ SafeAt(q, u)
  BY <1>1 DEF Inv, OneRuns, Turn
<1>2. CASE (\A q \in Procs : ~Running(q)) /\ (InDead(u) \/ InPlace(u))
  <2>1. pc[p] \notin PasswdPCs \cup {"plink"}
    BY <1>2, RunningPCs DEF AdminPCs
  <2> QED
    BY <1>2, <2>1 DEF SafeAt
<1> QED
  BY <1>1, <1>2 DEF Inv, Kept

LEMMA DeadStays ==
  ASSUME NEW p \in Procs, Steps(p), pc[p] # "dead", DeadKept, NEW u, InDead(u)
  PROVE  InDead(u)'
<1>1. PICK d \in Procs : pc[d] = "dead" /\ u \in UsersIn(d)
  BY DEF InDead
<1>2. pc'[d] = "dead"
  BY <1>1 DEF Steps, Moves
<1>3. u \in UsersIn(d)'
  BY <1>1 DEF DeadKept, UsersIn
<1> QED
  BY <1>2, <1>3 DEF InDead

\* A user that must not be lost is not the one the command is about, unless
\* the command is a mkuser, or a passwd that is done.
LEMMA NotHis ==
  ASSUME NEW p \in Procs, Steps(p), pc'[p] \in Begun, NEW u \in Wanted'
  PROVE  /\ Cmd[p] = "rmuser" => u # User[p]
         /\ Cmd[p] = "passwd" /\ pc'[p] # "done" => u # User[p]
<1>1. Cmd[p] = "rmuser" => User[p] \in Told("rmuser", Begun)'
  BY DEF Told
<1>2. Cmd[p] = "passwd" /\ pc'[p] # "done" => User[p] \in Told("passwd", Begun \ {"done"})'
  BY DEF Told
<1> QED
  BY <1>1, <1>2 DEF Wanted, Excepted

LEMMA NewlyWanted ==
  ASSUME NEW p \in Procs, Steps(p), pc'[p] \in Begun, NEW u \in Wanted', u \notin Wanted
  PROVE  \/ pc'[p] = "done" /\ Cmd[p] # "rmuser" /\ u = User[p]
         \/ u \in Members' \ Members
<1>1. u \notin Told("rmuser", Begun)' /\ u \notin Told("passwd", Begun \ {"done"})'
  BY DEF Wanted, Excepted
<1>2. u \in OldUsers \/ u \in Told("mkuser", {"done"})' \/ u \in Members'
  BY DEF Wanted
<1>3. u \notin Told("rmuser", Begun)
  <2> SUFFICES ASSUME NEW q \in Procs, Cmd[q] = "rmuser", pc[q] \in Begun, u = User[q] PROVE FALSE
    BY DEF Told
  <2>1. pc'[q] \in Begun
    BY DEF Steps, Moves
  <2> QED
    BY <1>1, <2>1 DEF Told
<1>4. CASE u \in Told("passwd", Begun \ {"done"})
  <2>1. PICK q \in Procs : Cmd[q] = "passwd" /\ pc[q] \in Begun \ {"done"} /\ u = User[q]
    BY <1>4 DEF Told
  <2>2. pc'[q] \notin Begun \ {"done"}
    BY <1>1, <2>1 DEF Told
  <2>3. q = p
    BY <2>1, <2>2 DEF Steps, Moves
  <2>4. pc'[p] = "done"
    BY <2>2, <2>3
  <2> QED
    BY <2>1, <2>3, <2>4
<1>5. CASE u \notin Told("passwd", Begun \ {"done"})
  <2>1. u \notin OldUsers /\ u \notin Told("mkuser", {"done"}) /\ u \notin Members
    BY <1>3, <1>5 DEF Wanted, Excepted
  <2>2. CASE u \in Members'
    BY <2>1, <2>2
  <2>3. CASE u \in Told("mkuser", {"done"})'
    <3>1. PICK q \in Procs : Cmd[q] = "mkuser" /\ pc'[q] = "done" /\ u = User[q]
      BY <2>3 DEF Told
    <3>2. pc[q] # "done"
      BY <2>1, <3>1 DEF Told
    <3>3. q = p
      BY <3>1, <3>2 DEF Steps, Moves
    <3> QED
      BY <3>1, <3>3
  <2> QED
    BY <1>2, <2>1, <2>2, <2>3
<1> QED
  BY <1>4, <1>5

LEMMA KeptStep ==
  ASSUME Inv, NEW p \in Procs, Steps(p), Turn(p), pc[p] # "dead", pc'[p] \in Begun, DeadKept,
         \A u \in Members' \ Members : SafeAt(p, u)',
         pc'[p] = "done" /\ Cmd[p] # "rmuser" => SafeAt(p, User[p])',
         \A u \in Wanted : u \in Wanted' /\ SafeAt(p, u) /\ ~InDead(u) => SafeAt(p, u)'
  PROVE  Kept'
<1>1. ASSUME NEW u \in Wanted' PROVE SafeAt(p, u)'
  <2>1. CASE u \notin Wanted
    BY <2>1, NewlyWanted
  <2>2. CASE u \in Wanted
    <3>1. SafeAt(p, u)
      BY <2>2, KeptAt
    <3>2. CASE InDead(u)
      <4>1. InDead(u)'
        BY <3>2, DeadStays
      <4> QED
        BY <4>1 DEF SafeAt
    <3> QED
      BY <2>2, <3>1, <3>2
  <2> QED
    BY <2>1, <2>2
<1>2. CASE Running(p)'
  BY <1>1, <1>2 DEF Kept
<1>3. CASE ~Running(p)'
  <2>1. \A q \in Procs : ~Running(q)'
    BY <1>3, RestStill
  <2>2. pc'[p] \notin PasswdPCs \cup {"plink"}
    BY <1>3 DEF Running, PasswdPCs
  <2>3. \A u \in Wanted' : InDead(u)' \/ InPlace(u)'
    BY <1>1, <2>2 DEF SafeAt
  <2> QED
    BY <2>1, <2>3 DEF Kept
<1> QED
  BY <1>2, <1>3

GroupKept == Lines("group")' = Lines("group") /\ Lines("group.tmp")' = Lines("group.tmp")

LEMMA MembersKept == ASSUME GroupKept PROVE Members' = Members
  BY DEF GroupKept, Members, UsersIn

\* A step that changes what one name leads to.
LEMMA ExceptKeeps ==
  ASSUME NEW x \in Paths, Except(x), \A d \in Procs : pc[d] = "dead" => x # d
  PROVE  /\ DeadKept
         /\ x \notin GrNames => GroupKept
<1>1. DeadKept
  BY NamesAre DEF DeadKept, Except
<1>2. x \notin GrNames => GroupKept
  BY NamesAre DEF GroupKept, Except, GrNames
<1> QED
  BY <1>1, <1>2

\* A step that writes to a file of passwd.
LEMMA RewrittenKeeps ==
  ASSUME Inv, NEW x \in PwNames, NEW ls, Rewritten(x, ls),
         \A d \in Procs : pc[d] = "dead" /\ Same(x, d) => Lines(d) \subseteq ls
  PROVE  DeadKept /\ GroupKept
<1>1. DeadKept
  BY NamesAre DEF DeadKept, Rewritten, Same
<1>2. ASSUME NEW y \in GrNames PROVE Lines(y)' = Lines(y)
  <2>1. y \in Paths /\ ~Same(y, x)
    BY NamesApart DEF Inv, Apart
  <2>2. dir[y] # dir[x]
    BY <2>1 DEF Same, There, Rewritten
  <2> QED
    BY <2>1, <2>2 DEF Rewritten
<1> QED
  BY <1>1, <1>2 DEF GroupKept, GrNames

LEMMA StillKeeps ==
  ASSUME Still
  PROVE  /\ DeadKept /\ GroupKept /\ Fewer
         /\ \A x \in Paths : Lines(x)' = Lines(x) /\ (There(x)' <=> There(x)) /\ UsersIn(x)' = UsersIn(x)
         /\ \A x, y \in Paths : Same(x, y)' <=> Same(x, y)
<1>1. \A x \in Paths : Lines(x)' = Lines(x) /\ dir'[x] = dir[x]
  BY DEF Still
<1>2. DeadKept /\ GroupKept /\ Fewer
  BY <1>1, NamesAre, FewerIs DEF DeadKept, GroupKept
<1> QED
  BY <1>1, <1>2 DEF There, Same, UsersIn

LEMMA UniqPart == ASSUME NEW S, NEW T, Uniq(S), T \subseteq S PROVE Uniq(T)
  BY DEF Uniq

LEMMA UniqKept == ASSUME Inv, Lines("passwd")' \subseteq Lines("passwd") PROVE UniqNow'
<1>1. Uniq(Lines("passwd"))
  BY DEF Inv, UniqNow
<1>2. Uniq(Lines("passwd")')
  BY <1>1, UniqPart
<1> QED
  BY <1>2 DEF UniqNow, Uniq

\* One name of the passwd file is linked to another.
LEMMA ApartLink ==
  ASSUME Inv, NEW p \in Procs, Steps(p), NEW x \in PwNames, NEW y \in PwNames, Linked(x, y),
         y # "passwd.tmp", \A q \in Procs : pc[q] # "prmtmp",
         x = "passwd.tmp" => y = "passwd" /\ pc'[p] = "prmtmp",
         ~onedev => x \notin Procs /\ y \notin Procs
  PROVE  Apart'
<1>0. x \in Paths /\ y \in Paths
  BY NamesApart
<1>1. \A a \in GrNames, b \in PwNames : ~Same(a, b)'
  <2> SUFFICES ASSUME NEW a \in GrNames, NEW b \in PwNames, Same(a, b)' PROVE FALSE
    OBVIOUS
  <2>1. a \in Paths /\ b \in Paths /\ a # y /\ ~Same(a, b) /\ ~Same(a, x)
    BY NamesApart DEF Inv, Apart
  <2> QED
    BY <2>1 DEF Linked, Except, Same, There
<1>2. \A b \in PwNames \ {"passwd.tmp"} :
         Same("passwd.tmp", b)' => b = "passwd" /\ \E q \in Procs : pc'[q] = "prmtmp"
  <2> SUFFICES ASSUME NEW b \in PwNames \ {"passwd.tmp"}, Same("passwd.tmp", b)'
               PROVE  b = "passwd" /\ \E q \in Procs : pc'[q] = "prmtmp"
    OBVIOUS
  <2>1. ~Same("passwd.tmp", b) /\ (x # "passwd.tmp" => ~Same("passwd.tmp", x))
    BY DEF Inv, Apart
  <2>2. b \in Paths /\ "passwd.tmp" \in Paths
    BY NamesApart
  <2>3. b = y /\ x = "passwd.tmp"
    BY <2>1, <2>2 DEF Linked, Except, Same, There
  <2> QED
    BY <2>3
<1>3. ~onedev' => \A q \in Procs : \A b \in PwNames \ {q} : ~Same(q, b)'
  <2> SUFFICES ASSUME ~onedev', NEW q \in Procs, NEW b \in PwNames \ {q}, Same(q, b)' PROVE FALSE
    OBVIOUS
  <2>1. q \in Paths /\ b \in Paths /\ ~onedev
    BY NamesApart DEF Steps
  <2>2. ~Same(q, b) /\ ~Same(q, x) /\ q # y
    BY <2>1 DEF Inv, Apart
  <2> QED
    BY <2>1, <2>2 DEF Linked, Except, Same, There
<1> QED
  BY <1>1, <1>2, <1>3 DEF Apart

-----------------------------------------------------------------------------
(* The steps of passwd *)

LEMMA NobodyElse ==
  ASSUME Inv, NEW p \in Procs, Running(p), NEW l, pc[p] # l, l \in PasswdPCs \cup AdminPCs
  PROVE  \A q \in Procs : pc[q] # l
<1> SUFFICES ASSUME NEW q \in Procs, pc[q] = l PROVE FALSE
  OBVIOUS
<1>1. Running(q)
  BY RunningPCs
<1> QED
  BY <1>1 DEF Inv, OneRuns

LEMMA KeptMid ==
  ASSUME Inv, NEW p \in Procs, Steps(p), pc[p] \in PasswdPCs, pc'[p] \in PasswdPCs, seen'[p] = seen[p],
         DeadKept, GroupKept
  PROVE  Kept'
<1>1. Turn(p) /\ pc[p] # "dead" /\ pc'[p] \in Begun /\ pc'[p] # "done" /\ pc[p] # "plink"
  BY RunningPCs DEF Turn, PasswdPCs, Begun, PCs
<1>2. ASSUME NEW u \in Wanted, SafeAt(p, u), ~InDead(u) PROVE SafeAt(p, u)'
  BY <1>1, <1>2 DEF SafeAt, Was
<1> QED
  BY <1>1, <1>2, MembersKept, KeptStep

LEMMA MidIs ==
  ASSUME Inv, NEW p \in Procs, Steps(p), pc[p] \in PasswdPCs, pc'[p] \in PasswdPCs, seen'[p] = seen[p],
         DeadKept, GroupKept, Apart', UniqNow', Gone', \A q \in Procs : NoTmp(q)', Opened(p)', Changing(p)'
  PROVE  Inv'
<1>1. Turn(p)
  BY RunningPCs DEF Turn
<1>2. Making(p)' /\ Removing(p)' /\ Replacing(p)'
  BY DEF Making, Removing, Replacing, PasswdPCs, AdminPCs
<1>3. Concluded(p)
  BY <1>2, KeptMid DEF Concluded, Mine
<1> QED
  BY <1>1, <1>3, Conclude

\* passwd ends or dies, and leaves the files as they are.
LEMMA PasswdStops ==
  ASSUME Inv, NEW p \in Procs, Steps(p), Still, pc[p] \in PasswdPCs, seen'[p] = seen[p],
         \/ pc'[p] = "dead"
         \/ pc'[p] = "failed" /\ pc[p] \in {"tmp", "append", "rmtmp"}
         \/ pc'[p] = "done" /\ pc[p] = "aunlock"
  PROVE  Inv'
<1>0. /\ Turn(p) /\ pc[p] # "dead" /\ pc'[p] \in Begun /\ ~Running(p)' /\ Cmd[p] = "passwd"
      /\ pc[p] # "plink" /\ pc[p] # "prmtmp" /\ pc'[p] \notin PasswdPCs \cup {"plink"}
  BY RunningPCs DEF Turn, PasswdPCs, Begun, PCs, Running, Inv, TypeInv, Roles, Role
<1>1. Changing(p)
  BY DEF Inv, Mine
<1>2. Apart'
  BY <1>0, StillKeeps, ApartFewer
<1>3. UniqNow'
  BY StillKeeps, NamesAre, UniqKept
<1>4. Gone'
  <2>1. pc'[p] = "done" => There("passwd")'
    BY <1>1, StillKeeps, NamesAre DEF Changing, With
  <2> QED
    BY <2>1, GoneKept DEF Between
<1>5. \A q \in Procs : NoTmp(q)'
  BY NoTmpKept, NamesAre DEF Still
<1>6. Mine(p)'
  BY <1>0, MineRestNext
<1>7. ASSUME NEW u, u \in Was(p), u # User[p] PROVE SafeAt(p, u)'
  <2>0. PICK m \in seen[p] : m.user = u
    BY <1>7 DEF Was
  <2>00. m \in Others(p, seen[p])
    BY <1>7, <2>0 DEF Others
  <2>1. CASE m \in Lines("passwd")
    <3>1. u \in UsersIn("passwd")
      BY <2>0, <2>1 DEF UsersIn
    <3>2. InPlace(u)'
      BY <3>1, StillKeeps, NamesAre DEF InPlace
    <3> QED
      BY <1>0, <3>2 DEF SafeAt
  <2>2. CASE m \in Lines(p) /\ pc'[p] = "dead"
    <3>1. u \in UsersIn(p)'
      BY <2>0, <2>2, StillKeeps, NamesAre DEF UsersIn
    <3> QED
      BY <2>2, <3>1 DEF SafeAt, InDead
  <2>3. pc[p] \in {"rlock", "tmp"} => m \in Lines("passwd")
    BY <1>1, <2>0 DEF Changing, Old
  <2>4. pc[p] \in {"linkbak", "unlink", "write"} \cup Copying => m \in Lines(p) /\ pc'[p] = "dead"
    BY <1>1, <2>00 DEF Changing, Aside, Copying
  <2>5. pc[p] \in {"rmtmp", "unlock", "access", "alock", "append"} => m \in Lines("passwd")
    BY <1>1, <2>00 DEF Changing, Without, Others
  <2>6. pc[p] = "aunlock" => m \in Lines("passwd")
    BY <1>1, <2>00 DEF Changing, With, Others
  <2> QED
    BY <2>1, <2>2, <2>3, <2>4, <2>5, <2>6 DEF PasswdPCs, Copying
<1>8. ASSUME pc'[p] = "done" PROVE SafeAt(p, User[p])'
  <2>1. line[p] \in Lines("passwd") /\ line[p].user = User[p]
    BY <1>1, <1>8 DEF Changing, With, Entry
  <2>2. User[p] \in UsersIn("passwd")
    BY <2>1 DEF UsersIn
  <2>3. InPlace(User[p])'
    BY <2>2, StillKeeps, NamesAre DEF InPlace
  <2> QED
    BY <1>0, <2>3 DEF SafeAt
<1>9. ASSUME NEW u \in Wanted, u \in Wanted', SafeAt(p, u), ~InDead(u) PROVE SafeAt(p, u)'
  <2>1. u \in Was(p)
    BY <1>0, <1>9 DEF SafeAt
  <2>2. pc'[p] # "done" => u # User[p]
    BY <1>0, <1>9, NotHis
  <2> QED
    BY <1>7, <1>8, <2>1, <2>2
<1>10. Kept'
  BY <1>0, <1>8, <1>9, StillKeeps, MembersKept, KeptStep
<1> QED
  BY <1>0, <1>2, <1>3, <1>4, <1>5, <1>6, <1>10, Conclude DEF Concluded

LEMMA PasswdStartStep ==
  ASSUME Setting, Inv, NEW p \in Procs, PasswdStart(p)
  PROVE  Inv'
<1>0. Steps(p) /\ TypeOK /\ FilesType
  BY PasswdStartTyped DEF Inv, TypeInv, TypeOK, FilesType
<1>1. /\ pc[p] = "idle" /\ Turn(p) /\ Cmd[p] = "passwd" /\ UNCHANGED <<dir, data>>
      /\ seen' = [seen EXCEPT ![p] = Lines("passwd")]
  BY DEF PasswdStart, Begin, At, Setting, Turn, files
<1>2. Still
  BY <1>0, <1>1, StillIs
<1>3. seen'[p] = Lines("passwd")
  BY <1>0, <1>1 DEF TypeOK
<1>4. Apart' /\ UniqNow'
  BY <1>0, <1>1, <1>2, StillKeeps, NamesAre, ApartFewer, UniqKept
<1>5. Gone'
  BY <1>0, <1>1, <1>2, GoneKept, NamesAre DEF Between, Copying, Still
<1>7. CASE \E l \in Lines("passwd") : l.user = User[p] /\ line' = [line EXCEPT ![p] = [l EXCEPT !.pw = NewPw[p]]] /\ Goto(p, "rlock")
  <2>1. PICK l \in Lines("passwd") : l.user = User[p] /\ line' = [line EXCEPT ![p] = [l EXCEPT !.pw = NewPw[p]]] /\ Goto(p, "rlock")
    BY <1>7
  <2>2. l \in Line /\ NewPw[p] \in Pws
    BY <1>0, NamesAre, LinesType DEF Pws
  <2>3. PICK m : m = [l EXCEPT !.pw = NewPw[p]]
    OBVIOUS
  <2>4. m \in Line /\ m.user = l.user /\ m.uid = l.uid
    BY <2>2, <2>3 DEF Line
  <2>5. line'[p] = m /\ pc'[p] = "rlock"
    BY <1>0, <2>1, <2>3 DEF TypeOK, Goto
  <2>6. Uniq(Lines("passwd") \cup {m})
    <3>1. Uniq(Lines("passwd")) /\ m.user = l.user /\ m.uid = l.uid /\ l \in Lines("passwd")
      BY <2>4 DEF Inv, UniqNow
    <3> QED
      BY <3>1 DEF Uniq
  <2>7. There("passwd") /\ There("passwd")'
    BY <1>2, <2>1, NamesAre DEF There, Still, Lines
  <2>8. Entry(p)'
    BY <1>3, <2>1, <2>4, <2>5, <2>6 DEF Entry, Uniq
  <2>9. Old(p)'
    BY <1>2, <1>3, <2>7, StillKeeps, NamesAre DEF Old
  <2>10. Changing(p)'
    BY <2>5, <2>8, <2>9 DEF Changing, Copying
  <2>11. Mine(p)'
    BY <1>1, <2>5, <2>10 DEF Mine, Opened, Making, Removing, Replacing
  <2>12. \A q \in Procs : NoTmp(q)'
    BY <1>0, <1>1, <1>2, NoTmpKept, NamesAre DEF Still
  <2>13. Kept'
    <3>1. pc'[p] \in Begun /\ pc'[p] \in PasswdPCs /\ pc[p] \notin PasswdPCs \cup {"plink"}
      BY <1>1, <2>5 DEF Begun, PCs, PasswdPCs
    <3>2. ASSUME NEW u \in Wanted, SafeAt(p, u), ~InDead(u) PROVE SafeAt(p, u)'
      <4>1. u \in UsersIn("passwd")
        BY <2>7, <3>1, <3>2 DEF SafeAt, InPlace
      <4>2. u \in Was(p)'
        BY <1>3, <4>1 DEF UsersIn, Was
      <4> QED
        BY <3>1, <4>2 DEF SafeAt
    <3> QED
      BY <1>0, <1>1, <1>2, <2>5, <3>1, <3>2, StillKeeps, MembersKept, KeptStep
  <2> QED
    BY <1>0, <1>1, <1>4, <1>5, <2>11, <2>12, <2>13, Conclude DEF Concluded
<1>8. CASE User[p] \notin UsersIn("passwd") /\ Goto(p, "failed")
  <2>1. pc'[p] = "failed" /\ ~Running(p)'
    BY <1>0, <1>8 DEF TypeOK, Goto, Running
  <2>2. Mine(p)'
    BY <2>1, MineRestNext
  <2>3. \A q \in Procs : NoTmp(q)'
    BY <1>0, <1>2, <2>1, NoTmpKept, NamesAre DEF Still
  <2>4. Kept'
    <3>1. pc'[p] \in Begun /\ pc'[p] \notin PasswdPCs \cup {"plink"} /\ pc[p] \notin PasswdPCs \cup {"plink"}
      BY <1>1, <2>1 DEF Begun, PCs, PasswdPCs
    <3>2. ASSUME NEW u \in Wanted, SafeAt(p, u), ~InDead(u) PROVE SafeAt(p, u)'
      <4>1. InPlace(u)
        BY <3>1, <3>2 DEF SafeAt
      <4>2. InPlace(u)'
        BY <1>2, <4>1, StillKeeps, NamesAre DEF InPlace
      <4> QED
        BY <3>1, <4>2 DEF SafeAt
    <3> QED
      BY <1>0, <1>1, <1>2, <2>1, <3>1, <3>2, StillKeeps, MembersKept, KeptStep
  <2> QED
    BY <1>0, <1>1, <1>4, <1>5, <2>2, <2>3, <2>4, Conclude DEF Concluded
<1> QED
  BY <1>7, <1>8 DEF PasswdStart

\* A step of passwd that touches no file.
LEMMA StillMid ==
  ASSUME Inv, NEW p \in Procs, Steps(p), Still, pc[p] \in PasswdPCs, pc'[p] \in PasswdPCs,
         seen'[p] = seen[p], Opened(p)', Changing(p)', pc'[p] \in {"rlock", "tmp"} => pc[p] \in {"rlock", "tmp"},
         There("passwd") \/ pc'[p] \in Between
  PROVE  Inv'
<1>0. pc[p] # "prmtmp"
  BY DEF PasswdPCs
<1>1. Apart' /\ UniqNow'
  BY <1>0, StillKeeps, NamesAre, ApartFewer, UniqKept
<1>2. Gone'
  BY GoneKept, StillKeeps, NamesAre
<1>3. \A q \in Procs : NoTmp(q)'
  BY NoTmpKept, NamesAre DEF Still, PasswdPCs
<1> QED
  BY <1>1, <1>2, <1>3, StillKeeps, MidIs

LEMMA MakeLockStep ==
  ASSUME Inv, NEW p \in Procs, MakeLock(p)
  PROVE  Inv'
<1>0. Steps(p) /\ TypeOK /\ FilesType /\ Changing(p)
  BY MakeLockTyped DEF Inv, TypeInv, TypeOK, FilesType, Mine
<1>1. /\ UNCHANGED <<dir, data>> /\ line' = line /\ seen' = seen
      /\ (pc[p] = "rlock" /\ pc'[p] = "tmp") \/ (pc[p] = "alock" /\ pc'[p] = "append")
  BY <1>0 DEF MakeLock, files, At, Goto, TypeOK
<1>2. Still
  BY <1>0, <1>1, StillIs
<1>3. Entry(p)'
  BY <1>0, <1>1 DEF Changing, Entry, PasswdPCs
<1>4. (Old(p) => Old(p)') /\ (Without(p) => Without(p)')
  BY <1>1, <1>2, StillKeeps, NamesAre DEF Old, Without
<1>5. Changing(p)' /\ Opened(p)'
  BY <1>0, <1>1, <1>3, <1>4 DEF Changing, Opened, Copying
<1>6. There("passwd")
  BY <1>0, <1>1 DEF Changing, Old, Without
<1> QED
  BY <1>0, <1>1, <1>2, <1>5, <1>6, StillMid DEF PasswdPCs

LEMMA FilterStep ==
  ASSUME Setting, Inv, NEW p \in Procs, Filter(p)
  PROVE  Inv'
<1>0. Steps(p) /\ TypeOK /\ FilesType /\ Changing(p) /\ NoTmp(p)
  BY FilterTyped DEF Inv, TypeInv, TypeOK, FilesType, Mine
<1>1. pc[p] = "tmp" /\ pc[p] \in PasswdPCs /\ line' = line /\ seen' = seen
  BY DEF Filter, At, PasswdPCs
<1>2. Old(p) /\ Entry(p) /\ ~There(p)
  BY <1>0, <1>1 DEF Changing, NoTmp
<1>3. CASE Creat(p, {l \in Lines("passwd") : l.user # User[p]}) /\ Goto(p, "linkbak")
  <2> DEFINE ls == {l \in Lines("passwd") : l.user # User[p]}
  <2>1. ls \in SUBSET Line /\ p \in Paths
    BY <1>0, NamesAre, LinesType
  <2>2. Made(p, ls) /\ pc'[p] = "linkbak"
    <3> HIDE DEF ls
    <3>1. Creat(p, ls)
      BY <1>3 DEF ls
    <3> QED
      BY <1>0, <1>2, <1>3, <2>1, <3>1, CreatIs DEF Goto, TypeOK
  <2>3. Except(p) /\ dir'[p] # NoFile /\ Lines(p)' = ls
    BY <2>2 DEF Made
  <2>4. ls = Others(p, seen[p])
    BY <1>2 DEF Old, Others
  <2> HIDE DEF ls
  <2>5. Fewer
    BY <2>1, <2>2, FewerIs
  <2>6. p \notin GrNames /\ p # "passwd" /\ "passwd" \in Paths
    BY NamesApart, NamesAre DEF GrNames
  <2>7. dir'["passwd"] = dir["passwd"] /\ Lines("passwd")' = Lines("passwd")
    BY <2>3, <2>6 DEF Except
  <2>8. DeadKept /\ GroupKept
    BY <1>1, <2>1, <2>3, <2>6, ExceptKeeps
  <2>9. Entry(p)' /\ Old(p)' /\ Aside(p)'
    BY <1>1, <1>2, <2>3, <2>4, <2>7 DEF Entry, Old, Aside, There, Others
  <2>10. Changing(p)' /\ Opened(p)'
    BY <2>2, <2>9 DEF Changing, Opened, Copying
  <2>11. Apart' /\ UniqNow' /\ Gone'
    BY <1>0, <1>1, <2>5, <2>7, <2>9, ApartFewer, UniqKept, GoneKept DEF Old
  <2>12. \A q \in Procs : NoTmp(q)'
    BY <1>0, <2>2, <2>3, NamesAre, NoTmpKept DEF Except
  <2>13. pc'[p] \in PasswdPCs
    BY <2>2 DEF PasswdPCs
  <2> QED
    BY <1>0, <1>1, <2>8, <2>10, <2>11, <2>12, <2>13, MidIs
<1>4. CASE Goto(p, "failed") /\ UNCHANGED <<dir, data>>
  <2>1. pc'[p] = "failed" /\ Still
    BY <1>0, <1>4, StillIs DEF TypeOK, Goto
  <2> QED
    BY <1>0, <1>1, <2>1, PasswdStops
<1>5. ~Fail("write")
  BY DEF Setting, Fail
<1> QED
  BY <1>3, <1>4, <1>5 DEF Filter

LEMMA LinkBakStep ==
  ASSUME Inv, NEW p \in Procs, LinkBak(p)
  PROVE  Inv'
<1>0. Steps(p) /\ TypeOK /\ FilesType /\ Changing(p)
  BY LinkBakTyped DEF Inv, TypeInv, TypeOK, FilesType, Mine
<1>1. pc[p] = "linkbak" /\ pc[p] \in PasswdPCs /\ line' = line /\ seen' = seen
  BY DEF LinkBak, At, PasswdPCs
<1>2. Old(p) /\ Entry(p) /\ Aside(p)
  BY <1>0, <1>1 DEF Changing
<1>3. CASE CanLink("passwd", "passwd.bak") /\ Link("passwd", "passwd.bak") /\ Goto(p, "unlink")
  <2>1. Linked("passwd", "passwd.bak") /\ pc'[p] = "unlink"
    BY <1>0, <1>3, NamesAre, LinkIs DEF Goto, TypeOK
  <2>2. Except("passwd.bak") /\ dir'["passwd.bak"] = dir["passwd"]
    BY <2>1 DEF Linked
  <2>3. /\ Lines("passwd")' = Lines("passwd") /\ dir'["passwd"] = dir["passwd"]
        /\ Lines(p)' = Lines(p) /\ dir'[p] = dir[p] /\ \A q \in Procs : dir'[q] = dir[q]
    BY <2>2, NamesApart, NamesAre DEF Except
  <2>4. DeadKept /\ GroupKept
    BY <2>2, NamesApart, NamesAre, ExceptKeeps
  <2>5. Entry(p)' /\ Old(p)' /\ Aside(p)' /\ Same("passwd", "passwd.bak")'
    BY <1>1, <1>2, <2>2, <2>3 DEF Entry, Old, Aside, There, Others, Same
  <2>6. Changing(p)' /\ Opened(p)'
    BY <2>1, <2>5 DEF Changing, Opened, Copying
  <2>7. Running(p)
    BY <1>1, RunningPCs
  <2>8. \A q \in Procs : pc[q] # "prmtmp"
    BY <1>1, <2>7, NobodyElse DEF AdminPCs
  <2>9. Apart'
    BY <1>0, <2>1, <2>8, NamesApart, ApartLink
  <2>10. UniqNow' /\ Gone' /\ \A q \in Procs : NoTmp(q)'
    BY <1>0, <2>1, <2>3, <2>5, UniqKept, GoneKept, NoTmpKept DEF Old
  <2>11. pc'[p] \in PasswdPCs
    BY <2>1 DEF PasswdPCs
  <2> QED
    BY <1>0, <1>1, <2>4, <2>6, <2>9, <2>10, <2>11, MidIs
<1>4. CASE ~CanLink("passwd", "passwd.bak") /\ UNCHANGED <<dir, data>> /\ Goto(p, "stat")
  <2>1. Still /\ pc'[p] = "stat" /\ There("passwd.bak") /\ There("passwd")
    BY <1>0, <1>2, <1>4, StillIs DEF Goto, TypeOK, CanLink, There, Old
  <2>2. Entry(p)' /\ Aside(p)' /\ There("passwd.bak")' /\ There("passwd")' /\ Lines("passwd")' = seen[p]
    BY <1>1, <1>2, <2>1, StillKeeps, NamesAre DEF Entry, Aside, Others, Old
  <2>3. Changing(p)' /\ Opened(p)'
    BY <1>1, <2>1, <2>2 DEF Changing, Opened, Copying
  <2> QED
    BY <1>0, <1>1, <2>1, <2>3, StillMid DEF PasswdPCs
<1> QED
  BY <1>3, <1>4 DEF LinkBak

\* passwd is unlinked, with the backup in place or the copy made.
LEMMA PasswdRemoved ==
  ASSUME Inv, NEW p \in Procs, Steps(p), Removed("passwd"), pc[p] \in PasswdPCs, pc'[p] \in Copying,
         seen'[p] = seen[p], Opened(p)', Changing(p)'
  PROVE  Inv'
<1>1. Except("passwd") /\ dir'["passwd"] = NoFile
  BY DEF Removed
<1>2. DeadKept /\ GroupKept /\ \A q \in Procs : dir'[q] = dir[q]
  BY <1>1, NamesApart, NamesAre, ExceptKeeps DEF GrNames, Except
<1>3. Fewer /\ pc[p] # "prmtmp"
  BY NamesAre, FewerIs DEF PasswdPCs
<1>4. Apart' /\ Gone' /\ \A q \in Procs : NoTmp(q)'
  BY <1>2, <1>3, ApartFewer, GoneKept, NoTmpKept DEF Between, Copying
<1>5. UniqNow'
  BY <1>1, UniqKept DEF Lines
<1>6. pc'[p] \in PasswdPCs
  BY DEF Copying, PasswdPCs
<1> QED
  BY <1>2, <1>4, <1>5, <1>6, MidIs

LEMMA UnlinkPasswdStep ==
  ASSUME Inv, NEW p \in Procs, UnlinkPasswd(p)
  PROVE  Inv'
<1>0. Steps(p) /\ TypeOK /\ FilesType /\ Changing(p)
  BY UnlinkPasswdTyped DEF Inv, TypeInv, TypeOK, FilesType, Mine
<1>1. pc[p] = "unlink" /\ pc[p] \in PasswdPCs /\ line' = line /\ seen' = seen
  BY DEF UnlinkPasswd, At, PasswdPCs
<1>2. Old(p) /\ Entry(p) /\ Aside(p) /\ Same("passwd", "passwd.bak")
  BY <1>0, <1>1 DEF Changing
<1>3. Removed("passwd") /\ pc'[p] = "stat"
  BY <1>0, NamesAre, UnlinkIs DEF UnlinkPasswd, Goto, TypeOK
<1>4. /\ Lines("passwd.bak")' = Lines("passwd.bak") /\ dir'["passwd.bak"] = dir["passwd.bak"]
      /\ Lines(p)' = Lines(p) /\ dir'[p] = dir[p] /\ ~There("passwd")'
  BY <1>3, NamesApart, NamesAre DEF Removed, Except, There
<1>5. Lines("passwd.bak") = seen[p]
  BY <1>2 DEF Old, Same, Lines
<1>6. Entry(p)' /\ Aside(p)' /\ There("passwd.bak")' /\ Lines("passwd.bak")' = seen'[p]
  BY <1>1, <1>2, <1>4, <1>5 DEF Entry, Aside, There, Others, Same
<1>7. Changing(p)' /\ Opened(p)'
  BY <1>3, <1>4, <1>6 DEF Changing, Opened, Copying
<1> QED
  BY <1>0, <1>1, <1>3, <1>7, PasswdRemoved DEF Copying

LEMMA RgStatStep ==
  ASSUME Inv, NEW p \in Procs, RgStat(p)
  PROVE  Inv'
<1>0. Steps(p) /\ TypeOK /\ FilesType /\ Changing(p) /\ onedev' = onedev
  BY RgStatTyped DEF Inv, TypeInv, TypeOK, FilesType, Mine, Steps
<1>1. pc[p] = "stat" /\ pc[p] \in PasswdPCs /\ line' = line /\ seen' = seen /\ pc'[p] = "rglink"
  BY <1>0 DEF RgStat, At, PasswdPCs, Goto, TypeOK
<1>2. /\ Entry(p) /\ Aside(p) /\ There("passwd.bak")
      /\ There("passwd") => Lines("passwd") = seen[p]
      /\ ~There("passwd") => Lines("passwd.bak") = seen[p]
  BY <1>0, <1>1 DEF Changing, Copying
<1>3. CASE There("passwd") /\ onedev /\ Unlink("passwd")
  <2>1. Removed("passwd")
    BY <1>0, <1>3, NamesAre, UnlinkIs
  <2>2. dir'["passwd.bak"] = dir["passwd.bak"] /\ Lines(p)' = Lines(p) /\ dir'[p] = dir[p] /\ ~There("passwd")'
    BY <2>1, NamesApart, NamesAre DEF Removed, Except, There
  <2>3. Entry(p)' /\ Aside(p)' /\ There("passwd.bak")' /\ onedev'
    BY <1>0, <1>1, <1>2, <1>3, <2>2 DEF Entry, Aside, There, Others
  <2>4. Changing(p)' /\ Opened(p)'
    BY <1>1, <2>2, <2>3 DEF Changing, Opened, Copying
  <2> QED
    BY <1>0, <1>1, <2>1, <2>4, PasswdRemoved DEF Copying
<1>4. CASE ~(There("passwd") /\ onedev) /\ UNCHANGED <<dir, data>>
  <2>1. Still
    BY <1>0, <1>4, StillIs
  <2>2. /\ Entry(p)' /\ Aside(p)' /\ There("passwd.bak")'
        /\ There("passwd")' => Lines("passwd")' = seen'[p] /\ ~onedev'
        /\ ~There("passwd")' => Lines("passwd.bak")' = seen'[p]
    BY <1>0, <1>1, <1>2, <1>4, <2>1, StillKeeps, NamesAre DEF Entry, Aside, Others
  <2>3. Changing(p)' /\ Opened(p)'
    BY <1>1, <2>2 DEF Changing, Opened, Copying
  <2> QED
    BY <1>0, <1>1, <2>1, <2>3, StillMid DEF PasswdPCs, Between, Copying
<1> QED
  BY <1>3, <1>4 DEF RgStat, There

\* passwd becomes the copy without the line, which was p, or the backup.
LEMMA PasswdLinked ==
  ASSUME Inv, NEW p \in Procs, Steps(p), NEW x \in {p, "passwd.bak"}, Linked(x, "passwd"), There(x), ~There("passwd"),
         pc[p] \in Copying, pc'[p] = "rmtmp", x = p => onedev, line' = line, seen' = seen,
         Lines(x) \subseteq seen[p], Others(p, Lines(x)) = Others(p, seen[p]), Entry(p)
  PROVE  Inv'
<1>0. x \in PwNames /\ x # "passwd.tmp" /\ "passwd" \in PwNames /\ "passwd" \notin Procs /\ "passwd.bak" \notin Procs
      /\ pc[p] \in PasswdPCs /\ pc'[p] \in PasswdPCs /\ pc[p] # "prmtmp"
  BY NamesApart DEF Copying, PasswdPCs
<1>1. Except("passwd") /\ dir'["passwd"] = dir[x] /\ Lines("passwd")' = Lines(x)
  BY DEF Linked
<1>2. DeadKept /\ GroupKept /\ \A q \in Procs : dir'[q] = dir[q]
  BY <1>1, NamesApart, NamesAre, ExceptKeeps DEF GrNames, Except
<1>3. \A q \in Procs : pc[q] # "prmtmp"
  BY <1>0, RunningPCs, NobodyElse DEF AdminPCs
<1>4. Apart'
  BY <1>0, <1>3, ApartLink
<1>5. Without(p)' /\ Entry(p)' /\ There("passwd")'
  BY <1>1 DEF Without, Entry, There, Others
<1>6. Changing(p)' /\ Opened(p)'
  BY <1>5 DEF Changing, Opened, Copying
<1>7. UniqNow'
  <2>1. Uniq(seen[p] \cup {line[p]})
    BY DEF Entry
  <2>2. Uniq(Lines("passwd")')
    BY <1>1, <2>1, UniqPart
  <2> QED
    BY <2>2 DEF UniqNow, Uniq
<1>8. Gone' /\ \A q \in Procs : NoTmp(q)'
  BY <1>2, <1>5, GoneKept, NoTmpKept
<1> QED
  BY <1>0, <1>2, <1>4, <1>6, <1>7, <1>8, MidIs

LEMMA OthersTwice == ASSUME NEW p, NEW S PROVE Others(p, Others(p, S)) = Others(p, S) /\ Others(p, S) \subseteq S
  BY DEF Others

LEMMA RgLinkStep ==
  ASSUME Inv, NEW p \in Procs, RgLink(p)
  PROVE  Inv'
<1>0. Steps(p) /\ TypeOK /\ FilesType /\ Changing(p) /\ onedev' = onedev
  BY RgLinkTyped DEF Inv, TypeInv, TypeOK, FilesType, Mine, Steps
<1>1. pc[p] = "rglink" /\ pc[p] \in PasswdPCs /\ line' = line /\ seen' = seen
  BY <1>0 DEF RgLink, At, PasswdPCs
<1>2. /\ Entry(p) /\ Aside(p) /\ There("passwd.bak")
      /\ There("passwd") => Lines("passwd") = seen[p] /\ ~onedev
      /\ ~There("passwd") => Lines("passwd.bak") = seen[p] \/ onedev
  BY <1>0, <1>1 DEF Changing, Copying
<1>3. CASE onedev /\ CanLink(p, "passwd") /\ Link(p, "passwd") /\ Goto(p, "rmtmp")
  <2>1. Linked(p, "passwd") /\ There(p) /\ ~There("passwd") /\ pc'[p] = "rmtmp"
    BY <1>0, <1>3, NamesAre, LinkIs DEF CanLink, There, Goto, TypeOK
  <2>2. Lines(p) \subseteq seen[p] /\ Others(p, Lines(p)) = Others(p, seen[p])
    BY <1>2, OthersTwice DEF Aside
  <2> QED
    BY <1>0, <1>1, <1>2, <1>3, <2>1, <2>2, PasswdLinked DEF Copying
<1>4. CASE /\ UNCHANGED <<dir, data>> /\ Goto(p, "creat")
           /\ (onedev => ~CanLink(p, "passwd")) \/ Fail("link")
  <2>1. Still /\ pc'[p] = "creat"
    BY <1>0, <1>4, StillIs DEF Goto, TypeOK
  <2>2. (onedev => ~CanLink(p, "passwd")) => ~onedev
    BY <1>2 DEF CanLink, There, Aside
  <2>3. Fail("link") => LinkFailed'
    BY <1>0, FailIs DEF LinkFailed
  <2>4. /\ Entry(p)' /\ Aside(p)' /\ There("passwd.bak")'
        /\ There("passwd")' => Lines("passwd")' = seen'[p] /\ ~onedev'
        /\ ~There("passwd")' => Lines("passwd.bak")' = seen'[p] \/ onedev'
    BY <1>0, <1>1, <1>2, <2>1, StillKeeps, NamesAre DEF Entry, Aside, Others
  <2>5. ~onedev' \/ LinkFailed'
    BY <1>0, <1>4, <2>2, <2>3
  <2>6. Changing(p)' /\ Opened(p)'
    BY <2>1, <2>4, <2>5 DEF Changing, Opened, Copying
  <2> QED
    BY <1>0, <1>1, <2>1, <2>6, StillMid DEF PasswdPCs, Between, Copying
<1> QED
  BY <1>3, <1>4 DEF RgLink

LEMMA CopyCreatStep ==
  ASSUME Setting, Inv, NEW p \in Procs, CopyCreat(p)
  PROVE  Inv'
<1>0. Steps(p) /\ TypeOK /\ FilesType /\ Changing(p) /\ onedev' = onedev
  BY CopyCreatTyped DEF Inv, TypeInv, TypeOK, FilesType, Mine, Steps
<1>1. pc[p] = "creat" /\ pc[p] \in PasswdPCs /\ line' = line /\ seen' = seen /\ pc[p] # "prmtmp"
  BY <1>0 DEF CopyCreat, At, PasswdPCs
<1>2. /\ Entry(p) /\ Aside(p) /\ There("passwd.bak")
      /\ There("passwd") => Lines("passwd") = seen[p] /\ ~onedev
      /\ ~There("passwd") => Lines("passwd.bak") = seen[p] \/ LinkFailed
  BY <1>0, <1>1 DEF Changing, Copying
<1>n. /\ "passwd" \in PwNames /\ "passwd" \in Paths /\ "passwd" \notin GrNames /\ "passwd" \notin Procs
      /\ \A q \in Procs : q \in PwNames /\ q \in Paths /\ q # "passwd" /\ q # "passwd.bak"
      /\ "passwd.bak" \in Paths /\ "passwd.tmp" \in PwNames /\ "passwd.tmp" \in Paths
  BY NamesApart, NamesAre DEF GrNames
<1>3. CASE Creat("passwd", {}) /\ to' = [to EXCEPT ![p] = Target("passwd")] /\ Goto(p, "write")
  <2>1. /\ There("passwd") => Rewritten("passwd", {})
        /\ ~There("passwd") => Made("passwd", {})
        /\ dir'["passwd"] = Target("passwd")
    <3>1. {} \in SUBSET Line
      OBVIOUS
    <3> QED
      BY <1>0, <1>3, <1>n, <3>1, CreatIs
  <2>2. to'[p] = dir'["passwd"] /\ pc'[p] = "write"
    BY <1>0, <1>3, <2>1 DEF TypeOK, Goto
  <2>3. There("passwd") => \A q \in Procs : ~Same(q, "passwd")
    BY <1>2, <1>n DEF Inv, Apart
  <2>4. There("passwd") => \A q \in Procs : ~Same("passwd", q)
    BY <2>3 DEF Same, There
  <2>5. DeadKept /\ GroupKept
    <3>1. CASE There("passwd")
      BY <1>n, <2>1, <2>4, <3>1, RewrittenKeeps
    <3>2. CASE ~There("passwd")
      BY <1>n, <2>1, <3>2, ExceptKeeps DEF Made
    <3> QED
      BY <3>1, <3>2
  <2>6. /\ \A y \in Paths \ {"passwd"} : dir'[y] = dir[y]
        /\ There("passwd")' /\ Lines("passwd")' = {}
    <3>1. CASE There("passwd")
      BY <1>n, <2>1, <3>1 DEF Rewritten, There
    <3>2. CASE ~There("passwd")
      BY <2>1, <3>2 DEF Made, Except, There
    <3> QED
      BY <3>1, <3>2
  <2>7. Lines(p)' = Lines(p)
    <3>1. CASE There("passwd")
      <4>1. dir[p] # dir["passwd"]
        BY <2>3, <3>1 DEF Same, There
      <4> QED
        BY <1>n, <2>1, <3>1, <4>1 DEF Rewritten
    <3>2. CASE ~There("passwd")
      BY <1>n, <2>1, <3>2 DEF Made, Except
    <3> QED
      BY <3>1, <3>2
  <2>8. Fewer
    BY <1>n, <2>1, FewerIs
  <2>9. \A y \in PwNames : Same("passwd", y)' => y \in {"passwd", "passwd.bak"}
    <3> SUFFICES ASSUME NEW y \in PwNames, Same("passwd", y)', y # "passwd", y # "passwd.bak" PROVE FALSE
      OBVIOUS
    <3>1. y \in Paths /\ Same("passwd", y)
      BY <1>n, <2>8, NamesApart DEF Fewer
    <3>2. There("passwd")
      BY <3>1 DEF Same
    <3>3. y \notin Procs
      BY <2>4, <3>1, <3>2
    <3>4. y = "passwd.tmp"
      BY <3>3 DEF PwNames
    <3>5. Same("passwd.tmp", "passwd")
      BY <3>1, <3>4 DEF Same, There
    <3>6. \E q \in Procs : pc[q] = "prmtmp"
      BY <1>n, <3>5 DEF Inv, Apart
    <3> QED
      BY <1>1, <3>6, RunningPCs, NobodyElse DEF AdminPCs
  <2>10. Opened(p)'
    BY <2>2, <2>6, <2>9 DEF Opened
  <2>11. Entry(p)' /\ Aside(p)' /\ There("passwd.bak")'
    BY <1>1, <1>2, <1>n, <2>6, <2>7 DEF Entry, Aside, There, Others
  <2>12. Changing(p)'
    BY <2>2, <2>11 DEF Changing, Copying
  <2>13. Apart' /\ UniqNow' /\ Gone'
    BY <1>0, <1>1, <2>6, <2>8, ApartFewer, UniqKept, GoneKept
  <2>14. \A q \in Procs : NoTmp(q)'
    BY <1>0, <1>n, <2>2, <2>6, NoTmpKept
  <2> QED
    BY <1>0, <1>1, <2>2, <2>5, <2>10, <2>12, <2>13, <2>14, MidIs DEF PasswdPCs
<1>4. CASE Fail("copy") /\ Goto(p, "restore") /\ UNCHANGED <<dir, data>>
  <2>1. Still /\ pc'[p] = "restore"
    BY <1>0, <1>4, StillIs DEF Goto, TypeOK
  <2>2. ~LinkFailed
    <3>1. "copy" \in FaultKinds /\ faults < MaxFaults /\ faults \in Nat /\ MaxFaults \in Nat
      BY <1>0, <1>4, FailIs, AccountsAssumption DEF AccountsAssumption
    <3> QED
      BY <3>1 DEF Setting, LinkFailed
  <2>3. /\ Entry(p)' /\ Aside(p)' /\ There("passwd.bak")'
        /\ There("passwd")' => Lines("passwd")' = seen'[p]
        /\ ~There("passwd")' => Lines("passwd.bak")' = seen'[p]
    BY <1>0, <1>1, <1>2, <2>1, <2>2, StillKeeps, NamesAre DEF Entry, Aside, Others
  <2>4. Changing(p)' /\ Opened(p)'
    BY <2>1, <2>3 DEF Changing, Opened, Copying
  <2> QED
    BY <1>0, <1>1, <2>1, <2>4, StillMid DEF PasswdPCs, Between, Copying
<1> QED
  BY <1>3, <1>4 DEF CopyCreat

LEMMA CopyWriteStep ==
  ASSUME Setting, Inv, NEW p \in Procs, CopyWrite(p)
  PROVE  Inv'
<1>0. Steps(p) /\ TypeOK /\ FilesType /\ Changing(p) /\ Opened(p)
  BY CopyWriteTyped DEF Inv, TypeInv, TypeOK, FilesType, Mine
<1>1. pc[p] = "write" /\ pc[p] \in PasswdPCs /\ line' = line /\ seen' = seen /\ dir' = dir /\ pc[p] # "prmtmp"
  BY <1>0 DEF CopyWrite, At, PasswdPCs
<1>2. /\ Entry(p) /\ Aside(p)
      /\ to[p] = dir["passwd"] /\ There("passwd")
      /\ \A y \in PwNames : Same("passwd", y) => y \in {"passwd", "passwd.bak"}
  BY <1>0, <1>1 DEF Changing, Opened
<1>3. data' = [data EXCEPT ![dir["passwd"]] = Lines(p)] /\ Goto(p, "rmtmp")
  BY <1>2 DEF CopyWrite, Setting, Fail
<1>n. "passwd" \in PwNames /\ "passwd" \in Paths /\ \A q \in Procs : q \in PwNames /\ q \in Paths /\ q \notin {"passwd", "passwd.bak"}
  BY NamesApart, NamesAre
<1>4. Rewritten("passwd", Lines(p)) /\ pc'[p] = "rmtmp"
  <2>1. Lines(p) \in SUBSET Line
    BY <1>0, <1>n, LinesType
  <2> QED
    BY <1>0, <1>1, <1>2, <1>3, <1>n, <2>1, WriteIs DEF Goto, TypeOK
<1>5. DeadKept /\ GroupKept
  BY <1>2, <1>4, <1>n, RewrittenKeeps
<1>6. Fewer
  BY <1>4, <1>n, FewerIs
<1>7. Lines("passwd")' = Others(p, seen[p]) /\ There("passwd")' /\ \A q \in Procs : dir'[q] = dir[q]
  BY <1>1, <1>2, <1>4, <1>n DEF Rewritten, Aside, There
<1>8. Without(p)' /\ Entry(p)'
  <2>1. Others(p, Others(p, seen[p])) = Others(p, seen[p]) /\ Others(p, seen[p]) \subseteq seen[p]
    BY OthersTwice
  <2>2. Others(p, Lines("passwd"))' = Others(p, seen[p]) /\ Others(p, seen[p])' = Others(p, seen[p])
    BY <1>1, <1>7, <2>1 DEF Others
  <2> QED
    BY <1>1, <1>2, <1>7, <2>1, <2>2 DEF Without, Entry
<1>9. Changing(p)' /\ Opened(p)'
  BY <1>4, <1>8 DEF Changing, Opened, Copying
<1>10. UniqNow'
  <2>1. Uniq(seen[p] \cup {line[p]}) /\ Others(p, seen[p]) \subseteq seen[p] \cup {line[p]}
    BY <1>2 DEF Entry, Others
  <2>2. Uniq(Lines("passwd")')
    BY <1>7, <2>1, UniqPart
  <2> QED
    BY <2>2 DEF UniqNow, Uniq
<1>11. Apart' /\ Gone' /\ \A q \in Procs : NoTmp(q)'
  BY <1>0, <1>1, <1>4, <1>6, <1>7, ApartFewer, GoneKept, NoTmpKept
<1> QED
  BY <1>0, <1>1, <1>4, <1>5, <1>9, <1>10, <1>11, MidIs DEF PasswdPCs

LEMMA RestoreStep ==
  ASSUME Inv, NEW p \in Procs, Restore(p)
  PROVE  Inv'
<1>0. Steps(p) /\ TypeOK /\ FilesType /\ Changing(p)
  BY RestoreTyped DEF Inv, TypeInv, TypeOK, FilesType, Mine
<1>1. pc[p] = "restore" /\ pc[p] \in PasswdPCs /\ line' = line /\ seen' = seen /\ pc'[p] = "rmtmp"
  BY <1>0 DEF Restore, At, PasswdPCs, Goto, TypeOK
<1>2. /\ Entry(p) /\ There("passwd.bak")
      /\ There("passwd") => Lines("passwd") = seen[p]
      /\ ~There("passwd") => Lines("passwd.bak") = seen[p]
  BY <1>0, <1>1 DEF Changing, Copying
<1>3. CASE CanLink("passwd.bak", "passwd") /\ Link("passwd.bak", "passwd")
  <2>1. Linked("passwd.bak", "passwd") /\ ~There("passwd")
    BY <1>0, <1>3, NamesAre, LinkIs DEF CanLink, There
  <2>2. "passwd.bak" # p
    BY NamesApart
  <2> QED
    BY <1>0, <1>1, <1>2, <2>1, <2>2, PasswdLinked DEF Copying
<1>4. CASE ~CanLink("passwd.bak", "passwd") /\ UNCHANGED <<dir, data>>
  <2>1. Still /\ There("passwd")
    BY <1>0, <1>2, <1>4, StillIs DEF CanLink, There
  <2>2. Entry(p)' /\ Without(p)'
    BY <1>1, <1>2, <2>1, StillKeeps, NamesAre DEF Entry, Without, Others
  <2>3. Changing(p)' /\ Opened(p)'
    BY <1>1, <2>2 DEF Changing, Opened, Copying
  <2> QED
    BY <1>0, <1>1, <2>1, <2>3, StillMid DEF PasswdPCs
<1> QED
  BY <1>3, <1>4 DEF Restore

LEMMA RemoveTmpStep ==
  ASSUME Inv, NEW p \in Procs, RemoveTmp(p)
  PROVE  Inv'
<1>0. Steps(p) /\ TypeOK /\ FilesType /\ Changing(p)
  BY RemoveTmpTyped DEF Inv, TypeInv, TypeOK, FilesType, Mine
<1>1. pc[p] = "rmtmp" /\ pc[p] \in PasswdPCs /\ line' = line /\ seen' = seen /\ pc[p] # "prmtmp"
  BY <1>0 DEF RemoveTmp, At, PasswdPCs
<1>2. Entry(p) /\ Without(p)
  BY <1>0, <1>1 DEF Changing
<1>3. CASE Unlink(p) /\ Goto(p, "unlock")
  <2>0. pc'[p] = "unlock"
    BY <1>0, <1>3 DEF Goto, TypeOK
  <2>1. p \in Paths /\ p \notin GrNames /\ p # "passwd" /\ "passwd" \in Paths
    BY NamesApart, NamesAre DEF GrNames
  <2>2. Removed(p)
    BY <1>0, <1>3, <2>1, UnlinkIs
  <2>3. DeadKept /\ GroupKept /\ Fewer
    BY <1>1, <2>1, <2>2, ExceptKeeps, FewerIs DEF Removed
  <2>4. Lines("passwd")' = Lines("passwd") /\ dir'["passwd"] = dir["passwd"]
    BY <2>1, <2>2 DEF Removed, Except
  <2>5. Entry(p)' /\ Without(p)'
    BY <1>1, <1>2, <2>4 DEF Entry, Without, There, Others
  <2>6. Changing(p)' /\ Opened(p)'
    BY <2>0, <2>5 DEF Changing, Opened, Copying
  <2>7. Apart' /\ UniqNow' /\ Gone'
    <3>1. There("passwd")'
      BY <2>5 DEF Without
    <3> QED
      BY <1>0, <1>1, <2>3, <2>4, <3>1, ApartFewer, UniqKept, GoneKept
  <2>8. \A q \in Procs : NoTmp(q)'
    BY <1>0, <1>1, <2>0, <2>2, NamesAre, NoTmpKept DEF Removed, Except
  <2>9. pc'[p] \in PasswdPCs /\ seen'[p] = seen[p]
    BY <1>1, <2>0 DEF PasswdPCs
  <2> QED
    BY <1>0, <1>1, <2>3, <2>6, <2>7, <2>8, <2>9, MidIs
<1>4. CASE Goto(p, "failed") /\ UNCHANGED <<dir, data>>
  <2>1. pc'[p] = "failed" /\ Still
    BY <1>0, <1>4, StillIs DEF TypeOK, Goto
  <2> QED
    BY <1>0, <1>1, <2>1, PasswdStops
<1> QED
  BY <1>3, <1>4 DEF RemoveTmp

LEMMA RemoveLockStep ==
  ASSUME Inv, NEW p \in Procs, RemoveLock(p)
  PROVE  Inv'
<1>0. Steps(p) /\ TypeOK /\ FilesType /\ Changing(p)
  BY RemoveLockTyped DEF Inv, TypeInv, TypeOK, FilesType, Mine
<1>1. /\ UNCHANGED <<dir, data>> /\ line' = line /\ seen' = seen
      /\ (pc[p] = "unlock" /\ pc'[p] = "access") \/ (pc[p] = "aunlock" /\ pc'[p] = "done")
  BY <1>0 DEF RemoveLock, files, At, Goto, TypeOK
<1>2. Still
  BY <1>0, <1>1, StillIs
<1>3. CASE pc[p] = "unlock" /\ pc'[p] = "access"
  <2>1. Entry(p) /\ Without(p)
    BY <1>0, <1>3 DEF Changing, PasswdPCs
  <2>2. Entry(p)' /\ Without(p)' /\ There("passwd")
    BY <1>1, <1>2, <2>1, StillKeeps, NamesAre DEF Entry, Without, Others
  <2>3. Changing(p)' /\ Opened(p)'
    BY <1>3, <2>2 DEF Changing, Opened, Copying
  <2> QED
    BY <1>0, <1>1, <1>2, <1>3, <2>2, <2>3, StillMid DEF PasswdPCs
<1>4. CASE pc[p] = "aunlock" /\ pc'[p] = "done"
  BY <1>0, <1>1, <1>2, <1>4, PasswdStops DEF PasswdPCs
<1> QED
  BY <1>1, <1>3, <1>4

LEMMA AccessStep ==
  ASSUME Inv, NEW p \in Procs, Access(p)
  PROVE  Inv'
<1>0. Steps(p) /\ TypeOK /\ FilesType /\ Changing(p)
  BY AccessTyped DEF Inv, TypeInv, TypeOK, FilesType, Mine
<1>1. pc[p] = "access" /\ pc[p] \in PasswdPCs /\ line' = line /\ seen' = seen /\ pc'[p] = "alock"
  BY <1>0 DEF Access, At, PasswdPCs, Goto, TypeOK
<1>2. Entry(p) /\ Without(p) /\ There("passwd")
  BY <1>0, <1>1 DEF Changing, Without
<1>3. Still
  BY <1>0, <1>2, StillIs DEF Access, There
<1>4. Entry(p)' /\ Without(p)'
  BY <1>1, <1>2, <1>3, StillKeeps, NamesAre DEF Entry, Without, Others
<1>5. Changing(p)' /\ Opened(p)'
  BY <1>1, <1>4 DEF Changing, Opened, Copying
<1> QED
  BY <1>0, <1>1, <1>2, <1>3, <1>5, StillMid DEF PasswdPCs

LEMMA AppendStep ==
  ASSUME Inv, NEW p \in Procs, Append(p)
  PROVE  Inv'
<1>0. Steps(p) /\ TypeOK /\ FilesType /\ Changing(p)
  BY AppendTyped DEF Inv, TypeInv, TypeOK, FilesType, Mine
<1>1. pc[p] = "append" /\ pc[p] \in PasswdPCs /\ line' = line /\ seen' = seen /\ pc[p] # "prmtmp"
  BY <1>0 DEF Append, At, PasswdPCs
<1>2. Entry(p) /\ Without(p) /\ There("passwd")
  BY <1>0, <1>1 DEF Changing, Without, PasswdPCs
<1>3. CASE Creat("passwd", Lines("passwd") \cup {line[p]}) /\ Goto(p, "aunlock")
  <2>n. "passwd" \in PwNames /\ "passwd" \in Paths
    BY NamesApart, NamesAre
  <2>1. PICK ls : ls = Lines("passwd") \cup {line[p]}
    OBVIOUS
  <2>2. ls \in SUBSET Line
    BY <1>0, <1>2, <2>1, <2>n, LinesType DEF Entry
  <2>3. Rewritten("passwd", ls) /\ pc'[p] = "aunlock"
    BY <1>0, <1>2, <1>3, <2>1, <2>2, <2>n, CreatIs DEF Goto, TypeOK
  <2>4. DeadKept /\ GroupKept
    <3>1. \A d \in Procs : Same("passwd", d) => Lines(d) \subseteq ls
      BY <2>1 DEF Same, Lines
    <3> QED
      BY <2>3, <2>n, <3>1, RewrittenKeeps
  <2>5. Fewer
    BY <2>3, <2>n, FewerIs
  <2>6. Lines("passwd")' = ls /\ There("passwd")' /\ \A q \in Procs : dir'[q] = dir[q]
    BY <1>2, <2>3, <2>n, NamesAre DEF Rewritten, There
  <2>7. With(p)' /\ Entry(p)'
    <3>1. Others(p, ls) = Others(p, Lines("passwd"))
      BY <1>2, <2>1 DEF Others, Entry
    <3>2. Others(p, Lines("passwd"))' = Others(p, ls) /\ Others(p, seen[p])' = Others(p, seen[p])
      BY <1>1, <2>6 DEF Others
    <3>3. ls \subseteq seen[p] \cup {line[p]} /\ line[p] \in ls
      BY <1>2, <2>1 DEF Without
    <3> QED
      BY <1>1, <1>2, <2>6, <3>1, <3>2, <3>3 DEF With, Without, Entry
  <2>8. Changing(p)' /\ Opened(p)'
    BY <2>3, <2>7 DEF Changing, Opened, Copying
  <2>9. UniqNow'
    <3>1. Uniq(seen[p] \cup {line[p]}) /\ ls \subseteq seen[p] \cup {line[p]}
      BY <1>2, <2>1 DEF Entry, Without
    <3>2. Uniq(Lines("passwd")')
      BY <2>6, <3>1, UniqPart
    <3> QED
      BY <3>2 DEF UniqNow, Uniq
  <2>10. Apart' /\ Gone' /\ \A q \in Procs : NoTmp(q)'
    BY <1>0, <1>1, <2>3, <2>5, <2>6, ApartFewer, GoneKept, NoTmpKept
  <2> QED
    BY <1>0, <1>1, <2>3, <2>4, <2>8, <2>9, <2>10, MidIs DEF PasswdPCs
<1>4. CASE Goto(p, "failed") /\ UNCHANGED <<dir, data>>
  <2>1. pc'[p] = "failed" /\ Still
    BY <1>0, <1>4, StillIs DEF TypeOK, Goto
  <2> QED
    BY <1>0, <1>1, <2>1, PasswdStops
<1> QED
  BY <1>3, <1>4 DEF Append

LEMMA KillStep ==
  ASSUME Setting, Inv, NEW p \in Procs, Kill(p)
  PROVE  Inv'
<1>0. Steps(p) /\ TypeOK /\ FilesType /\ Roles
  BY KillTyped DEF Inv, TypeInv, TypeOK, FilesType
<1>1. Running(p) /\ Cmd[p] = "passwd" /\ pc'[p] = "dead" /\ UNCHANGED <<dir, data>> /\ seen' = seen
  BY <1>0 DEF Kill, Setting, Goto, TypeOK
<1>2. pc[p] \in PasswdPCs
  <2>1. pc[p] \in PCs /\ Role(p, pc[p])
    BY <1>0 DEF TypeOK, Roles
  <2> QED
    BY <1>1, <2>1 DEF Running, PCs, Role, PasswdPCs, AdminPCs
<1>3. Still
  BY <1>0, <1>1, StillIs
<1> QED
  BY <1>0, <1>1, <1>2, <1>3, PasswdStops

-----------------------------------------------------------------------------
(* The steps of mkuser and rmuser *)

LEMMA AdminIs ==
  ASSUME Inv, NEW p \in Procs, Steps(p), Turn(p), pc'[p] \notin PasswdPCs \cup {"idle"},
         Apart', UniqNow', Gone', Kept', \A q \in Procs \ {p} : dir'[q] = dir[q],
         Opened(p)', Making(p)', Removing(p)', Replacing(p)'
  PROVE  Inv'
<1>1. Changing(p)'
  BY DEF Changing, PasswdPCs, Copying
<1>2. \A q \in Procs : NoTmp(q)'
  BY NoTmpKept DEF PasswdPCs
<1> QED
  BY <1>1, <1>2, Conclude DEF Concluded, Mine

\* The passwd file and its copies stay as they are.
PwStill == \A x \in PwNames : dir'[x] = dir[x] /\ Lines(x)' = Lines(x)

LEMMA PwStillIs ==
  ASSUME Inv, NEW x \in GrNames, NEW ls, NEW y \in GrNames,
         Still \/ Removed(x) \/ Made(x, ls) \/ Rewritten(x, ls) \/ Linked(y, x)
  PROVE  PwStill
<1>1. \A z \in PwNames : z \in Paths /\ z # x /\ x \in Paths
  BY NamesApart
<1>2. CASE Still
  BY <1>1, <1>2 DEF Still, PwStill
<1>3. CASE Except(x)
  BY <1>1, <1>3 DEF Except, PwStill
<1>4. CASE Rewritten(x, ls)
  <2>1. \A z \in PwNames : ~Same(x, z)
    BY DEF Inv, Apart
  <2> QED
    BY <1>1, <1>4, <2>1 DEF Rewritten, Same, There, PwStill
<1> QED
  BY <1>2, <1>3, <1>4 DEF Removed, Made, Linked

LEMMA PwStillKeeps ==
  ASSUME PwStill
  PROVE  /\ \A x \in PwNames : (There(x)' <=> There(x)) /\ UsersIn(x)' = UsersIn(x)
         /\ \A u : InPlace(u)' <=> InPlace(u)
         /\ DeadKept
<1>1. \A x \in PwNames : (There(x)' <=> There(x)) /\ UsersIn(x)' = UsersIn(x)
  BY DEF PwStill, There, UsersIn
<1>2. DeadKept
  BY NamesApart DEF PwStill, DeadKept
<1>3. \A u : InPlace(u)' <=> InPlace(u)
  BY <1>1, NamesApart DEF InPlace
<1> QED
  BY <1>1, <1>2, <1>3

\* A step of mkuser or rmuser away from the passwd file.
LEMMA PwStillStep ==
  ASSUME Inv, NEW p \in Procs, Steps(p), Turn(p), PwStill, Apart',
         pc[p] \notin PasswdPCs \cup {"plink", "dead", "failed", "done"},
         pc'[p] \notin PasswdPCs \cup {"plink", "idle"},
         \A u \in Members' \ Members : u \in UsersIn("passwd"),
         pc'[p] = "done" /\ Cmd[p] # "rmuser" => User[p] \in UsersIn("passwd"),
         Opened(p)', Making(p)', Removing(p)', Replacing(p)'
  PROVE  Inv'
<1>1. UniqNow'
  BY NamesApart, UniqKept DEF PwStill
<1>2. Gone'
  BY NamesApart, GoneKept DEF PwStill, Between, Copying, PasswdPCs
<1>3. Kept'
  <2>1. pc'[p] \in Begun
    BY DEF Steps, Moves, Begun
  <2>2. \A u : InPlace(u) => SafeAt(p, u)'
    BY PwStillKeeps DEF SafeAt
  <2>3. \A u \in UsersIn("passwd") : SafeAt(p, u)'
    BY <2>2 DEF InPlace
  <2>4. \A u : SafeAt(p, u) /\ ~InDead(u) => SafeAt(p, u)'
    BY <2>2 DEF SafeAt
  <2> QED
    BY <2>1, <2>3, <2>4, PwStillKeeps, KeptStep
<1> QED
  BY <1>1, <1>2, <1>3, NamesApart, AdminIs DEF PwStill

\* The same, of a step that touches no file at all.
LEMMA AdminStill ==
  ASSUME Inv, NEW p \in Procs, Steps(p), Turn(p), Still,
         pc[p] \notin PasswdPCs \cup {"plink", "dead", "failed", "done", "prmtmp"},
         pc'[p] \notin PasswdPCs \cup {"plink", "idle"},
         pc'[p] = "done" /\ Cmd[p] # "rmuser" => User[p] \in UsersIn("passwd"),
         Opened(p)', Making(p)', Removing(p)', Replacing(p)'
  PROVE  Inv'
<1>1. PwStill /\ Apart' /\ Members' = Members
  BY NamesApart, StillKeeps, MembersKept, ApartFewer DEF PwStill, Still
<1> QED
  BY <1>1, PwStillStep

LEMMA AdminStartStep ==
  ASSUME Setting, Inv, NEW p \in Procs, MkuserStart(p) \/ RmuserStart(p)
  PROVE  Inv'
<1>0. Steps(p) /\ TypeOK /\ FilesType
  BY AdminStartTyped DEF Inv, TypeInv, TypeOK, FilesType
<1>1. /\ pc[p] = "idle" /\ Turn(p) /\ UNCHANGED <<dir, data>>
      /\ pc'[p] \in {"failed", "uid", "ptmp"} /\ (pc'[p] = "ptmp" => Cmd[p] # "mkuser")
  BY <1>0 DEF MkuserStart, RmuserStart, Begin, At, Setting, Turn, files, Goto, TypeOK
<1>2. Still
  BY <1>0, <1>1, StillIs
<1>3. Opened(p)' /\ Making(p)' /\ Removing(p)' /\ Replacing(p)'
  BY <1>1 DEF Opened, Making, Removing, Replacing, AdminPCs
<1> QED
  BY <1>0, <1>1, <1>2, <1>3, AdminStill DEF PasswdPCs

LEMMA MkuserUidStep ==
  ASSUME Inv, NEW p \in Procs, MkuserUid(p)
  PROVE  Inv'
<1>0. Steps(p) /\ TypeOK /\ FilesType /\ line'[p] \in [user : {User[p]}, uid : Uids \ UidsIn("passwd"), pw : Pws]
  BY MkuserUidTyped DEF Inv, TypeInv, TypeOK, FilesType
<1>1. pc[p] = "uid" /\ pc'[p] = "mkdir" /\ UNCHANGED <<dir, data>>
  BY <1>0 DEF MkuserUid, At, files, Goto, TypeOK
<1>2. Still /\ Turn(p)
  BY <1>0, <1>1, StillIs, RunningPCs DEF Turn
<1>3. PICK l : l = line'[p]
  OBVIOUS
<1>4. l.user = User[p] /\ l.uid \notin UidsIn("passwd") /\ l \in Line
  <2>1. User[p] \in Users
    BY AccountsAssumption DEF AccountsAssumption
  <2> QED
    BY <1>0, <1>3, <2>1 DEF Line
<1>5. Uniq(Lines("passwd") \cup {l})
  BY <1>4 DEF Inv, UniqNow, Uniq, UidsIn
<1>6. Lines("passwd")' = Lines("passwd")
  BY <1>2, StillKeeps, NamesAre
<1>7. Uniq(Lines("passwd") \cup {line[p]})'
  BY <1>3, <1>5, <1>6 DEF Uniq
<1>8. Making(p)'
  BY <1>1, <1>3, <1>4, <1>7 DEF Making, AdminPCs
<1>9. Opened(p)' /\ Removing(p)' /\ Replacing(p)'
  BY <1>1 DEF Opened, Removing, Replacing
<1> QED
  BY <1>0, <1>1, <1>2, <1>8, <1>9, AdminStill DEF PasswdPCs

LEMMA MakeHomeStep ==
  ASSUME Inv, NEW p \in Procs, MakeHome(p)
  PROVE  Inv'
<1>0. Steps(p) /\ TypeOK /\ FilesType /\ Making(p)
  BY MakeHomeTyped DEF Inv, TypeInv, TypeOK, FilesType, Mine
<1>1. pc[p] = "mkdir" /\ pc'[p] \in {"ptmp", "failed"} /\ UNCHANGED <<dir, data>> /\ line' = line
  BY <1>0 DEF MakeHome, At, files, Goto, TypeOK
<1>2. Still /\ Turn(p)
  BY <1>0, <1>1, StillIs, RunningPCs DEF Turn
<1>3. Lines("passwd")' = Lines("passwd")
  BY <1>2, StillKeeps, NamesAre
<1>4. Making(p)'
  BY <1>0, <1>1, <1>3 DEF Making, Uniq, AdminPCs
<1>5. Opened(p)' /\ Removing(p)' /\ Replacing(p)'
  BY <1>1 DEF Opened, Removing, Replacing
<1> QED
  BY <1>0, <1>1, <1>2, <1>4, <1>5, AdminStill DEF PasswdPCs

\* The command fails at once, or cannot go on.
LEMMA AdminStops ==
  ASSUME Inv, NEW p \in Procs, Steps(p), Still, pc[p] \in AdminPCs \ {"plink", "prmtmp"}, pc'[p] = "failed"
  PROVE  Inv'
<1>1. Turn(p)
  BY RunningPCs DEF Turn
<1>2. pc[p] \notin PasswdPCs \cup {"plink", "dead", "failed", "done", "prmtmp"}
  BY DEF AdminPCs, PasswdPCs
<1>3. Opened(p)' /\ Making(p)' /\ Removing(p)' /\ Replacing(p)'
  BY DEF Opened, Making, Removing, Replacing, AdminPCs
<1> QED
  BY <1>1, <1>2, <1>3, AdminStill DEF PasswdPCs

\* The temporary file of passwd is created, or emptied, or gets its lines.
LEMMA TmpWritten ==
  ASSUME Inv, NEW p \in Procs, Steps(p), pc[p] \in {"ptmp", "pcopy"}, pc'[p] \in {"pcopy", "punlink"},
         NEW ls, Made("passwd.tmp", ls) \/ Rewritten("passwd.tmp", ls), There("passwd"),
         Opened(p)', Making(p)', Removing(p)', Replacing(p)'
  PROVE  Inv'
<1>0. /\ "passwd.tmp" \in Paths /\ "passwd.tmp" \in PwNames /\ "passwd.tmp" \notin GrNames /\ "passwd" \in Paths
      /\ Running(p) /\ Turn(p) /\ \A d \in Procs : d \in PwNames /\ d # "passwd.tmp" /\ d # "passwd"
  BY NamesApart, RunningPCs DEF Turn, AdminPCs, GrNames
<1>1. \A y \in PwNames \ {"passwd.tmp"} : ~Same("passwd.tmp", y)
  BY <1>0, NobodyElse DEF Inv, Apart, AdminPCs
<1>2. \A y \in PwNames \ {"passwd.tmp"} : y \in Paths /\ dir'[y] = dir[y] /\ Lines(y)' = Lines(y)
  BY <1>1, NamesApart DEF Made, Rewritten, Except, Same, There
<1>3. DeadKept /\ GroupKept
  <2>1. CASE Made("passwd.tmp", ls)
    BY <1>0, <2>1, ExceptKeeps DEF Made
  <2>2. CASE Rewritten("passwd.tmp", ls)
    BY <1>0, <1>1, <2>2, RewrittenKeeps
  <2> QED
    BY <2>1, <2>2
<1>4. Apart'
  <2>1. Fewer
    BY <1>0, FewerIs
  <2> QED
    BY <2>1, ApartFewer
<1>5. Lines("passwd")' = Lines("passwd") /\ There("passwd")'
  BY <1>2, NamesApart DEF There
<1>6. UniqNow' /\ Gone'
  BY <1>5, UniqKept, GoneKept
<1>7. Kept'
  <2>1. pc'[p] \in Begun /\ pc'[p] \notin PasswdPCs \cup {"plink"} /\ pc[p] \notin PasswdPCs \cup {"plink"}
    BY DEF Begun, PCs, PasswdPCs
  <2>2. ASSUME NEW u, SafeAt(p, u), ~InDead(u) PROVE SafeAt(p, u)'
    <3>1. u \in UsersIn("passwd")
      BY <2>1, <2>2 DEF SafeAt, InPlace
    <3>2. InPlace(u)'
      BY <1>5, <3>1 DEF InPlace, UsersIn
    <3> QED
      BY <2>1, <3>2 DEF SafeAt
  <2> QED
    BY <1>0, <1>3, <2>1, <2>2, MembersKept, KeptStep
<1>8. \A q \in Procs \ {p} : dir'[q] = dir[q]
  BY <1>0, <1>2
<1> QED
  BY <1>0, <1>4, <1>6, <1>7, <1>8, AdminIs DEF PasswdPCs

LEMMA OpenPasswdStep ==
  ASSUME Inv, NEW p \in Procs, OpenTmp(p, "ptmp", "passwd", "passwd.tmp", "pcopy")
  PROVE  Inv'
<1>n. "passwd" \in Paths /\ "passwd.tmp" \in Paths /\ "passwd" # "passwd.tmp"
  BY NamesAre
<1>0. Steps(p) /\ TypeOK /\ FilesType /\ Making(p)
  BY <1>n, OpenTmpTyped DEF Inv, TypeInv, TypeOK, FilesType, Mine
<1>1. pc[p] = "ptmp" /\ line' = line
  BY DEF OpenTmp, At
<1>2. CASE Goto(p, "failed") /\ UNCHANGED files
  <2>1. Still /\ pc'[p] = "failed"
    BY <1>0, <1>2, StillIs DEF files, Goto, TypeOK
  <2> QED
    BY <1>0, <1>1, <2>1, AdminStops DEF AdminPCs
<1>3. CASE /\ dir["passwd"] # NoFile /\ Creat("passwd.tmp", {}) /\ Goto(p, "pcopy")
           /\ from' = [from EXCEPT ![p] = dir["passwd"]] /\ to' = [to EXCEPT ![p] = Target("passwd.tmp")]
  <2>1. There("passwd") /\ pc'[p] = "pcopy" /\ from'[p] = dir["passwd"] /\ to'[p] = Target("passwd.tmp")
    BY <1>0, <1>3 DEF There, Goto, TypeOK
  <2>2. (Made("passwd.tmp", {}) \/ Rewritten("passwd.tmp", {})) /\ dir'["passwd.tmp"] = Target("passwd.tmp")
    BY <1>0, <1>n, <1>3, CreatIs
  <2>3. dir'["passwd"] = dir["passwd"] /\ There("passwd")' /\ There("passwd.tmp")'
    BY <1>n, <2>1, <2>2 DEF Made, Rewritten, Except, There
  <2>4. Lines("passwd")' = Lines("passwd")
    <3>1. CASE Made("passwd.tmp", {})
      BY <1>n, <3>1 DEF Made, Except
    <3>2. CASE Rewritten("passwd.tmp", {})
      <4>1. ~Same("passwd.tmp", "passwd")
        BY <1>1, RunningPCs, NobodyElse, NamesApart DEF Inv, Apart, AdminPCs
      <4> QED
        BY <1>n, <3>2, <4>1 DEF Rewritten, Same, There
    <3> QED
      BY <2>2, <3>1, <3>2
  <2>5. Opened(p)'
    BY <2>1, <2>2, <2>3 DEF Opened
  <2>6. Making(p)'
    BY <1>0, <1>1, <2>1, <2>4 DEF Making, Uniq, AdminPCs
  <2>7. Removing(p)' /\ Replacing(p)'
    BY <2>1 DEF Removing, Replacing
  <2> QED
    BY <1>0, <1>1, <2>1, <2>2, <2>5, <2>6, <2>7, TmpWritten
<1> QED
  BY <1>2, <1>3 DEF OpenTmp

\* What a command writes.
LEMMA EditedIs ==
  ASSUME NEW p \in Procs, Cmd[p] \in {"mkuser", "rmuser"}, NEW x \in {"passwd", "group"}, NEW ls
  PROVE  /\ Cmd[p] = "mkuser" => Edited(p, x, ls) = ls \cup {line[p]}
         /\ Cmd[p] = "rmuser" => Edited(p, x, ls) \subseteq {l \in ls : l.user # User[p]}
         /\ Cmd[p] = "rmuser" /\ x = "passwd" => Edited(p, x, ls) = {l \in ls : l.user # User[p]}
  BY DEF Edited

LEMMA WritePasswdStep ==
  ASSUME Setting, Inv, NEW p \in Procs, WriteTmp(p, "pcopy", "passwd", "passwd.tmp", "punlink")
  PROVE  Inv'
<1>n. "passwd" \in Paths /\ "passwd.tmp" \in Paths /\ "passwd" # "passwd.tmp"
  BY NamesAre
<1>0. Steps(p) /\ TypeOK /\ FilesType /\ Roles /\ Making(p) /\ Opened(p) /\ UniqNow
  BY <1>n, WriteTmpTyped DEF Inv, TypeInv, TypeOK, FilesType, Mine
<1>1. pc[p] = "pcopy" /\ line' = line /\ ~Fail("write")
  BY DEF WriteTmp, At, Fail, Setting
<1>2. /\ from[p] = dir["passwd"] /\ There("passwd") /\ to[p] = dir["passwd.tmp"] /\ There("passwd.tmp")
      /\ Cmd[p] \in {"mkuser", "rmuser"}
  BY <1>0, <1>1, AdminRole DEF Opened, Inv, AdminPCs
<1>3. PICK ls : ls = Edited(p, "passwd", Lines("passwd"))
  OBVIOUS
<1>4. data' = [data EXCEPT ![dir["passwd.tmp"]] = ls] /\ pc'[p] = "punlink" /\ dir' = dir
  BY <1>0, <1>1, <1>2, <1>3 DEF WriteTmp, Lines, There, Goto, TypeOK
<1>5. ls \in SUBSET Line
  <2>1. Cmd[p] = "mkuser" => line[p] \in Line
    BY <1>0, <1>1 DEF Making, AdminPCs
  <2>2. Lines("passwd") \in SUBSET Line
    BY <1>0, <1>n, LinesType
  <2> QED
    BY <1>3, <2>1, <2>2, EditedType
<1>6. Rewritten("passwd.tmp", ls)
  BY <1>0, <1>n, <1>2, <1>4, <1>5, WriteIs
<1>7. Lines("passwd.tmp")' = ls /\ Lines("passwd")' = Lines("passwd")
  <2>1. ~Same("passwd.tmp", "passwd")
    BY <1>1, RunningPCs, NobodyElse, NamesApart DEF Inv, Apart, AdminPCs
  <2> QED
    BY <1>n, <1>6, <2>1 DEF Rewritten, Same, There
<1>8. \A u \in UsersIn("passwd") : (\E l \in ls : l.user = u) \/ (Cmd[p] = "rmuser" /\ u = User[p])
  BY <1>2, <1>3, EditedIs DEF UsersIn
<1>9. Uniq(ls)
  <2>1. CASE Cmd[p] = "mkuser"
    BY <1>0, <1>1, <1>3, <2>1, EditedIs DEF Making
  <2>2. CASE Cmd[p] = "rmuser"
    <3>1. ls \subseteq Lines("passwd")
      BY <1>2, <1>3, <2>2, EditedIs
    <3> QED
      BY <1>0, <3>1, UniqPart DEF UniqNow
  <2> QED
    BY <1>2, <2>1, <2>2
<1>10. Making(p)'
  <2> SUFFICES ASSUME Cmd[p] = "mkuser" PROVE line[p] \in Line /\ line[p].user = User[p] /\ User[p] \in UsersIn("passwd.tmp")'
    BY <1>1, <1>4 DEF Making, AdminPCs
  <2>1. line[p] \in Line /\ line[p].user = User[p] /\ line[p] \in ls
    BY <1>0, <1>1, <1>2, <1>3, EditedIs DEF Making, AdminPCs
  <2> QED
    BY <1>7, <2>1 DEF UsersIn
<1>11. Removing(p)'
  <2> SUFFICES ASSUME Cmd[p] = "rmuser" PROVE User[p] \notin UsersIn("passwd.tmp")'
    BY <1>4 DEF Removing
  <2> QED
    BY <1>2, <1>3, <1>7, EditedIs DEF UsersIn
<1>12. Replacing(p)'
  <2>1. Uniq(Lines("passwd.tmp")')
    BY <1>7, <1>9
  <2>2. \A u \in UsersIn("passwd")' : u \in UsersIn("passwd.tmp")' \/ (Cmd[p] = "rmuser" /\ u = User[p])
    BY <1>7, <1>8 DEF UsersIn
  <2> QED
    BY <1>4, <2>1, <2>2 DEF Replacing, Uniq
<1>13. Opened(p)'
  BY <1>4 DEF Opened
<1> QED
  BY <1>0, <1>1, <1>2, <1>4, <1>6, <1>10, <1>11, <1>12, <1>13, TmpWritten

LEMMA PasswdGoesStep ==
  ASSUME Inv, NEW p \in Procs, ChnameUnlink(p, "punlink", "passwd", "plink")
  PROVE  Inv'
<1>n. /\ "passwd" \in Paths /\ "passwd.tmp" \in Paths /\ "passwd" # "passwd.tmp"
      /\ "passwd" \notin GrNames /\ \A q \in Procs : q # "passwd" /\ q \in Paths
  BY NamesAre, NamesApart DEF GrNames
<1>0. Steps(p) /\ TypeOK /\ FilesType /\ Roles /\ Making(p) /\ Removing(p) /\ Replacing(p)
  BY <1>n, ChnameUnlinkTyped DEF Inv, TypeInv, TypeOK, FilesType, Mine
<1>1. pc[p] = "punlink" /\ line' = line
  BY DEF ChnameUnlink, At
<1>2. CASE Goto(p, "failed") /\ UNCHANGED <<dir, data>>
  <2>1. Still /\ pc'[p] = "failed"
    BY <1>0, <1>2, StillIs DEF Goto, TypeOK
  <2> QED
    BY <1>0, <1>1, <2>1, AdminStops DEF AdminPCs
<1>3. CASE dir["passwd"] # NoFile /\ Unlink("passwd") /\ Goto(p, "plink")
  <2>1. There("passwd") /\ Removed("passwd") /\ pc'[p] = "plink" /\ Turn(p) /\ pc[p] # "prmtmp"
    BY <1>0, <1>1, <1>n, <1>3, UnlinkIs, RunningPCs DEF There, Goto, TypeOK, Turn, AdminPCs
  <2>2. Lines("passwd.tmp")' = Lines("passwd.tmp") /\ UsersIn("passwd.tmp")' = UsersIn("passwd.tmp") /\ ~There("passwd")'
    BY <1>n, <2>1 DEF Removed, Except, UsersIn, There
  <2>3. Apart'
    BY <1>0, <1>n, <2>1, FewerIs, ApartFewer
  <2>4. UniqNow'
    <3>1. Lines("passwd")' = {}
      BY <2>1 DEF Removed, Lines
    <3> QED
      BY <3>1 DEF UniqNow, Uniq
  <2>5. Gone'
    BY <2>1 DEF Gone, Between
  <2>6. DeadKept /\ GroupKept
    BY <1>n, <2>1, ExceptKeeps DEF Removed
  <2>7. ASSUME NEW u \in Wanted, u \in Wanted', SafeAt(p, u), ~InDead(u) PROVE SafeAt(p, u)'
    <3>1. u \in UsersIn("passwd")
      BY <1>1, <2>1, <2>7 DEF SafeAt, InPlace, PasswdPCs
    <3>2. Cmd[p] = "rmuser" => u # User[p]
      BY <1>0, <2>1, <2>7, NotHis DEF Begun, PCs
    <3>3. u \in UsersIn("passwd.tmp")
      BY <1>0, <1>1, <3>1, <3>2 DEF Replacing
    <3> QED
      BY <2>1, <2>2, <3>3 DEF SafeAt
  <2>8. Kept'
    BY <1>0, <1>1, <2>1, <2>6, <2>7, MembersKept, KeptStep DEF Begun, PCs
  <2>9. Making(p)' /\ Removing(p)' /\ Opened(p)'
    BY <1>0, <1>1, <2>1, <2>2 DEF Making, Removing, Opened, AdminPCs
  <2>10. Replacing(p)'
    BY <1>0, <1>1, <2>1, <2>2 DEF Replacing, Uniq
  <2>11. \A q \in Procs \ {p} : dir'[q] = dir[q]
    BY <1>n, <2>1 DEF Removed, Except
  <2> QED
    BY <1>0, <2>1, <2>3, <2>4, <2>5, <2>8, <2>9, <2>10, <2>11, AdminIs DEF PasswdPCs
<1> QED
  BY <1>2, <1>3 DEF ChnameUnlink

LEMMA PasswdBackStep ==
  ASSUME Inv, NEW p \in Procs, ChnameLink(p, "plink", "passwd", "passwd.tmp", "prmtmp")
  PROVE  Inv'
<1>n. /\ "passwd" \in Paths /\ "passwd.tmp" \in Paths /\ "passwd" # "passwd.tmp"
      /\ "passwd" \notin GrNames /\ \A q \in Procs : q # "passwd" /\ q # "passwd.tmp" /\ q \in Paths
      /\ "passwd" \in PwNames /\ "passwd.tmp" \in PwNames
  BY NamesAre, NamesApart DEF GrNames
<1>0. Steps(p) /\ TypeOK /\ FilesType /\ Roles /\ Making(p) /\ Removing(p) /\ Replacing(p)
  BY <1>n, ChnameLinkTyped DEF Inv, TypeInv, TypeOK, FilesType, Mine
<1>1. pc[p] = "plink" /\ line' = line /\ Turn(p) /\ ~There("passwd") /\ pc[p] # "prmtmp" /\ Running(p)
  BY <1>0, RunningPCs DEF ChnameLink, At, Turn, AdminPCs, Replacing
<1>2. CASE Goto(p, "failed") /\ UNCHANGED <<dir, data>>
  <2>1. Still /\ pc'[p] = "failed"
    BY <1>0, <1>2, StillIs DEF Goto, TypeOK
  <2>2. Apart' /\ UniqNow' /\ Gone' /\ DeadKept /\ GroupKept /\ \A q \in Procs \ {p} : dir'[q] = dir[q]
    BY <1>0, <1>1, <1>n, <2>1, StillKeeps, ApartFewer, UniqKept, GoneKept DEF Between, Still
  <2>3. ASSUME NEW u, SafeAt(p, u), ~InDead(u) PROVE SafeAt(p, u)'
    <3>1. u \in UsersIn("passwd.tmp")
      BY <1>1, <2>3 DEF SafeAt, PasswdPCs
    <3>2. InPlace(u)'
      BY <1>1, <1>n, <2>1, <3>1, StillKeeps DEF InPlace
    <3> QED
      BY <2>1, <3>2 DEF SafeAt, PasswdPCs
  <2>4. Kept'
    BY <1>0, <1>1, <2>1, <2>2, <2>3, MembersKept, KeptStep DEF Begun, PCs
  <2>5. Opened(p)' /\ Making(p)' /\ Removing(p)' /\ Replacing(p)'
    BY <2>1 DEF Opened, Making, Removing, Replacing, AdminPCs
  <2> QED
    BY <1>0, <1>1, <2>1, <2>2, <2>4, <2>5, AdminIs DEF PasswdPCs
<1>3. CASE CanLink("passwd.tmp", "passwd") /\ Link("passwd.tmp", "passwd") /\ Goto(p, "prmtmp")
  <2>1. There("passwd.tmp") /\ Linked("passwd.tmp", "passwd") /\ pc'[p] = "prmtmp"
    BY <1>0, <1>n, <1>3, LinkIs DEF CanLink, There, Goto, TypeOK
  <2>2. Lines("passwd")' = Lines("passwd.tmp") /\ UsersIn("passwd")' = UsersIn("passwd.tmp") /\ There("passwd")'
    BY <2>1 DEF Linked, UsersIn, There
  <2>3. Apart'
    <3>1. \A q \in Procs : pc[q] # "prmtmp"
      BY <1>1, NobodyElse DEF AdminPCs
    <3> QED
      BY <1>0, <1>n, <2>1, <3>1, ApartLink
  <2>4. UniqNow'
    BY <1>0, <1>1, <2>2 DEF UniqNow, Uniq, Replacing
  <2>5. Gone'
    BY <2>2 DEF Gone
  <2>6. DeadKept /\ GroupKept /\ \A q \in Procs \ {p} : dir'[q] = dir[q]
    BY <1>n, <2>1, ExceptKeeps DEF Linked, Except
  <2>7. ASSUME NEW u, SafeAt(p, u), ~InDead(u) PROVE SafeAt(p, u)'
    <3>1. u \in UsersIn("passwd.tmp")
      BY <1>1, <2>7 DEF SafeAt, PasswdPCs
    <3> QED
      BY <2>1, <2>2, <3>1 DEF SafeAt, InPlace, PasswdPCs
  <2>8. Kept'
    BY <1>0, <1>1, <2>1, <2>6, <2>7, MembersKept, KeptStep DEF Begun, PCs
  <2>9. Making(p)' /\ Removing(p)' /\ Opened(p)' /\ Replacing(p)'
    BY <1>0, <1>1, <2>1, <2>2 DEF Making, Removing, Opened, Replacing, AdminPCs
  <2> QED
    BY <1>0, <1>1, <2>1, <2>3, <2>4, <2>5, <2>6, <2>8, <2>9, AdminIs DEF PasswdPCs
<1> QED
  BY <1>2, <1>3 DEF ChnameLink

LEMMA TmpGoesStep ==
  ASSUME Inv, NEW p \in Procs, ChnameDone(p, "prmtmp", "passwd.tmp", "gtmp")
  PROVE  Inv'
<1>n. /\ "passwd" \in Paths /\ "passwd.tmp" \in Paths /\ "passwd" # "passwd.tmp"
      /\ "passwd.tmp" \notin GrNames /\ \A q \in Procs : q # "passwd.tmp" /\ q \in Paths
  BY NamesAre, NamesApart DEF GrNames
<1>0. Steps(p) /\ TypeOK /\ FilesType /\ Making(p) /\ Removing(p) /\ Replacing(p)
  BY <1>n, ChnameDoneTyped DEF Inv, TypeInv, TypeOK, FilesType, Mine
<1>1. pc[p] = "prmtmp" /\ line' = line /\ Turn(p) /\ There("passwd") /\ pc'[p] = "gtmp" /\ Removed("passwd.tmp")
  BY <1>0, <1>n, RunningPCs, UnlinkIs DEF ChnameDone, At, Turn, AdminPCs, Replacing, Goto, TypeOK
<1>2. Lines("passwd")' = Lines("passwd") /\ UsersIn("passwd")' = UsersIn("passwd") /\ There("passwd")' /\ ~There("passwd.tmp")'
  BY <1>n, <1>1 DEF Removed, Except, UsersIn, There
<1>3. Apart'
  BY <1>0, <1>n, <1>1, <1>2, FewerIs, ApartFewer
<1>4. UniqNow' /\ Gone'
  BY <1>2, UniqKept DEF Gone
<1>5. DeadKept /\ GroupKept /\ \A q \in Procs \ {p} : dir'[q] = dir[q]
  BY <1>n, <1>1, ExceptKeeps DEF Removed, Except
<1>6. ASSUME NEW u, SafeAt(p, u), ~InDead(u) PROVE SafeAt(p, u)'
  <2>1. u \in UsersIn("passwd")
    BY <1>1, <1>6 DEF SafeAt, InPlace, PasswdPCs
  <2> QED
    BY <1>1, <1>2, <2>1 DEF SafeAt, InPlace, PasswdPCs
<1>7. Kept'
  BY <1>0, <1>1, <1>5, <1>6, MembersKept, KeptStep DEF Begun, PCs
<1>8. Making(p)' /\ Removing(p)' /\ Opened(p)' /\ Replacing(p)'
  BY <1>0, <1>1, <1>2 DEF Making, Removing, Opened, Replacing, AdminPCs
<1> QED
  BY <1>0, <1>1, <1>3, <1>4, <1>5, <1>7, <1>8, AdminIs DEF PasswdPCs

GroupPCs == {"gtmp", "gcopy", "gunlink", "glink", "grmtmp"}

\* A step on the group file.
LEMMA GroupStep ==
  ASSUME Inv, NEW p \in Procs, Steps(p), PwStill, Apart', line'[p] = line[p],
         pc[p] \in GroupPCs, pc'[p] \in (GroupPCs \ {"gtmp"}) \cup {"deldir", "done", "failed"},
         \A u \in Members' \ Members : u \in UsersIn("passwd"), Opened(p)',
         Cmd[p] = "rmuser" /\ pc'[p] \in {"gunlink", "glink"} => User[p] \notin UsersIn("group.tmp")',
         Cmd[p] = "rmuser" /\ pc'[p] \in {"grmtmp", "deldir"} => User[p] \notin UsersIn("group")'
  PROVE  Inv'
<1>0. /\ pc[p] \in AdminPCs /\ Turn(p) /\ pc[p] \notin PasswdPCs \cup {"plink", "dead", "failed", "done"}
      /\ pc'[p] \notin PasswdPCs \cup {"plink", "idle", "mkdir", "ptmp", "pcopy", "punlink", "prmtmp"}
  BY RunningPCs DEF GroupPCs, AdminPCs, PasswdPCs, Turn
<1>1. Cmd[p] \in {"mkuser", "rmuser"}
  BY <1>0, AdminRole DEF Inv
<1>2. UsersIn("passwd")' = UsersIn("passwd")
  BY PwStillKeeps, NamesApart
<1>3. Making(p) /\ Removing(p)
  BY DEF Inv, Mine
<1>4. Cmd[p] = "mkuser" => line[p] \in Line /\ line[p].user = User[p] /\ User[p] \in UsersIn("passwd")
  BY <1>3, <1>0 DEF Making, GroupPCs
<1>5. Cmd[p] = "rmuser" => User[p] \notin UsersIn("passwd")
  BY <1>3 DEF Removing, GroupPCs
<1>6. Making(p)'
  BY <1>0, <1>2, <1>4 DEF Making
<1>7. Removing(p)'
  BY <1>0, <1>2, <1>5 DEF Removing
<1>8. Replacing(p)'
  BY <1>0 DEF Replacing
<1> QED
  BY <1>0, <1>1, <1>4, <1>6, <1>7, <1>8, PwStillStep

LEMMA OpenGroupStep ==
  ASSUME Inv, NEW p \in Procs, OpenTmp(p, "gtmp", "group", "group.tmp", "gcopy")
  PROVE  Inv'
<1>n. "group" \in Paths /\ "group.tmp" \in Paths /\ "group" # "group.tmp" /\ "group" \in GrNames /\ "group.tmp" \in GrNames
  BY NamesAre DEF GrNames
<1>0. Steps(p) /\ TypeOK /\ FilesType
  BY <1>n, OpenTmpTyped DEF Inv, TypeInv, TypeOK, FilesType, Mine
<1>1. pc[p] = "gtmp" /\ line' = line
  BY DEF OpenTmp, At
<1>2. CASE Goto(p, "failed") /\ UNCHANGED files
  <2>1. Still /\ pc'[p] = "failed"
    BY <1>0, <1>2, StillIs DEF files, Goto, TypeOK
  <2> QED
    BY <1>0, <1>1, <2>1, AdminStops DEF AdminPCs
<1>3. CASE /\ dir["group"] # NoFile /\ Creat("group.tmp", {}) /\ Goto(p, "gcopy")
           /\ from' = [from EXCEPT ![p] = dir["group"]] /\ to' = [to EXCEPT ![p] = Target("group.tmp")]
  <2>1. There("group") /\ pc'[p] = "gcopy" /\ from'[p] = dir["group"] /\ to'[p] = Target("group.tmp")
    BY <1>0, <1>3 DEF There, Goto, TypeOK
  <2>2. (Made("group.tmp", {}) \/ Rewritten("group.tmp", {})) /\ dir'["group.tmp"] = Target("group.tmp")
    BY <1>0, <1>n, <1>3, CreatIs
  <2>3. dir'["group"] = dir["group"] /\ There("group")' /\ There("group.tmp")'
    BY <1>n, <2>1, <2>2 DEF Made, Rewritten, Except, There
  <2>4. Opened(p)'
    BY <2>1, <2>2, <2>3 DEF Opened
  <2>5. Members' \subseteq Members
    <3>1. Lines("group.tmp")' = {} /\ (Lines("group")' = {} \/ Lines("group")' = Lines("group"))
      BY <1>n, <2>2 DEF Made, Rewritten, Except, There
    <3> QED
      BY <3>1 DEF Members, UsersIn
  <2>6. PwStill
    BY <1>n, <2>2, PwStillIs
  <2>7. Apart'
    BY <1>0, <1>1, <1>n, <2>2, FewerIs, ApartFewer
  <2> QED
    BY <1>0, <1>1, <2>1, <2>4, <2>5, <2>6, <2>7, GroupStep DEF GroupPCs
<1> QED
  BY <1>2, <1>3 DEF OpenTmp

LEMMA WriteGroupStep ==
  ASSUME Setting, Inv, NEW p \in Procs, WriteTmp(p, "gcopy", "group", "group.tmp", "gunlink")
  PROVE  Inv'
<1>n. "group" \in Paths /\ "group.tmp" \in Paths /\ "group" # "group.tmp" /\ "group" \in GrNames /\ "group.tmp" \in GrNames
  BY NamesAre DEF GrNames
<1>0. Steps(p) /\ TypeOK /\ FilesType /\ Roles /\ Making(p) /\ Opened(p)
  BY <1>n, WriteTmpTyped DEF Inv, TypeInv, TypeOK, FilesType, Mine
<1>1. pc[p] = "gcopy" /\ line' = line /\ ~Fail("write")
  BY DEF WriteTmp, At, Fail, Setting
<1>2. /\ from[p] = dir["group"] /\ There("group") /\ to[p] = dir["group.tmp"] /\ There("group.tmp")
      /\ Cmd[p] \in {"mkuser", "rmuser"}
  BY <1>0, <1>1, AdminRole DEF Opened, Inv, AdminPCs
<1>3. PICK ls : ls = Edited(p, "group", Lines("group"))
  OBVIOUS
<1>4. data' = [data EXCEPT ![dir["group.tmp"]] = ls] /\ pc'[p] = "gunlink" /\ dir' = dir
  BY <1>0, <1>1, <1>2, <1>3 DEF WriteTmp, Lines, There, Goto, TypeOK
<1>5. ls \in SUBSET Line
  <2>1. Cmd[p] = "mkuser" => line[p] \in Line
    BY <1>0, <1>1 DEF Making, AdminPCs
  <2>2. Lines("group") \in SUBSET Line
    BY <1>0, <1>n, LinesType
  <2> QED
    BY <1>3, <2>1, <2>2, EditedType
<1>6. Rewritten("group.tmp", ls)
  BY <1>0, <1>n, <1>2, <1>4, <1>5, WriteIs
<1>7. Lines("group.tmp")' = ls /\ (Lines("group")' = ls \/ Lines("group")' = Lines("group"))
  BY <1>n, <1>6 DEF Rewritten
<1>8. \A u \in Members' \ Members : u \in UsersIn("passwd")
  <2>1. CASE Cmd[p] = "mkuser"
    <3>1. ls = Lines("group") \cup {line[p]} /\ line[p].user = User[p] /\ User[p] \in UsersIn("passwd")
      BY <1>0, <1>1, <1>2, <1>3, <2>1, EditedIs DEF Making, AdminPCs
    <3> QED
      BY <1>7, <3>1 DEF Members, UsersIn
  <2>2. CASE Cmd[p] = "rmuser"
    <3>1. ls \subseteq Lines("group")
      BY <1>2, <1>3, <2>2, EditedIs
    <3> QED
      BY <1>7, <3>1 DEF Members, UsersIn
  <2> QED
    BY <1>2, <2>1, <2>2
<1>9. Cmd[p] = "rmuser" => User[p] \notin UsersIn("group.tmp")'
  BY <1>2, <1>3, <1>7, EditedIs DEF UsersIn
<1>10. PwStill
  BY <1>n, <1>6, PwStillIs
<1>11. Apart'
  BY <1>0, <1>1, <1>n, <1>6, FewerIs, ApartFewer
<1>12. Opened(p)'
  BY <1>4 DEF Opened
<1> QED
  BY <1>0, <1>1, <1>4, <1>8, <1>9, <1>10, <1>11, <1>12, GroupStep DEF GroupPCs

LEMMA GroupGoesStep ==
  ASSUME Inv, NEW p \in Procs, ChnameUnlink(p, "gunlink", "group", "glink")
  PROVE  Inv'
<1>n. "group" \in Paths /\ "group.tmp" \in Paths /\ "group" # "group.tmp" /\ "group" \in GrNames
  BY NamesAre DEF GrNames
<1>0. Steps(p) /\ TypeOK /\ FilesType /\ Removing(p)
  BY <1>n, ChnameUnlinkTyped DEF Inv, TypeInv, TypeOK, FilesType, Mine
<1>1. pc[p] = "gunlink" /\ line' = line
  BY DEF ChnameUnlink, At
<1>2. CASE Goto(p, "failed") /\ UNCHANGED <<dir, data>>
  <2>1. Still /\ pc'[p] = "failed"
    BY <1>0, <1>2, StillIs DEF Goto, TypeOK
  <2> QED
    BY <1>0, <1>1, <2>1, AdminStops DEF AdminPCs
<1>3. CASE Unlink("group") /\ Goto(p, "glink")
  <2>1. Removed("group") /\ pc'[p] = "glink"
    BY <1>0, <1>n, <1>3, UnlinkIs DEF Goto, TypeOK
  <2>2. Lines("group.tmp")' = Lines("group.tmp") /\ Lines("group")' = {}
    BY <1>n, <2>1 DEF Removed, Except, Lines
  <2>3. Members' \subseteq Members
    BY <2>2 DEF Members, UsersIn
  <2>4. Cmd[p] = "rmuser" => User[p] \notin UsersIn("group.tmp")'
    BY <1>0, <1>1, <2>2 DEF Removing, UsersIn
  <2>5. PwStill
    BY <1>n, <2>1, PwStillIs
  <2>6. Apart'
    BY <1>0, <1>1, <1>n, <2>1, FewerIs, ApartFewer
  <2>7. Opened(p)'
    BY <2>1 DEF Opened
  <2> QED
    BY <1>0, <1>1, <2>1, <2>3, <2>4, <2>5, <2>6, <2>7, GroupStep DEF GroupPCs
<1> QED
  BY <1>2, <1>3 DEF ChnameUnlink

\* group.tmp is linked to group.
LEMMA ApartGroup ==
  ASSUME Inv, NEW p \in Procs, Steps(p), pc[p] # "prmtmp", Linked("group.tmp", "group")
  PROVE  Apart'
<1>0. /\ "group" \in GrNames /\ "group.tmp" \in GrNames /\ "group" \in Paths /\ "group.tmp" \in Paths
      /\ \A b \in PwNames : b \in Paths /\ b # "group" /\ ~Same("group.tmp", b)
  BY NamesApart DEF Inv, Apart, GrNames
<1>1. \A a \in GrNames, b \in PwNames : ~Same(a, b)'
  <2> SUFFICES ASSUME NEW a \in GrNames, NEW b \in PwNames, Same(a, b)' PROVE FALSE
    OBVIOUS
  <2>1. a \in Paths /\ ~Same(a, b)
    BY NamesApart DEF Inv, Apart
  <2> QED
    BY <1>0, <2>1 DEF Linked, Except, Same, There
<1>2. \A a, b \in PwNames : Same(a, b)' => Same(a, b)
  BY <1>0 DEF Linked, Except, Same, There
<1>3. \A b \in PwNames \ {"passwd.tmp"} :
         Same("passwd.tmp", b)' => b = "passwd" /\ \E q \in Procs : pc'[q] = "prmtmp"
  <2> SUFFICES ASSUME NEW b \in PwNames \ {"passwd.tmp"}, Same("passwd.tmp", b)'
               PROVE  b = "passwd" /\ \E q \in Procs : pc'[q] = "prmtmp"
    OBVIOUS
  <2>1. Same("passwd.tmp", b)
    BY <1>2, NamesApart
  <2>2. b = "passwd" /\ \E q \in Procs : pc[q] = "prmtmp"
    BY <2>1 DEF Inv, Apart
  <2> QED
    BY <2>2 DEF Steps, Moves
<1>4. ~onedev' => \A q \in Procs : \A b \in PwNames \ {q} : ~Same(q, b)'
  BY <1>2, NamesApart DEF Inv, Apart, Steps
<1> QED
  BY <1>1, <1>3, <1>4 DEF Apart

LEMMA GroupBackStep ==
  ASSUME Inv, NEW p \in Procs, ChnameLink(p, "glink", "group", "group.tmp", "grmtmp")
  PROVE  Inv'
<1>n. "group" \in Paths /\ "group.tmp" \in Paths /\ "group" # "group.tmp" /\ "group" \in GrNames /\ "group.tmp" \in GrNames
  BY NamesAre DEF GrNames
<1>0. Steps(p) /\ TypeOK /\ FilesType /\ Removing(p)
  BY <1>n, ChnameLinkTyped DEF Inv, TypeInv, TypeOK, FilesType, Mine
<1>1. pc[p] = "glink" /\ line' = line
  BY DEF ChnameLink, At
<1>2. CASE Goto(p, "failed") /\ UNCHANGED <<dir, data>>
  <2>1. Still /\ pc'[p] = "failed"
    BY <1>0, <1>2, StillIs DEF Goto, TypeOK
  <2> QED
    BY <1>0, <1>1, <2>1, AdminStops DEF AdminPCs
<1>3. CASE Link("group.tmp", "group") /\ Goto(p, "grmtmp")
  <2>1. Linked("group.tmp", "group") /\ pc'[p] = "grmtmp"
    BY <1>0, <1>n, <1>3, LinkIs DEF Goto, TypeOK
  <2>2. Lines("group.tmp")' = Lines("group.tmp") /\ Lines("group")' = Lines("group.tmp")
    BY <1>n, <2>1 DEF Linked, Except
  <2>3. Members' \subseteq Members
    BY <2>2 DEF Members, UsersIn
  <2>4. Cmd[p] = "rmuser" => User[p] \notin UsersIn("group")'
    BY <1>0, <1>1, <2>2 DEF Removing, UsersIn
  <2>5. PwStill
    BY <1>n, <2>1, PwStillIs
  <2>6. Apart'
    BY <1>0, <1>1, <2>1, ApartGroup
  <2>7. Opened(p)'
    BY <2>1 DEF Opened
  <2> QED
    BY <1>0, <1>1, <2>1, <2>3, <2>4, <2>5, <2>6, <2>7, GroupStep DEF GroupPCs
<1> QED
  BY <1>2, <1>3 DEF ChnameLink

LEMMA GroupTmpGoesStep ==
  ASSUME Inv, NEW p \in Procs,
         ChnameDone(p, "grmtmp", "group.tmp", IF Cmd[p] = "rmuser" THEN "deldir" ELSE "done")
  PROVE  Inv'
<1>n. "group" \in Paths /\ "group.tmp" \in Paths /\ "group" # "group.tmp" /\ "group.tmp" \in GrNames
  BY NamesAre DEF GrNames
<1> DEFINE next == IF Cmd[p] = "rmuser" THEN "deldir" ELSE "done"
<1>s. next \in {"gtmp", "done", "deldir"} /\ (next = "deldir" => Cmd[p] = "rmuser") /\ next \in {"deldir", "done"}
  OBVIOUS
<1>c. ChnameDone(p, "grmtmp", "group.tmp", next)
  OBVIOUS
<1> HIDE DEF next
<1>0. Steps(p) /\ TypeOK /\ FilesType /\ Removing(p)
  BY <1>n, <1>s, <1>c, ChnameDoneTyped DEF Inv, TypeInv, TypeOK, FilesType, Mine
<1>1. pc[p] = "grmtmp" /\ line' = line /\ pc'[p] = next /\ Removed("group.tmp")
  BY <1>0, <1>n, <1>c, UnlinkIs DEF ChnameDone, At, Goto, TypeOK
<1>2. Lines("group")' = Lines("group") /\ Lines("group.tmp")' = {}
  BY <1>n, <1>1 DEF Removed, Except, Lines
<1>3. Members' \subseteq Members
  BY <1>2 DEF Members, UsersIn
<1>4. Cmd[p] = "rmuser" => User[p] \notin UsersIn("group")'
  BY <1>0, <1>1, <1>2 DEF Removing, UsersIn
<1>5. PwStill
  BY <1>n, <1>1, PwStillIs
<1>6. Apart'
  BY <1>0, <1>1, <1>n, FewerIs, ApartFewer
<1>7. Opened(p)'
  BY <1>1, <1>s DEF Opened
<1> QED
  BY <1>0, <1>1, <1>s, <1>3, <1>4, <1>5, <1>6, <1>7, GroupStep DEF GroupPCs

LEMMA DeleteHomeStep ==
  ASSUME Inv, NEW p \in Procs, DeleteHome(p)
  PROVE  Inv'
<1>0. Steps(p) /\ TypeOK /\ FilesType /\ Roles
  BY DeleteHomeTyped DEF Inv, TypeInv, TypeOK, FilesType
<1>1. pc[p] = "deldir" /\ pc'[p] = "done" /\ UNCHANGED <<dir, data>> /\ Cmd[p] = "rmuser"
  BY <1>0 DEF DeleteHome, At, files, Goto, TypeOK, Roles, Role
<1>2. Still /\ Turn(p)
  BY <1>0, <1>1, StillIs, RunningPCs DEF Turn
<1>3. Opened(p)' /\ Making(p)' /\ Removing(p)' /\ Replacing(p)'
  BY <1>1 DEF Opened, Making, Removing, Replacing, AdminPCs
<1> QED
  BY <1>0, <1>1, <1>2, <1>3, AdminStill DEF PasswdPCs

-----------------------------------------------------------------------------
(* The invariant *)

LEMMA InvInit == Init => Inv
<1> SUFFICES ASSUME Init PROVE Inv
  OBVIOUS
<1>1. TypeInv
  BY TypeInit
<1>2. /\ There("passwd") /\ There("group") /\ dir["passwd"] # dir["group"]
      /\ \A x \in Paths \ {"passwd", "group"} : ~There(x)
      /\ Lines("passwd") = InitLines /\ Lines("group") = InitLines
  BY InitFiles
<1>3. \A p \in Procs : pc[p] = "idle" /\ ~Running(p)
  BY DEF Init, Running
<1>4. OneRuns
  BY <1>3 DEF OneRuns
<1>5. Apart
  <2>1. \A x, y \in Paths : Same(x, y) /\ x # y => FALSE
    BY <1>2 DEF Same, There
  <2>2. \A x \in GrNames, y \in PwNames : ~Same(x, y)
    BY <2>1, NamesApart
  <2>3. \A y \in PwNames \ {"passwd.tmp"} : ~Same("passwd.tmp", y)
    BY <2>1, NamesApart
  <2>4. \A p \in Procs : \A y \in PwNames \ {p} : ~Same(p, y)
    BY <2>1, NamesApart
  <2> QED
    BY <2>2, <2>3, <2>4 DEF Apart
<1>6. UniqNow
  <2> SUFFICES ASSUME NEW l \in InitLines, NEW m \in InitLines, l.uid = m.uid PROVE l.user = m.user
    BY <1>2 DEF UniqNow, Uniq
  <2>1. PICK u \in OldUsers : l = [user |-> u, uid |-> InitUid[u], pw |-> 0]
    BY DEF InitLines
  <2>2. PICK v \in OldUsers : m = [user |-> v, uid |-> InitUid[v], pw |-> 0]
    BY DEF InitLines
  <2>3. InitUid[u] = InitUid[v]
    BY <2>1, <2>2
  <2>4. u = v
    BY <2>3, InitUidIs
  <2> QED
    BY <2>1, <2>2, <2>4
<1>7. Gone
  BY <1>2 DEF Gone
<1>8. Kept
  <2>1. ASSUME NEW u \in OldUsers PROVE u \in UsersIn("passwd")
    <3>1. [user |-> u, uid |-> InitUid[u], pw |-> 0] \in InitLines
      BY DEF InitLines
    <3> QED
      BY <1>2, <3>1 DEF UsersIn
  <2>2. UsersIn("group.tmp") = {} /\ UsersIn("group") = UsersIn("passwd")
    BY <1>2, NamesAre DEF UsersIn, Lines, There
  <2>3. Told("mkuser", {"done"}) = {}
    BY <1>3 DEF Told
  <2>4. \A u \in Wanted : InPlace(u)
    BY <2>1, <2>2, <2>3 DEF Wanted, Members, InPlace
  <2> QED
    BY <1>3, <2>4 DEF Kept
<1>9. \A p \in Procs : NoTmp(p) /\ Mine(p)
  BY <1>2, <1>3, MineRest, NamesApart DEF NoTmp, Names
<1> QED
  BY <1>1, <1>4, <1>5, <1>6, <1>7, <1>8, <1>9 DEF Inv

LEMMA InvAction ==
  ASSUME Setting, Inv, NEW p \in Procs, PasswdStep(p) \/ AdminStep(p) \/ Kill(p)
  PROVE  Inv'
<1>1. CASE PasswdStep(p)
  BY <1>1, PasswdStartStep, MakeLockStep, FilterStep, LinkBakStep, UnlinkPasswdStep, RgStatStep, RgLinkStep,
     CopyCreatStep, CopyWriteStep, RestoreStep, RemoveTmpStep, RemoveLockStep, AccessStep, AppendStep DEF PasswdStep
<1>2. CASE AdminStep(p)
  BY <1>2, AdminStartStep, MkuserUidStep, MakeHomeStep, OpenPasswdStep, WritePasswdStep, PasswdGoesStep, PasswdBackStep,
     TmpGoesStep, OpenGroupStep, WriteGroupStep, GroupGoesStep, GroupBackStep, GroupTmpGoesStep, DeleteHomeStep
     DEF AdminStep
<1> QED
  BY <1>1, <1>2, KillStep

LEMMA InvStutter == Inv /\ UNCHANGED vars => Inv'
<1> SUFFICES ASSUME Inv, UNCHANGED vars PROVE Inv'
  OBVIOUS
<1>1. UNCHANGED <<pc, onedev, dir, data, lock, line, from, to, home, faults, crashes, seen>>
  BY DEF vars
<1>2. TypeInv'
  BY TypeStep DEF Inv
<1>3. (\A x : Lines(x)' = Lines(x) /\ UsersIn(x)' = UsersIn(x) /\ (There(x)' <=> There(x))) /\ (\A x, y : Same(x, y)' <=> Same(x, y))
  BY <1>1 DEF Lines, UsersIn, There, Same
<1>4. OneRuns' /\ Apart' /\ UniqNow' /\ Gone' /\ \A p \in Procs : NoTmp(p)'
  <2>1. OneRuns'
    BY <1>1 DEF Inv, OneRuns, Running
  <2>2. Apart'
    BY <1>1, <1>3 DEF Inv, Apart
  <2>3. UniqNow' /\ Gone' /\ \A p \in Procs : NoTmp(p)'
    BY <1>1, <1>3 DEF Inv, UniqNow, Uniq, Gone, NoTmp
  <2> QED
    BY <2>1, <2>2, <2>3
<1>5. Kept'
  <2>1. Wanted' = Wanted
    BY <1>1, <1>3 DEF Wanted, Excepted, Members, Told
  <2>2. \A u : (InDead(u)' <=> InDead(u)) /\ (InPlace(u)' <=> InPlace(u))
    BY <1>1, <1>3 DEF InDead, InPlace
  <2>3. \A p, u : SafeAt(p, u)' <=> SafeAt(p, u)
    BY <1>1, <1>3, <2>2 DEF SafeAt, Was
  <2> QED
    BY <1>1, <2>1, <2>2, <2>3 DEF Inv, Kept, Running
<1>6. ASSUME NEW p \in Procs PROVE Mine(p)'
  <2>1. Mine(p)
    BY DEF Inv
  <2>2. Opened(p)' /\ Making(p)' /\ Removing(p)' /\ Replacing(p)'
    <3>1. Opened(p)'
      BY <1>1, <1>3, <2>1 DEF Mine, Opened
    <3>2. Making(p)'
      BY <1>1, <1>3, <2>1 DEF Mine, Making, Uniq
    <3>3. Removing(p)'
      BY <1>1, <1>3, <2>1 DEF Mine, Removing
    <3>4. Replacing(p)'
      BY <1>1, <1>3, <2>1 DEF Mine, Replacing, Uniq
    <3> QED
      BY <3>1, <3>2, <3>3, <3>4
  <2>3. (Entry(p)' <=> Entry(p)) /\ (Old(p)' <=> Old(p)) /\ (Aside(p)' <=> Aside(p))
    BY <1>1, <1>3 DEF Entry, Old, Aside, Others, Uniq
  <2>4. (Without(p)' <=> Without(p)) /\ (With(p)' <=> With(p)) /\ (LinkFailed' <=> LinkFailed)
    BY <1>1, <1>3 DEF Without, With, Others, LinkFailed
  <2>5. Changing(p)'
    BY <1>1, <1>3, <2>1, <2>3, <2>4 DEF Mine, Changing
  <2> QED
    BY <2>2, <2>5 DEF Mine
<1> QED
  BY <1>2, <1>4, <1>5, <1>6 DEF Inv

LEMMA InvHolds == ASSUME Setting PROVE Spec => []Inv
<1>1. Inv /\ [Next]_vars => Inv'
  BY InvAction, InvStutter DEF Next
<1> QED
  BY <1>1, InvInit, PTL DEF Spec

-----------------------------------------------------------------------------
(* What follows from it *)

\* At every moment a user that must not be lost is in some file of passwd.
LEMMA SomewhereIs ==
  ASSUME Inv, NEW u \in Wanted
  PROVE  \E x \in Paths \ {"group", "group.tmp"} : u \in UsersIn(x)
<1>n. PwNames \subseteq Paths \ {"group", "group.tmp"}
  BY NamesApart DEF GrNames
<1> SUFFICES \E x \in PwNames : u \in UsersIn(x)
  BY <1>n
<1>1. CASE InDead(u) \/ InPlace(u)
  BY <1>1, NamesApart DEF InDead, InPlace
<1>2. CASE \E p \in Procs : Running(p) /\ SafeAt(p, u)
  <2>1. PICK p \in Procs : Running(p) /\ SafeAt(p, u)
    BY <1>2
  <2>2. CASE pc[p] \in PasswdPCs /\ u \in Was(p)
    <3>1. Changing(p) /\ Cmd[p] = "passwd"
      BY <2>2, PasswdRole DEF Inv, Mine
    <3>2. u # User[p]
      <4>1. pc[p] \in Begun \ {"done"}
        BY <2>2 DEF PasswdPCs, Begun, PCs
      <4>2. u = User[p] => u \in Told("passwd", Begun \ {"done"})
        BY <3>1, <4>1 DEF Told
      <4> QED
        BY <4>2 DEF Wanted, Excepted
    <3>3. PICK m \in seen[p] : m.user = u
      BY <2>2 DEF Was
    <3>4. m \in Others(p, seen[p])
      BY <3>2, <3>3 DEF Others
    <3>5. m \in Lines("passwd") \/ m \in Lines(p)
      <4>1. pc[p] \in {"rlock", "tmp"} => m \in Lines("passwd")
        BY <3>1, <3>3 DEF Changing, Old
      <4>2. pc[p] \in {"linkbak", "unlink", "write"} \cup Copying => m \in Lines(p)
        BY <3>1, <3>4 DEF Changing, Aside
      <4>3. pc[p] \in {"rmtmp", "unlock", "access", "alock", "append"} => m \in Lines("passwd")
        BY <3>1, <3>4 DEF Changing, Without, Others
      <4>4. pc[p] = "aunlock" => m \in Lines("passwd")
        BY <3>1, <3>4 DEF Changing, With, Others
      <4> QED
        BY <2>2, <4>1, <4>2, <4>3, <4>4 DEF PasswdPCs, Copying
    <3>6. u \in UsersIn("passwd") \/ u \in UsersIn(p)
      BY <3>3, <3>5 DEF UsersIn
    <3> QED
      BY <3>6, NamesApart
  <2>3. CASE pc[p] = "plink" /\ u \in UsersIn("passwd.tmp")
    BY <2>3, NamesApart
  <2> QED
    BY <2>1, <2>2, <2>3, <1>1 DEF SafeAt
<1> QED
  BY <1>1, <1>2 DEF Inv, Kept

LEMMA AccountsWanted == Accounts \subseteq Wanted
  BY DEF Accounts, Wanted, Excepted

LEMMA UsersSafeIs == ASSUME Inv PROVE UsersSafe
<1>1. UsersKept
  BY SomewhereIs, AccountsWanted DEF UsersKept
<1>2. UsersThere
  <2> SUFFICES ASSUME \A p \in Procs : pc[p] \in {"idle", "done"}, NEW u \in Accounts PROVE u \in UsersIn("passwd")
    BY DEF UsersThere
  <2>1. \A p \in Procs : ~Running(p) /\ pc[p] # "dead" /\ pc[p] \notin Between
    BY DEF Running, Between, Copying
  <2>2. There("passwd")
    BY <2>1 DEF Inv, Gone
  <2>3. ~InDead(u)
    BY <2>1 DEF InDead
  <2>4. InPlace(u)
    BY <2>1, <2>3, AccountsWanted DEF Inv, Kept
  <2> QED
    BY <2>2, <2>4 DEF InPlace
<1> QED
  BY <1>1, <1>2 DEF UsersSafe

LEMMA FilesSoundIs == ASSUME Inv PROVE FilesSound
<1>1. UidUnique
  BY DEF Inv, UniqNow, Uniq, UidUnique
<1>2. FilesAgree
  <2> SUFFICES ASSUME NEW u \in UsersIn("group"), u \notin Told("rmuser", Begun) \cup Told("passwd", Begun \ {"done"})
               PROVE  \E x \in Paths \ {"group", "group.tmp"} : u \in UsersIn(x)
    BY DEF FilesAgree
  <2>1. u \in Wanted
    BY DEF Wanted, Members, Excepted
  <2> QED
    BY <2>1, SomewhereIs
<1> QED
  BY <1>1, <1>2 DEF FilesSound

LEMMA OnlyDeleteHome ==
  ASSUME NEW p \in Procs, PasswdStep(p) \/ AdminStep(p) \/ Kill(p), NEW u \in home \ home'
  PROVE  pc[p] = "deldir" /\ u = User[p]
<1>1. DeleteHome(p)
  <2>1. CASE PasswdStep(p)
    BY <2>1 DEF PasswdStep, PasswdStart, Begin, MakeLock, Filter, LinkBak, UnlinkPasswd, RgStat, RgLink, CopyCreat,
                CopyWrite, Restore, RemoveTmp, RemoveLock, Access, Append
  <2>2. CASE AdminStep(p)
    BY <2>2 DEF AdminStep, MkuserStart, RmuserStart, Begin, MkuserUid, MakeHome, OpenTmp, WriteTmp, ChnameUnlink,
                ChnameLink, ChnameDone
  <2>3. CASE Kill(p)
    BY <2>3 DEF Kill
  <2> QED
    BY <2>1, <2>2, <2>3
<1> QED
  BY <1>1 DEF DeleteHome, At

LEMMA HomeLastIs ==
  ASSUME Inv, Next
  PROVE  \A u \in home \ home' : u \notin UsersIn("passwd") \cup UsersIn("group")
<1> SUFFICES ASSUME NEW u \in home \ home' PROVE u \notin UsersIn("passwd") \cup UsersIn("group")
  OBVIOUS
<1>1. PICK p \in Procs : PasswdStep(p) \/ AdminStep(p) \/ Kill(p)
  BY DEF Next
<1>2. pc[p] = "deldir" /\ u = User[p]
  BY <1>1, OnlyDeleteHome
<1>3. Cmd[p] = "rmuser"
  BY <1>2 DEF Inv, TypeInv, Roles, Role
<1> QED
  BY <1>2, <1>3 DEF Inv, Mine, Removing

\* Only apppwent's rm_lock ends a passwd command well.
LEMMA OnlyUnlock ==
  ASSUME TypeInv, NEW p \in Procs, PasswdStep(p) \/ AdminStep(p) \/ Kill(p), Cmd[p] = "passwd", pc'[p] = "done"
  PROVE  pc[p] = "aunlock" /\ UNCHANGED <<dir, data>>
<1>0. pc \in [Procs -> PCs] /\ Roles
  BY DEF TypeInv, TypeOK
<1>1. \A l : Goto(p, l) => l = "done"
  BY <1>0 DEF Goto
<1>2. CASE PasswdStep(p)
  <2>1. RemoveLock(p)
    BY <1>1, <1>2 DEF PasswdStep, PasswdStart, MakeLock, Filter, LinkBak, UnlinkPasswd, RgStat, RgLink, CopyCreat,
                CopyWrite, Restore, RemoveTmp, Access, Append
  <2> QED
    BY <1>1, <2>1 DEF RemoveLock, At, files
<1>3. CASE AdminStep(p)
  <2>1. MakeHome(p) \/ MkuserUid(p) \/ DeleteHome(p)
    BY <1>3 DEF AdminStep, MkuserStart, RmuserStart, OpenTmp, WriteTmp, ChnameUnlink, ChnameLink, ChnameDone
  <2>2. pc[p] \in {"uid", "mkdir", "deldir"}
    BY <2>1 DEF MakeHome, MkuserUid, DeleteHome, At
  <2> QED
    BY <1>0, <2>2 DEF Roles, Role
<1>4. CASE Kill(p)
  BY <1>1, <1>4 DEF Kill
<1> QED
  BY <1>2, <1>3, <1>4

LEMMA OnlyHisEntryIs ==
  ASSUME Inv, Next
  PROVE  \A p \in Procs : Cmd[p] = "passwd" /\ ~At(p, "done") /\ pc'[p] = "done" =>
          /\ line[p] \in Lines("passwd")
          /\ {l \in Lines("passwd") : l.user # User[p]} =
                {l \in seen[p] : l.user # User[p]}
<1> SUFFICES ASSUME NEW p \in Procs, Cmd[p] = "passwd", ~At(p, "done"), pc'[p] = "done"
             PROVE  /\ line[p] \in Lines("passwd")
                    /\ {l \in Lines("passwd") : l.user # User[p]} = {l \in seen[p] : l.user # User[p]}
  OBVIOUS
<1>1. PICK q \in Procs : PasswdStep(q) \/ AdminStep(q) \/ Kill(q)
  BY DEF Next
<1>2. Steps(q)
  BY <1>1, StepsLemma DEF Inv
<1>3. q = p
  BY <1>2 DEF Steps, Moves, At
<1>4. pc[p] = "aunlock"
  BY <1>1, <1>3, OnlyUnlock DEF Inv
<1>5. With(p)
  BY <1>4 DEF Inv, Mine, Changing
<1> QED
  BY <1>5 DEF With, Others

\* Commands one at a time never lose a user: whatever call fails and whenever a
\* passwd dies, he is in passwd or in a file it can be repaired from, and in
\* passwd itself once every command ended well.
THEOREM UsersSafeTheorem == ASSUME Setting PROVE Spec => []UsersSafe
<1>1. Inv => UsersSafe
  BY UsersSafeIs
<1> QED
  BY <1>1, InvHolds, PTL

\* No two users of passwd get one user id, and nobody is in the group without a
\* line in passwd, unless rmuser or a passwd command has it.
THEOREM FilesSoundTheorem == ASSUME Setting PROVE Spec => []FilesSound
<1>1. Inv => FilesSound
  BY FilesSoundIs
<1> QED
  BY <1>1, InvHolds, PTL

\* rmuser deletes a home directory only when its user is in neither file, and a
\* passwd command that ends well has changed the line of its user alone.
THEOREM StepsSoundTheorem == ASSUME Setting PROVE Spec => StepsSound
<1>1. Inv /\ [Next]_vars => [\A u \in home \ home' : u \notin UsersIn("passwd") \cup UsersIn("group")]_vars
  BY HomeLastIs
<1>2. Inv /\ [Next]_vars =>
        [\A p \in Procs : Cmd[p] = "passwd" /\ ~At(p, "done") /\ pc'[p] = "done" =>
          /\ line[p] \in Lines("passwd")
          /\ {l \in Lines("passwd") : l.user # User[p]} =
                {l \in seen[p] : l.user # User[p]}]_vars
  BY OnlyHisEntryIs
<1>3. Spec => HomeLast
  BY <1>1, InvHolds, PTL DEF Spec, HomeLast
<1>4. Spec => OnlyHisEntry
  BY <1>2, InvHolds, PTL DEF Spec, OnlyHisEntry
<1> QED
  BY <1>3, <1>4 DEF StepsSound
=============================================================================

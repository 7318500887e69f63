------------------------------ MODULE FileTree ------------------------------
(* The file commands together on one file system: what one command leaves    *)
(* behind after failing calls and signals, and what two at once do.          *)
EXTENDS CopyLink

VARIABLE keep   \* the files no command was asked to overwrite or remove
allvars == <<vars, keep>>

Target(tree, p, src) ==
  LET dst == Job(p).dst IN
  IF WalkIn(tree, dst) # NoIno /\ Kind[WalkIn(tree, dst)] = "dir" THEN Append(dst, dname(src)) ELSE dst

\* what lies below, dots left out
Below(tree, i) ==
  LET step[k \in 0..Cardinality(Inodes)] ==
        IF k = 0 THEN {i} \ {NoIno}
        ELSE LET T == step[k - 1] IN T \cup UNION {{tree[j][n] : n \in NamesIn(tree, j)} : j \in T}
  IN step[Cardinality(Inodes)]

Doomed(p) ==
  LET j == Job(p) IN
  CASE j.cmd = "rm" -> UNION {Below(Tree, WalkIn(Tree, s)) : s \in Range(j.srcs)}
    [] j.cmd = "unlink" -> Below(Tree, scen.cwd)
    [] j.cmd \in {"mv", "cp_main"} -> {WalkIn(Tree, Target(Tree, p, s)) : s \in Range(j.srcs)}
    [] j.cmd = "copy" -> Below(Tree, WalkIn(Tree, j.dst))
    [] OTHER -> {}

Init ==
  /\ scen \in Scenarios
  /\ ent = Tree /\ kind = Kind /\ data = Data
  /\ stk = [p \in Procs |-> IF Job(p).cmd = "none" THEN <<>>
                            ELSE <<[Frame(Job(p).cmd, <<>>, <<>>) EXCEPT !.ino = scen.cwd, !.was = Names(scen.cwd)]>>]
  /\ ret = [p \in Procs |-> 0]
  /\ faults = scen.faults /\ kills = scen.kills
  /\ keep = {i \in Inodes : Kind[i] = "file"} \ UNION {Doomed(p) : p \in Procs}

Step(p) == /\ MoveRemoveStep(p) \/ CopyLinkStep(p)
           /\ UNCHANGED keep
Killed(p) == Kill(p) /\ UNCHANGED keep
AllDone == \A p \in Procs : stk[p] = <<>>
Done == AllDone /\ UNCHANGED allvars
Next == (\E p \in Procs : Step(p) \/ Killed(p)) \/ Done

Spec == Init /\ [][Next]_allvars
-----------------------------------------------------------------------------
(* Properties *)
Linked == Reach({Root})

TypeOK ==
  /\ ent \in [Inodes \cup {NoIno} -> [FileNames -> Inodes \cup {NoIno}]]
  /\ \A i \in Inodes : kind[i] # "dir" => Range(ent[i]) = {NoIno}
  /\ faults \in 0..scen.faults /\ kills \in 0..scen.kills
  /\ keep \subseteq Inodes

\* No command loses a file it was not told to remove or overwrite: whatever
\* call fails and whenever the process is killed, the text of the file is under
\* some name (mv.c: link before unlink, cp before unlink).
FilesKept == \A i \in keep : \E j \in Linked : data[j] = Data[i]

Parents(i) == {<<d, n>> \in Linked \X (FileNames \ Dots) : ent[d][n] = i}
SoundDir(i) ==
  /\ ent[i]["."] = i
  /\ IF i = Root THEN ent[i][".."] = Root
     ELSE \E d \in Linked : /\ {pn[1] : pn \in Parents(i)} = {d} /\ Cardinality(Parents(i)) = 1
                            /\ ent[i][".."] = d

\* When all commands have ended, at most one call having failed, every
\* directory has one name, its "." is itself and its ".." the directory that
\* names it, and no directory that holds anything is cut off the tree: mkdir
\* and mv undo what they began. (A killed mv may leave two names, a failing
\* rmdir a directory without dots.)
TreeSound ==
  (/\ AllDone /\ kills = scen.kills /\ scen.faults - faults <= 1
   /\ \A p \in Procs : Job(p).cmd \in {"rm", "rmdir"} => ret[p] = 0 \/ faults = scen.faults)
  => \A i \in Inodes : kind[i] = "dir" => IF i \in Linked THEN SoundDir(i) ELSE Names(i) = {}

Running == {p \in Procs : Job(p).cmd # "none"}
Same(i, path) == Exists(path) /\ (Walk(path) = i \/ data[Walk(path)] = Data[i])
DidIt(p) ==
  LET j == Job(p)  first == WalkIn(Tree, j.srcs[1]) IN
  CASE j.cmd = "mv" ->
         \/ Kind[first] = "dir" /\ (chkdot(j.srcs[1]) \/ chkdot(j.dst))
         \/ \A s \in Range(j.srcs) : ~Exists(s) /\ Same(WalkIn(Tree, s), Target(Tree, p, s))
    [] j.cmd = "cp_main" \/ (j.cmd = "copy" /\ Kind[first] = "file" /\ j.flags \cap {"a", "u"} = {}) ->
         \A s \in Range(j.srcs) : Same(WalkIn(Tree, s), IF Exists(j.dst) /\ IsDir(Walk(j.dst))
                                                       THEN Append(j.dst, dname(s)) ELSE j.dst)
    [] j.cmd \in {"rm", "rmdir"} /\ j.flags \cap {"f", "i"} = {} /\ scen.prot = {} ->
         \A s \in Range(j.srcs) : ~Exists(s)
    [] j.cmd = "mkdir" -> \A s \in Range(j.srcs) : IsDir(Walk(s)) /\ SoundDir(Walk(s))
    [] j.cmd = "ln" -> Walk(IF j.dst = <<>> THEN <<dname(j.srcs[1])>> ELSE Target(Tree, p, j.srcs[1])) = first
    [] OTHER -> TRUE

\* A command that runs alone and exits with 0 has done what it was asked, though
\* one call failed on the way: mv, cp, copy of files, ln, rm without -f, rmdir, mkdir.
StatusTrue == \A p \in Procs :
  (Running = {p} /\ stk[p] = <<>> /\ ret[p] = 0 /\ scen.faults - faults <= 1) => DidIt(p)

\* the paths of files below a directory, a part of it left out
PathsOf(tree, top, skip) ==
  LET step[k \in 0..3] ==
        IF k = 0 THEN {<<>>}
        ELSE {Append(q, n) : q \in step[k - 1], n \in UNION {NamesIn(tree, i) : i \in Inodes}}
      At1(q) == WalkIn(tree, top \o q)
  IN {q \in UNION {step[k] : k \in 1..3} :
        At1(q) # NoIno /\ \A m \in 1..Len(q) : WalkIn(tree, top \o SubSeq(q, 1, m)) # skip}

\* copy -r into a directory that is there copies the tree below the source, the
\* destination itself left out when it lies in it, and copies nothing twice.
CopyExact == \A p \in Procs :
  LET j == Job(p)  src == j.srcs[1]  to == WalkIn(Tree, j.dst)
      dst == IF "t" \in j.flags THEN Append(j.dst, dname(src)) ELSE j.dst IN
  (/\ Running = {p} /\ j.cmd = "copy" /\ Kind[WalkIn(Tree, src)] = "dir" /\ "r" \in j.flags
   /\ j.flags \cap {"a", "ad", "n", "u"} = {} /\ to # NoIno
   /\ stk[p] = <<>> /\ ret[p] = 0 /\ faults = scen.faults)
  => /\ \A q \in PathsOf(Tree, src, to) :
          LET i == WalkIn(Tree, src \o q) IN
          Exists(dst \o q) /\ (Kind[i] = "file" => data[Walk(dst \o q)] = Data[i])
     /\ \A q \in PathsOf(ent, dst, NoIno) :
          q \in PathsOf(Tree, src, to) \/ WalkIn(Tree, dst \o q) # NoIno

\* A command that says it succeeded did what it was asked: the two statements above.
CommandsTrue == StatusTrue /\ CopyExact

=============================================================================

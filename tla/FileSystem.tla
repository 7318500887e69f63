----------------------------- MODULE FileSystem -----------------------------
(* The file system the commands work on, modelled from how they use it: a    *)
(* directory gives every name an inode, NoIno (as d_ino = 0) when there is no *)
(* such entry; "." and ".." are entries like any other, and link and unlink,  *)
(* with the rights of the superuser, take directories as well. A path is the  *)
(* sequence of its names, begun by "/" when it starts at the root; the empty  *)
(* path is the current directory. An inode that lost its last name is not     *)
(* used again.                                                                *)
(*                                                                            *)
(* A process runs one command as a stack of frames, one frame per C function  *)
(* that is active. Every system call is one step; any call that could succeed *)
(* may fail instead, as long as faults are left.                              *)
EXTENDS Naturals, Sequences, FiniteSets, SequencesExt, Functions, TLC

CONSTANTS Procs,       \* processes
          Inodes,      \* 1..n; 1 is the root
          FileNames,   \* the names of entries, "." and ".." among them
          Tree,        \* the entries at the start: a file, and NoIno, has none
          Kind,        \* the kinds at the start: [Inodes -> {"dir", "file", "dev", "free"}]
          Data,        \* the contents at the start: [Inodes -> Seq(blocks)]
          Scenarios    \* who runs what, from where, with how many faults and kills

Root == 1
NoIno == 0

VARIABLES scen,    \* the scenario of this behaviour (never changes)
          ent,     \* the directory entries
          kind, data,
          stk,     \* process -> its active functions, the last on top
          ret,     \* process -> its exit status
          faults, kills    \* how many more calls may fail, processes be killed
vars == <<scen, ent, kind, data, stk, ret, faults, kills>>
files == <<ent, kind, data>>

-----------------------------------------------------------------------------
(* Paths *)
IsAbs(path) == path # <<>> /\ path[1] = "/"
dname(path) == IF path \in {<<>>, <<"/">>} THEN "" ELSE Last(path)
pname(path) == IF path \in {<<>>, <<"/">>} THEN path ELSE Front(path)
name_mrg(path, name) == IF name = "" THEN path ELSE Append(path, name)

Dots == {".", ".."}
NamesIn(tree, i) == {n \in FileNames \ Dots : tree[i][n] # NoIno}
Names(i) == NamesIn(ent, i)

\* the inode of a path in a tree, NoIno when stat fails
WalkIn(tree, path) == FoldLeft(LAMBDA i, n : tree[i][n],
                               IF IsAbs(path) THEN Root ELSE scen.cwd,
                               IF IsAbs(path) THEN Tail(path) ELSE path)
Walk(path) == WalkIn(ent, path)
IsDir(i) == i # NoIno /\ kind[i] = "dir"
Exists(path) == Walk(path) # NoIno
Writable(path) == Exists(path) /\ Walk(path) \notin scen.prot

\* every inode a name leads to
Reach(S) ==
  LET step[k \in 0..Cardinality(Inodes)] ==
        IF k = 0 THEN S ELSE LET T == step[k - 1] IN T \cup (UNION {Range(ent[i]) : i \in T} \ {NoIno})
  IN step[Cardinality(Inodes)]

-----------------------------------------------------------------------------
(* Processes *)
Job(p) == scen.jobs[p]
Has(p, flag) == flag \in Job(p).flags
Frame(pc, src, dst) == [pc |-> pc, src |-> src, dst |-> dst, res |-> 0, n |-> 0,
                        ino |-> NoIno, out |-> NoIno, seen |-> {}, was |-> {}]
Top(p) == Last(stk[p])
At(p, pc) == stk[p] # <<>> /\ Top(p).pc = pc
\* what the frame on top becomes
Set(p, frame) == /\ stk' = [stk EXCEPT ![p] = Append(Front(@), frame)]
                 /\ UNCHANGED <<ret, kills, scen>>
Goto(p, pc) == Set(p, [Top(p) EXCEPT !.pc = pc])
\* the frame waits while a function runs
Call(p, frame, callee) == /\ stk' = [stk EXCEPT ![p] = Front(@) \o <<frame, callee>>]
                          /\ UNCHANGED <<ret, kills, scen>>
\* a value other than 0 is counted by the caller, but by d_copy, which ignores it
Ret(p, v) ==
  LET below == Front(stk[p]) IN
  /\ stk' = [stk EXCEPT ![p] =
       IF below = <<>> \/ Last(below).pc = "dc_read" \/ v = 0 THEN below
       ELSE Append(Front(below), [Last(below) EXCEPT !.res = 1])]
  /\ ret' = IF below = <<>> THEN [ret EXCEPT ![p] = v] ELSE ret
  /\ UNCHANGED <<kills, scen>>
Exit(p, v) == /\ stk' = [stk EXCEPT ![p] = <<>>]
              /\ ret' = [ret EXCEPT ![p] = v]
              /\ UNCHANGED <<kills, scen>>

-----------------------------------------------------------------------------
(* System calls: done, they change the files; failed, they change nothing. *)
Works == UNCHANGED faults
Fails(can) == /\ UNCHANGED files
              /\ IF can THEN faults > 0 /\ faults' = faults - 1 ELSE UNCHANGED faults
Enter(i, path) == [ent EXCEPT ![Walk(pname(path))][dname(path)] = i]

CanName(path) == dname(path) # "" /\ IsDir(Walk(pname(path))) /\ ~Exists(path)
CanLink(old, new) == Exists(old) /\ CanName(new)
link(old, new) == /\ CanLink(old, new) /\ Works
                  /\ ent' = Enter(Walk(old), new) /\ UNCHANGED <<kind, data>>

CanUnlink(path) == dname(path) # "" /\ Exists(path)
unlink(path) == /\ CanUnlink(path) /\ Works
                /\ ent' = Enter(NoIno, path) /\ UNCHANGED <<kind, data>>

Unused == {i \in Inodes : kind[i] = "free"}
CanMake(path) == CanName(path) /\ Unused # {}
Fresh == CHOOSE i \in Unused : \A j \in Unused : i <= j
mknod(path, k) == /\ CanMake(path) /\ Works
                  /\ ent' = Enter(Fresh, path) /\ kind' = [kind EXCEPT ![Fresh] = k]
                  /\ UNCHANGED data
CanCreat(path) == IF Exists(path) THEN ~IsDir(Walk(path)) /\ Writable(path) ELSE CanMake(path)
creat(path) == /\ CanCreat(path) /\ Works
               /\ IF Exists(path) THEN /\ data' = [data EXCEPT ![Walk(path)] = <<>>]
                                       /\ UNCHANGED <<ent, kind>>
                  ELSE /\ ent' = Enter(Fresh, path) /\ kind' = [kind EXCEPT ![Fresh] = "file"]
                       /\ UNCHANGED data
Created(path) == IF Exists(path) THEN Walk(path) ELSE Fresh
\* block n of an open file is written; a hole stays where another creat emptied it
PutBlock(i, n, b) == [data EXCEPT ![i] =
  [k \in 1..(IF Len(@) < n THEN n ELSE Len(@)) |->
     IF k = n THEN b ELSE IF k <= Len(@) THEN @[k] ELSE "hole"]]

\* a signal that is not ignored, from the terminal or by kill
Shielded == {"md", "md_dot", "md_dotdot", "md_undo", "md_undo2", "rmd", "rmd_dot", "rmd_dd", "rmd_dir"}
Kill(p) == /\ stk[p] # <<>> /\ kills > 0
           /\ Top(p).pc \notin Shielded
           /\ Top(p).pc \in {"mvd_link", "mvd_unl", "mvd_undo", "mvd_dd", "mvd_par", "mvd_back", "mvd_old"}
                => Top(p).n = 0
           /\ kills' = kills - 1
           /\ stk' = [stk EXCEPT ![p] = <<>>]
           /\ ret' = [ret EXCEPT ![p] = 2]
           /\ UNCHANGED <<scen, files, faults>>

\* a read of a directory: an entry not met yet, or the end; an entry made
\* after the directory was opened may be missed
ReadsEntry(f, n) == f.ino # NoIno /\ n \in Names(f.ino) \ f.seen
ReadsEnd(f) == Names(f.ino) \cap f.was \subseteq f.seen
=============================================================================

----------------------------- MODULE MoveRemove -----------------------------
(* mv, rm, rmdir and mkdir, with makedir and rmvdir of the library. A test   *)
(* that only reads is one step with the tests that follow it; every call     *)
(* that changes the file system is a step of its own.                        *)
EXTENDS FileSystem

\* the loop of every command over its arguments: the next call, or the exit
NextArg(p, fn) ==
  LET f == Top(p)  srcs == Job(p).srcs IN
  IF f.n < Len(srcs)
  THEN Call(p, [f EXCEPT !.n = @ + 1], Frame(fn, srcs[f.n + 1], Job(p).dst))
  ELSE Exit(p, f.res)
Still == UNCHANGED <<files, faults>>
-----------------------------------------------------------------------------
(* mv *)
MvMain(p) ==
  LET srcs == Job(p).srcs  s == Walk(srcs[1])  f == Top(p) IN
  /\ At(p, "mv") /\ Still
  /\ IF f.n > 0 THEN NextArg(p, "move")
     ELSE IF s = NoIno \/ (Len(srcs) > 1 /\ (IsDir(s) \/ ~IsDir(Walk(Job(p).dst)))) THEN Exit(p, 1)
     ELSE IF IsDir(s) THEN Set(p, Frame("mvdir", srcs[1], Job(p).dst))
     ELSE NextArg(p, "move")

\* the name a file gets when the target is a directory
Into(target, source) == IF IsDir(Walk(target)) THEN Append(target, dname(source)) ELSE target

MoveTest(p) ==
  LET f == Top(p)  s == Walk(f.src)  target == Into(f.dst, f.src)  t == Walk(target)
      g == [f EXCEPT !.dst = target]
  IN /\ At(p, "move") /\ Still
     /\ IF s = NoIno \/ IsDir(s) \/ IsDir(t) \/ s = t THEN Ret(p, 1)
        ELSE IF t = NoIno THEN Set(p, [g EXCEPT !.pc = "mv_link"])
        ELSE \/ Set(p, [g EXCEPT !.pc = "mv_unlink"])
             \/ ~Writable(target) /\ Ret(p, 1)           \* the answer is not yes

MoveUnlinkTarget(p) ==
  LET f == Top(p) IN
  /\ At(p, "mv_unlink")
  /\ \/ unlink(f.dst) /\ Goto(p, "mv_link")
     \/ Fails(CanUnlink(f.dst)) /\ Ret(p, 1)

\* a link that fails, as between two devices, is followed by cp in a child
MoveLink(p) ==
  LET f == Top(p) IN
  /\ At(p, "mv_link")
  /\ \/ link(f.src, f.dst) /\ Goto(p, "mv_drop")
     \/ Fails(CanLink(f.src, f.dst)) /\ Goto(p, "mv_fork")
MoveFork(p) ==
  LET f == Top(p) IN
  /\ At(p, "mv_fork") /\ UNCHANGED files
  /\ \/ Works /\ Call(p, [f EXCEPT !.pc = "mv_wait"], Frame("cp", f.src, f.dst))
     \/ Fails(TRUE) /\ Ret(p, 1)
\* Mutant: the source is removed whatever became of the copy.
MoveWaitAnyway(p) == At(p, "mv_wait") /\ Still /\ Goto(p, "mv_drop")

MoveWait(p) == /\ At(p, "mv_wait") /\ Still
               /\ IF Top(p).res # 0 THEN Ret(p, 1) ELSE Goto(p, "mv_drop")
MoveUnlinkSource(p) ==
  LET f == Top(p) IN
  /\ At(p, "mv_drop")
  /\ \/ unlink(f.src) /\ Ret(p, 0)
     \/ Fails(CanUnlink(f.src)) /\ Ret(p, 1)
-----------------------------------------------------------------------------
(* mv of a directory *)
\* the inodes that check meets on the way up from path, the root included
Depth == Cardinality(Inodes)
Climb(path) ==
  LET up[k \in 0..Depth] == IF k = 0 THEN Walk(path)
                            ELSE IF k = 1 /\ path = <<>> THEN Root      \* "" becomes "/.."
                            ELSE ent[up[k - 1]][".."]
  IN up
check(path, file) ==
  LET up == Climb(path) IN
  ~ \E k \in 0..Depth : /\ up[k] = Root /\ up[k] # Walk(file)
                        /\ \A j \in 0..(k - 1) : up[j] \notin {NoIno, Root, Walk(file)}
chkdot(path) == ".." \in Range(path)

MvdTest(p) ==
  LET f == Top(p)  t == Walk(f.dst)  target == Into(f.dst, f.src)
      from == Walk(pname(f.src))  to == Walk(pname(target))
      go == [f EXCEPT !.pc = "mvd_link", !.dst = target, !.n = IF from = to THEN 0 ELSE 1]
  IN /\ At(p, "mvdir") /\ Still
     /\ IF \/ ~Exists(f.src) \/ (t # NoIno /\ ~IsDir(t))
           \/ f.src = target \/ dname(f.src) \in Dots \cup {""}
           \/ ~Writable(pname(f.src)) \/ ~Writable(pname(target))
        THEN Ret(p, 1)
        ELSE \/ t # NoIno /\ Exists(target) /\ Ret(p, 1)            \* overrd: no
             \/ IF from = to THEN Set(p, go)
                ELSE IF chkdot(f.src) \/ chkdot(target) THEN Ret(p, 0)
                ELSE IF check(pname(target), f.src) THEN Ret(p, 1) ELSE Set(p, go)

MvdLink(p) ==
  LET f == Top(p) IN
  /\ At(p, "mvd_link")
  /\ \/ link(f.src, f.dst) /\ Goto(p, "mvd_unl")
     \/ Fails(CanLink(f.src, f.dst)) /\ Ret(p, 1)
MvdUnlink(p) ==
  LET f == Top(p) IN
  /\ At(p, "mvd_unl")
  /\ \/ unlink(f.src) /\ (IF f.n = 0 THEN Ret(p, 0) ELSE Goto(p, "mvd_dd"))
     \/ Fails(CanUnlink(f.src)) /\ Goto(p, "mvd_undo")
MvdUndo(p) ==
  LET f == Top(p) IN
  /\ At(p, "mvd_undo") /\ Ret(p, 1)
  /\ unlink(f.dst) \/ Fails(CanUnlink(f.dst))

\* the directory has moved: its ".." follows, or it moves back
MvdDropParent(p) ==
  LET dst == Append(Top(p).dst, "..") IN
  /\ At(p, "mvd_dd")
  /\ \/ unlink(dst) /\ Goto(p, "mvd_par")
     \/ Fails(CanUnlink(dst)) /\ Goto(p, "mvd_back")
MvdNewParent(p) ==
  LET f == Top(p)  dst == Append(f.dst, "..") IN
  /\ At(p, "mvd_par")
  /\ \/ link(pname(f.dst), dst) /\ Ret(p, 0)
     \/ Fails(CanLink(pname(f.dst), dst)) /\ Goto(p, "mvd_old")
MvdOldParent(p) ==
  LET f == Top(p)  dst == Append(f.dst, "..") IN
  /\ At(p, "mvd_old")
  /\ \/ link(pname(f.src), dst) /\ Goto(p, "mvd_back")
     \/ Fails(CanLink(pname(f.src), dst)) /\ Ret(p, 0)
MvdBack(p) ==
  LET f == Top(p) IN
  /\ At(p, "mvd_back")
  /\ \/ link(f.dst, f.src) /\ Goto(p, "mvd_undo")
     \/ Fails(CanLink(f.dst, f.src)) /\ Ret(p, 1)
-----------------------------------------------------------------------------
(* rm *)
RmMain(p) == At(p, "rm") /\ Still /\ NextArg(p, "remove")

\* a file or a directory is looked at; an answer is asked for with -i
RemoveTest(p) ==
  LET f == Top(p)  e == Walk(f.src)  force == Has(p, "f") IN
  /\ At(p, "remove") /\ Still
  /\ IF e = NoIno THEN Ret(p, IF force THEN 0 ELSE 1)
     ELSE IF IsDir(e)
     THEN IF ~Has(p, "r") \/ ~Writable(f.src) THEN Ret(p, 1)
          ELSE \/ Has(p, "i") /\ Ret(p, 1)
               \/ Set(p, [f EXCEPT !.pc = "rm_read", !.ino = e, !.was = Names(e)])
     ELSE \/ (Has(p, "i") \/ (~force /\ ~Writable(f.src))) /\ Ret(p, 0)
          \/ Goto(p, "rm_file")
RemoveFile(p) ==
  LET f == Top(p) IN
  /\ At(p, "rm_file")
  /\ \/ unlink(f.src) /\ Ret(p, 0)
     \/ Fails(CanUnlink(f.src)) /\ Ret(p, IF Has(p, "f") /\ ~Has(p, "i") THEN 0 ELSE 1)
RemoveRead(p) ==
  LET f == Top(p) IN
  /\ At(p, "rm_read") /\ Still
  /\ \/ \E n \in Names(f.ino) :
          /\ ReadsEntry(f, n)
          /\ Call(p, [f EXCEPT !.seen = @ \cup {n}], Frame("remove", name_mrg(f.src, n), <<>>))
     \/ ReadsEnd(f) /\ (IF f.res = 0 THEN Set(p, Frame("rmd", f.src, <<>>)) ELSE Ret(p, f.res))
-----------------------------------------------------------------------------
(* rmdir: rmvdir, which ignores the signals while rmd works *)
RmdirMain(p) == At(p, "rmdir") /\ Still /\ NextArg(p, "rmd")

\* an error before dot_ptr and dotdot_ptr are set frees what they hold: the
\* process may die of it
RmdTest(p) ==
  LET f == Top(p)  e == Walk(f.src) IN
  /\ At(p, "rmd") /\ Still
  /\ IF \/ e = NoIno \/ ~IsDir(e) \/ e = scen.cwd \/ Names(e) # {}
        \/ dname(f.src) \in Dots \/ ~Writable(f.src)
     THEN Ret(p, 1) \/ Exit(p, 2)
     ELSE Goto(p, "rmd_dot")
RmdUnlink(p, at, path, next) ==
  /\ At(p, at)
  /\ \/ unlink(path) /\ next
     \/ Fails(CanUnlink(path)) /\ Ret(p, 1)
RmdDot(p) == RmdUnlink(p, "rmd_dot", Append(Top(p).src, "."), Goto(p, "rmd_dd"))
RmdDotDot(p) == RmdUnlink(p, "rmd_dd", Append(Top(p).src, ".."), Goto(p, "rmd_dir"))
RmdDir(p) == RmdUnlink(p, "rmd_dir", Top(p).src, Ret(p, 0))
-----------------------------------------------------------------------------
(* mkdir: makedir, which ignores the signals while md works *)
MkdirMain(p) == At(p, "mkdir") /\ Still /\ NextArg(p, "md")

MdParent(f) == Append(pname(f.src), ".")
MdTest(p) ==
  LET f == Top(p) IN
  /\ At(p, "md")
  /\ IF Exists(f.src) \/ ~Writable(MdParent(f)) THEN Still /\ Ret(p, 1)
     ELSE \/ mknod(f.src, "dir") /\ Goto(p, "md_dot")
          \/ Fails(CanMake(f.src)) /\ Ret(p, 1)
MdDot(p) ==
  LET f == Top(p)  dot == Append(f.src, ".") IN
  /\ At(p, "md_dot")
  /\ \/ link(f.src, dot) /\ Goto(p, "md_dotdot")
     \/ Fails(CanLink(f.src, dot)) /\ Goto(p, "md_undo")
\* Mutant: the directory without ".." is left behind.
MdDotDotLeave(p) ==
  LET f == Top(p)  dotdot == Append(f.src, "..") IN
  /\ At(p, "md_dotdot")
  /\ \/ link(MdParent(f), dotdot) /\ Ret(p, 0)
     \/ Fails(CanLink(MdParent(f), dotdot)) /\ Ret(p, 1)

MdDotDot(p) ==
  LET f == Top(p)  dotdot == Append(f.src, "..") IN
  /\ At(p, "md_dotdot")
  /\ \/ link(MdParent(f), dotdot) /\ Ret(p, 0)
     \/ Fails(CanLink(MdParent(f), dotdot)) /\ Goto(p, "md_undo2")
MdUndoDot(p) ==
  LET dot == Append(Top(p).src, ".") IN
  /\ At(p, "md_undo2") /\ Goto(p, "md_undo")
  /\ unlink(dot) \/ Fails(CanUnlink(dot))
MdUndo(p) ==
  LET f == Top(p) IN
  /\ At(p, "md_undo") /\ Ret(p, 1)
  /\ unlink(f.src) \/ Fails(CanUnlink(f.src))
-----------------------------------------------------------------------------
MoveRemoveStep(p) ==
  \/ MvMain(p) \/ MoveTest(p) \/ MoveUnlinkTarget(p) \/ MoveLink(p) \/ MoveFork(p) \/ MoveWait(p) \/ MoveUnlinkSource(p)
  \/ MvdTest(p) \/ MvdLink(p) \/ MvdUnlink(p) \/ MvdUndo(p)
  \/ MvdDropParent(p) \/ MvdNewParent(p) \/ MvdOldParent(p) \/ MvdBack(p)
  \/ RmMain(p) \/ RemoveTest(p) \/ RemoveFile(p) \/ RemoveRead(p)
  \/ RmdirMain(p) \/ RmdTest(p) \/ RmdDot(p) \/ RmdDotDot(p) \/ RmdDir(p)
  \/ MkdirMain(p) \/ MdTest(p) \/ MdDot(p) \/ MdDotDot(p) \/ MdUndoDot(p) \/ MdUndo(p)
=============================================================================

------------------------------ MODULE CopyLink ------------------------------
(* cp, ln, copy and unlink, with rgcopy and spcopy of the library.           *)
EXTENDS MoveRemove

-----------------------------------------------------------------------------
(* cp *)
CpMain(p) ==
  /\ At(p, "cp_main") /\ Still
  /\ IF Top(p).n = 0 /\ Len(Job(p).srcs) > 1 /\ ~IsDir(Walk(Job(p).dst)) THEN Exit(p, 1)
     ELSE NextArg(p, "cp")

\* the source is open before the target is looked at
CpTest(p) ==
  LET f == Top(p)  s == Walk(f.src)  target == Into(f.dst, f.src) IN
  /\ At(p, "cp") /\ Still
  /\ IF s = NoIno \/ Walk(target) = s THEN Ret(p, 1)
     ELSE Set(p, [f EXCEPT !.pc = "cp_creat", !.dst = target, !.ino = s])
CpCreat(p) ==
  LET f == Top(p) IN
  /\ At(p, "cp_creat")
  /\ \/ creat(f.dst) /\ Set(p, [f EXCEPT !.pc = "cp_block", !.out = Created(f.dst), !.n = 0])
     \/ Fails(CanCreat(f.dst)) /\ Ret(p, 1)

\* Mutant: a write that fails ends the copy with 0.
CpBlockShort(p) ==
  LET f == Top(p) IN
  /\ At(p, "cp_block") /\ UNCHANGED <<ent, kind>>
  /\ IF f.n < Len(data[f.ino])
     THEN \/ /\ data' = PutBlock(f.out, f.n + 1, data[f.ino][f.n + 1])
             /\ Works /\ Set(p, [f EXCEPT !.n = @ + 1])
          \/ Fails(TRUE) /\ Ret(p, 0)
     ELSE Still /\ Ret(p, 0)

\* one block is read and written at the same place; the end when there is none
CpBlock(p) ==
  LET f == Top(p) IN
  /\ At(p, "cp_block") /\ UNCHANGED <<ent, kind>>
  /\ IF f.n < Len(data[f.ino])
     THEN \/ /\ data' = PutBlock(f.out, f.n + 1, data[f.ino][f.n + 1])
             /\ Works /\ Set(p, [f EXCEPT !.n = @ + 1])
          \/ Fails(TRUE) /\ Ret(p, 1)
     ELSE Still /\ Ret(p, 0)
-----------------------------------------------------------------------------
(* ln: the name that exists first, then the new one, or a directory for it *)
LnTest(p) ==
  LET old == Job(p).srcs[1]  new == Job(p).dst IN
  /\ At(p, "ln") /\ Still
  /\ IF ~Exists(old) \/ (~Has(p, "f") /\ IsDir(Walk(old))) THEN Exit(p, 1)
     ELSE Set(p, Frame("ln_link", old, IF new = <<>> THEN <<dname(old)>> ELSE Into(new, old)))
LnLink(p) ==
  LET f == Top(p) IN
  /\ At(p, "ln_link")
  /\ \/ link(f.src, f.dst) /\ Exit(p, 0)
     \/ Fails(CanLink(f.src, f.dst)) /\ Exit(p, 1)
-----------------------------------------------------------------------------
(* copy. The frame of main keeps the inode of the destination in out: copy   *)
(* does not go into it. When the destination was not there it is not set.    *)
CopyMain(p) ==
  LET f == Top(p)  dst == Job(p).dst  n == Len(Job(p).srcs) IN
  /\ At(p, "copy") /\ Still
  /\ IF f.res # 0 \/ (n > 1 /\ Exists(dst) /\ ~IsDir(Walk(dst))) THEN Exit(p, 1)
     ELSE IF n > 1 /\ ~Exists(dst) THEN Call(p, f, Frame("md", dst, <<>>))
     ELSE \E i \in IF Exists(dst) THEN {Walk(dst)} ELSE Inodes \cup {NoIno} :
            Set(p, [f EXCEPT !.pc = "copy_loop", !.out = i])
CopyLoop(p) ==
  LET f == Top(p)  srcs == Job(p).srcs IN
  /\ At(p, "copy_loop") /\ Still
  /\ IF f.n < Len(srcs)
     THEN Call(p, [f EXCEPT !.n = @ + 1],
               [Frame("dircopy", srcs[f.n + 1], Job(p).dst) EXCEPT !.out = f.out])
     ELSE Exit(p, f.res)

DirCopy(p) ==
  LET f == Top(p)  s == Walk(f.src) IN
  /\ At(p, "dircopy") /\ Still
  /\ IF s = NoIno \/ f.res # 0 THEN Ret(p, 1)
     ELSE IF IsDir(s) /\ ~Exists(f.dst) THEN Call(p, f, Frame("md", f.dst, <<>>))
     ELSE Set(p, [f EXCEPT !.pc = "d_copy",
            !.dst = IF ~IsDir(s) \/ Has(p, "t") THEN Into(f.dst, f.src) ELSE @])

\* one file or directory; what stat said of the target is kept in ino
DCopy(p) ==
  LET f == Top(p)  s == Walk(f.src)  d == Walk(f.dst)  opening == [f EXCEPT !.pc = "dc_open"] IN
  /\ At(p, "d_copy") /\ Still
  /\ IF s = NoIno THEN Ret(p, 1)
     ELSE \/ (Has(p, "a") \/ (Has(p, "ad") /\ IsDir(s))) /\ Ret(p, 0)       \* the answer is no
          \/ Has(p, "u") /\ kind[s] = "file" /\ d # NoIno /\ Ret(p, 0)      \* not older
          \/ IF IsDir(s) /\ d = NoIno THEN Call(p, opening, Frame("md", f.dst, <<>>))
             ELSE IF IsDir(s) THEN Set(p, opening)
             ELSE IF kind[s] = "dev" THEN Goto(p, "spcopy")
             ELSE Set(p, [f EXCEPT !.pc = "rgcopy", !.ino = d])
DCopyOpen(p) ==
  LET f == Top(p)  s == Walk(f.src) IN
  /\ At(p, "dc_open") /\ Still
  /\ IF f.res # 0 \/ ~IsDir(s) THEN Ret(p, 1)
     ELSE Set(p, [f EXCEPT !.pc = "dc_read", !.ino = s, !.was = Names(s)])

\* Mutant: the destination is copied as well.
DCopyReadAll(p) ==
  LET f == Top(p) IN
  /\ At(p, "dc_read") /\ Still
  /\ \/ \E n \in Names(f.ino) :
          LET i == Walk(Append(f.src, n)) IN
          /\ ReadsEntry(f, n)
          /\ IF i = NoIno \/ (IsDir(i) /\ ~Has(p, "r"))
             THEN Set(p, [f EXCEPT !.seen = @ \cup {n}])
             ELSE Call(p, [f EXCEPT !.seen = @ \cup {n}],
                       [Frame("d_copy", Append(f.src, n), Append(f.dst, n)) EXCEPT !.out = f.out])
     \/ ReadsEnd(f) /\ Ret(p, f.res)

\* the directory is read; what the recursive call returns is not looked at
DCopyRead(p) ==
  LET f == Top(p) IN
  /\ At(p, "dc_read") /\ Still
  /\ \/ \E n \in Names(f.ino) :
          LET i == Walk(Append(f.src, n)) IN
          /\ ReadsEntry(f, n)
          /\ IF ent[f.ino][n] = f.out \/ i = NoIno \/ (IsDir(i) /\ ~Has(p, "r"))
             THEN Set(p, [f EXCEPT !.seen = @ \cup {n}])
             ELSE Call(p, [f EXCEPT !.seen = @ \cup {n}],
                       [Frame("d_copy", Append(f.src, n), Append(f.dst, n)) EXCEPT !.out = f.out])
     \/ ReadsEnd(f) /\ Ret(p, f.res)

\* a regular file: linked with -l, else copied; nothing over a file with -n
RgCopy(p) ==
  LET f == Top(p)  s == Walk(f.src) IN
  /\ At(p, "rgcopy") /\ Still
  /\ IF f.ino # NoIno /\ Has(p, "n") THEN Ret(p, 1)
     ELSE IF f.ino = s /\ s # NoIno THEN Ret(p, 0)
     ELSE Goto(p, IF ~Has(p, "l") THEN "rg_open" ELSE IF f.ino = NoIno THEN "rg_link" ELSE "rg_unlink")
RgUnlink(p) ==
  LET f == Top(p) IN
  /\ At(p, "rg_unlink")
  /\ \/ unlink(f.dst) /\ Goto(p, "rg_link")
     \/ Fails(CanUnlink(f.dst)) /\ Ret(p, 1)
RgLink(p) ==
  LET f == Top(p) IN
  /\ At(p, "rg_link")
  /\ \/ link(f.src, f.dst) /\ Ret(p, 0)
     \/ Fails(CanLink(f.src, f.dst)) /\ Goto(p, "rg_open")
RgOpen(p) ==
  LET f == Top(p) IN
  /\ At(p, "rg_open") /\ Still
  /\ IF Exists(f.src) THEN Set(p, [f EXCEPT !.pc = "cp_creat", !.ino = Walk(f.src)])
     ELSE Ret(p, 1)

\* a special file: created with the parameters of the device, then its mode
SpCreat(p) ==
  LET f == Top(p) IN
  /\ At(p, "spcopy")
  /\ \/ (IF Exists(f.dst) THEN creat(f.dst) ELSE mknod(f.dst, "dev")) /\ Goto(p, "sp_chmod")
     \/ Fails(CanCreat(f.dst)) /\ Set(p, [f EXCEPT !.pc = "sp_chmod", !.res = 1])
SpChmod(p) ==
  LET f == Top(p) IN
  /\ At(p, "sp_chmod")
  /\ \/ Exists(f.dst) /\ Still /\ Ret(p, f.res)
     \/ Fails(Exists(f.dst)) /\ Goto(p, "sp_unlink")
SpUnlink(p) ==
  LET f == Top(p) IN
  /\ At(p, "sp_unlink") /\ Ret(p, 1)
  /\ unlink(f.dst) \/ Fails(CanUnlink(f.dst))
-----------------------------------------------------------------------------
(* unlink: each file of the current directory, one question each *)
UnlinkNext(p) ==
  LET f == Top(p) IN
  /\ At(p, "unlink")
  /\ \/ \E n \in Names(f.ino) :
          LET seen == [f EXCEPT !.seen = @ \cup {n}] IN
          /\ ReadsEntry(f, n) /\ Set(p, seen)
          /\ unlink(<<n>>) \/ Still \/ Fails(CanUnlink(<<n>>))       \* answers: y, no
     \/ ReadsEnd(f) /\ Still /\ Exit(p, 0)
-----------------------------------------------------------------------------
CopyLinkStep(p) ==
  \/ CpMain(p) \/ CpTest(p) \/ CpCreat(p) \/ CpBlock(p) \/ LnTest(p) \/ LnLink(p)
  \/ CopyMain(p) \/ CopyLoop(p) \/ DirCopy(p) \/ DCopy(p) \/ DCopyOpen(p) \/ DCopyRead(p)
  \/ RgCopy(p) \/ RgUnlink(p) \/ RgLink(p) \/ RgOpen(p)
  \/ SpCreat(p) \/ SpChmod(p) \/ SpUnlink(p) \/ UnlinkNext(p)
=============================================================================

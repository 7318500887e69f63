--------------------------------- MODULE Tar ---------------------------------
(* tar: the creation of an archive over volumes, what is appended to it with *)
(* r and u, its list and its extraction, through the buffered unit of Tape,  *)
(* while the files it reads change or go away. A file is its bytes; a block  *)
(* of the archive is a header, BlkSiz bytes or zeros.                        *)
EXTENDS Tape, FiniteSetsExt, TLC

CONSTANTS BlkSiz, ExtMin, MaxExt, Share, \* 512 bytes, 50, 100 and the tenth of tar.h and tar.c
          Files,      \* path -> inode
          Dirs,       \* path of a directory -> sequence of the paths in it
          Bytes,      \* <<inode, version>> -> bytes
          Jobs,       \* sequences of calls [op, args, from, s, tblksz, tblkmax (0: one volume), capacity, mine]
          Budget      \* changes of files and interrupts while tar runs
VARIABLES tree,       \* the files: path -> inode
          version,    \* inode -> [of, mtime]
          jobs,       \* the calls of tar that are left
          t,          \* the running tar
          unit,       \* its lu
          vols,       \* the media, as they were left
          out,        \* the tree that x writes: [names : path -> inode, data : inode -> bytes]
          budget,
          kept,       \* what was dumped last: path -> [ino, size, of: 0 when it changed, cut: by an interrupt, with: the path it is a link of]
          lost        \* tar said that it gave something up
\* a call of tar
TarCall == [op : {"c", "r", "u", "x", "t"}, args : Seq(Seq(STRING)), from : Nat, s : BOOLEAN, tblksz : Nat \ {0},
            tblkmax : Nat, capacity : Nat, mine : SUBSET DOMAIN Files]
ASSUME TarAssumption ==
  /\ BlkSiz \in Nat \ {0} /\ Jobs \subseteq Seq(TarCall)
  /\ \A p \in DOMAIN Files : <<Files[p], 1>> \in DOMAIN Bytes
  /\ \A x \in DOMAIN Bytes : Bytes[x] \in Seq(Int)
  /\ ExtMin \in Nat /\ ExtMin >= 2 /\ <<>> \notin DOMAIN Files
vars == <<tree, version, jobs, t, unit, vols, out, budget, kept, lost>>

Blocks(bytes) == (bytes + BlkSiz - 1) \div BlkSiz
Zero == [kind |-> "zero"]
Slice(s, from, n) == SubSeq(s, from + 1, Least(from + n, Len(s)))
Padded(s, n) == [k \in 1..n |-> IF k <= Len(s) THEN s[k] ELSE 0]
\* bytes cut into blocks, the last one filled
Cut(s) == [b \in 1..Blocks(Len(s)) |->
  [kind |-> "data", bytes |-> Padded(Slice(s, (b - 1) * BlkSiz, BlkSiz), BlkSiz)]]
InBlock(b) == IF b.kind = "data" THEN b.bytes ELSE Padded(<<>>, BlkSiz)
Content(ino) == Bytes[<<ino, version[ino].of>>]
Links(ino) == Cardinality({p \in DOMAIN tree : tree[p] = ino})
Over(status) == [t EXCEPT !.pc = "over", !.status = status]
Writes == t.pc # "idle" /\ t.job.op \in {"c", "r", "u"}

\* the program goes on once its call of io has returned
Ready == unit.call.done
Back == unit.call
Call(op, fc, data, n) == unit' = Called(unit, op, fc, t.job.s, data, n)
Write(blocks) == Call("transfer", "write", blocks, Len(blocks))
Read(n) == Call("transfer", "read", <<>>, n)
Left(fc) == Call("left", fc, <<>>, 0)
Got == IF Back.i <= 0 THEN [kind |-> "eof"] ELSE Back.data[1]
Tape == ~Ready /\ unit' = Io(unit) /\ UNCHANGED <<tree, version, jobs, t, vols, out, budget, kept, lost>>
\* iowrtape: a write of less than all ends the program
Failing == Back.op = "transfer" /\ Back.fc = "write" /\ Back.i # Back.n
At(pc) == Ready /\ ~Failing /\ t.pc = pc
WriteFails ==
  /\ Ready /\ Failing /\ t.pc \notin {"idle", "over", "closed"}
  /\ t' = Over(2) /\ UNCHANGED <<tree, version, jobs, unit, vols, out, budget, kept, lost>>
-----------------------------------------------------------------------------
(* tapecreate *)
Begin ==
  /\ t.pc = "idle" /\ Len(jobs) > 0
  /\ LET j == Head(jobs) IN
     /\ t' = [pc |-> CASE j.op = "c" -> "next" [] j.op \in {"r", "u"} -> "seek" [] OTHER -> "read",
              job |-> j, args |-> j.args, walk |-> <<>>, tfile |-> {}, ihead |-> <<>>, began |-> version,
              tblkmax |-> j.tblkmax - 2 - j.tblksz, tblkpos |-> 0, at |-> j.from, term |-> FALSE, status |-> 0, last |-> FALSE,
              path |-> <<>>, st |-> [ino |-> 0, size |-> 0], dir |-> Zero, off |-> 0, noblks |-> 0, ext |-> 0, bytes |-> 0, lu |-> 0]
     /\ unit' = Ioopcre(NoUnit(j.tblksz, j.capacity), IF j.from \in DOMAIN vols THEN vols[j.from] ELSE <<>>)
     /\ kept' = IF j.op = "c" THEN <<>> ELSE kept
  /\ jobs' = Tail(jobs) /\ UNCHANGED <<tree, version, vols, out, budget, lost>>

\* readdir: a block whose sum is right is a header, and its size a number
Header(b) == b.kind = "head" /\ b.size \in Nat
\* forwfile; with k, which is also n, it gives up
Ahead(h) == IF h.link # <<>> THEN 0 ELSE Blocks(h.size)
Forwfile(h, s) == IF Ahead(h) > 0 /\ t.job.tblkmax > 0 THEN t' = Over(3) /\ UNCHANGED unit
                  ELSE t' = s /\ Read(Ahead(h))
\* to the end of the archive, then back over its end
SeekEnd ==
  /\ UNCHANGED <<tree, version, jobs, vols, out, budget, kept, lost>>
  /\ \/ At("seek") /\ Read(1) /\ t' = [t EXCEPT !.pc = "seen"]
     \/ At("seen") /\ LET h == Got IN
          \/ Header(h) /\ t.term /\ t' = Over(0) /\ UNCHANGED unit
          \/ Header(h) /\ ~t.term /\ Forwfile(h, [t EXCEPT !.pc = "seek", !.tfile = @ \cup {[name |-> h.name, mtime |-> h.mtime]}])
          \/ h.kind = "zero" /\ unit' = Seek(unit, -1) /\ t' = [t EXCEPT !.pc = "next"]
          \/ ~Header(h) /\ h.kind # "zero" /\ UNCHANGED unit /\ t' = Over(IF h.kind = "eof" THEN 3 ELSE 2)

\* closevol: an empty block, then the last block of the tape is filled
Empty(n) == [k \in 1..n |-> Zero]
\* the loop over the arguments, and that of putfile over the entries of a
\* directory, which it reads one at a time; at the end closevol
NextFile ==
  /\ At("next") /\ UNCHANGED <<tree, version, jobs, vols, out, budget, kept, lost>>
  /\ LET top == Last(t.walk)  entries == Dirs[top.dir]  put == [t EXCEPT !.pc = "put"] IN
     IF t.walk # <<>> /\ (t.term \/ top.i > Len(entries)) THEN t' = [t EXCEPT !.walk = Front(@)] /\ UNCHANGED unit
     ELSE IF t.walk # <<>> THEN
       t' = [put EXCEPT !.walk = Append(Front(@), [top EXCEPT !.i = @ + 1]), !.path = entries[top.i]] /\ UNCHANGED unit
     ELSE IF t.args # <<>> /\ ~t.term THEN t' = [put EXCEPT !.args = Tail(@), !.path = Head(t.args)] /\ UNCHANGED unit
     ELSE t' = [t EXCEPT !.pc = "fill", !.last = TRUE] /\ Write(Empty(1))
CloseVolume ==
  /\ UNCHANGED <<tree, version, jobs, vols, out, budget, kept, lost>>
  /\ \/ At("volume") /\ Write(Empty(1)) /\ t' = [t EXCEPT !.pc = "fill"]
     \/ At("fill") /\ Left("write") /\ t' = [t EXCEPT !.pc = "filled"]
     \/ At("filled") /\ Write(Empty(Back.i)) /\ t' = IF t.last THEN Over(0) ELSE [t EXCEPT !.pc = "shut"]
     \/ At("shut") /\ Call("close", "write", <<>>, 0) /\ t' = [t EXCEPT !.pc = "mount"]
-----------------------------------------------------------------------------
(* putfile *)
\* what the sorted temporary file says of a name, which its search is taken to find
\* Mutant: a file that the archive does not hold is taken as up to date.
CheckupdateOld(path, mtime) == LET was == {e.mtime : e \in {x \in t.tfile : x.name = path}} IN was # {} /\ mtime > Max(was)
Checkupdate(path, mtime) == LET was == {e.mtime : e \in {x \in t.tfile : x.name = path}} IN was = {} \/ mtime > Max(was)
Known(ino) == {k \in DOMAIN t.ihead : t.ihead[k].ino = ino}
Head1(path, st) == [kind |-> "head", name |-> path, size |-> st.size, mtime |-> st.mtime, link |-> <<>>, extno |-> 0, extotal |-> 0, efsize |-> 0]
Extents(noblks) == (noblks + t.tblkpos - 1) \div (t.tblkmax - 1) + 1

\* what to write of the file, and whether on a new volume; a link is not put in
\* the last block of a volume (tblkpos + 1 >= tblkmax)
Put ==
  /\ At("put") /\ UNCHANGED <<tree, version, jobs, unit, vols, out, budget, kept>>
  /\ LET path == t.path  back == [t EXCEPT !.pc = "next"] IN
     IF path \in DOMAIN Dirs THEN t' = [back EXCEPT !.walk = Append(@, [dir |-> path, i |-> 1])] /\ UNCHANGED lost
     ELSE IF path \notin DOMAIN tree THEN t' = back /\ UNCHANGED lost
     ELSE LET ino == tree[path]  linked == Links(ino) > 1
              st == [ino |-> ino, size |-> Len(Content(ino)), mtime |-> version[ino].mtime, of |-> version[ino].of]
              n == Blocks(st.size)  h == Head1(path, st)
              full(k) == t.job.tblkmax > 0 /\ t.tblkpos + k + 1 > t.tblkmax
              go == [t EXCEPT !.st = st, !.dir = h, !.off = 0, !.noblks = n, !.ext = 0,
                              !.ihead = IF linked THEN <<[ino |-> ino, path |-> path]>> \o @ ELSE @] IN
          CASE t.job.op = "u" /\ ~Checkupdate(path, st.mtime) -> t' = back /\ UNCHANGED lost
            [] (t.job.op = "u" => Checkupdate(path, st.mtime)) /\ linked /\ Known(ino) # {} -> UNCHANGED lost /\
                 t' = [t EXCEPT !.st = st, !.dir = [h EXCEPT !.link = t.ihead[Min(Known(ino))].path], !.pc = IF full(1) THEN "volume" ELSE "head"]
            [] OTHER ->
                 IF ~full(n) THEN t' = [go EXCEPT !.pc = "head"] /\ UNCHANGED lost
                 ELSE IF t.tblkmax - t.tblkpos < ExtMin \/ n + 1 < t.tblkmax \div Share THEN t' = [go EXCEPT !.pc = "volume"] /\ UNCHANGED lost
                 ELSE IF Extents(n) \notin 2..MaxExt THEN t' = [back EXCEPT !.ihead = go.ihead] /\ lost' = TRUE
                 ELSE LET s == t.tblkmax - t.tblkpos - 1 IN UNCHANGED lost /\
                      t' = [go EXCEPT !.pc = "head", !.ext = 1, !.noblks = s, !.bytes = st.size - s * BlkSiz,
                                      !.dir = [h EXCEPT !.size = s * BlkSiz, !.extno = 1, !.extotal = Extents(n), !.efsize = st.size]]

\* the media, with the one of the unit as it is left
Shelved == [v \in DOMAIN vols \cup {t.at} |-> IF v = t.at THEN unit.medium ELSE vols[v]]
\* newvol of a tape that is written: with an interrupt pending it ends the program
NewVolume ==
  /\ At("mount") /\ Writes /\ UNCHANGED <<tree, version, jobs, out, budget, kept>>
  /\ vols' = Shelved /\ lost' = (lost \/ (t.term /\ t.ext > 1))
  /\ IF Back.i < 0 \/ t.term THEN UNCHANGED unit /\ t' = Over(IF Back.i < 0 THEN 3 ELSE 0)
     ELSE unit' = Ioopcre(unit, <<>>) /\ t' = [t EXCEPT !.pc = "head", !.at = @ + 1, !.tblkpos = 0]

PutHead ==
  /\ At("head") /\ Write(<<t.dir>>) /\ UNCHANGED <<tree, version, jobs, vols, out, budget, lost>>
  /\ t' = [t EXCEPT !.pc = IF t.dir.link # <<>> THEN "next" ELSE "data", !.tblkpos = @ + 1]
  /\ kept' = IF t.dir.link # <<>> /\ t.dir.link \in DOMAIN kept THEN (t.path :> kept[t.dir.link]) @@ kept ELSE kept
\* putext: as much as the buffer takes, until the size or the file is at its end
PutData ==
  /\ UNCHANGED <<tree, version, jobs, vols, out, budget, kept, lost>>
  /\ \/ At("data") /\ t.noblks > 0 /\ Left("write") /\ t' = [t EXCEPT !.pc = "chunk"]
     \/ At("data") /\ t.noblks = 0 /\ UNCHANGED unit /\ t' = [t EXCEPT !.pc = "end"]
     \/ At("chunk") /\
        LET s == Slice(Content(t.st.ino), t.off, Least(t.noblks, Back.i) * BlkSiz)  blocks == Cut(s)  n == Len(blocks) IN
        IF Back.i <= 0 THEN t' = Over(1) /\ UNCHANGED unit
        ELSE IF s = <<>> \/ t.term THEN t' = [t EXCEPT !.pc = "end"] /\ UNCHANGED unit
        ELSE Write(blocks) /\ t' = [t EXCEPT !.pc = "data", !.off = @ + Len(s), !.noblks = @ - n, !.tblkpos = @ + n]
\* the end of an extent: a file that is shorter now is filled with empty blocks,
\* one that is split is given up; the next extent goes to the next volume
\* Mutant: what a file that has shrunk does not give is not filled.
ShortfallNone == <<>>
Shortfall == Empty(t.noblks)
PutEnd ==
  /\ At("end") /\ UNCHANGED <<tree, version, jobs, vols, out, budget>>
  /\ LET whole == t.noblks = 0 /\ version[t.st.ino].of = t.st.of
         new == [ino |-> t.st.ino, size |-> t.st.size, of |-> IF whole THEN t.st.of ELSE 0, cut |-> t.term, with |-> t.path]
         links == IF t.path \in DOMAIN kept THEN {p \in DOMAIN kept : kept[p].with = kept[t.path].with} ELSE {t.path}
         dumped == [p \in links |-> new] @@ kept
         i == t.ext + 1  s == IF i = t.dir.extotal THEN t.bytes ELSE (t.tblkmax - 1) * BlkSiz IN
     CASE t.ext = 0 -> kept' = dumped /\ UNCHANGED lost /\ Write(Shortfall) /\ t' = [t EXCEPT !.pc = "next", !.tblkpos = @ + t.noblks]
       [] t.ext > 0 /\ t.noblks # 0 -> lost' = TRUE /\ t' = [t EXCEPT !.pc = "next"] /\ UNCHANGED <<unit, kept>>
       [] t.ext > 0 /\ t.noblks = 0 /\ t.ext = t.dir.extotal -> kept' = dumped /\ t' = [t EXCEPT !.pc = "next"] /\ UNCHANGED <<unit, lost>>
       [] OTHER -> UNCHANGED <<unit, kept, lost>> /\
            t' = [t EXCEPT !.pc = "volume", !.ext = i, !.bytes = @ - s, !.noblks = Blocks(s), !.dir.size = s, !.dir.extno = i]
-----------------------------------------------------------------------------
(* tapeextr and tapelist *)
Prefix(arg, name) == IsPrefix(arg, name)
Chosen(name) == /\ t.job.args = <<>> \/ \E k \in DOMAIN t.job.args : Prefix(t.job.args[k], name)
                /\ name \in t.job.mine
\* creat empties a file that is there, whatever its other names
Creat(o, name) == IF name \in DOMAIN o.names THEN [o EXCEPT !.data[o.names[name]] = <<>>]
  ELSE LET new == Cardinality(DOMAIN o.data) + 1 IN [names |-> (name :> new) @@ o.names, data |-> (new :> <<>>) @@ o.data]
Link(o, from, name) == LET rest == [p \in DOMAIN o.names \ {name} |-> o.names[p]] IN
  [o EXCEPT !.names = IF from \in DOMAIN rest THEN (name :> rest[from]) @@ rest ELSE rest]
ReadNext ==
  /\ UNCHANGED <<tree, version, jobs, vols, budget, kept, lost>>
  /\ \/ At("read") /\ Read(1) /\ t' = [t EXCEPT !.pc = "look"] /\ UNCHANGED out
     \/ At("look") /\ LET h == Got  taken == Header(h) /\ t.job.op = "x" /\ Chosen(h.name) IN
          IF ~Header(h) THEN UNCHANGED <<unit, out>> /\ t' = Over(CASE h.kind = "zero" -> 0 [] h.kind = "eof" -> 3 [] OTHER -> 2)
          ELSE IF taken /\ h.link # <<>> THEN UNCHANGED unit /\ out' = Link(out, h.link, h.name) /\ t' = [t EXCEPT !.pc = "read"]
          ELSE IF taken THEN LET o == Creat(out, h.name) IN UNCHANGED unit /\ out' = o /\
            t' = [t EXCEPT !.pc = IF h.extno > 1 THEN "ask" ELSE "extract", !.dir = h, !.ext = h.extno, !.bytes = h.size, !.lu = o.names[h.name]]
          ELSE Forwfile(h, [t EXCEPT !.pc = "read"]) /\ UNCHANGED out
\* exfilext: what the buffer holds of the extent goes to the file, until its size;
\* at the end of an archive that is cut off the loop does not end
Extract ==
  /\ UNCHANGED <<tree, version, jobs, vols, budget, kept, lost>>
  /\ \/ At("extract") /\ t.bytes > 0 /\ Left("read") /\ t' = [t EXCEPT !.pc = "take"] /\ UNCHANGED out
     \/ At("extract") /\ t.bytes = 0 /\ UNCHANGED <<unit, out>> /\
        t' = IF t.ext > 0 /\ t.ext < t.dir.extotal THEN [t EXCEPT !.pc = "mount", !.ext = @ + 1] ELSE [t EXCEPT !.pc = "read", !.ext = 0]
     \/ At("take") /\
        LET n == Least(Back.i, Blocks(t.bytes))
            s == FoldLeft(LAMBDA a, b : a \o InBlock(b), <<>>, SubSeq(unit.bufs[unit.cur], unit.inx + 1, unit.inx + n))
            i == Least(Len(s), t.bytes) IN
        IF Back.i <= 0 THEN t' = Over(-1) /\ UNCHANGED <<unit, out>>
        ELSE Read(n) /\ out' = [out EXCEPT !.data[t.lu] = @ \o SubSeq(s, 1, i)] /\ t' = [t EXCEPT !.pc = "extract", !.bytes = @ - i]
\* an extent that is not the next one: the user takes it, here at most once, or
\* gives up the file
AskFirst ==
  /\ At("ask") /\ lost' = TRUE /\ UNCHANGED <<tree, version, jobs, vols, out, budget, kept>>
  /\ \/ Forwfile(t.dir, [t EXCEPT !.pc = "read"])
     \/ ~lost /\ t' = [t EXCEPT !.pc = "extract"] /\ UNCHANGED unit
\* notsame
Same(a, b) == [a EXCEPT !.size = 0, !.extno = 0] = [b EXCEPT !.size = 0, !.extno = 0]
\* the user mounts any volume; one that starts with something else than the next
\* extent of the same file is refused, unless the user ignores the order; one
\* that is empty or damaged ends the program
Mount ==
  /\ ~Writes /\ UNCHANGED <<tree, version, jobs, vols, out, budget, kept, lost>>
  /\ \/ At("mount") /\ \E v \in DOMAIN vols : t' = [t EXCEPT !.pc = "mounted", !.at = v] /\
          unit' = Called(Ioopcre(unit, vols[v]), "transfer", "read", t.job.s, <<>>, 1)
     \/ At("mounted") /\ UNCHANGED unit /\
        LET h == Got  on == [t EXCEPT !.dir = h, !.ext = h.extno, !.bytes = h.size]  again == [t EXCEPT !.pc = "mount"] IN
        IF h.kind = "zero" THEN t' = again
        ELSE IF ~Header(h) THEN t' = Over(IF h.kind = "eof" THEN 3 ELSE 2)
        ELSE IF ~Same(h, t.dir) THEN t' = again
        ELSE IF h.extno = t.ext THEN t' = [on EXCEPT !.pc = "extract"]
        ELSE t' \in {again, [on EXCEPT !.pc = "ask"]}
-----------------------------------------------------------------------------
(* the end of a call, and the others *)
\* endprog; the user gives the next volume to the next call of x or t
EndProg ==
  /\ Ready /\ UNCHANGED <<tree, version, out, budget, kept>>
  /\ \/ t.pc = "over" /\ Call("close", "write", <<>>, 0) /\ t' = [t EXCEPT !.pc = "closed"] /\ UNCHANGED <<jobs, vols, lost>>
     \/ t.pc = "closed" /\ t' = [pc |-> "idle"] /\ UNCHANGED unit /\
        IF Writes THEN /\ vols' = Shelved
                       /\ lost' = (lost \/ t.status # 0 \/ Back.i < 0) /\ UNCHANGED jobs
        ELSE /\ jobs' = IF t.at + 1 \in DOMAIN vols /\ t.status = 0 THEN <<[t.job EXCEPT !.from = t.at + 1]>> \o jobs ELSE jobs
             /\ UNCHANGED <<vols, lost>>
DeviceRuns ==
  /\ t.pc # "idle" /\ unit.pend.fc # "none" /\ unit' = Performed(unit)
  /\ UNCHANGED <<tree, version, jobs, t, vols, out, budget, kept, lost>>
Others == UNCHANGED <<jobs, unit, vols, out, kept, lost>> /\ budget > 0 /\ budget' = budget - 1
Change == \E i \in DOMAIN version :
  /\ t.pc = "idle" \/ Writes
  /\ <<i, version[i].of + 1>> \in DOMAIN Bytes
  /\ version' = [version EXCEPT ![i] = [of |-> @.of + 1, mtime |-> @.mtime + 1]] /\ Others /\ UNCHANGED <<tree, t>>
Unlink == \E p \in DOMAIN tree :
  /\ Writes /\ tree' = [q \in DOMAIN tree \ {p} |-> tree[q]] /\ Others /\ UNCHANGED <<version, t>>
Interrupt == Writes /\ t.pc \notin {"over", "closed"} /\ ~t.term /\ t' = [t EXCEPT !.term = TRUE] /\ Others /\ UNCHANGED <<tree, version>>
Finished == t.pc = "idle" /\ jobs = <<>> /\ UNCHANGED vars

Init ==
  /\ tree = Files /\ version = [i \in {Files[p] : p \in DOMAIN Files} |-> [of |-> 1, mtime |-> 1]]
  /\ jobs \in Jobs /\ t = [pc |-> "idle"] /\ unit = Ioopcre(NoUnit(1, 0), <<>>) /\ vols = <<>>
  /\ out = [names |-> <<>>, data |-> <<>>] /\ budget = Budget
  /\ kept = <<>> /\ lost = FALSE
Next == \/ Begin \/ SeekEnd \/ NextFile \/ Put \/ CloseVolume \/ NewVolume \/ PutHead \/ PutData \/ PutEnd
        \/ ReadNext \/ Extract \/ AskFirst \/ Mount \/ Tape \/ WriteFails \/ EndProg
        \/ DeviceRuns \/ Change \/ Unlink \/ Interrupt \/ Finished
Spec == Init /\ [][Next]_vars
-----------------------------------------------------------------------------
\* how many blocks of a medium come before the block where the archive ends, when
\* every header is followed by the blocks it announces
From(medium) ==
  LET from[k \in Nat] ==
        IF k < Len(medium) /\ Header(medium[k + 1]) THEN from[k + 1 + Ahead(medium[k + 1])] ELSE k
  IN from
End(medium) == From(medium)[0]
Whole(medium) == End(medium) < Len(medium) /\ medium[End(medium) + 1].kind = "zero"

\* Each medium that tar left without a word is an archive to its end, of whole
\* blocks of the tape, whatever changed while it was written: no header without
\* its data and nothing after the files (putfile, splitfile, closevol).
VolumesWhole == t.pc = "idle" /\ ~lost => \A v \in DOMAIN vols : Whole(vols[v])

\* What was archived comes back: every file with the bytes it had, or only its
\* size when it changed meanwhile, in the order of its volumes whatever the user
\* mounts, and the links as they were (tapeextr, exfilsplit).
Restored(p) ==
  /\ p \in DOMAIN out.names
  /\ LET got == out.data[out.names[p]] IN Len(got) = kept[p].size /\ (kept[p].of # 0 => got = Bytes[<<kept[p].ino, kept[p].of>>])
Extracted == t.pc = "over" /\ t.status = 0 /\ t.job.op = "x" /\ t.job.args = <<>> /\ t.job.mine = DOMAIN Files /\ t.at + 1 \notin DOMAIN vols
RoundTrip == Extracted /\ ~lost =>
  /\ \A p \in DOMAIN kept : Restored(p)
  /\ \A p, q \in DOMAIN kept : (out.names[p] = out.names[q]) <=> (kept[p].with = kept[q].with)

\* After c or u without an interrupt the archive holds the present state of every
\* file of its arguments that did not change since the call began. Two cases are
\* excepted, where u can miss a change: a dump that an interrupt once cut short, whose
\* header has the time of the file, and a link whose file changed between its
\* dump and that of the link, which has the later time (checkupdate).
UpToDate == t.pc = "over" /\ Writes /\ t.status = 0 /\ ~t.term /\ ~lost /\ t.job.op \in {"c", "u"} =>
  \A p \in DOMAIN tree :
    (\E k \in DOMAIN t.job.args : Prefix(t.job.args[k], p)) /\ version[tree[p]] = t.began[tree[p]] =>
      p \in DOMAIN kept /\ (kept[p].cut \/ kept[p].with # p \/ kept[p].of = version[tree[p]].of)

\* What an archive held stays in place while r and u append to it, on the medium
\* they begin with, also when the tape is full or the call is interrupted
\* (tapecreate).
Appends == Writes /\ t.job.op \in {"r", "u"} /\ t.at = t.job.from /\ t.at \in DOMAIN vols
ArchiveKept == Appends /\ Whole(vols[t.at]) =>
  LET e == End(vols[t.at]) IN SubSeq(unit.medium, 1, e) = SubSeq(vols[t.at], 1, e)
=============================================================================

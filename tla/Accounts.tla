------------------------------ MODULE Accounts ------------------------------
(***************************************************************************)
(* The account files: passwd (bin_cmdsrc/passwd.c with rmvpwent and        *)
(* apppwent of cmdlib), mkuser (etc_cmdsrc/mkuser) and rmuser              *)
(* (etc_cmdsrc/rmuser), step by step on the names of /etc and /tmp.        *)
(*                                                                         *)
(* A name leads to an inode, and an inode holds the lines of a file, here  *)
(* the set of them.  The group file has one group, and a line for each of  *)
(* its members.  Commands are run one at a time or at once (Serial), die   *)
(* at any step, and meet system calls that fail.                           *)
(***************************************************************************)
EXTENDS Naturals, FiniteSets

CONSTANTS Procs,        \* commands
          Cmd,          \* Cmd[p] \in {"passwd", "mkuser", "rmuser"}
          User,         \* User[p]: the user the command is about
          OldUsers,     \* users there are at the start
          NewPw,        \* NewPw[p]: the password passwd p sets
          Inodes, Uids,
          Serial,       \* the administrator runs one command at a time
          Prefix,       \* <<u, v>>: the name of u begins that of v
          FaultKinds,   \* system calls that may fail
          Killable,     \* commands that may die
          MaxFaults, MaxCrashes,  \* how often (bounds)
          NoFile, NoLine

Users == OldUsers \cup {User[p] : p \in Procs}
Pws == {0} \cup {NewPw[p] : p \in Procs}
Line == [user : Users, uid : Uids, pw : Pws]

\* passwd.tmp and group.tmp are shared by mkuser and rmuser; the temporary
\* file of passwd has a name of its own, made by mktemp.
Names == {"passwd", "passwd.bak", "passwd.tmp", "group", "group.tmp"}
Paths == Names \cup Procs

\* The users of the start have user ids of their own.  There is always a free
\* inode, however many are linked or open; where creat finds none it fails,
\* which is a fault.
ASSUME AccountsAssumption ==
    /\ Cmd \in [Procs -> {"passwd", "mkuser", "rmuser"}]
    /\ User \in [Procs -> Users]
    /\ Serial \in BOOLEAN /\ Killable \subseteq Procs
    /\ Prefix \subseteq Users \X Users
    /\ Uids \subseteq Nat \ {0}
    /\ \E f \in [OldUsers -> Uids] : \A u, v \in OldUsers : f[u] = f[v] => u = v
    /\ Procs \cap Names = {} /\ IsFiniteSet(Procs) /\ IsFiniteSet(Inodes)
    /\ Cardinality(Inodes) > Cardinality(Paths) + 2 * Cardinality(Procs)
    /\ NoFile \notin Inodes /\ NoLine \notin Line
    /\ MaxFaults \in Nat /\ MaxCrashes \in Nat

VARIABLES pc,
          onedev,   \* /tmp and /etc are on one file system
          dir,      \* dir[x]: the inode of path x, or NoFile
          data,     \* data[i]: the lines of inode i
          lock,     \* whether PASSWD_LOCK exists
          line,     \* line[p]: pwdent of passwd, the new line of mkuser
          from, to, \* from[p], to[p]: the inodes p has open
          home,     \* users that have a home directory
          faults, crashes,
          seen      \* history: seen[p], the passwd lines when p began

files == <<dir, data, from, to>>
counts == <<onedev, crashes>>
vars == <<pc, onedev, dir, data, lock, line, from, to, home, faults, crashes, seen>>

Lines(x) == IF dir[x] = NoFile THEN {} ELSE data[dir[x]]
UsersIn(x) == {l.user : l \in Lines(x)}
UidsIn(x) == {l.uid : l \in Lines(x)}
Free(i) == /\ \A x \in Paths : dir[x] # i
           /\ \A p \in Procs : i \notin {from[p], to[p]}

InitUid == CHOOSE f \in [OldUsers -> Uids] :
               \A u, v \in OldUsers : f[u] = f[v] => u = v
InitLines == {[user |-> u, uid |-> InitUid[u], pw |-> 0] : u \in OldUsers}

Init ==
    /\ pc = [p \in Procs |-> "idle"]
    /\ onedev \in BOOLEAN
    /\ LET i == CHOOSE i \in Inodes : TRUE
           j == CHOOSE j \in Inodes : j # i
       IN /\ dir = [x \in Paths |-> CASE x = "passwd" -> i [] x = "group" -> j
                                       [] OTHER -> NoFile]
          /\ data = [k \in Inodes |-> IF k \in {i, j} THEN InitLines ELSE {}]
    /\ lock = FALSE
    /\ line = [p \in Procs |-> NoLine]
    /\ from = [p \in Procs |-> NoFile] /\ to = [p \in Procs |-> NoFile]
    /\ home = OldUsers
    /\ faults = 0 /\ crashes = 0
    /\ seen = [p \in Procs |-> {}]

\* Labels of the statements.
PCs == {"idle", "done", "failed", "dead", "rlock", "tmp", "linkbak", "unlink", "stat",
        "rglink", "creat", "write", "restore", "rmtmp", "unlock", "access", "alock",
        "append", "aunlock", "uid", "mkdir", "ptmp", "pcopy", "punlink", "plink",
        "prmtmp", "gtmp", "gcopy", "gunlink", "glink", "grmtmp", "deldir"}

Goto(p, l) == pc' = [pc EXCEPT ![p] = l]
At(p, l) == pc[p] = l
Running(p) == pc[p] \notin {"idle", "done", "failed", "dead"}

Fail(k) ==
    /\ k \in FaultKinds
    /\ faults < MaxFaults
    /\ faults' = faults + 1

NoFault == UNCHANGED faults

\* creat makes the file, on any free inode, or empties the one there is;
\* then these lines are written to it.
Target(x) == IF dir[x] # NoFile THEN dir[x] ELSE CHOOSE i \in Inodes : Free(i)
Creat(x, ls) ==
    /\ dir' = [dir EXCEPT ![x] = Target(x)]
    /\ data' = [data EXCEPT ![Target(x)] = ls]

CanLink(x, y) == dir[x] # NoFile /\ dir[y] = NoFile
Link(x, y) == dir' = [dir EXCEPT ![y] = dir[x]] /\ UNCHANGED data
Unlink(x) == dir' = [dir EXCEPT ![x] = NoFile] /\ UNCHANGED data

-----------------------------------------------------------------------------
(* passwd *)

Begin(p) ==
    /\ At(p, "idle")
    /\ Serial => \A q \in Procs : ~Running(q)
    /\ seen' = [seen EXCEPT ![p] = Lines("passwd")]
    /\ UNCHANGED <<files, lock, home, faults, counts>>

\* getpwnam and the dialogue; the entry with the new password is made.
PasswdStart(p) ==
    /\ Cmd[p] = "passwd"
    /\ Begin(p)
    /\ \/ /\ \E l \in Lines("passwd") :
                /\ l.user = User[p]
                /\ line' = [line EXCEPT ![p] = [l EXCEPT !.pw = NewPw[p]]]
          /\ Goto(p, "rlock")
       \/ User[p] \notin UsersIn("passwd") /\ Goto(p, "failed") /\ UNCHANGED line

\* mk_lock in rmvpwent and in apppwent: creat(file, 0) by root succeeds
\* whether or not the lock is there.
MakeLock(p) ==
    /\ pc[p] \in {"rlock", "alock"}
    /\ lock' = TRUE
    /\ Goto(p, IF At(p, "rlock") THEN "tmp" ELSE "append")
    /\ UNCHANGED <<files, line, home, faults, counts, seen>>

\* The other lines go to the temporary file.  What fclose says is not
\* looked at: on a full disk the lines are lost.
Filter(p) ==
    /\ At(p, "tmp")
    /\ \/ /\ Creat(p, {l \in Lines("passwd") : l.user # User[p]})
          /\ Goto(p, "linkbak")
          /\ NoFault /\ UNCHANGED lock
       \/ /\ Fail("write")
          /\ Creat(p, {})
          /\ Goto(p, "linkbak")
          /\ UNCHANGED lock
       \/ /\ Fail("creat")
          /\ lock' = FALSE
          /\ Goto(p, "failed")
          /\ UNCHANGED <<dir, data>>
    /\ UNCHANGED <<line, from, to, home, counts, seen>>

\* Mutant of LinkBak: passwd is unlinked whether or not it has been linked.
LinkBakAnyway(p) ==
    /\ At(p, "linkbak")
    /\ IF CanLink("passwd", "passwd.bak")
       THEN Link("passwd", "passwd.bak") /\ Goto(p, "unlink")
       ELSE UNCHANGED <<dir, data>> /\ Goto(p, "unlink")
    /\ UNCHANGED <<lock, line, from, to, home, faults, counts, seen>>

\* link passwd to passwd.bak, and unlink it if that worked: it does not when
\* there is a passwd.bak from an earlier run.
LinkBak(p) ==
    /\ At(p, "linkbak")
    /\ IF CanLink("passwd", "passwd.bak")
       THEN Link("passwd", "passwd.bak") /\ Goto(p, "unlink")
       ELSE UNCHANGED <<dir, data>> /\ Goto(p, "stat")
    /\ UNCHANGED <<lock, line, from, to, home, faults, counts, seen>>

UnlinkPasswd(p) ==
    /\ At(p, "unlink")
    /\ Unlink("passwd")
    /\ Goto(p, "stat")
    /\ UNCHANGED <<lock, line, from, to, home, faults, counts, seen>>

\* rgcopy: a passwd file still there is unlinked, on one device, ...
RgStat(p) ==
    /\ At(p, "stat")
    /\ IF dir["passwd"] # NoFile /\ onedev
       THEN Unlink("passwd") ELSE UNCHANGED <<dir, data>>
    /\ Goto(p, "rglink")
    /\ UNCHANGED <<lock, line, from, to, home, faults, counts, seen>>

\* ... the temporary file is linked to it, ...
RgLink(p) ==
    /\ At(p, "rglink")
    /\ \/ /\ onedev /\ CanLink(p, "passwd")
          /\ Link(p, "passwd")
          /\ Goto(p, "rmtmp")
          /\ NoFault
       \/ /\ onedev => ~CanLink(p, "passwd")
          /\ Goto(p, "creat")
          /\ NoFault /\ UNCHANGED <<dir, data>>
       \/ /\ Fail("link")
          /\ Goto(p, "creat")
          /\ UNCHANGED <<dir, data>>
    /\ UNCHANGED <<lock, line, from, to, home, counts, seen>>

\* ... or copied: creat empties the file, ...
CopyCreat(p) ==
    /\ At(p, "creat")
    /\ \/ /\ Creat("passwd", {})
          /\ to' = [to EXCEPT ![p] = Target("passwd")]
          /\ Goto(p, "write")
          /\ NoFault
       \/ Fail("copy") /\ Goto(p, "restore") /\ UNCHANGED <<dir, data, to>>
    /\ UNCHANGED <<lock, line, from, home, counts, seen>>

\* ... then the lines are written.
CopyWrite(p) ==
    /\ At(p, "write")
    /\ \/ /\ data' = [data EXCEPT ![to[p]] = Lines(p)]
          /\ Goto(p, "rmtmp")
          /\ NoFault
       \/ Fail("write") /\ Goto(p, "restore") /\ UNCHANGED data
    /\ to' = [to EXCEPT ![p] = NoFile]
    /\ UNCHANGED <<dir, lock, line, from, home, counts, seen>>

\* Mutant of Restore: the backup replaces the file that is there.
RestoreForce(p) ==
    /\ At(p, "restore")
    /\ IF dir["passwd.bak"] # NoFile
       THEN Link("passwd.bak", "passwd") ELSE UNCHANGED <<dir, data>>
    /\ Goto(p, "rmtmp")
    /\ UNCHANGED <<lock, line, from, to, home, faults, counts, seen>>

\* The backup is linked to passwd, if there is no passwd.
Restore(p) ==
    /\ At(p, "restore")
    /\ IF CanLink("passwd.bak", "passwd")
       THEN Link("passwd.bak", "passwd") ELSE UNCHANGED <<dir, data>>
    /\ Goto(p, "rmtmp")
    /\ UNCHANGED <<lock, line, from, to, home, faults, counts, seen>>

\* The temporary file is removed; when it cannot be, passwd gives up.
RemoveTmp(p) ==
    /\ At(p, "rmtmp")
    /\ \/ /\ Unlink(p)
          /\ Goto(p, "unlock")
          /\ NoFault /\ UNCHANGED lock
       \/ /\ Fail("unlink")
          /\ lock' = FALSE
          /\ Goto(p, "failed")
          /\ UNCHANGED <<dir, data>>
    /\ UNCHANGED <<line, from, to, home, counts, seen>>

RemoveLock(p) ==
    /\ pc[p] \in {"unlock", "aunlock"}
    /\ lock' = FALSE
    /\ Goto(p, IF At(p, "unlock") THEN "access" ELSE "done")
    /\ UNCHANGED <<files, line, home, faults, counts, seen>>

\* apppwent creates a passwd file that does not exist.  That the creat fails is
\* left out: rmvpwent has left a file, or its backup in its place, by then.
Access(p) ==
    /\ At(p, "access")
    /\ IF dir["passwd"] = NoFile THEN Creat("passwd", {}) ELSE UNCHANGED <<dir, data>>
    /\ Goto(p, "alock")
    /\ UNCHANGED <<lock, line, from, to, home, faults, counts, seen>>

\* Mutant of Append: the file is opened for writing from the start.
AppendOver(p) ==
    /\ At(p, "append")
    /\ \/ /\ Creat("passwd", {line[p]})
          /\ Goto(p, "aunlock")
          /\ NoFault /\ UNCHANGED lock
       \/ /\ Fail("append")
          /\ lock' = FALSE
          /\ Goto(p, "failed")
          /\ UNCHANGED <<dir, data>>
    /\ UNCHANGED <<line, from, to, home, counts, seen>>

Append(p) ==
    /\ At(p, "append")
    /\ \/ /\ Creat("passwd", Lines("passwd") \cup {line[p]})
          /\ Goto(p, "aunlock")
          /\ NoFault /\ UNCHANGED lock
       \/ /\ Fail("append")
          /\ lock' = FALSE
          /\ Goto(p, "failed")
          /\ UNCHANGED <<dir, data>>
    /\ UNCHANGED <<line, from, to, home, counts, seen>>

PasswdStep(p) ==
    \/ PasswdStart(p) \/ MakeLock(p) \/ Filter(p) \/ LinkBak(p) \/ UnlinkPasswd(p)
    \/ RgStat(p) \/ RgLink(p) \/ CopyCreat(p) \/ CopyWrite(p) \/ Restore(p)
    \/ RemoveTmp(p) \/ RemoveLock(p) \/ Access(p) \/ Append(p)

-----------------------------------------------------------------------------
(* mkuser and rmuser *)

\* getunam: the name is not in use.
MkuserStart(p) ==
    /\ Cmd[p] = "mkuser"
    /\ Begin(p)
    /\ Goto(p, IF User[p] \in UsersIn("passwd") THEN "failed" ELSE "uid")
    /\ UNCHANGED line

\* Mutant of MkuserUid: the user id is the number of users and one.
MkuserUidCount(p) ==
    /\ At(p, "uid")
    /\ \E i \in {Cardinality(UsersIn("passwd")) + 1} :
          line' = [line EXCEPT ![p] = [user |-> User[p], uid |-> i, pw |-> 0]]
    /\ Goto(p, "mkdir")
    /\ UNCHANGED <<files, lock, home, faults, counts, seen>>

\* getusrid: the user id is the smallest free one, or a free one typed in.
MkuserUid(p) ==
    /\ At(p, "uid")
    /\ \E i \in Uids \ UidsIn("passwd") :
          line' = [line EXCEPT ![p] = [user |-> User[p], uid |-> i, pw |-> 0]]
    /\ Goto(p, "mkdir")
    /\ UNCHANGED <<files, lock, home, faults, counts, seen>>

\* Mutant of MakeHome: the group file is written first.
MakeHomeGroupFirst(p) ==
    /\ At(p, "mkdir")
    /\ \/ home' = home \cup {User[p]} /\ Goto(p, "gtmp") /\ NoFault
       \/ Fail("mkdir") /\ Goto(p, "failed") /\ UNCHANGED home
       \/ Fail("chown") /\ home' = home \cup {User[p]} /\ Goto(p, "failed")
    /\ UNCHANGED <<files, lock, line, counts, seen>>

\* The home directory is made, unless one is there and was accepted.
MakeHome(p) ==
    /\ At(p, "mkdir")
    /\ \/ home' = home \cup {User[p]} /\ Goto(p, "ptmp") /\ NoFault
       \/ Fail("mkdir") /\ Goto(p, "failed") /\ UNCHANGED home
       \/ Fail("chown") /\ home' = home \cup {User[p]} /\ Goto(p, "failed")
    /\ UNCHANGED <<files, lock, line, counts, seen>>

\* getusr of rmuser: the user exists.
RmuserStart(p) ==
    /\ Cmd[p] = "rmuser"
    /\ Begin(p)
    /\ Goto(p, IF User[p] \in UsersIn("passwd") THEN "ptmp" ELSE "failed")
    /\ UNCHANGED line

\* Mutant of OpenTmp: a file that cannot be created is reported and left as it was.
OpenTmpNoExit(p, at, x, tmp, next) ==
    /\ At(p, at) /\ Cmd[p] # "passwd"
    /\ \/ /\ dir[x] # NoFile
          /\ Creat(tmp, {})
          /\ from' = [from EXCEPT ![p] = dir[x]]
          /\ to' = [to EXCEPT ![p] = Target(tmp)]
          /\ Goto(p, next)
          /\ NoFault
       \/ dir[x] = NoFile /\ Goto(p, "failed") /\ NoFault /\ UNCHANGED files
       \/ Fail("creat") /\ Goto(p, IF x = "passwd" THEN "gtmp" ELSE "deldir") /\ UNCHANGED files
    /\ UNCHANGED <<lock, line, home, counts, seen>>

\* Mutant of OpenTmp: what open returns is not looked at.
OpenTmpUnchecked(p, at, x, tmp, next) ==
    /\ At(p, at) /\ Cmd[p] # "passwd"
    /\ \/ /\ dir[x] # NoFile
          /\ Creat(tmp, {})
          /\ from' = [from EXCEPT ![p] = dir[x]]
          /\ to' = [to EXCEPT ![p] = Target(tmp)]
          /\ Goto(p, next)
          /\ NoFault
       \/ dir[x] = NoFile /\ Goto(p, next) /\ NoFault /\ UNCHANGED files
       \/ Fail("creat") /\ Goto(p, "failed") /\ UNCHANGED files
    /\ UNCHANGED <<lock, line, home, counts, seen>>

\* The file is opened, then the temporary one is created or emptied.
OpenTmp(p, at, x, tmp, next) ==
    /\ At(p, at) /\ Cmd[p] # "passwd"
    /\ \/ /\ dir[x] # NoFile
          /\ Creat(tmp, {})
          /\ from' = [from EXCEPT ![p] = dir[x]]
          /\ to' = [to EXCEPT ![p] = Target(tmp)]
          /\ Goto(p, next)
          /\ NoFault
       \/ dir[x] = NoFile /\ Goto(p, "failed") /\ NoFault /\ UNCHANGED files
       \/ Fail("creat") /\ Goto(p, "failed") /\ UNCHANGED files
    /\ UNCHANGED <<lock, line, home, counts, seen>>

\* mkuser adds its line; rmuser leaves out the user, and in the group file
\* each member whose name ends where it still agrees with that of the user.
Edited(p, x, ls) ==
    CASE Cmd[p] = "mkuser" -> ls \cup {line[p]}
      [] Cmd[p] = "rmuser" /\ x = "passwd" -> {l \in ls : l.user # User[p]}
      [] OTHER -> {l \in ls : l.user # User[p] /\ <<l.user, User[p]>> \notin Prefix}

\* flincat, and the loops of flinread and flinwrit.
WriteTmp(p, at, x, tmp, next) ==
    /\ At(p, at) /\ Cmd[p] # "passwd"
    /\ \/ /\ data' = [data EXCEPT ![to[p]] = Edited(p, x, data[from[p]])]
          /\ Goto(p, next)
          /\ NoFault /\ UNCHANGED dir
       \/ Fail("write") /\ Unlink(tmp) /\ Goto(p, "failed")
    /\ from' = [from EXCEPT ![p] = NoFile] /\ to' = [to EXCEPT ![p] = NoFile]
    /\ UNCHANGED <<lock, line, home, counts, seen>>

\* chname: unlink the file, link the temporary one, unlink that.
ChnameUnlink(p, at, x, next) ==
    /\ At(p, at) /\ Cmd[p] # "passwd"
    /\ IF dir[x] # NoFile
       THEN Unlink(x) /\ Goto(p, next)
       ELSE UNCHANGED <<dir, data>> /\ Goto(p, "failed")
    /\ UNCHANGED <<lock, line, from, to, home, faults, counts, seen>>

ChnameLink(p, at, x, tmp, next) ==
    /\ At(p, at) /\ Cmd[p] # "passwd"
    /\ \/ CanLink(tmp, x) /\ Link(tmp, x) /\ Goto(p, next) /\ NoFault
       \/ ~CanLink(tmp, x) /\ Goto(p, "failed") /\ NoFault /\ UNCHANGED <<dir, data>>
       \/ Fail("link") /\ Goto(p, "failed") /\ UNCHANGED <<dir, data>>
    /\ UNCHANGED <<lock, line, from, to, home, counts, seen>>

ChnameDone(p, at, tmp, next) ==
    /\ At(p, at) /\ Cmd[p] # "passwd"
    /\ Unlink(tmp)
    /\ Goto(p, next)
    /\ UNCHANGED <<lock, line, from, to, home, faults, counts, seen>>

\* rmuser at the end deletes the home directory, or leaves it: with -n, or
\* if it is not his, or holds files and there is no -r.
DeleteHome(p) ==
    /\ At(p, "deldir")
    /\ \/ home' = home \ {User[p]}
       \/ UNCHANGED home
    /\ Goto(p, "done")
    /\ UNCHANGED <<files, lock, line, faults, counts, seen>>

AdminStep(p) ==
    \/ MkuserStart(p) \/ MkuserUid(p) \/ MakeHome(p) \/ RmuserStart(p)
    \/ OpenTmp(p, "ptmp", "passwd", "passwd.tmp", "pcopy")
    \/ WriteTmp(p, "pcopy", "passwd", "passwd.tmp", "punlink")
    \/ ChnameUnlink(p, "punlink", "passwd", "plink")
    \/ ChnameLink(p, "plink", "passwd", "passwd.tmp", "prmtmp")
    \/ ChnameDone(p, "prmtmp", "passwd.tmp", "gtmp")
    \/ OpenTmp(p, "gtmp", "group", "group.tmp", "gcopy")
    \/ WriteTmp(p, "gcopy", "group", "group.tmp", "gunlink")
    \/ ChnameUnlink(p, "gunlink", "group", "glink")
    \/ ChnameLink(p, "glink", "group", "group.tmp", "grmtmp")
    \/ ChnameDone(p, "grmtmp", "group.tmp", IF Cmd[p] = "rmuser" THEN "deldir" ELSE "done")
    \/ DeleteHome(p)

\* A command dies, or the system goes down.
Kill(p) ==
    /\ Running(p) /\ p \in Killable
    /\ crashes < MaxCrashes
    /\ crashes' = crashes + 1
    /\ Goto(p, "dead")
    /\ from' = [from EXCEPT ![p] = NoFile] /\ to' = [to EXCEPT ![p] = NoFile]
    /\ UNCHANGED <<onedev, dir, data, lock, line, home, faults, seen>>

Next == \E p \in Procs : PasswdStep(p) \/ AdminStep(p) \/ Kill(p)

Spec == Init /\ [][Next]_vars

-----------------------------------------------------------------------------
(* Properties *)

\* Every name leads to an inode or nowhere, every inode holds lines of a
\* user, a user id and a password, and the descriptors are open inodes.
TypeOK ==
    /\ pc \in [Procs -> PCs] /\ onedev \in BOOLEAN /\ lock \in BOOLEAN
    /\ dir \in [Paths -> Inodes \cup {NoFile}]
    /\ data \in [Inodes -> SUBSET Line]
    /\ line \in [Procs -> Line \cup {NoLine}] /\ seen \in [Procs -> SUBSET Line]
    /\ from \in [Procs -> Inodes \cup {NoFile}]
    /\ to \in [Procs -> Inodes \cup {NoFile}]
    /\ home \subseteq Users
    /\ faults \in 0..MaxFaults /\ crashes \in 0..MaxCrashes
    /\ \A p \in Procs : pc[p] \in {"pcopy", "gcopy"} => to[p] # NoFile /\ from[p] # NoFile
    /\ \A p \in Procs : At(p, "write") => to[p] # NoFile
    /\ \A p \in Procs : Running(p) /\ pc[p] # "uid" /\ Cmd[p] # "rmuser" => line[p] # NoLine

\* The users whose lines nobody was to touch: those of the start and those
\* mkuser has finished, without those rmuser was told to remove.  From
\* rmvpwent to apppwent the line of its user is nowhere but in the memory of
\* passwd, so the user of a passwd command counts when that ended well.
Told(cmd, at) == {User[p] : p \in {q \in Procs : Cmd[q] = cmd /\ pc[q] \in at}}
Begun == PCs \ {"idle"}
Accounts ==
    (OldUsers \cup Told("mkuser", {"done"}))
        \ (Told("rmuser", Begun) \cup Told("passwd", Begun \ {"done"}))

\* No user's line gets lost: at every moment, and so whatever fails or dies
\* next, it is in passwd or in one of the files passwd can be repaired from.
\* The hazards are the moments without a passwd file in rmvpwent and chname,
\* the backup left by an earlier run and the copy that replaces a link.
UsersKept ==
    \A u \in Accounts : \E x \in Paths \ {"group", "group.tmp"} : u \in UsersIn(x)

\* When every command that began ended well, the users are in passwd itself,
\* whatever call failed and was made up for on the way.  PASSWD_LOCK is there
\* to keep this so when two commands run at once.
UsersThere ==
    (\A p \in Procs : pc[p] \in {"idle", "done"}) => Accounts \subseteq UsersIn("passwd")

\* Two users of the passwd file never have the same user id.  The commands come
\* one after another here, so that an id that getusrid found free is free still
\* when flincat writes it (getusrid.c:41).  But passwd may have died with a line
\* in hand whose id mkuser then gives away: no copy, link or backup of the file
\* by which a later command replaces it may bring that line back beside the new
\* one.  Of commands at once it is not true: passwd writes a line back whose id
\* mkuser gave away in the meantime.
UidUnique ==
    \A l, m \in Lines("passwd") : l.uid = m.uid => l.user = m.user

\* passwd and group are updated one after the other, and either may fail: a
\* member of the group who has no passwd line anywhere is one that rmuser
\* was told to remove, or whose line a passwd command holds or held.
FilesAgree ==
    \A u \in UsersIn("group") :
        \/ \E x \in Paths \ {"group", "group.tmp"} : u \in UsersIn(x)
        \/ u \in Told("rmuser", Begun) \cup Told("passwd", Begun \ {"done"})

\* rmuser deletes a home directory only when its user is in neither file.
HomeLast ==
    [][\A u \in home \ home' : u \notin UsersIn("passwd") \cup UsersIn("group")]_vars

\* A passwd command that ends well has set the password and changed no
\* other line, though it replaced the file, and whichever way it did so:
\* by a link, a copy or the restored backup.
OnlyHisEntry ==
    [][\A p \in Procs : Cmd[p] = "passwd" /\ ~At(p, "done") /\ pc'[p] = "done" =>
          /\ line[p] \in Lines("passwd")
          /\ {l \in Lines("passwd") : l.user # User[p]} =
                {l \in seen[p] : l.user # User[p]}]_vars

\* The passwd file and what it can be repaired from keep everybody: the two
\* statements above of every moment and of the end.
UsersSafe == UsersKept /\ UsersThere

\* The two files and the home directories stay of one piece: no user id twice,
\* and no member of the group without a passwd line.
FilesSound == UidUnique /\ FilesAgree

\* What a step of rmuser may delete and what a passwd command may have changed
\* when it ends.
StepsSound == HomeLast /\ OnlyHisEntry

=============================================================================

-------------------------------- MODULE Mount --------------------------------
(* mount and umount (etc_cmdsrc/mount.c): each reads the whole of /etc/mtab,  *)
(* starts or ends the file handler of a device, which takes seconds, and      *)
(* writes the whole table back. Nothing keeps two of them apart.              *)
EXTENDS Integers, Sequences, FiniteSets, FiniteSetsExt

CONSTANTS Procs,     \* the commands that may run at once
          Devs,      \* the devices
          Pids,      \* the process numbers of handlers and strangers
          NMOUNT     \* the slots of the table
\* no device has the name of a free slot or of a stranger, no process its number
ASSUME MountAssumption == NMOUNT \in Nat \ {0} /\ 0 \notin Pids /\ {"", "stranger"} \cap Devs = {}

Free == [spec |-> "", pid |-> 0]
VARIABLES mtab,      \* the file: at most NMOUNT slots
          pc, dev,   \* of a command: where it is, and its device
          mem,       \* its copy of the table
          pid,       \* the handler that it started or will end, 0 for none
          owner,     \* a number in use: its device, or "stranger"
          outside,   \* handlers that ended by themselves behind the table, or live without an entry
          stale,     \* commands whose copy is older than the file
          spoilt     \* such a copy was written
vars == <<mtab, pc, dev, mem, pid, owner, outside, stale, spoilt>>

Used == DOMAIN owner
Slots(file) == [i \in 1..NMOUNT |-> IF i <= Len(file) THEN file[i] ELSE Free]
Last1(m) == Max({0} \cup {i \in DOMAIN m : m[i] # Free})
\* what a write at the start makes of a file that others write as well
Over(file, s) == [i \in 1..Max({Len(file), Len(s)}) |-> IF i <= Len(s) THEN s[i] ELSE file[i]]
Ends(p) == /\ pc' = [pc EXCEPT ![p] = "idle"] /\ pid' = [pid EXCEPT ![p] = 0] /\ dev' = [dev EXCEPT ![p] = ""]
           /\ mem' = [mem EXCEPT ![p] = Slots(<<>>)]
Leaves(p) == Ends(p) /\ stale' = stale \ {p}
At(p, here) == pc[p] = here
\* numbers are given out in turn: none comes back in the seconds of a command that has it
Held == {pid[q] : q \in Procs}
Goes(p, to) == pc' = [pc EXCEPT ![p] = to]
\* everybody else who has read the table has an old copy now
Changes(p) == /\ stale' = (stale \ {p}) \cup {q \in Procs \ {p} : pc[q] # "idle"}
              /\ spoilt' = (spoilt \/ p \in stale)

Init == /\ mtab = <<>> /\ pc = [p \in Procs |-> "idle"] /\ dev = [p \in Procs |-> ""] /\ mem = [p \in Procs |-> Slots(<<>>)]
        /\ pid = [p \in Procs |-> 0] /\ owner = [x \in {} |-> ""] /\ outside = {} /\ stale = {} /\ spoilt = FALSE
-----------------------------------------------------------------------------
\* both read the table first; a device that cannot be opened or a name that is not
\* in the table ends the command, which is as if it had not begun
ReadTable(p, d, to) ==
  /\ At(p, "idle") /\ Goes(p, to) /\ dev' = [dev EXCEPT ![p] = d] /\ mem' = [mem EXCEPT ![p] = Slots(mtab)]
  /\ UNCHANGED <<mtab, pid, owner, outside, stale, spoilt>>
Mnt(p, d) == ReadTable(p, d, "fork")
\* Mutant: the first entry, whatever its device.
SlotFirst(p) == Min({i \in 1..NMOUNT : mem[p][i] # Free})
Slot(p) == Min({i \in 1..NMOUNT : mem[p][i].spec = dev[p]})
Unmnt(p, d) == d \in {Slots(mtab)[i].spec : i \in 1..NMOUNT} /\ ReadTable(p, d, "kill")

\* the handler of a device that has one ends at once, as does what cannot be executed
ForkHandler(p, x) ==
  /\ At(p, "fork") /\ Goes(p, "wait") /\ x \in Pids \ (Used \cup Held \cup outside)
  /\ pid' = [pid EXCEPT ![p] = x] /\ owner' = [y \in Used \cup {x} |-> IF y = x THEN dev[p] ELSE owner[y]]
  /\ UNCHANGED <<mtab, dev, mem, outside, stale, spoilt>>
ForkFails(p) == At(p, "fork") /\ Leaves(p) /\ UNCHANGED <<mtab, owner, outside, spoilt>>
\* wait returned before the alarm: the handler is gone
NotMounted(p) == At(p, "wait") /\ pid[p] \notin Used /\ Leaves(p) /\ UNCHANGED <<mtab, owner, outside, spoilt>>
\* the alarm: whatever the handler does from now on, mount believes in it
Clock(p) == At(p, "wait") /\ pid[p] \in Used /\ Goes(p, "enter") /\ UNCHANGED <<mtab, dev, mem, pid, owner, outside, stale, spoilt>>

Entry(p) == [spec |-> dev[p], pid |-> pid[p]]
FreeSlots(p) == {i \in 1..NMOUNT : mem[p][i] = Free}
\* the table is full: mount ends without a word
NoRoom(p) == At(p, "enter") /\ FreeSlots(p) = {} /\ Leaves(p) /\ outside' = outside \cup {pid[p]} /\ UNCHANGED <<mtab, owner, spoilt>>
EnterCreat(p) ==
  /\ At(p, "enter") /\ FreeSlots(p) # {} /\ Goes(p, "write") /\ mem' = [mem EXCEPT ![p][Min(FreeSlots(p))] = Entry(p)]
  /\ mtab' = <<>> /\ Changes(p) /\ UNCHANGED <<dev, pid, owner, outside>>
CannotCreat(p) ==
  /\ pc[p] \in {"enter", "clear"} /\ Leaves(p) /\ outside' = outside \cup {pid[p]}
  /\ UNCHANGED <<mtab, owner, spoilt>>

\* umount takes the number it finds for that of the handler
Kill(p) ==
  LET x == mem[p][Slot(p)].pid IN
  /\ At(p, "kill") /\ Goes(p, "clear") /\ pid' = [pid EXCEPT ![p] = x]
  /\ owner' = [y \in Used \ {x} |-> owner[y]]
  /\ UNCHANGED <<mtab, dev, mem, outside, stale, spoilt>>
ClearCreat(p) ==
  /\ At(p, "clear") /\ Goes(p, "rewrite") /\ mem' = [mem EXCEPT ![p][Slot(p)] = Free]
  /\ mtab' = <<>> /\ Changes(p) /\ UNCHANGED <<dev, pid, owner, outside>>

\* up to the last slot in use; umount writes one free slot rather than none
\* Mutant: the last slot in use is not written.
WriteTableShort(p) ==
  /\ pc[p] \in {"write", "rewrite"} /\ Ends(p) /\ mtab' = Over(mtab, SubSeq(mem[p], 1, Max({1, Last1(mem[p]) - 1}))) /\ Changes(p)
  /\ UNCHANGED <<owner, outside>>
\* Mutant: the table is written after what the file holds.
WriteTableAppends(p) ==
  /\ pc[p] \in {"write", "rewrite"} /\ Ends(p) /\ mtab' = mtab \o SubSeq(mem[p], 1, Max({1, Last1(mem[p])})) /\ Changes(p)
  /\ UNCHANGED <<owner, outside>>
WriteTable(p) ==
  /\ pc[p] \in {"write", "rewrite"} /\ Ends(p) /\ mtab' = Over(mtab, SubSeq(mem[p], 1, Max({1, Last1(mem[p])}))) /\ Changes(p)
  /\ UNCHANGED <<owner, outside>>
-----------------------------------------------------------------------------
\* a handler ends: its mount may still be waiting for that; otherwise nobody is told
Handlers == {x \in Used : owner[x] \in Devs}
HandlerEnds(x) ==
  /\ x \in Handlers /\ owner' = [y \in Used \ {x} |-> owner[y]]
  /\ outside' = IF \E p \in Procs : At(p, "wait") /\ pid[p] = x THEN outside ELSE outside \cup {x}
  /\ UNCHANGED <<mtab, pc, dev, mem, pid, stale, spoilt>>
\* other processes come and go, with numbers that are free again
StrangerBegins(x) ==
  /\ x \in Pids \ (Used \cup Held) /\ owner' = [y \in Used \cup {x} |-> IF y = x THEN "stranger" ELSE owner[y]]
  /\ UNCHANGED <<mtab, pc, dev, mem, pid, outside, stale, spoilt>>
StrangerEnds(x) ==
  /\ x \in Used \ Handlers /\ owner' = [y \in Used \ {x} |-> owner[y]]
  /\ UNCHANGED <<mtab, pc, dev, mem, pid, outside, stale, spoilt>>

Command(p) == \/ \E d \in Devs : Mnt(p, d) \/ Unmnt(p, d)
              \/ \E x \in Pids : ForkHandler(p, x)
              \/ ForkFails(p) \/ NotMounted(p) \/ Clock(p) \/ NoRoom(p) \/ EnterCreat(p) \/ CannotCreat(p)
              \/ Kill(p) \/ ClearCreat(p) \/ WriteTable(p)
Next == (\E p \in Procs : Command(p)) \/ \E x \in Pids : HandlerEnds(x) \/ StrangerBegins(x) \/ StrangerEnds(x)
Spec == Init /\ [][Next]_vars
-----------------------------------------------------------------------------
Slot2 == [spec : Devs, pid : Pids] \cup {Free}
TypeOK == /\ mtab \in Seq(Slot2) /\ Len(mtab) <= NMOUNT
          /\ pc \in [Procs -> {"idle", "fork", "wait", "enter", "kill", "clear", "write", "rewrite"}] /\ dev \in [Procs -> Devs \cup {""}]
          /\ mem \in [Procs -> [1..NMOUNT -> Slot2]] /\ pid \in [Procs -> Pids \cup {0}]
          /\ Used \subseteq Pids /\ (\A x \in Used : owner[x] \in Devs \cup {"stranger"})
          /\ outside \subseteq Pids /\ stale \subseteq Procs /\ spoilt \in BOOLEAN

Known == {Slots(mtab)[i].pid : i \in 1..NMOUNT} \ {0}
Waiting == {pid[p] : p \in {q \in Procs : pc[q] \in {"wait", "enter"}}}
\* As long as nobody has written a copy older than the file, the table lists every
\* handler with its device and nothing else, whenever no command is between
\* emptying it and writing it. Left out are those that the code cannot know or has
\* no room for: a handler that ends after its alarm, a full table, a table that
\* cannot be created (mount.c:136, 176, 167).
TableTrue == ~spoilt /\ (\A p \in Procs : pc[p] \notin {"clear", "write", "rewrite"}) =>
  /\ Known \ outside = Handlers \ (outside \cup Waiting)
  /\ \A i \in 1..NMOUNT : LET e == Slots(mtab)[i] IN e.pid \in Handlers \ outside => owner[e.pid] = e.spec
  /\ \A i, j \in 1..NMOUNT : Slots(mtab)[i].pid = Slots(mtab)[j].pid /\ i # j => Slots(mtab)[i] = Free

\* umount signals nothing but the handler of its device, though all it has is a number
\* in a file: as long as nobody has written an old copy, its own is the newest, and the
\* number is none of those above (mount.c:211-213). Two that end one device at once
\* included: the second finds nobody of that number.
KillsOwn == [][\A p \in Procs :
  pc[p] = "kill" /\ pc'[p] = "clear" /\ ~spoilt /\ p \notin stale /\ pid'[p] \in Used \ outside
  => owner[pid'[p]] = dev[p]]_vars
=============================================================================

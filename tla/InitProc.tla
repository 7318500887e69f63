------------------------------ MODULE InitProc ------------------------------
(***************************************************************************)
(* init (etc_cmdsrc/init.c): the table of terminals, rdttys that brings it *)
(* in line with /etc/ttys, the loop of multusr around wait, and the        *)
(* signals that ask it to read the file again, to start no more logins, to *)
(* return to single user mode and to halt.                                 *)
(*                                                                         *)
(* The other actors: the processes dfork starts (stty, then login and a    *)
(* shell, under one process id), orphans that become children of init, the *)
(* administrator.  A signal is handled between any two steps, and ends a   *)
(* wait only when it comes after the process was put to sleep.             *)
(***************************************************************************)
EXTENDS Integers, Sequences, FiniteSets

CONSTANTS TtyLines,     \* terminals
          Comns,        \* their modes in /etc/ttys
          Files,        \* contents /etc/ttys may have: sequences of [line, comn]
          NSlots,       \* TABSIZ
          Pids,
          MaxSignals, MaxEvents, MaxEdits,  \* bounds: signals; failed forks and opens, orphans; edits
          MaxChanges,   \* and of those events and edits together
          NoTty

Slots == 1..NSlots
Entry == [line : TtyLines, comn : Comns]
Sigs == {"INT", "QUIT", "HUP"}
\* wait returned -1, errno told which.
Eintr == -2
NoChild == -3

ASSUME InitProcAssumption ==
    /\ Files \subseteq Seq(Entry) /\ Files # {}
    /\ NSlots \in Nat \ {0}
    /\ Pids \subseteq Nat \ {0} /\ NoTty \notin TtyLines
    /\ MaxSignals \in Nat /\ MaxEvents \in Nat /\ MaxEdits \in Nat /\ MaxChanges \in Nat

VARIABLES pc,
          i,        \* p, the slot in hand
          itab,     \* itab[k]: a terminal or NoTty, its mode, process id and flags
          got,      \* what wait returned: a process id, or -1 with this errno
          mergflag, quitflag, gosingle,
          multi,    \* in multusr: rdttys returns to it
          armed,    \* signals whose handler is set: delivery resets it
          ttys,     \* the file
          child,    \* child[q]: the process q, a child of init
          utmp,     \* terminals someone is logged in on
          signals, events, edits,    \* so far
          missed,   \* history: terminals whose process was reaped and not seen
          late      \* history: logged in after logout, before kill

sys == <<ttys, child, utmp>>
flags == <<mergflag, quitflag, gosingle, armed>>
hist == <<signals, events, edits, missed, late>>
vars == <<pc, i, itab, got, multi, flags, sys, hist>>

\* A process: the terminal and mode it was started for (NoTty: an orphan).
NoSlot == [line |-> NoTty, comn |-> NoTty, pid |-> 0, xflag |-> {}]
NoProc == [line |-> NoTty, comn |-> NoTty, st |-> "free"]
Proc == [line : TtyLines \cup {NoTty}, comn : Comns \cup {NoTty},
         st : {"free", "live", "zombie"}]

Live(q) == child[q].st = "live"
Zombie(q) == child[q].st = "zombie"
FreePid(q) == child[q].st = "free"

Init ==
    /\ pc = "single" /\ i = 1
    /\ itab = [k \in Slots |-> NoSlot]
    /\ got = NoChild
    /\ mergflag = FALSE /\ quitflag = FALSE /\ gosingle = FALSE
    /\ multi = FALSE /\ armed = {}
    /\ ttys \in Files
    /\ child = [q \in Pids |-> NoProc]
    /\ utmp = {}
    /\ signals = 0 /\ events = 0 /\ edits = 0
    /\ missed = {} /\ late = {}

ChangesLeft == events + edits < MaxChanges
Tick == events < MaxEvents /\ ChangesLeft /\ events' = events + 1

-----------------------------------------------------------------------------
(* Helpers of init *)

\* The terminals in the table.
InTable(t) == {t[k].line : k \in {j \in Slots : t[j].line # NoTty}}

\* Mutant of Merge: the mode of a known terminal is not updated.
MergeKeep(t, e) ==
    IF e.line \in InTable(t)
    THEN [k \in Slots |->
            IF t[k].line # e.line THEN t[k]
            ELSE [t[k] EXCEPT !.xflag = @ \cup {"FOUND"} \cup
                                        (IF t[k].comn # e.comn THEN {"CHANGE"} ELSE {})]]
    ELSE LET empty == {k \in Slots : t[k].line = NoTty}
             first == CHOOSE k \in empty : \A j \in empty : k <= j
         IN IF empty = {} THEN t
            ELSE [t EXCEPT ![first] = [@ EXCEPT !.line = e.line, !.comn = e.comn,
                                                !.xflag = {"FOUND", "CHANGE"}]]

\* One line of /etc/ttys: the slot of its terminal is marked, and marked as
\* changed when the mode differs; a new terminal takes the first empty slot,
\* and is left out when there is none.
Merge(t, e) ==
    IF e.line \in InTable(t)
    THEN [k \in Slots |->
            IF t[k].line # e.line THEN t[k]
            ELSE [t[k] EXCEPT !.comn = e.comn,
                              !.xflag = @ \cup {"FOUND"} \cup
                                        (IF t[k].comn # e.comn THEN {"CHANGE"} ELSE {})]]
    ELSE LET empty == {k \in Slots : t[k].line = NoTty}
             first == CHOOSE k \in empty : \A j \in empty : k <= j
         IN IF empty = {} THEN t
            ELSE [t EXCEPT ![first] = [@ EXCEPT !.line = e.line, !.comn = e.comn,
                                                !.xflag = {"FOUND", "CHANGE"}]]

\* The table after each line of the file.
Merged(t, f) ==
    LET merged[n \in 0..Len(f)] ==
            IF n = 0 THEN [k \in Slots |-> [t[k] EXCEPT !.xflag = {}]]
            ELSE Merge(merged[n - 1], f[n])
    IN merged

\* The first loop of rdttys over the lines of the file.
ReadInto(t, f) == Merged(t, f)[Len(f)]

\* kill(p->pid, SIGKILL): a process id of -1 stands for every process.
Killed(pid) ==
    [q \in Pids |-> IF Live(q) /\ pid \in {q, -1}
                    THEN [child[q] EXCEPT !.st = "zombie"] ELSE child[q]]

\* dfork for slot k of the table: the process, or -1, is entered in it.
Dfork(k) ==
    \/ \E q \in {r \in Pids : FreePid(r)} :
          /\ itab' = [itab EXCEPT ![k].pid = q]
          /\ child' = [child EXCEPT ![q] = [line |-> itab[k].line, comn |-> itab[k].comn,
                                            st |-> "live"]]
          /\ UNCHANGED events
    \/ /\ \/ Tick
          \/ (\A r \in Pids : ~FreePid(r)) /\ UNCHANGED events
       /\ itab' = [itab EXCEPT ![k].pid = -1]
       /\ UNCHANGED child

\* Mutant of NextSlot: the loop goes one slot too far.
NextSlotTooFar(l, end) ==
    IF i + 1 \in Slots \cup {NSlots + 1}
    THEN i' = i + 1 /\ pc' = l
    ELSE i' = 1 /\ pc' = end

\* The loop over the slots goes on at label l, or ends at label end.
NextSlot(l, end) ==
    IF i + 1 \in Slots
    THEN i' = i + 1 /\ pc' = l
    ELSE i' = 1 /\ pc' = end

-----------------------------------------------------------------------------
(* Steps of init *)

\* The shell of single user mode has ended; what else ended was waited for.
SingUsr ==
    /\ pc = "single"
    /\ child' = [q \in Pids |-> IF Zombie(q) THEN NoProc ELSE child[q]]
    /\ pc' = "rc"
    /\ UNCHANGED <<i, itab, got, multi, flags, ttys, utmp, hist>>

\* /etc/rc has run; it empties utmp.
RunRc ==
    /\ pc = "rc"
    /\ child' = [q \in Pids |-> IF Zombie(q) THEN NoProc ELSE child[q]]
    /\ utmp' = {}
    /\ missed' = {} /\ late' = {}
    /\ pc' = "read"
    /\ UNCHANGED <<i, itab, got, multi, flags, ttys, signals, events, edits>>

RdRead ==
    /\ pc = "read"
    /\ itab' = ReadInto(itab, ttys)
    /\ pc' = "slot" /\ i' = 1
    /\ UNCHANGED <<got, multi, flags, sys, hist>>

\* /etc/ttys cannot be opened: rdttys returns at once.
RdMissing ==
    /\ pc = "read"
    /\ Tick
    /\ multi' = TRUE
    /\ IF multi THEN UNCHANGED <<quitflag, gosingle>> ELSE quitflag' = FALSE /\ gosingle' = FALSE
    /\ pc' = "loop" /\ i' = 1
    /\ UNCHANGED <<itab, got, mergflag, armed, sys, signals, edits, missed, late>>

\* Mutant of RdSlot: a terminal with a new mode is not terminated.
RdSlotNoTerm ==
    /\ pc = "slot"
    /\ IF /\ itab[i].pid # 0
          /\ "FOUND" \notin itab[i].xflag /\ itab[i].line # NoTty
       THEN utmp' = utmp \ {itab[i].line} /\ pc' = "kill"
       ELSE UNCHANGED utmp /\ pc' = "fork"
    /\ UNCHANGED <<i, itab, got, multi, flags, ttys, child, hist>>

\* term: logout first, then kill.
RdSlot ==
    /\ pc = "slot"
    /\ IF /\ itab[i].pid # 0
          /\ \/ "FOUND" \notin itab[i].xflag /\ itab[i].line # NoTty
             \/ "CHANGE" \in itab[i].xflag
       THEN utmp' = utmp \ {itab[i].line} /\ pc' = "kill"
       ELSE UNCHANGED utmp /\ pc' = "fork"
    /\ UNCHANGED <<i, itab, got, multi, flags, ttys, child, hist>>

\* Mutant of RdKill: the process group is killed.
RdKillAll ==
    /\ pc = "kill"
    /\ child' = Killed(-1)
    /\ itab' = [itab EXCEPT ![i].pid = 0]
    /\ missed' = missed \ {itab[i].line}
    /\ late' = late \cup (utmp \cap {itab[i].line})
    /\ pc' = "fork"
    /\ UNCHANGED <<i, got, multi, flags, ttys, utmp, signals, events, edits>>

RdKill ==
    /\ pc = "kill"
    /\ child' = Killed(itab[i].pid)
    /\ itab' = [itab EXCEPT ![i].pid = 0]
    /\ missed' = missed \ {itab[i].line}
    /\ late' = late \cup (utmp \cap {itab[i].line})
    /\ pc' = "fork"
    /\ UNCHANGED <<i, got, multi, flags, ttys, utmp, signals, events, edits>>

\* Mutant of RdFork: a terminal that was not found stays in the table.
RdForkMissing ==
    /\ pc = "fork"
    /\ IF "CHANGE" \in itab[i].xflag
       THEN Dfork(i)
       ELSE /\ itab' = [itab EXCEPT ![i].line = IF "FOUND" \in itab[i].xflag THEN @ ELSE @]
            /\ UNCHANGED <<child, events>>
    /\ NextSlot("slot", "loop")
    /\ multi' = (multi \/ pc' = "loop")
    /\ IF multi \/ pc' # "loop" THEN UNCHANGED <<quitflag, gosingle>>
       ELSE quitflag' = FALSE /\ gosingle' = FALSE
    /\ UNCHANGED <<got, mergflag, armed, ttys, utmp, signals, missed, late, edits>>

RdFork ==
    /\ pc = "fork"
    /\ IF "CHANGE" \in itab[i].xflag
       THEN Dfork(i)
       ELSE /\ itab' = [itab EXCEPT ![i].line = IF "FOUND" \in itab[i].xflag THEN @ ELSE NoTty]
            /\ UNCHANGED <<child, events>>
    /\ NextSlot("slot", "loop")
    /\ multi' = (multi \/ pc' = "loop")
    /\ IF multi \/ pc' # "loop" THEN UNCHANGED <<quitflag, gosingle>>
       ELSE quitflag' = FALSE /\ gosingle' = FALSE
    /\ UNCHANGED <<got, mergflag, armed, ttys, utmp, signals, missed, late, edits>>

\* (The flags of the slots are not read before rdttys clears them.)
Loop ==
    /\ pc = "loop"
    /\ mergflag' = FALSE
    /\ armed' = Sigs
    /\ itab' = [k \in Slots |-> [itab[k] EXCEPT !.xflag = {}]]
    /\ pc' = "top"
    /\ UNCHANGED <<i, got, multi, quitflag, gosingle, sys, hist>>

\* wait: a child that has ended, or no child at all, or sleep.
Reap(q) ==
    /\ Zombie(q)
    /\ child' = [child EXCEPT ![q] = NoProc]
    /\ got' = q
    /\ pc' = "got"

CallWait ==
    /\ pc = "top"
    /\ \/ \E q \in Pids : Reap(q)
       \/ /\ \A q \in Pids : FreePid(q)
          /\ got' = NoChild /\ pc' = "got"
          /\ UNCHANGED child
       \/ /\ \E q \in Pids : Live(q)
          /\ \A q \in Pids : ~Zombie(q)
          /\ pc' = "blocked"
          /\ UNCHANGED <<child, got>>
    /\ UNCHANGED <<i, itab, multi, flags, ttys, utmp, hist>>

WaitReturns ==
    /\ pc = "blocked"
    /\ \E q \in Pids : Reap(q)
    /\ UNCHANGED <<i, itab, multi, flags, ttys, utmp, hist>>

\* The tests after wait.  With mergflag set, the process id is not looked at.
AfterWait ==
    /\ pc = "got"
    /\ \/ /\ mergflag
          /\ pc' = "read"
          /\ missed' = missed \cup {itab[k].line : k \in {j \in Slots : itab[j].pid = got}}
       \/ /\ ~mergflag
          /\ pc' = CASE gosingle -> "stop"
                     [] ~gosingle /\ got = Eintr -> "loop"
                     [] ~gosingle /\ got = NoChild -> "stop"
                     [] OTHER -> "scan"
          /\ UNCHANGED missed
    /\ i' = 1
    /\ got' = IF pc' = "scan" THEN got ELSE NoChild
    /\ UNCHANGED <<itab, multi, flags, sys, signals, events, late, edits>>

\* Mutant of Scan: quitflag is not looked at.
ScanAlways ==
    /\ pc = "scan"
    /\ IF itab[i].pid \in {got, -1}
       THEN /\ utmp' = utmp \ {itab[i].line}
            /\ Dfork(i)
            /\ missed' = missed \ {itab[i].line} /\ late' = late \ {itab[i].line}
       ELSE UNCHANGED <<utmp, itab, child, events, missed, late>>
    /\ NextSlot("scan", "top")
    /\ got' = IF pc' = "scan" THEN got ELSE NoChild
    /\ UNCHANGED <<multi, flags, ttys, signals, edits>>

\* Mutant of Scan: the entry in utmp is not removed.
ScanNoLogout ==
    /\ pc = "scan"
    /\ IF itab[i].pid \in {got, -1}
       THEN /\ UNCHANGED utmp
            /\ IF quitflag THEN UNCHANGED <<itab, child, events>> ELSE Dfork(i)
            /\ missed' = missed \ {itab[i].line} /\ late' = late \ {itab[i].line}
       ELSE UNCHANGED <<utmp, itab, child, events, missed, late>>
    /\ NextSlot("scan", "top")
    /\ got' = IF pc' = "scan" THEN got ELSE NoChild
    /\ UNCHANGED <<multi, flags, ttys, signals, edits>>

\* One slot of the loop that looks for the process id; one whose fork failed
\* is tried again.
Scan ==
    /\ pc = "scan"
    /\ IF itab[i].pid \in {got, -1}
       THEN /\ utmp' = utmp \ {itab[i].line}
            /\ IF quitflag THEN UNCHANGED <<itab, child, events>> ELSE Dfork(i)
            /\ missed' = missed \ {itab[i].line} /\ late' = late \ {itab[i].line}
       ELSE UNCHANGED <<utmp, itab, child, events, missed, late>>
    /\ NextSlot("scan", "top")
    /\ got' = IF pc' = "scan" THEN got ELSE NoChild
    /\ UNCHANGED <<multi, flags, ttys, signals, edits>>

\* Signals are ignored, utmp is emptied, every slot cleared and every
\* process killed.
StopSys ==
    /\ pc = "stop"
    /\ armed' = {}
    /\ utmp' = {}
    /\ itab' = [k \in Slots |-> [itab[k] EXCEPT !.pid = 0, !.line = NoTty]]
    /\ child' = Killed(-1)
    /\ multi' = FALSE
    /\ pc' = "single"
    /\ UNCHANGED <<i, got, mergflag, quitflag, gosingle, ttys, hist>>

\* setsig.  A sleeping wait returns -1 with EINTR.  Delivery resets the handler:
\* a second signal of the kind before init has set it again, which SIG_DFL would
\* receive, is left out, and so is one before the first time.
Signal(s) ==
    /\ s \in armed
    /\ signals < MaxSignals /\ signals' = signals + 1
    /\ armed' = armed \ {s}
    /\ mergflag' = (mergflag \/ s = "INT")
    /\ quitflag' = (quitflag \/ s = "QUIT")
    /\ gosingle' = (gosingle \/ s = "HUP")
    /\ IF pc = "blocked" THEN got' = Eintr /\ pc' = "got" ELSE UNCHANGED <<got, pc>>
    /\ UNCHANGED <<i, itab, multi, sys, events, missed, late, edits>>

\* haltsys, the handler of SIGTERM, at any point: stopsys, then the end.
HaltSys ==
    /\ pc # "halted"
    /\ signals < MaxSignals /\ signals' = signals + 1
    /\ pc' = "halted" /\ i' = 1
    /\ itab' = [k \in Slots |-> NoSlot]
    /\ child' = [q \in Pids |-> NoProc]
    /\ got' = NoChild
    /\ mergflag' = FALSE /\ quitflag' = FALSE /\ gosingle' = FALSE
    /\ multi' = FALSE /\ armed' = {}
    /\ utmp' = {} /\ missed' = {} /\ late' = {}
    /\ UNCHANGED <<ttys, events, edits>>

InitStep ==
    \/ SingUsr \/ RunRc \/ RdRead \/ RdMissing \/ RdSlot \/ RdKill \/ RdFork \/ Loop
    \/ CallWait \/ WaitReturns \/ AfterWait \/ Scan \/ StopSys

-----------------------------------------------------------------------------
(* The other actors *)

Login(q) ==
    /\ Live(q) /\ child[q].line \notin utmp \cup {NoTty}
    /\ utmp' = utmp \cup {child[q].line}
    /\ UNCHANGED <<pc, i, itab, got, multi, flags, ttys, child, hist>>

Exit(q) ==
    /\ Live(q)
    /\ child' = [child EXCEPT ![q].st = "zombie"]
    /\ UNCHANGED <<pc, i, itab, got, multi, flags, ttys, utmp, hist>>

\* A process whose parent ended becomes a child of init.
Orphan(q) ==
    /\ FreePid(q) /\ pc \notin {"single", "rc", "halted"}
    /\ Tick
    /\ child' = [child EXCEPT ![q] = [NoProc EXCEPT !.st = "live"]]
    /\ UNCHANGED <<pc, i, itab, got, multi, flags, ttys, utmp, signals, missed, late, edits>>

Edit ==
    /\ edits < MaxEdits /\ ChangesLeft /\ edits' = edits + 1
    /\ ttys' \in Files \ {ttys}
    /\ UNCHANGED <<pc, i, itab, got, multi, flags, child, utmp, signals, events, missed, late>>

Next ==
    \/ InitStep
    \/ \E s \in Sigs : Signal(s)
    \/ HaltSys
    \/ \E q \in Pids : Login(q) \/ Exit(q) \/ Orphan(q)
    \/ Edit

Spec == Init /\ [][Next]_vars

\* init runs while it can, and every process ends some day.
FairSpec == Spec /\ WF_vars(InitStep) /\ \A q \in Pids : WF_vars(Exit(q))

-----------------------------------------------------------------------------
(* Properties *)

Waiting == pc \in {"top", "blocked"}

TypeOK ==
    /\ pc \in {"single", "rc", "read", "slot", "kill", "fork", "loop", "top", "blocked",
               "got", "scan", "stop", "halted"}
    /\ i \in Slots
    /\ itab \in [Slots -> [line : TtyLines \cup {NoTty}, comn : Comns \cup {NoTty},
                           pid : Pids \cup {0, -1}, xflag : SUBSET {"FOUND", "CHANGE"}]]
    /\ got \in Pids \cup {NoChild, Eintr}
    /\ {mergflag, quitflag, gosingle, multi} \subseteq BOOLEAN
    /\ armed \subseteq Sigs
    /\ ttys \in Files
    /\ child \in [Pids -> Proc]
    /\ utmp \subseteq TtyLines /\ missed \subseteq TtyLines \cup {NoTty} /\ late \subseteq TtyLines

\* No terminal has two processes that read from it, whatever exits, forks
\* that fail and files read again come together.
OneGetty ==
    \A q, r \in Pids :
        Live(q) /\ Live(r) /\ child[q].line = child[r].line /\ q # r => child[q].line = NoTty

\* When init waits, each terminal of the table has a process, started in the
\* mode the table says, that lives or is still to be reaped, or has a fork to
\* be tried again; but for logouts after kill -3, and for the ones that
\* rdttys was called instead of seen to.
LinesServed ==
    Waiting => \A k \in Slots :
        \/ itab[k].line \in missed \cup {NoTty}
        \/ quitflag
        \/ itab[k].pid = -1
        \/ /\ itab[k].pid \in Pids
           /\ ~FreePid(itab[k].pid)
           /\ child[itab[k].pid].line = itab[k].line
           /\ child[itab[k].pid].comn = itab[k].comn

\* utmp names a terminal only while the process it was started for has not
\* been reaped; but for those two cases: the exit that was not seen, and the
\* login that came between logout and kill in term.
UtmpTrue ==
    Waiting => \A l \in utmp :
        \/ \E q \in Pids : child[q].line = l
        \/ l \in missed \cup late

\* rdttys ends the process of the terminal in hand and no other; but where
\* the process id is stale (an exit not seen, a logout after kill -3), or is
\* -1 since a fork failed.
KillsOwn ==
    [][pc = "kill" /\ pc' = "fork" =>
          \A q \in Pids : Live(q) /\ child'[q].st # "live" =>
              \/ child[q].line = itab[i].line
              \/ itab[i].pid = -1 \/ quitflag \/ itab[i].line \in missed]_vars

\* rdttys brings the table in line with the file, as far as there is room:
\* a terminal of the file gets one slot with its mode, that of its last line
\* when there are several, marked as changed unless it was there and every
\* line has this mode, so that its process is left alone; and what is not in
\* the file is not marked as found.
LastLine(n) == \A m \in DOMAIN ttys : ttys[m].line = ttys[n].line => m <= n
TableIsFile ==
    [][pc = "read" /\ pc' = "slot" /\ Cardinality(InTable(itab) \cup {ttys[n].line : n \in DOMAIN ttys}) <= NSlots =>
          /\ \A n \in DOMAIN ttys : \E k \in Slots :
                /\ {j \in Slots : itab'[j].line = ttys[n].line} = {k}
                /\ LastLine(n) => itab'[k].comn = ttys[n].comn
                /\ "FOUND" \in itab'[k].xflag
                /\ "CHANGE" \notin itab'[k].xflag <=>
                      \E j \in Slots :
                          /\ itab[j].line = ttys[n].line
                          /\ \A m \in DOMAIN ttys :
                                ttys[m].line = ttys[n].line => itab[j].comn = ttys[m].comn
          /\ \A k \in Slots : "FOUND" \in itab'[k].xflag =>
                itab'[k].line \in {ttys[n].line : n \in DOMAIN ttys}]_vars

\* SIGHUP leads to single user mode, and so does SIGQUIT when the last
\* process has ended; whatever other signals come, and though a signal that
\* comes before wait sleeps is only seen when the next process ends.
StopHonoured == multi /\ (gosingle \/ quitflag) ~> pc \in {"single", "halted"}

\* Each terminal has one process, as the table says, and utmp knows it: the three
\* statements above.
TerminalsServed == OneGetty /\ LinesServed /\ UtmpTrue

\* What rdttys does to the table and to the processes.
RdttysSound == TableIsFile /\ KillsOwn

=============================================================================

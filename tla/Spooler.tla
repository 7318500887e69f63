------------------------------ MODULE Spooler ------------------------------
(***************************************************************************)
(* The line printer spooler: lpr (bin_cmdsrc/lpr.c), the daemon lpd        *)
(* (bin_cmdsrc/lpd.c) and the library routines put_job, get_job, rmv_job,  *)
(* mk_lock, tst_lock and rmv_lock of cmdlib.                               *)
(*                                                                         *)
(* A process runs lpr and then, by execl, becomes a daemon; the daemon     *)
(* holding the lock file prints the queue.  Everything the processes share *)
(* is in the spool directory: PRE_ files (entries under construction),     *)
(* JOB_ files (the text), ENT_ files (the queue) and the lock.             *)
(*                                                                         *)
(* A JOB_ file is a pair <<process, letter>>, as mktemp makes its name of  *)
(* the process number and a letter; its PRE_ and ENT_ files bear the same  *)
(* suffix, and the digit before it is the priority of the process.  The    *)
(* text of a job is counted in stdio buffers, 0..Blocks.                   *)
(***************************************************************************)
EXTENDS Integers, FiniteSets

CONSTANTS Procs,        \* processes that run lpr
          NFiles,       \* NFiles[p]: the number of file arguments of p
          Stdin,        \* the processes that spool standard input instead
          Rflg,         \* the processes given -r
          Pri,          \* Pri[p]: the priority digit
          Letters,      \* letters 1..n that mktemp may use
          NSlots,       \* places of the spool directory
          Blocks,       \* buffers of text in every job
          FaultKinds,   \* the system calls that may fail
          MaxFaults,    \* how many of them fail in a behaviour (bound)
          MaxCrashes,   \* how many kills and reboots there are (bound)
          NoJob, NoName

Slots == 1..NSlots
Names == Procs \X Letters
Jobs == UNION {{p} \X (1..NFiles[p]) : p \in Procs}

ASSUME ConstantsAssumption ==
    /\ NFiles \in [Procs -> Nat \ {0}]
    /\ Stdin \subseteq Procs /\ Rflg \subseteq Procs
    /\ \A p \in Stdin : NFiles[p] = 1
    /\ Pri \in [Procs -> 1..9]
    /\ Letters \subseteq Nat /\ NSlots \in Nat
    /\ Blocks \in Nat \ {0} /\ MaxFaults \in Nat /\ MaxCrashes \in Nat
    /\ NoJob \notin Jobs
    /\ NoName \notin Names

VARIABLES pc,       \* where each process is
          arg,      \* lpr: index of the file argument
          name,     \* lpr: sp.jfile, the name mktemp gave
          pre,      \* the PRE_ files of the spool directory
          job,      \* job[n]: the job whose text JOB_n holds, or NoJob
          text,     \* text[j]: buffers of job j that reached the disk
          ent,      \* ent[s]: the ENT_ file in place s of the directory
          lock,     \* whether the lock file exists
          pos,      \* lpd: the place get_job reads next
          maxpri,   \* lpd: the priority of the best entry of this scan, or -1
          best,     \* lpd: sp, the entry get_job filled in
          reading,  \* lpd: the job behind job_str
          got,      \* lpd: buffers of it that were printed
          faults, crashes,
          \* history
          entered,  \* jobs whose ENT_ file was linked
          printed,  \* printed[j]: how many times j was printed
          cut,      \* jobs printed short of their text
          gone,     \* file arguments removed by -r
          seen      \* seen[p]: the entries present when the scan began, but
                    \* for those that it could not open

lprVars == <<arg, name, pre, gone, entered>>
scanVars == <<pos, maxpri, best, seen>>
printVars == <<reading, got, printed, cut>>
faultVars == <<faults, crashes>>
vars == <<pc, lprVars, job, text, ent, lock, scanVars, printVars, faultVars>>

Me(p) == <<p, arg[p]>>
Queue == {ent[s] : s \in Slots} \ {NoName}
PriOf(n) == Pri[n[1]]

\* The places of a process that is lpd and past mk_lock.
Holding == {"chdir", "scan", "read", "openjob", "opendev", "print",
            "rmjob", "rment", "abort"}
PCs == {"idle", "mktemp", "put", "copy", "freopen", "write", "link", "unpre",
        "rm", "flush", "exec", "tst", "mk", "done", "dead"} \cup Holding

Init ==
    /\ pc = [p \in Procs |-> "idle"]
    /\ arg = [p \in Procs |-> 1]
    /\ name = [p \in Procs |-> NoName]
    /\ pre = {}
    /\ job = [n \in Names |-> NoJob]
    /\ text = [j \in Jobs |-> 0]
    /\ ent = [s \in Slots |-> NoName]
    /\ lock = FALSE
    /\ pos = [p \in Procs |-> 1]
    /\ maxpri = [p \in Procs |-> -1]
    /\ best = [p \in Procs |-> NoName]
    /\ reading = [p \in Procs |-> NoJob]
    /\ got = [p \in Procs |-> 0]
    /\ faults = 0 /\ crashes = 0
    /\ entered = {} /\ cut = {} /\ gone = {}
    /\ printed = [j \in Jobs |-> 0]
    /\ seen = [p \in Procs |-> {}]

Goto(p, l) == pc' = [pc EXCEPT ![p] = l]

\* A system call of kind k fails.
Fail(k) ==
    /\ k \in FaultKinds
    /\ faults < MaxFaults
    /\ faults' = faults + 1
    /\ UNCHANGED crashes

-----------------------------------------------------------------------------
(* lpr *)

\* Somebody types an lpr command.
Start(p) ==
    /\ pc[p] = "idle"
    /\ Goto(p, "mktemp")
    /\ UNCHANGED <<lprVars, job, text, ent, lock, scanVars, printVars, faultVars>>

\* (wrong form) one file argument too many
NextFileTooFar(p) ==
    IF arg[p] <= NFiles[p]
    THEN Goto(p, "mktemp") /\ arg' = [arg EXCEPT ![p] = @ + 1]
    ELSE Goto(p, "exec") /\ UNCHANGED arg

\* The next file argument, or execl of the daemon after the last one.
NextFile(p) ==
    IF arg[p] < NFiles[p]
    THEN Goto(p, "mktemp") /\ arg' = [arg EXCEPT ![p] = @ + 1]
    ELSE Goto(p, "exec") /\ UNCHANGED arg

\* (wrong form) a name made of the process number only
MktempNameFixed(p, n) == n = <<p, 1>> /\ 1 \in Letters

\* The C library's mktemp: the first letter whose file does not exist.
MktempName(p, n) ==
    \E l \in Letters :
        /\ n = <<p, l>>
        /\ job[n] = NoJob
        /\ \A k \in Letters : k < l => job[<<p, k>>] # NoJob

\* lpr takes a name and looks whether the file can be read; it exits when every
\* name that mktemp could make is taken.
Mktemp(p) ==
    /\ pc[p] = "mktemp"
    /\ \/ /\ \E n \in Names :
                /\ MktempName(p, n)
                /\ name' = [name EXCEPT ![p] = n]
          /\ \/ Goto(p, "put") /\ UNCHANGED arg
             \/ p \notin Stdin /\ NextFile(p)     \* the file cannot be read
       \/ /\ \A l \in Letters : job[<<p, l>>] # NoJob
          /\ Goto(p, "done")
          /\ UNCHANGED <<name, arg>>
    /\ UNCHANGED <<pre, gone, entered, job, text, ent, lock, scanVars,
                   printVars, faultVars>>

\* put_job; its failure ends a stdin lpr and retries a file.
PutJob(p) ==
    /\ pc[p] = "put"
    /\ \/ /\ pre' = pre \cup {name[p]}
          /\ Goto(p, IF p \in Stdin THEN "freopen" ELSE "copy")
          /\ UNCHANGED faultVars
       \/ /\ Fail("put")
          /\ Goto(p, IF p \in Stdin THEN "done" ELSE "mktemp")
          /\ UNCHANGED pre
    /\ UNCHANGED <<arg, name, gone, entered, job, text, ent, lock, scanVars, printVars>>

\* rgcopy links or copies the file to the JOB_ file.  When it fails there is
\* no JOB_ file, or one with part of the text; lpr goes on in both cases.
Copy(p) ==
    /\ pc[p] = "copy"
    /\ \/ /\ job' = [job EXCEPT ![name[p]] = Me(p)]
          /\ text' = [text EXCEPT ![Me(p)] = Blocks]
          /\ UNCHANGED faultVars
       \/ Fail("copy") /\ UNCHANGED <<job, text>>
       \/ /\ Fail("copy")
          /\ job' = [job EXCEPT ![name[p]] = Me(p)]
          /\ text' = [text EXCEPT ![Me(p)] = Blocks - 1]
    /\ Goto(p, "link")
    /\ UNCHANGED <<lprVars, ent, lock, scanVars, printVars>>

CopyFailed(p) == text[Me(p)] # Blocks

\* Standard output becomes the JOB_ file of a stdin job.
Freopen(p) ==
    /\ pc[p] = "freopen"
    /\ \/ /\ job' = [job EXCEPT ![name[p]] = Me(p)]
          /\ Goto(p, "write")
          /\ UNCHANGED faultVars
       \/ Fail("freopen") /\ Goto(p, "done") /\ UNCHANGED job
    /\ UNCHANGED <<lprVars, text, ent, lock, scanVars, printVars>>

\* putchar writes every buffer but the last, which stays in the process.
Write(p) ==
    /\ pc[p] = "write"
    /\ \/ /\ text[Me(p)] < Blocks - 1
          /\ text' = [text EXCEPT ![Me(p)] = @ + 1]
          /\ UNCHANGED <<pc, job, faultVars>>
       \/ /\ text[Me(p)] = Blocks - 1
          /\ Goto(p, "link")
          /\ UNCHANGED <<job, text, faultVars>>
       \/ /\ text[Me(p)] < Blocks - 1
          /\ Fail("write")
          /\ job' = [job EXCEPT ![name[p]] = NoJob]
          /\ Goto(p, "done")
          /\ UNCHANGED text
    /\ UNCHANGED <<lprVars, ent, lock, scanVars, printVars>>

\* (wrong form) the job that is refused keeps its JOB_ file
LinkEntryKeeps(p) ==
    /\ pc[p] = "link"
    /\ IF name[p] \in Queue
       THEN /\ Goto(p, "done")
            /\ UNCHANGED <<ent, entered>>
       ELSE /\ \E s \in Slots :
                  /\ ent[s] = NoName
                  /\ ent' = [ent EXCEPT ![s] = name[p]]
            /\ entered' = entered \cup {Me(p)}
            /\ Goto(p, "unpre")
    /\ UNCHANGED <<arg, name, pre, gone, job, text, lock, scanVars, printVars, faultVars>>

\* enterjob, first half: link the PRE_ file to the ENT_ file.  It fails when
\* there is an ENT_ file of this name; then the job is withdrawn.
LinkEntry(p) ==
    /\ pc[p] = "link"
    /\ IF name[p] \in Queue
       THEN /\ job' = [job EXCEPT ![name[p]] = NoJob]
            /\ Goto(p, "done")
            /\ UNCHANGED <<ent, entered>>
       ELSE /\ \E s \in Slots :
                  /\ ent[s] = NoName
                  /\ ent' = [ent EXCEPT ![s] = name[p]]
            /\ entered' = entered \cup {Me(p)}
            /\ Goto(p, "unpre")
            /\ UNCHANGED job
    /\ UNCHANGED <<arg, name, pre, gone, text, lock, scanVars, printVars, faultVars>>

\* enterjob, second half: unlink the PRE_ file.
UnlinkPre(p) ==
    /\ pc[p] = "unpre"
    /\ \/ /\ pre' = pre \ {name[p]}
          /\ Goto(p, IF p \in Stdin THEN "flush" ELSE "rm")
          /\ UNCHANGED <<job, faultVars>>
       \/ /\ Fail("unpre")
          /\ job' = [job EXCEPT ![name[p]] = NoJob]
          /\ Goto(p, "done")
          /\ UNCHANGED pre
    /\ UNCHANGED <<arg, name, gone, entered, text, ent, lock, scanVars, printVars>>

\* With -r the original is removed, unless rgcopy failed.
RemoveOriginal(p) ==
    /\ pc[p] = "rm"
    /\ gone' = IF p \in Rflg /\ ~CopyFailed(p) THEN gone \cup {Me(p)} ELSE gone
    /\ NextFile(p)
    /\ UNCHANGED <<name, pre, entered, job, text, ent, lock, scanVars,
                   printVars, faultVars>>

\* fclose(stdout) writes the last buffer of a stdin job.
Flush(p) ==
    /\ pc[p] = "flush"
    /\ text' = [text EXCEPT ![Me(p)] = Blocks]
    /\ Goto(p, "exec")
    /\ UNCHANGED <<lprVars, job, ent, lock, scanVars, printVars, faultVars>>

\* execl of the spooler daemon; if it fails lpr returns.
Exec(p) ==
    /\ pc[p] = "exec"
    /\ \/ Goto(p, "tst") /\ UNCHANGED faultVars
       \/ Fail("exec") /\ Goto(p, "done")
    /\ UNCHANGED <<lprVars, job, text, ent, lock, scanVars, printVars>>

-----------------------------------------------------------------------------
(* lpd *)

\* tst_lock: another daemon is at work.
TestLock(p) ==
    /\ pc[p] = "tst"
    /\ Goto(p, IF lock THEN "done" ELSE "mk")
    /\ UNCHANGED <<lprVars, job, text, ent, lock, scanVars, printVars, faultVars>>

\* (wrong form) creat of an existing lock succeeds, as it would for root
MakeLockAsRoot(p) ==
    /\ pc[p] = "mk"
    /\ lock' = TRUE
    /\ Goto(p, "chdir")
    /\ UNCHANGED <<lprVars, job, text, ent, scanVars, printVars, faultVars>>

\* mk_lock: the lock is created with mode 0, and the daemon runs as the user
\* SPOOL_UID, so creat fails when the file is already there.
MakeLock(p) ==
    /\ pc[p] = "mk"
    /\ lock' = TRUE
    /\ Goto(p, IF lock THEN "done" ELSE "chdir")
    /\ UNCHANGED <<lprVars, job, text, ent, scanVars, printVars, faultVars>>

\* rmv_lock and exit
Release(p) == lock' = FALSE /\ Goto(p, "done")

\* (wrong form) the lock is removed and the daemon goes on
ChdirNoExit(p) ==
    /\ pc[p] = "chdir"
    /\ \/ Goto(p, "scan") /\ UNCHANGED <<lock, faultVars>>
       \/ Fail("chdir") /\ Goto(p, "scan") /\ lock' = FALSE
    /\ UNCHANGED <<lprVars, job, text, ent, scanVars, printVars>>

\* The change to the spool directory, and the fork into the background: the
\* parent leaves and the child goes on.  When the fork fails the parent takes
\* its -1 for a child and leaves all the same, with nobody behind the lock.
Chdir(p) ==
    /\ pc[p] = "chdir"
    /\ \/ Goto(p, "scan") /\ UNCHANGED <<lock, faultVars>>
       \/ Fail("chdir") /\ Release(p)
       \/ Fail("fork") /\ Goto(p, "done") /\ UNCHANGED lock
    /\ UNCHANGED <<lprVars, job, text, ent, scanVars, printVars>>

\* get_job opens the directory.  When it cannot, it returns -1, as it does
\* for an entry it found, and sp still describes the previous entry.
OpenDir(p) ==
    /\ pc[p] = "scan"
    /\ \/ /\ Goto(p, "read")
          /\ pos' = [pos EXCEPT ![p] = 1]
          /\ maxpri' = [maxpri EXCEPT ![p] = -1]
          /\ seen' = [seen EXCEPT ![p] = Queue]
          /\ UNCHANGED <<best, faultVars>>
       \/ Fail("opendir") /\ Goto(p, "openjob") /\ UNCHANGED scanVars
    /\ UNCHANGED <<lprVars, job, text, ent, lock, printVars>>

\* (wrong form) maxpri is never raised: the last entry wins
BetterLast(p, n) == n # NoName

\* get_job reads one place of the directory and keeps an entry of higher
\* priority than the best so far.
Better(p, n) == n # NoName /\ PriOf(n) > maxpri[p]

\* An entry that cannot be opened is passed over.
ReadEntry(p) ==
    /\ pc[p] = "read"
    /\ pos[p] \in Slots
    /\ LET n == ent[pos[p]]
       IN \/ /\ best' = [best EXCEPT ![p] = IF Better(p, n) THEN n ELSE @]
             /\ maxpri' = [maxpri EXCEPT ![p] = IF Better(p, n) THEN PriOf(n) ELSE @]
             /\ UNCHANGED <<seen, faultVars>>
          \/ /\ Better(p, n) /\ Fail("openent")
             /\ seen' = [seen EXCEPT ![p] = @ \ {n}]
             /\ UNCHANGED <<best, maxpri>>
    /\ pos' = [pos EXCEPT ![p] = @ + 1]
    /\ UNCHANGED <<pc, lprVars, job, text, ent, lock, printVars>>

EndOfDir(p) ==
    /\ pc[p] = "read"
    /\ pos[p] \notin Slots
    /\ Goto(p, IF maxpri[p] # -1 THEN "openjob" ELSE "abort")
    /\ UNCHANGED <<lprVars, job, text, ent, lock, scanVars, printVars, faultVars>>

\* (wrong form) an entry without its JOB_ file stays in the queue
OpenJobKeep(p) ==
    /\ pc[p] = "openjob"
    /\ \/ /\ best[p] # NoName
          /\ job[best[p]] # NoJob
          /\ reading' = [reading EXCEPT ![p] = job[best[p]]]
          /\ Goto(p, "opendev")
       \/ /\ best[p] # NoName => job[best[p]] = NoJob
          /\ reading' = [reading EXCEPT ![p] = NoJob]
          /\ Goto(p, "scan")
    /\ UNCHANGED <<lprVars, job, text, ent, lock, scanVars, got, printed, cut, faultVars>>

\* do_job opens the JOB_ file; a job without one is removed from the queue.
\* If no scan ever found an entry the file name is empty, and what fopen makes
\* of that is up to the system.
OpenJob(p) ==
    /\ pc[p] = "openjob"
    /\ \/ /\ best[p] # NoName
          /\ job[best[p]] # NoJob
          /\ reading' = [reading EXCEPT ![p] = job[best[p]]]
          /\ Goto(p, "opendev")
       \/ /\ best[p] # NoName => job[best[p]] = NoJob
          /\ reading' = [reading EXCEPT ![p] = NoJob]
          /\ Goto(p, "rmjob")
       \/ /\ best[p] = NoName
          /\ reading' = [reading EXCEPT ![p] = NoJob]
          /\ Goto(p, "opendev")
    /\ UNCHANGED <<lprVars, job, text, ent, lock, scanVars, got, printed, cut, faultVars>>

\* (wrong form) the job is removed when its device cannot be opened
OpenDeviceDrop(p) ==
    /\ pc[p] = "opendev"
    /\ \/ /\ reading[p] # NoJob
          /\ got' = [got EXCEPT ![p] = 0]
          /\ Goto(p, "print")
          /\ UNCHANGED faultVars
       \/ Fail("device") /\ Goto(p, "rmjob") /\ UNCHANGED got
    /\ UNCHANGED <<lock, lprVars, job, text, ent, scanVars, reading, printed, cut>>

\* The device; the daemon gives up, with the job still queued, without it.
OpenDevice(p) ==
    /\ pc[p] = "opendev"
    /\ \/ /\ reading[p] # NoJob
          /\ got' = [got EXCEPT ![p] = 0]
          /\ Goto(p, "print")
          /\ UNCHANGED <<lock, faultVars>>
       \/ Fail("device") /\ Release(p) /\ UNCHANGED got
       \/ reading[p] = NoJob /\ Release(p) /\ UNCHANGED <<got, faultVars>>
    /\ UNCHANGED <<lprVars, job, text, ent, scanVars, reading, printed, cut>>

\* do_copy reads a buffer of the job file and prints it.
PrintBlock(p) ==
    /\ pc[p] = "print"
    /\ got[p] < text[reading[p]]
    /\ got' = [got EXCEPT ![p] = @ + 1]
    /\ UNCHANGED <<pc, reading, printed, cut, lprVars, job, text, ent, lock,
                   scanVars, faultVars>>

\* (wrong form) the last buffer is not printed
EndPrintEarly(p) ==
    /\ pc[p] = "print"
    /\ got[p] + 1 >= text[reading[p]]
    /\ printed' = [printed EXCEPT ![reading[p]] = @ + 1]
    /\ cut' = IF got[p] < Blocks THEN cut \cup {reading[p]} ELSE cut
    /\ Goto(p, "rmjob")
    /\ UNCHANGED <<reading, got, lprVars, job, text, ent, lock, scanVars, faultVars>>

\* do_copy meets the end of file.  A write error on the device is reported
\* to the error file only, and the job is removed all the same.
EndPrint(p) ==
    /\ pc[p] = "print"
    /\ got[p] = text[reading[p]]
    /\ printed' = [printed EXCEPT ![reading[p]] = @ + 1]
    /\ \/ /\ cut' = IF got[p] < Blocks THEN cut \cup {reading[p]} ELSE cut
          /\ UNCHANGED faultVars
       \/ Fail("print") /\ cut' = cut \cup {reading[p]}
    /\ Goto(p, "rmjob")
    /\ UNCHANGED <<reading, got, lprVars, job, text, ent, lock, scanVars>>

\* (wrong form) the printed job is not removed
RemoveJobForgotten(p) ==
    /\ pc[p] = "rmjob"
    /\ Goto(p, "scan")
    /\ UNCHANGED <<job, lprVars, text, ent, lock, scanVars, printVars, faultVars>>

\* rmv_job unlinks the JOB_ file, then the ENT_ file, whether or not the
\* first succeeded, and do_job only logs a failure.
RemoveJob(p) ==
    /\ pc[p] = "rmjob"
    /\ \/ /\ job' = [n \in Names |-> IF n = best[p] THEN NoJob ELSE job[n]]
          /\ UNCHANGED faultVars
       \/ Fail("unlink") /\ UNCHANGED job
    /\ Goto(p, "rment")
    /\ UNCHANGED <<lprVars, text, ent, lock, scanVars, printVars>>

\* (wrong form) one job, and the daemon leaves
RemoveEntryLeave(p) ==
    /\ pc[p] = "rment"
    /\ ent' = [s \in Slots |-> IF ent[s] = best[p] THEN NoName ELSE ent[s]]
    /\ Goto(p, "abort")
    /\ UNCHANGED <<lprVars, job, text, lock, scanVars, printVars, faultVars>>

RemoveEntry(p) ==
    /\ pc[p] = "rment"
    /\ \/ /\ ent' = [s \in Slots |-> IF ent[s] = best[p] THEN NoName ELSE ent[s]]
          /\ UNCHANGED faultVars
       \/ Fail("unlink") /\ UNCHANGED ent
    /\ Goto(p, "scan")
    /\ UNCHANGED <<lprVars, job, text, lock, scanVars, printVars>>

Abort(p) ==
    /\ pc[p] = "abort"
    /\ Release(p)
    /\ UNCHANGED <<lprVars, job, text, ent, scanVars, printVars, faultVars>>

-----------------------------------------------------------------------------
(* The machine *)

Running(p) == pc[p] \notin {"idle", "done", "dead"}

\* A process is killed; a lock it made stays.
Kill(p) ==
    /\ Running(p)
    /\ crashes < MaxCrashes
    /\ crashes' = crashes + 1
    /\ Goto(p, "dead")
    /\ UNCHANGED <<lprVars, job, text, ent, lock, scanVars, printVars, faults>>

\* (wrong form) rc clears the whole spool directory
RebootClear ==
    /\ crashes < MaxCrashes
    /\ crashes' = crashes + 1
    /\ pc' = [p \in Procs |-> IF Running(p) THEN "dead" ELSE pc[p]]
    /\ lock' = FALSE
    /\ job' = [n \in Names |-> NoJob]
    /\ ent' = [s \in Slots |-> NoName]
    /\ UNCHANGED <<lprVars, text, scanVars, printVars, faults>>

\* The system goes down and comes up; /etc/rc removes the lock.
Reboot ==
    /\ crashes < MaxCrashes
    /\ crashes' = crashes + 1
    /\ pc' = [p \in Procs |-> IF Running(p) THEN "dead" ELSE pc[p]]
    /\ lock' = FALSE
    /\ UNCHANGED <<lprVars, job, text, ent, scanVars, printVars, faults>>

LprStep(p) ==
    \/ Mktemp(p) \/ PutJob(p) \/ Copy(p) \/ Freopen(p) \/ Write(p)
    \/ LinkEntry(p) \/ UnlinkPre(p) \/ RemoveOriginal(p) \/ Flush(p) \/ Exec(p)

LpdStep(p) ==
    \/ TestLock(p) \/ MakeLock(p) \/ Chdir(p) \/ OpenDir(p) \/ ReadEntry(p)
    \/ EndOfDir(p) \/ OpenJob(p) \/ OpenDevice(p) \/ PrintBlock(p)
    \/ EndPrint(p) \/ RemoveJob(p) \/ RemoveEntry(p) \/ Abort(p)

Next ==
    \/ \E p \in Procs : Start(p) \/ LprStep(p) \/ LpdStep(p) \/ Kill(p)
    \/ Reboot

Spec == Init /\ [][Next]_vars

\* The system schedules every process; users type lpr when they like.
FairSpec == Spec /\ \A p \in Procs : WF_vars(LprStep(p) \/ LpdStep(p))

-----------------------------------------------------------------------------
(* Properties *)

LprType ==
    /\ arg \in [Procs -> Nat \ {0}]
    /\ \A p \in Procs : arg[p] <= NFiles[p]
    /\ name \in [Procs -> Names \cup {NoName}]
    /\ pre \subseteq Names
    /\ entered \subseteq Jobs
    /\ gone \subseteq Jobs

DirType ==
    /\ job \in [Names -> Jobs \cup {NoJob}]
    /\ text \in [Jobs -> 0..Blocks]
    /\ ent \in [Slots -> Names \cup {NoName}]

ScanType ==
    /\ pos \in [Procs -> Nat \ {0}]
    /\ maxpri \in [Procs -> -1..9]
    /\ best \in [Procs -> Names \cup {NoName}]
    /\ seen \in [Procs -> SUBSET Names]

PrintType ==
    /\ reading \in [Procs -> Jobs \cup {NoJob}]
    /\ got \in [Procs -> 0..Blocks]
    /\ printed \in [Jobs -> Nat]
    /\ cut \subseteq Jobs

TypeOK ==
    /\ pc \in [Procs -> PCs]
    /\ lock \in BOOLEAN
    /\ faults \in 0..MaxFaults /\ crashes \in 0..MaxCrashes
    /\ LprType /\ DirType /\ ScanType /\ PrintType

\* Two daemons never work on the queue at the same time, whoever is killed
\* and whatever fails: tst_lock alone (lpd.c:110) would let both through, it
\* is the failing creat of mk_lock that stops the second one.
\* And none works without the lock file, so that a later one sees it.
LockHeld == \A p \in Procs : pc[p] \in Holding => lock
OneDaemon ==
    /\ \A p, q \in Procs : pc[p] \in Holding /\ pc[q] \in Holding => p = q
    /\ LockHeld

\* No text lies in the spool directory that no daemon will ever find: a JOB_
\* file has its queue entry, or its lpr is about to enter it or was killed then.
\* The name that mktemp gives again (lpr.c:203) may still be that of an entry
\* whose JOB_ file is gone, which enterjob refuses, or of one that rmv_job is
\* about to unlink: the entry of the new job must not be unlinked in its stead,
\* and the text of a job that is refused must go.
TextsReachable ==
    \A n \in Names :
        job[n] # NoJob =>
            \/ n \in Queue
            \/ name[n[1]] = n /\ pc[n[1]] \in {"write", "link", "dead"}

\* The daemon is about to unlink the JOB_ file it printed and no other, though
\* do_job closed it and rmv_job goes by name (lpd.c:182): lpr may not have put
\* another file of that name in its place.
RemovesWhatItPrinted ==
    \A p \in Procs :
        pc[p] = "rmjob" /\ best[p] # NoName => job[best[p]] = reading[p]

\* An entry that was in the directory when the scan began is not passed over for
\* one of lower priority (get_job.c:60), whatever lpr links and unlinks while the
\* daemon reads.  Only an entry that cannot be opened is (get_job.c:61-64), and
\* failing to open one costs no other entry its turn.
PriorityRespected ==
    \A p \in Procs :
        pc[p] = "openjob" /\ maxpri[p] # -1 =>
            \A n \in seen[p] : PriOf(n) <= PriOf(best[p])

\* A file is on paper more than once only because of a kill, a reboot, or
\* failing unlinks of rmv_job.
PrintedOnce == \A j \in Jobs : printed[j] <= 1 + crashes + faults

\* Only a job read from standard input is printed short: its queue entry is
\* linked before fclose writes the last buffer (lpr.c:190-193), while the text
\* of a file is complete before its entry appears.
WholeFiles == \A j \in cut : j[1] \in Stdin

\* With -r the file is removed only when its text is safe in the queue or on
\* paper (lpr.c:236).
DataSurvives ==
    \A j \in gone : printed[j] > 0 \/ \E n \in Queue : job[n] = j

\* What becomes of a job: the file of the right job is removed, a file is on paper
\* again only for a reason, none but standard input is cut short, and with -r no
\* original goes before its text is safe: the four statements above.
JobsKept == RemovesWhatItPrinted /\ PrintedOnce /\ WholeFiles /\ DataSurvives

\* What the queue promises, see PrintQueue: an entered job stays queued, with
\* its text, until it was printed.  A crash between the two unlinks of rmv_job
\* leaves an ENT_ file without its JOB_ file, and when the same lpr was about to
\* use that name again (lpr.c:203), the text it had copied by then is in the
\* queue under the old entry, as soon as both are dead.
Queued(j) == \E n \in Queue : job[n] = j
Adopted(n) ==
    /\ pc[n[1]] = "dead"
    /\ ~ \E d \in Procs : pc[d] = "rment" /\ best[d] = n
Waiting(j) ==
    /\ printed[j] = 0
    /\ \E n \in Queue : job[n] = j /\ (j \in entered \/ Adopted(n))
PQ == INSTANCE PrintQueue WITH
        queue <- {j \in Jobs : Waiting(j)},
        done <- {j \in Jobs : printed[j] > 0}
ImplementsQueue == PQ!Spec

\* Every lpr and every daemon comes to an end: the retries of lpr, and the
\* loop of lpd over the queue.
Terminates == \A p \in Procs : Running(p) ~> ~Running(p)

\* A job that is queued when a scan starts is printed by that daemon, before
\* or after jobs that come later.
ScanServed ==
    \A j \in Jobs :
        (\E p \in Procs : pc[p] = "read" /\ pos[p] = 1 /\ Queued(j))
            ~> (printed[j] > 0 \/ faults > 0)

\* The comment of lpd's main loop (lpd.c:84) has the daemon work "until the
\* queue is empty": every entered job is printed in the end.
QueueEmptied == \A j \in Jobs : j \in entered ~> (printed[j] > 0 \/ faults > 0)

=============================================================================

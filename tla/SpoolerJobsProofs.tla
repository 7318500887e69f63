-------------------------- MODULE SpoolerJobsProofs --------------------------
(***************************************************************************)
(* What becomes of the jobs of Spooler, for every number of processes,     *)
(* files, directory places, faults and crashes: JobsKept, and that the     *)
(* spooler implements the queue of PrintQueue.                             *)
(***************************************************************************)
EXTENDS SpoolerProofs

\* The daemon has the JOB_ file of its entry in hand.
Serving == {"opendev", "print", "rmjob"}

-----------------------------------------------------------------------------
(* Which lpr made which JOB_ file *)

NamesOwn == \A p \in Procs : name[p] # NoName => name[p][1] = p
JobsOwn == \A n \in Names : job[n] # NoJob => job[n][1] = n[1]
NotYet == \A p \in Procs : pc[p] \in {"put", "copy", "freopen"} => job[name[p]] = NoJob
Once == \A m, n \in Names : job[m] = job[n] /\ job[n] # NoJob => m = n
Pending == \A p \in Procs : pc[p] \in {"write", "link"} => Me(p) \notin entered

\* The files lpr has not come to yet.
Ahead(j) ==
    \/ pc[j[1]] \in {"idle", "mktemp", "put", "copy", "freopen"} /\ j[2] >= arg[j[1]]
    \/ pc[j[1]] \in {"write", "link", "unpre", "rm"} /\ j[2] > arg[j[1]]

Untouched(j) ==
    /\ \A n \in Names : job[n] # j
    /\ j \notin entered /\ printed[j] = 0
    /\ \A d \in Procs : pc[d] \in Serving => reading[d] # j

AheadUntouched == \A j \in Jobs : Ahead(j) => Untouched(j)

Stored == NamesOwn /\ JobsOwn /\ NotYet /\ Once /\ Pending /\ AheadUntouched

LEMMA NamesType ==
  ASSUME NEW n \in Names PROVE n[1] \in Procs /\ n[2] \in Letters /\ n # NoName
  BY ConstantsAssumption DEF Names, ConstantsAssumption

LEMMA JobsType ==
  ASSUME NEW j \in Jobs
  PROVE  j[1] \in Procs /\ j[2] \in Nat \ {0} /\ j = <<j[1], j[2]>> /\ j # NoJob
<1>1. PICK p \in Procs : j \in {p} \X (1..NFiles[p])
  BY DEF Jobs
<1> QED
  BY <1>1, ConstantsAssumption DEF ConstantsAssumption

LEMMA MeType == ASSUME NEW p \in Procs PROVE Me(p)[1] = p /\ Me(p)[2] = arg[p]
  BY DEF Me

LEMMA StoredInit == Init => Stored
<1> SUFFICES ASSUME Init PROVE Stored
  OBVIOUS
<1>1. NamesOwn /\ JobsOwn /\ NotYet /\ Pending
  BY DEF Init, NamesOwn, JobsOwn, NotYet, Pending
<1>2. Once
  BY DEF Init, Once
<1>3. AheadUntouched
  BY JobsType DEF Init, AheadUntouched, Untouched, Serving
<1> QED
  BY <1>1, <1>2, <1>3 DEF Stored

\* What the lemmas below use of the types.
Typed ==
    /\ pc \in [Procs -> PCs] /\ arg \in [Procs -> Nat \ {0}]
    /\ name \in [Procs -> Names \cup {NoName}]
    /\ job \in [Names -> Jobs \cup {NoJob}]
    /\ reading \in [Procs -> Jobs \cup {NoJob}]
    /\ printed \in [Jobs -> Nat]
    /\ best \in [Procs -> Names \cup {NoName}]
    /\ \A p \in Procs : pc[p] \in Spooling => name[p] \in Names
    /\ \A p \in Procs : Me(p) \in Jobs

LEMMA TypedLemma == TypeInv => Typed
  BY MeInJobs DEF TypeInv, TypeOK, Filled, Typed, LprType, DirType, ScanType, PrintType

\* Places of lpr that have a file ahead or in hand, and the ways between them
\* that leave the file argument and the JOB_ file as they are.
AtFile == {"idle", "mktemp", "put", "copy", "freopen", "write", "link", "unpre", "rm"}
SameFile == {<<"idle", "mktemp">>, <<"put", "mktemp">>, <<"put", "copy">>,
             <<"put", "freopen">>, <<"copy", "link">>, <<"write", "link">>,
             <<"unpre", "rm">>}

\* A step that stores, enters and prints nothing.
LEMMA StoredKept ==
  ASSUME Typed, Stored, UNCHANGED <<arg, name, entered, printed>>,
         \A n \in Names : job'[n] \in {job[n], NoJob},
         \A p \in Procs : pc'[p] \in Serving =>
            \/ reading'[p] \in {NoJob} \cup {job[n] : n \in Names}
            \/ pc[p] \in Serving /\ reading'[p] = reading[p],
         \A p \in Procs :
            pc'[p] = pc[p] \/ pc'[p] \notin AtFile \/ <<pc[p], pc'[p]>> \in SameFile
  PROVE  Stored'
<1>1. NamesOwn' /\ JobsOwn' /\ NotYet'
  BY DEF Stored, Typed, NamesOwn, JobsOwn, NotYet, Spooling, AtFile, SameFile
<1>2. Once'
  BY DEF Stored, Typed, Once
<1>4. ASSUME NEW p \in Procs, pc'[p] \in {"write", "link"} PROVE Me(p) \notin entered
  <2>1. pc[p] = "copy" => Ahead(Me(p))
    BY MeType DEF Ahead, Typed
  <2>2. pc[p] = "copy" => Me(p) \notin entered
    BY <2>1 DEF Stored, AheadUntouched, Untouched, Typed
  <2> QED
    BY <1>4, <2>2 DEF Stored, Pending, AtFile, SameFile
<1>5. Pending'
  BY <1>4 DEF Pending, Me
<1>3. ASSUME NEW j \in Jobs, Ahead(j)' PROVE Untouched(j)'
  <2>1. Ahead(j)
    <3>1. j[1] \in Procs /\ j[2] \in Nat /\ arg[j[1]] \in Nat
      BY JobsType DEF Typed
    <3> QED
      BY <1>3, <3>1 DEF Ahead, AtFile, SameFile
  <2>2. Untouched(j)
    BY <2>1 DEF Stored, AheadUntouched
  <2> QED
    BY <2>2, JobsType DEF Untouched
<1> QED
  BY <1>1, <1>2, <1>3, <1>5 DEF Stored, AheadUntouched

\* mktemp found a name for lpr.
Named(p) == Mktemp(p) /\ name'[p] \in Names /\ name'[p][1] = p /\ job[name'[p]] = NoJob

LEMMA StoredNamed ==
  ASSUME Typed, Typed', Stored, NEW p \in Procs, Named(p), pc'[p] \in {"put", "mktemp", "exec"},
         \A q \in Procs \ {p} : name'[q] = name[q] /\ arg'[q] = arg[q], arg'[p] >= arg[p]
  PROVE  Stored'
<1>0. /\ UNCHANGED <<job, entered, printed, reading>>
      /\ pc[p] = "mktemp" /\ pc'[p] \in {"put", "mktemp", "exec"}
      /\ \A q \in Procs \ {p} : pc'[q] = pc[q] /\ name'[q] = name[q] /\ arg'[q] = arg[q]
      /\ arg'[p] >= arg[p]
      /\ name'[p] \in Names /\ name'[p][1] = p /\ job[name'[p]] = NoJob
  BY DEF Named, Mktemp, NextFile, Goto, Typed, printVars
<1>1. NamesOwn' /\ JobsOwn' /\ NotYet'
  BY <1>0 DEF Stored, NamesOwn, JobsOwn, NotYet
<1>2. Once' /\ Pending'
  BY <1>0 DEF Stored, Once, Pending, Me
<1>3. ASSUME NEW j \in Jobs, Ahead(j)' PROVE Untouched(j)'
  <2>0. j[1] \in Procs /\ j[2] \in Nat /\ arg[j[1]] \in Nat /\ arg'[j[1]] \in Nat
    BY JobsType DEF Typed
  <2>1. Ahead(j)
    <3>1. CASE j[1] = p
      BY <1>0, <1>3, <2>0, <3>1 DEF Ahead
    <3>2. CASE j[1] # p
      BY <1>0, <1>3, <2>0, <3>2 DEF Ahead
    <3> QED
      BY <3>1, <3>2
  <2>2. Untouched(j)
    BY <2>1 DEF Stored, AheadUntouched
  <2> QED
    BY <1>0, <2>2 DEF Untouched, Serving
<1> QED
  BY <1>1, <1>2, <1>3 DEF Stored, AheadUntouched

\* A name is found, or lpr leaves.
LEMMA MktempCases ==
  ASSUME Typed, NEW p \in Procs, Mktemp(p)
  PROVE  \/ /\ Named(p) /\ pc'[p] \in {"put", "mktemp", "exec"} /\ arg'[p] >= arg[p]
            /\ \A q \in Procs \ {p} : name'[q] = name[q] /\ arg'[q] = arg[q]
         \/ Goto(p, "done") /\ UNCHANGED <<name, arg, entered, job, printVars>>
<1>1. CASE \E n \in Names : MktempName(p, n) /\ name' = [name EXCEPT ![p] = n]
  <2>1. PICK n \in Names : MktempName(p, n) /\ name' = [name EXCEPT ![p] = n]
    BY <1>1
  <2>2. name'[p] = n /\ n[1] = p /\ job[n] = NoJob /\ \A q \in Procs \ {p} : name'[q] = name[q]
    BY <2>1 DEF MktempName, Typed
  <2>3. CASE Goto(p, "done") /\ UNCHANGED <<name, arg>>
    BY <2>3 DEF Mktemp
  <2>4. CASE Goto(p, "put") /\ UNCHANGED arg
    BY <2>2, <2>4 DEF Named, Goto, Typed
  <2>5. CASE NextFile(p)
    BY <2>2, <2>5 DEF Named, NextFile, Goto, Typed
  <2> QED
    BY <2>3, <2>4, <2>5 DEF Mktemp
<1>2. CASE Goto(p, "done") /\ UNCHANGED <<name, arg>>
  BY <1>2 DEF Mktemp
<1> QED
  BY <1>1, <1>2 DEF Mktemp

LEMMA StoredMktemp ==
  ASSUME Typed, Typed', Stored, NEW p \in Procs, Mktemp(p) PROVE Stored'
<1>1. CASE Goto(p, "done") /\ UNCHANGED <<name, arg, entered, job, printVars>>
  <2>1. UNCHANGED <<arg, name, entered, job, printed, reading>>
    BY <1>1 DEF printVars
  <2>2. \A q \in Procs : pc'[q] = pc[q] \/ (pc'[q] = "done" /\ q = p)
    BY <1>1 DEF Goto, Typed
  <2> QED
    BY <2>1, <2>2, StoredKept DEF AtFile, Serving
<1> QED
  BY <1>1, StoredNamed, MktempCases

LEMMA StoredRm ==
  ASSUME Typed, Typed', Stored, NEW p \in Procs, RemoveOriginal(p) PROVE Stored'
<1>0. /\ UNCHANGED <<job, entered, printed, reading, name>>
      /\ pc[p] = "rm"
      /\ \/ pc'[p] = "mktemp" /\ arg'[p] = arg[p] + 1
         \/ pc'[p] = "exec"
      /\ \A q \in Procs \ {p} : pc'[q] = pc[q] /\ arg'[q] = arg[q]
  BY DEF RemoveOriginal, NextFile, Goto, Typed, printVars
<1>1. NamesOwn' /\ JobsOwn' /\ NotYet'
  BY <1>0 DEF Stored, NamesOwn, JobsOwn, NotYet
<1>2. Once' /\ Pending'
  BY <1>0 DEF Stored, Once, Pending, Me
<1>3. ASSUME NEW j \in Jobs, Ahead(j)' PROVE Untouched(j)'
  <2>0. j[1] \in Procs /\ j[2] \in Nat /\ arg[j[1]] \in Nat /\ arg'[j[1]] \in Nat
    BY JobsType DEF Typed
  <2>1. Ahead(j)
    <3>1. CASE j[1] = p
      BY <1>0, <1>3, <2>0, <3>1 DEF Ahead
    <3>2. CASE j[1] # p
      BY <1>0, <1>3, <2>0, <3>2 DEF Ahead
    <3> QED
      BY <3>1, <3>2
  <2>2. Untouched(j)
    BY <2>1 DEF Stored, AheadUntouched
  <2> QED
    BY <1>0, <2>2 DEF Untouched, Serving
<1> QED
  BY <1>1, <1>2, <1>3 DEF Stored, AheadUntouched

\* The JOB_ file is made.
LEMMA StoredMade ==
  ASSUME Typed, Typed', Stored, NEW p \in Procs, NEW l \in {"write", "link"},
         pc[p] \in {"copy", "freopen"}, Goto(p, l),
         job' = [job EXCEPT ![name[p]] = Me(p)],
         UNCHANGED <<arg, name, entered, printed, reading>>
  PROVE  Stored'
<1>0. /\ name[p] \in Names /\ name[p][1] = p /\ Me(p) \in Jobs
      /\ job[name[p]] = NoJob /\ job'[name[p]] = Me(p)
      /\ \A n \in Names \ {name[p]} : job'[n] = job[n]
      /\ \A q \in Procs \ {p} : pc'[q] = pc[q]
      /\ pc'[p] = l /\ Me(p)[1] = p /\ Me(p)[2] = arg[p]
  BY MeType, NamesType DEF Typed, Spooling, Stored, NamesOwn, NotYet, Goto
<1>4. Ahead(Me(p)) /\ Untouched(Me(p))
  BY <1>0 DEF Stored, AheadUntouched, Ahead, Typed
<1>1. NamesOwn' /\ JobsOwn'
  BY <1>0 DEF Stored, NamesOwn, JobsOwn
<1>2. NotYet'
  <2>1. \A q \in Procs \ {p} : pc[q] \in Spooling => name[q] # name[p]
    BY <1>0, NamesType DEF Stored, NamesOwn, Typed
  <2> QED
    BY <1>0, <2>1 DEF Stored, NotYet, Spooling, Typed
<1>3. Once' /\ Pending'
  BY <1>0, <1>4 DEF Stored, Once, Pending, Me, Untouched
<1>5. ASSUME NEW j \in Jobs, Ahead(j)' PROVE Untouched(j)'
  <2>1. Ahead(j) /\ j # Me(p)
    BY <1>0, <1>5, JobsType DEF Ahead, Typed
  <2>2. Untouched(j)
    BY <2>1 DEF Stored, AheadUntouched
  <2> QED
    BY <1>0, <2>1, <2>2 DEF Untouched, Serving
<1> QED
  BY <1>1, <1>2, <1>3, <1>5 DEF Stored, AheadUntouched

LEMMA StoredEntered ==
  ASSUME Typed, Typed', Stored, NEW p \in Procs, pc[p] = "link", Goto(p, "unpre"),
         entered' = entered \cup {Me(p)},
         UNCHANGED <<arg, name, job, printed, reading>>
  PROVE  Stored'
<1>0. /\ \A q \in Procs \ {p} : pc'[q] = pc[q] /\ Me(q) # Me(p)
      /\ pc'[p] = "unpre" /\ Me(p)[1] = p /\ Me(p)[2] = arg[p]
  BY MeType DEF Typed, Goto
<1>1. NamesOwn' /\ JobsOwn' /\ NotYet' /\ Once' /\ Pending'
  BY <1>0 DEF Stored, NamesOwn, JobsOwn, NotYet, Once, Pending, Me
<1>5. ASSUME NEW j \in Jobs, Ahead(j)' PROVE Untouched(j)'
  <2>1. Ahead(j) /\ j # Me(p)
    BY <1>0, <1>5, JobsType DEF Ahead, Typed
  <2>2. Untouched(j)
    BY <2>1 DEF Stored, AheadUntouched
  <2> QED
    BY <1>0, <2>1, <2>2 DEF Untouched, Serving
<1> QED
  BY <1>1, <1>5 DEF Stored, AheadUntouched

LEMMA StoredEndPrint ==
  ASSUME Typed, Typed', Stored, NEW p \in Procs, EndPrint(p), reading[p] \in Jobs PROVE Stored'
<1>0. /\ UNCHANGED <<job, entered, reading, name, arg>>
      /\ pc[p] = "print" /\ pc'[p] = "rmjob"
      /\ \A q \in Procs \ {p} : pc'[q] = pc[q]
      /\ \A j \in Jobs \ {reading[p]} : printed'[j] = printed[j]
  BY DEF EndPrint, Goto, Typed, lprVars
<1>1. NamesOwn' /\ JobsOwn' /\ NotYet' /\ Once' /\ Pending'
  BY <1>0 DEF Stored, NamesOwn, JobsOwn, NotYet, Once, Pending, Me
<1>5. ASSUME NEW j \in Jobs, Ahead(j)' PROVE Untouched(j)'
  <2>1. Ahead(j)
    BY <1>0, <1>5, JobsType DEF Ahead, Typed
  <2>2. Untouched(j)
    BY <2>1 DEF Stored, AheadUntouched
  <2> QED
    BY <1>0, <2>1, <2>2 DEF Untouched, Serving
<1> QED
  BY <1>1, <1>5 DEF Stored, AheadUntouched

LEMMA TypedStep == TypeInv /\ [Next]_vars => Typed /\ Typed'
  BY TypeStep, TypedLemma, PTL

LEMMA StoredStep == TypeInv /\ Stored /\ [Next]_vars => Stored'
<1> SUFFICES ASSUME TypeInv, Stored, [Next]_vars PROVE Stored'
  OBVIOUS
<1>0. Typed /\ Typed'
  BY TypedStep
<1>1. ASSUME NEW p \in Procs, Start(p) \/ PutJob(p) \/ Write(p) \/ UnlinkPre(p)
                              \/ Flush(p) \/ Exec(p) \/ Kill(p)
      PROVE Stored'
  <2>1. /\ UNCHANGED <<arg, name, entered, printed, reading>>
        /\ \A n \in Names : job'[n] \in {job[n], NoJob}
        /\ \A q \in Procs :
              \/ pc'[q] = pc[q] \/ <<pc[q], pc'[q]>> \in SameFile
              \/ pc'[q] \in {"done", "dead", "flush", "exec", "tst"}
    BY <1>0, <1>1 DEF Start, PutJob, Write, UnlinkPre, Flush, Exec, Kill, Goto, Typed,
       SameFile, lprVars, printVars
  <2> QED
    BY <1>0, <2>1, StoredKept DEF AtFile, SameFile, Serving
<1>2. ASSUME NEW p \in Procs, Mktemp(p) \/ RemoveOriginal(p) PROVE Stored'
  BY <1>0, <1>2, StoredMktemp, StoredRm
<1>3. ASSUME NEW p \in Procs, Copy(p) \/ Freopen(p) PROVE Stored'
  <2>1. UNCHANGED <<arg, name, entered, printed, reading>>
    BY <1>3 DEF Copy, Freopen, lprVars, printVars
  <2>2. CASE job' = [job EXCEPT ![name[p]] = Me(p)]
    <3>1. \/ pc[p] = "copy" /\ Goto(p, "link")
          \/ pc[p] = "freopen" /\ Goto(p, "write")
          \/ UNCHANGED job /\ Goto(p, "done")
      BY <1>3 DEF Copy, Freopen
    <3>2. CASE pc[p] = "copy" /\ Goto(p, "link")
      BY <1>0, <2>1, <2>2, <3>2, StoredMade
    <3>4. CASE pc[p] = "freopen" /\ Goto(p, "write")
      BY <1>0, <2>1, <2>2, <3>4, StoredMade
    <3>3. CASE UNCHANGED job /\ Goto(p, "done")
      BY <1>0, <2>1, <3>3, StoredKept DEF AtFile, Serving, Goto, Typed
    <3> QED
      BY <3>1, <3>2, <3>3, <3>4
  <2>3. CASE UNCHANGED job /\ ((Goto(p, "link") /\ pc[p] = "copy") \/ Goto(p, "done"))
    BY <1>0, <2>1, <2>3, StoredKept DEF AtFile, SameFile, Serving, Goto, Typed
  <2> QED
    BY <1>3, <2>2, <2>3 DEF Copy, Freopen
<1>4. ASSUME NEW p \in Procs, LinkEntry(p) PROVE Stored'
  <2>1. UNCHANGED <<arg, name, printed, reading>> /\ pc[p] = "link"
    BY <1>4 DEF LinkEntry, printVars
  <2>2. CASE name[p] \in Queue
    BY <1>0, <1>4, <2>1, <2>2, StoredKept
    DEF LinkEntry, AtFile, Serving, Goto, Typed
  <2>3. CASE name[p] \notin Queue
    BY <1>0, <1>4, <2>1, <2>3, StoredEntered DEF LinkEntry
  <2> QED
    BY <2>2, <2>3
<1>5. ASSUME NEW p \in Procs, TestLock(p) \/ MakeLock(p) \/ Chdir(p) \/ OpenDir(p)
                   \/ ReadEntry(p) \/ EndOfDir(p) \/ RemoveEntry(p) \/ Abort(p)
      PROVE Stored'
  <2>1. /\ UNCHANGED <<arg, name, entered, printed, reading, job>>
        /\ \A q \in Procs :
              \/ pc'[q] = pc[q]
              \/ pc'[q] \in {"mk", "done", "chdir", "scan", "read", "openjob", "abort"}
    BY <1>0, <1>5 DEF TestLock, MakeLock, Chdir, OpenDir, ReadEntry, EndOfDir, RemoveEntry,
       Abort, Release, Goto, Typed, lprVars, printVars
  <2> QED
    BY <1>0, <2>1, StoredKept DEF AtFile, Serving
<1>6. ASSUME NEW p \in Procs, OpenJob(p) PROVE Stored'
  <2>1. /\ UNCHANGED <<arg, name, entered, printed, job>>
        /\ reading' = [reading EXCEPT ![p] = reading'[p]]
        /\ reading'[p] \in {NoJob} \cup {job[n] : n \in Names}
        /\ pc' = [pc EXCEPT ![p] = pc'[p]] /\ pc'[p] \in {"opendev", "rmjob"}
    BY <1>0, <1>6 DEF OpenJob, Goto, Typed, lprVars
  <2> QED
    BY <1>0, <2>1, StoredKept DEF AtFile, Serving, Typed
<1>7. ASSUME NEW p \in Procs, OpenDevice(p) \/ PrintBlock(p) \/ RemoveJob(p) PROVE Stored'
  <2>1. /\ UNCHANGED <<arg, name, entered, printed, reading>>
        /\ \A n \in Names : job'[n] \in {job[n], NoJob}
        /\ pc[p] \in Serving
        /\ \A q \in Procs \ {p} : pc'[q] = pc[q]
        /\ pc'[p] \in {"print", "done", "rment"}
    BY <1>0, <1>7 DEF OpenDevice, PrintBlock, RemoveJob, Release, Goto, Typed, Serving,
       lprVars, printVars
  <2> QED
    BY <1>0, <2>1, StoredKept DEF AtFile, Serving
<1>8. ASSUME NEW p \in Procs, EndPrint(p) PROVE Stored'
  BY <1>0, <1>8, StoredEndPrint DEF TypeInv, Filled, EndPrint
<1>9. CASE Reboot
  <2>1. /\ UNCHANGED <<arg, name, entered, printed, reading, job>>
        /\ \A q \in Procs : pc'[q] = pc[q] \/ pc'[q] = "dead"
    BY <1>9 DEF Reboot, lprVars, printVars
  <2> QED
    BY <1>0, <2>1, StoredKept DEF AtFile, Serving
<1>10. CASE UNCHANGED vars
  BY <1>0, <1>10, StoredKept DEF vars, lprVars, printVars
<1> QED
  BY <1>1, <1>2, <1>3, <1>4, <1>5, <1>6, <1>7, <1>8, <1>9, <1>10
  DEF Next, LprStep, LpdStep

-----------------------------------------------------------------------------
(* How often a job is printed *)

\* A daemon has printed j and not yet removed its JOB_ file.
OnPaper(j) == \E d \in Procs : pc[d] = "rmjob" /\ reading[d] = j

\* A job that is stored or open was printed before only for a reason.
CountInv ==
    /\ PrintedOnce
    /\ \A n \in Names : job[n] # NoJob /\ ~OnPaper(job[n])
          => printed[job[n]] <= crashes + faults
    /\ \A d \in Procs : pc[d] \in {"opendev", "print"} /\ reading[d] # NoJob
          => printed[reading[d]] <= crashes + faults
    /\ \A d \in Procs : pc[d] \in Serving /\ reading[d] # NoJob
          => \A n \in Names : job[n] = reading[d] => n = best[d]

CountersNow == crashes \in Nat /\ faults \in Nat
Counters == CountersNow /\ CountersNow'

LEMMA CountersType == TypeInv /\ [Next]_vars => Counters
<1>1. TypeInv => CountersNow
  BY BlocksType DEF TypeInv, TypeOK, CountersNow
<1>2. TypeInv /\ [Next]_vars => CountersNow'
  BY TypeStep, <1>1, PTL
<1> QED
  BY <1>1, <1>2 DEF Counters

LEMMA CountInit == Init => CountInv
<1> SUFFICES ASSUME Init PROVE CountInv
  OBVIOUS
<1>1. PrintedOnce
  BY DEF Init, PrintedOnce
<1> QED
  BY <1>1 DEF Init, CountInv, Serving

\* A step that stores and prints nothing, and leaves no printed JOB_ file behind.
LEMMA CountKept ==
  ASSUME Typed, CountInv, Counters, crashes' >= crashes, faults' >= faults,
         UNCHANGED <<reading, printed>>,
         \A n \in Names : job'[n] \in {job[n], NoJob},
         \A p \in Procs : pc[p] = "rmjob" => pc'[p] = "rmjob",
         \A p \in Procs : pc'[p] \in Serving =>
            /\ best'[p] = best[p]
            /\ pc'[p] = pc[p] \/ (pc[p] = "opendev" /\ pc'[p] = "print")
  PROVE  CountInv'
<1>1. \A j \in Jobs : printed[j] \in Nat
  BY DEF Typed
<1>2. PrintedOnce'
  BY <1>1 DEF CountInv, PrintedOnce, Counters, CountersNow
<1>3. ASSUME NEW n \in Names, job'[n] # NoJob, ~OnPaper(job[n])'
      PROVE  printed'[job'[n]] <= crashes' + faults'
  <2>1. job'[n] = job[n] /\ job[n] \in Jobs /\ ~OnPaper(job[n])
    BY <1>3 DEF Typed, OnPaper
  <2> QED
    BY <1>1, <1>3, <2>1 DEF CountInv, Counters, CountersNow
<1>4. ASSUME NEW d \in Procs, pc'[d] \in {"opendev", "print"}, reading'[d] # NoJob
      PROVE  printed'[reading'[d]] <= crashes' + faults'
  BY <1>1, <1>4 DEF CountInv, Counters, CountersNow, Typed, Serving
<1>5. ASSUME NEW d \in Procs, pc'[d] \in Serving, reading'[d] # NoJob,
             NEW n \in Names, job'[n] = reading'[d]
      PROVE  n = best'[d]
  BY <1>5 DEF CountInv, Serving
<1> QED
  BY <1>2, <1>3, <1>4, <1>5 DEF CountInv

\* A crash, or a failing call, may leave a printed JOB_ file behind.
LEMMA CountRaised ==
  ASSUME Typed, CountInv, Counters, crashes' + faults' = crashes + faults + 1,
         UNCHANGED <<job, reading, printed, best>>,
         \A p \in Procs : pc'[p] \in Serving => pc'[p] = pc[p]
  PROVE  CountInv'
<1>1. ASSUME NEW j \in Jobs PROVE printed[j] \in Nat /\ printed'[j] <= crashes' + faults'
  <2>1. printed[j] \in Nat /\ printed[j] <= 1 + crashes + faults
    BY DEF Typed, CountInv, PrintedOnce
  <2>2. printed'[j] = printed[j]
    OBVIOUS
  <2>3. crashes \in Nat /\ faults \in Nat /\ crashes' + faults' = crashes + faults + 1
    BY DEF Counters, CountersNow
  <2> QED
    BY <2>1, <2>2, <2>3
<1>2. PrintedOnce'
  BY <1>1 DEF PrintedOnce, Counters, CountersNow
<1> QED
  BY <1>1, <1>2 DEF CountInv, Typed, Serving

LEMMA CountMade ==
  ASSUME Typed, Stored, CountInv, Counters, NEW p \in Procs,
         pc[p] \in {"copy", "freopen"}, pc' \in {[pc EXCEPT ![p] = l] : l \in {"write", "link"}},
         job' = [job EXCEPT ![name[p]] = Me(p)], crashes' = crashes, faults' >= faults,
         UNCHANGED <<reading, printed, best>>
  PROVE  CountInv'
<1>0. Ahead(Me(p)) /\ name[p] \in Names /\ Me(p) \in Jobs
  BY MeType DEF Ahead, Typed, Spooling
<1>1. Untouched(Me(p))
  BY <1>0 DEF Stored, AheadUntouched
<1>2. /\ \A j \in Jobs : printed[j] \in Nat
      /\ \A q \in Procs : pc'[q] \in Serving \/ pc[q] \in Serving => pc'[q] = pc[q]
      /\ \A n \in Names : n # name[p] => job'[n] = job[n]
      /\ job'[name[p]] = Me(p)
  BY <1>0 DEF Typed, Serving
<1>3. \A j \in Jobs : OnPaper(j) => OnPaper(j)'
  BY <1>2 DEF OnPaper, Serving
<1>4. PrintedOnce'
  BY <1>2 DEF CountInv, PrintedOnce, Counters, CountersNow
<1>5. ASSUME NEW n \in Names, job'[n] # NoJob, ~OnPaper(job[n])'
      PROVE  printed'[job'[n]] <= crashes' + faults'
  <2>1. CASE n = name[p]
    BY <1>1, <1>2, <2>1 DEF Untouched, Counters, CountersNow
  <2>2. CASE n # name[p]
    BY <1>2, <1>3, <1>5, <2>2 DEF CountInv, Counters, CountersNow, Typed
  <2> QED
    BY <2>1, <2>2
<1>6. ASSUME NEW d \in Procs, pc'[d] \in {"opendev", "print"}, reading'[d] # NoJob
      PROVE  printed'[reading'[d]] <= crashes' + faults'
  BY <1>2, <1>6 DEF CountInv, Counters, CountersNow, Typed, Serving
<1>7. ASSUME NEW d \in Procs, pc'[d] \in Serving, reading'[d] # NoJob,
             NEW n \in Names, job'[n] = reading'[d]
      PROVE  n = best'[d]
  BY <1>1, <1>2, <1>7 DEF CountInv, Untouched
<1> QED
  BY <1>4, <1>5, <1>6, <1>7 DEF CountInv

LEMMA CountOpenJob ==
  ASSUME Typed, Stored, OneDaemon, CountInv, NEW p \in Procs, OpenJob(p), Counters
  PROVE  CountInv'
<1>0. /\ UNCHANGED <<job, printed, best, crashes, faults>>
      /\ pc[p] = "openjob" /\ pc'[p] \in {"opendev", "rmjob"}
      /\ \A q \in Procs \ {p} : pc'[q] = pc[q] /\ reading'[q] = reading[q]
      /\ \/ best[p] \in Names /\ job[best[p]] # NoJob /\ reading'[p] = job[best[p]] /\ pc'[p] = "opendev"
         \/ reading'[p] = NoJob
  BY DEF OpenJob, Goto, Typed, scanVars, faultVars
<1>1. \A q \in Procs \ {p} : pc[q] \notin Holding /\ pc'[q] \notin Holding
  BY <1>0 DEF OneDaemon, Holding
<1>2. \A j : ~OnPaper(j) /\ (j # NoJob => ~OnPaper(j)')
  BY <1>0, <1>1 DEF OnPaper, Holding
<1>3. PrintedOnce'
  BY <1>0 DEF CountInv, PrintedOnce
<1>4. \A n \in Names : job[n] # NoJob => printed[job[n]] <= crashes + faults
  BY <1>2 DEF CountInv
<1>5. ASSUME NEW d \in Procs, pc'[d] \in Serving, reading'[d] # NoJob
      PROVE  d = p /\ best[p] \in Names /\ reading'[p] = job[best[p]]
  BY <1>0, <1>1, <1>5 DEF Serving, Holding
<1> QED
  BY <1>0, <1>3, <1>4, <1>5 DEF CountInv, Stored, Once, Serving

LEMMA CountEndPrint ==
  ASSUME Typed, Stored, OneDaemon, CountInv, NEW p \in Procs, EndPrint(p),
         reading[p] \in Jobs, Counters, faults' >= faults
  PROVE  CountInv'
<1>0. /\ UNCHANGED <<job, reading, best, crashes>>
      /\ pc[p] = "print" /\ pc'[p] = "rmjob"
      /\ \A q \in Procs \ {p} : pc'[q] = pc[q]
      /\ printed'[reading[p]] = printed[reading[p]] + 1
      /\ \A j \in Jobs : printed[j] \in Nat
      /\ \A j \in Jobs \ {reading[p]} : printed'[j] = printed[j]
  BY DEF EndPrint, Goto, Typed, scanVars, Fail, faultVars
<1>1. \A q \in Procs \ {p} : pc[q] \notin Holding /\ pc'[q] \notin Holding
  BY <1>0 DEF OneDaemon, Holding
<1>2. printed[reading[p]] <= crashes + faults
  BY <1>0, JobsType DEF CountInv
<1>3. PrintedOnce'
  BY <1>0, <1>2 DEF CountInv, PrintedOnce, Counters, CountersNow
<1>4. ASSUME NEW n \in Names, job'[n] # NoJob, ~OnPaper(job[n])'
      PROVE  printed'[job'[n]] <= crashes' + faults'
  <2>1. job[n] # reading[p] /\ job[n] \in Jobs
    BY <1>0, <1>4 DEF OnPaper, Typed
  <2>2. ~OnPaper(job[n])
    BY <1>0, <1>1, <1>4 DEF OnPaper, Holding
  <2> QED
    BY <1>0, <1>4, <2>1, <2>2 DEF CountInv, Counters, CountersNow
<1>5. ASSUME NEW d \in Procs, pc'[d] \in Serving PROVE d = p
  BY <1>1, <1>5 DEF Serving, Holding
<1> QED
  BY <1>0, <1>3, <1>4, <1>5 DEF CountInv, Serving

LEMMA CountRemoveJob ==
  ASSUME Typed, OneDaemon, CountInv, NEW p \in Procs, pc[p] = "rmjob", Goto(p, "rment"),
         job' = [n \in Names |-> IF n = best[p] THEN NoJob ELSE job[n]], Counters,
         UNCHANGED <<reading, printed, best, crashes, faults>>
  PROVE  CountInv'
<1>1. /\ \A q \in Procs \ {p} : pc[q] \notin Holding /\ pc'[q] \notin Holding
      /\ pc'[p] = "rment"
  BY DEF OneDaemon, Holding, Goto, Typed
<1>2. PrintedOnce'
  BY DEF CountInv, PrintedOnce
<1>3. ASSUME NEW n \in Names, job'[n] # NoJob
      PROVE  printed'[job'[n]] <= crashes' + faults'
  <2>1. job'[n] = job[n] /\ n # best[p]
    BY <1>3
  <2>2. ~OnPaper(job[n])
    BY <1>1, <1>3, <2>1 DEF OnPaper, CountInv, Holding, Serving
  <2> QED
    BY <1>3, <2>1, <2>2 DEF CountInv
<1>4. \A d \in Procs : pc'[d] \notin Serving
  BY <1>1 DEF Serving, Holding
<1> QED
  BY <1>2, <1>3, <1>4 DEF CountInv, Serving

LEMMA CountStep == TypeInv /\ OneDaemon /\ Stored /\ CountInv /\ [Next]_vars => CountInv'
<1> SUFFICES ASSUME TypeInv, OneDaemon, Stored, CountInv, [Next]_vars PROVE CountInv'
  OBVIOUS
<1>0. Typed /\ Typed' /\ Counters
  BY TypedStep, CountersType
<1>1. ASSUME NEW p \in Procs, Start(p) \/ LprStep(p) PROVE CountInv'
  <2>1. /\ UNCHANGED <<reading, printed, best, crashes>> /\ faults' >= faults
        /\ \A q \in Procs : pc'[q] = pc[q] \/ (pc[q] \notin Serving /\ pc'[q] \notin Serving)
    BY <1>0, <1>1 DEF Start, LprStep, Mktemp, NextFile, PutJob, Copy, Freopen, Write, LinkEntry,
       UnlinkPre, RemoveOriginal, Flush, Exec, Fail, Goto, Typed, Serving, Counters, CountersNow,
       printVars, scanVars, faultVars
  <2>2. CASE \A n \in Names : job'[n] \in {job[n], NoJob}
    BY <1>0, <2>1, <2>2, CountKept DEF Serving, Counters, CountersNow
  <2>3. CASE (Copy(p) \/ Freopen(p)) /\ job' = [job EXCEPT ![name[p]] = Me(p)]
    <3>1. /\ pc[p] \in {"copy", "freopen"}
          /\ Goto(p, "link") \/ Goto(p, "write") \/ UNCHANGED job
      BY <2>3 DEF Copy, Freopen
    <3>2. CASE Goto(p, "link") \/ Goto(p, "write")
      BY <1>0, <2>1, <2>3, <3>1, <3>2, CountMade DEF Goto
    <3> QED
      BY <1>0, <2>2, <3>1, <3>2 DEF Typed
  <2> QED
    BY <1>0, <1>1, <2>2, <2>3 DEF Start, LprStep, Mktemp, PutJob, Copy, Freopen, Write, LinkEntry,
       UnlinkPre, RemoveOriginal, Flush, Exec, Typed
<1>2. ASSUME NEW p \in Procs, OpenJob(p) PROVE CountInv'
  BY <1>0, <1>2, CountOpenJob
<1>3. ASSUME NEW p \in Procs, EndPrint(p) PROVE CountInv'
  <2>1. faults' >= faults
    BY <1>0, <1>3 DEF EndPrint, Fail, Counters, CountersNow, faultVars
  <2> QED
    BY <1>0, <1>3, <2>1, CountEndPrint DEF TypeInv, Filled, EndPrint
<1>4. ASSUME NEW p \in Procs, RemoveJob(p) PROVE CountInv'
  <2>1. UNCHANGED <<reading, printed, best, crashes>> /\ pc[p] = "rmjob" /\ Goto(p, "rment")
    BY <1>4 DEF RemoveJob, Fail, faultVars, printVars, scanVars
  <2>2. CASE UNCHANGED job /\ faults' = faults + 1
    BY <1>0, <2>1, <2>2, CountRaised DEF Goto, Typed, Counters, CountersNow, Serving
  <2>3. CASE UNCHANGED faults
    BY <1>0, <1>4, <2>1, <2>2, <2>3, CountRemoveJob DEF RemoveJob, Fail
  <2> QED
    BY <1>4, <2>2, <2>3 DEF RemoveJob, Fail, faultVars
<1>5. ASSUME NEW p \in Procs, TestLock(p) \/ MakeLock(p) \/ Chdir(p) \/ OpenDir(p)
                   \/ ReadEntry(p) \/ EndOfDir(p) \/ OpenDevice(p) \/ PrintBlock(p)
                   \/ RemoveEntry(p) \/ Abort(p)
      PROVE CountInv'
  <2>1. UNCHANGED <<reading, printed, job, crashes>> /\ faults' >= faults
    BY <1>0, <1>5 DEF TestLock, MakeLock, Chdir, OpenDir, ReadEntry, EndOfDir, OpenDevice,
       PrintBlock, RemoveEntry, Abort, Fail, Counters, CountersNow, printVars, faultVars
  <2>2. \A q \in Procs \ {p} : pc'[q] = pc[q] /\ best'[q] = best[q]
    BY <1>0, <1>5 DEF TestLock, MakeLock, Chdir, OpenDir, ReadEntry, EndOfDir, OpenDevice,
       PrintBlock, RemoveEntry, Abort, Release, Goto, Typed, scanVars
  <2>3. /\ pc[p] # "rmjob"
        /\ pc'[p] \in Serving =>
              /\ best'[p] = best[p]
              /\ pc'[p] = pc[p] \/ (pc[p] = "opendev" /\ pc'[p] = "print")
    BY <1>0, <1>5 DEF TestLock, MakeLock, Chdir, OpenDir, ReadEntry, EndOfDir, OpenDevice,
       PrintBlock, RemoveEntry, Abort, Release, Goto, Typed, Serving, scanVars
  <2> QED
    BY <1>0, <2>1, <2>2, <2>3, CountKept DEF Counters, CountersNow
<1>6. ASSUME NEW p \in Procs, Kill(p) PROVE CountInv'
  BY <1>0, <1>6, CountRaised DEF Kill, Goto, Typed, Counters, CountersNow, Serving, printVars, scanVars
<1>7. CASE Reboot
  BY <1>0, <1>7, CountRaised DEF Reboot, Typed, Counters, CountersNow, Serving, printVars, scanVars
<1>8. CASE UNCHANGED vars
  BY <1>0, <1>8, CountKept DEF vars, printVars, scanVars, faultVars, Counters, CountersNow
<1> QED
  BY <1>1, <1>2, <1>3, <1>4, <1>5, <1>6, <1>7, <1>8 DEF Next, LpdStep

\* A file is on paper more than once only because of a kill, a reboot or a
\* failing call, whichever calls may fail.
THEOREM PrintedOnceTheorem == Spec => []PrintedOnce
<1>1. CountInv => PrintedOnce
  BY DEF CountInv
<1> QED
  BY TypeInit, TypeStep, MutexInit, MutexStep, StoredInit, StoredStep, CountInit, CountStep,
     <1>1, PTL DEF Spec

-----------------------------------------------------------------------------
(* The text of a job *)

\* The text of a file is whole as soon as its JOB_ file is there; only the
\* text of standard input grows afterwards.
WholeInv ==
    /\ \A p \in Procs : pc[p] \in {"freopen", "write", "flush"} => p \in Stdin
    /\ \A n \in Names : job[n] # NoJob /\ n[1] \notin Stdin => text[job[n]] = Blocks
    /\ \A d \in Procs : pc[d] \in Serving /\ reading[d] # NoJob /\ reading[d][1] \notin Stdin
          => text[reading[d]] = Blocks
    /\ WholeFiles

LEMMA WholeInit == Init => WholeInv
  BY DEF Init, WholeInv, WholeFiles, Serving

LEMMA WholeKept ==
  ASSUME Typed, Stored, WholeInv,
         \A j \in Jobs : j[1] \notin Stdin => text'[j] \in {text[j], Blocks},
         \A n \in Names : job'[n] \in {job[n], NoJob} \/ n[1] \in Stdin \/ text'[job'[n]] = Blocks,
         \A d \in Procs : pc'[d] \in Serving =>
            \/ reading'[d] \in {NoJob} \cup {job[n] : n \in Names}
            \/ pc[d] \in Serving /\ reading'[d] = reading[d],
         \A p \in Procs : pc'[p] \in {"freopen", "write", "flush"} =>
            pc[p] \in {"freopen", "write", "flush"} \/ p \in Stdin,
         \A j \in cut' \ cut : j[1] \in Stdin
  PROVE  WholeInv'
<1>1. ASSUME NEW j \in Jobs, j[1] \notin Stdin, text[j] = Blocks PROVE text'[j] = Blocks
  BY <1>1
<1>2. \A n \in Names : (job[n] # NoJob)' /\ n[1] \notin Stdin => (text[job[n]] = Blocks)'
  <2> SUFFICES ASSUME NEW n \in Names, (job[n] # NoJob)', n[1] \notin Stdin
               PROVE  (text[job[n]] = Blocks)'
    OBVIOUS
  <2>1. CASE job'[n] = job[n]
    <3>1. job[n] \in Jobs /\ job[n][1] = n[1] /\ text[job[n]] = Blocks
      BY <2>1 DEF Typed, Stored, JobsOwn, WholeInv
    <3> QED
      BY <1>1, <2>1, <3>1
  <2> QED
    BY <2>1
<1>3. ASSUME NEW d \in Procs, pc'[d] \in Serving, reading'[d] # NoJob, reading'[d][1] \notin Stdin
      PROVE  text'[reading'[d]] = Blocks
  <2>1. CASE pc[d] \in Serving /\ reading'[d] = reading[d]
    BY <1>1, <1>3, <2>1 DEF Typed, WholeInv
  <2>2. CASE reading'[d] \in {job[n] : n \in Names}
    <3>1. PICK n \in Names : reading'[d] = job[n]
      BY <2>2
    <3>2. job[n] \in Jobs /\ job[n][1] = n[1] /\ text[job[n]] = Blocks
      BY <1>3, <3>1 DEF Typed, Stored, JobsOwn, WholeInv
    <3> QED
      BY <1>1, <1>3, <3>1, <3>2
  <2> QED
    BY <1>3, <2>1, <2>2
<1>4. \A p \in Procs : pc'[p] \in {"freopen", "write", "flush"} => p \in Stdin
  BY DEF WholeInv
<1>5. WholeFiles'
  BY DEF WholeInv, WholeFiles
<1> QED
  BY <1>2, <1>3, <1>4, <1>5 DEF WholeInv

LEMMA WholeStep ==
  ASSUME "copy" \notin FaultKinds, "print" \notin FaultKinds
  PROVE  TypeInv /\ Stored /\ WholeInv /\ [Next]_vars => WholeInv'
<1> SUFFICES ASSUME TypeInv, Stored, WholeInv, [Next]_vars PROVE WholeInv'
  OBVIOUS
<1>0. Typed /\ Typed' /\ text \in [Jobs -> 0..Blocks]
  BY TypedStep DEF TypeInv, TypeOK, DirType
<1>1. ASSUME NEW p \in Procs, Start(p) \/ LprStep(p) PROVE WholeInv'
  <2>1. reading' = reading /\ cut' = cut
    BY <1>1 DEF Start, LprStep, Mktemp, PutJob, Copy, Freopen, Write, LinkEntry,
       UnlinkPre, RemoveOriginal, Flush, Exec, printVars
  <2>2. \A q \in Procs :
           /\ pc'[q] \in Serving => pc[q] \in Serving
           /\ pc'[q] \in {"freopen", "write", "flush"} =>
                 pc[q] \in {"freopen", "write", "flush"} \/ q \in Stdin
    BY <1>0, <1>1 DEF Start, LprStep, Mktemp, NextFile, PutJob, Copy, Freopen, Write,
       LinkEntry, UnlinkPre, RemoveOriginal, Flush, Exec, Goto, Typed, Serving
  <2>6. /\ \A d \in Procs : pc'[d] \in Serving => pc[d] \in Serving /\ reading'[d] = reading[d]
        /\ \A j \in cut' \ cut : j[1] \in Stdin
    BY <2>1, <2>2
  <2>3. CASE ~(Copy(p) \/ Freopen(p) \/ Write(p) \/ Flush(p))
    <3>1. UNCHANGED text /\ \A n \in Names : job'[n] \in {job[n], NoJob}
      BY <1>0, <1>1, <2>3 DEF Start, LprStep, Mktemp, PutJob, LinkEntry,
         UnlinkPre, RemoveOriginal, Exec, Typed
    <3> QED
      BY <1>0, <2>2, <2>6, <3>1, WholeKept
  <2>4. CASE Copy(p)
    <3>1. /\ job' = [job EXCEPT ![name[p]] = Me(p)] /\ text' = [text EXCEPT ![Me(p)] = Blocks]
          /\ Me(p) \in Jobs /\ name[p] \in Names
      BY <1>0, <2>4 DEF Copy, Fail, Typed, Spooling
    <3>2. \A j \in Jobs : text'[j] \in {text[j], Blocks}
      BY <1>0, <3>1
    <3>3. \A n \in Names : job'[n] = job[n] \/ text'[job'[n]] = Blocks
      BY <1>0, <3>1 DEF Typed
    <3> QED
      BY <1>0, <2>2, <2>6, <3>2, <3>3, WholeKept
  <2>5. CASE Freopen(p) \/ Write(p) \/ Flush(p)
    <3>1. p \in Stdin /\ Me(p) \in Jobs /\ Me(p)[1] = p /\ name[p][1] = p
      BY <1>0, <2>5, MeType, NamesType
      DEF WholeInv, Freopen, Write, Flush, Typed, Spooling, Stored, NamesOwn
    <3>2. \A j \in Jobs : j # Me(p) => text'[j] = text[j]
      BY <1>0, <2>5, <3>1 DEF Freopen, Write, Flush
    <3>3. \A n \in Names : n # name[p] => job'[n] = job[n]
      BY <1>0, <2>5 DEF Freopen, Write, Flush, Typed
    <3>4. /\ \A j \in Jobs : j[1] \notin Stdin => text'[j] \in {text[j], Blocks}
          /\ \A n \in Names : job'[n] \in {job[n], NoJob} \/ n[1] \in Stdin
      BY <3>1, <3>2, <3>3
    <3> QED
      BY <1>0, <2>2, <2>6, <3>4, WholeKept
  <2> QED
    BY <2>3, <2>4, <2>5
<1>2. ASSUME NEW p \in Procs, LpdStep(p) PROVE WholeInv'
  <2>1. /\ UNCHANGED text /\ \A n \in Names : job'[n] \in {job[n], NoJob}
        /\ \A q \in Procs : pc'[q] \notin {"freopen", "write", "flush"} \/ pc'[q] = pc[q]
    BY <1>0, <1>2 DEF LpdStep, TestLock, MakeLock, Chdir, OpenDir, ReadEntry, EndOfDir,
       OpenJob, OpenDevice, PrintBlock, EndPrint, RemoveJob, RemoveEntry, Abort, Release,
       Goto, Typed
  <2>2. CASE EndPrint(p)
    <3>1. /\ pc[p] = "print" /\ reading[p] \in Jobs /\ UNCHANGED reading
          /\ cut' = IF got[p] < Blocks THEN cut \cup {reading[p]} ELSE cut
          /\ got[p] = text[reading[p]]
      BY <2>2 DEF EndPrint, Fail, TypeInv, Filled
    <3>2. reading[p][1] \in Stdin \/ cut' = cut
      <4>1. Blocks \in Nat
        BY BlocksType
      <4>2. reading[p] # NoJob
        BY <3>1, JobsType
      <4> QED
        BY <3>1, <4>1, <4>2 DEF WholeInv, Serving
    <3>3. \A q \in Procs : pc'[q] \in Serving => pc[q] \in Serving
      BY <1>0, <2>2 DEF EndPrint, Goto, Typed, Serving
    <3>4. \A j \in cut' \ cut : j[1] \in Stdin
      BY <3>1, <3>2
    <3> QED
      BY <1>0, <2>1, <3>1, <3>3, <3>4, WholeKept
  <2>3. CASE OpenJob(p)
    <3>1. /\ UNCHANGED cut
          /\ \A q \in Procs : pc'[q] \in Serving =>
                \/ pc[q] \in Serving /\ reading'[q] = reading[q]
                \/ reading'[q] \in {NoJob} \cup {job[n] : n \in Names}
      BY <1>0, <2>3 DEF OpenJob, Goto, Typed
    <3> QED
      BY <1>0, <2>1, <3>1, WholeKept
  <2>4. CASE ~EndPrint(p) /\ ~OpenJob(p)
    <3>1. UNCHANGED <<cut, reading>>
      BY <1>2, <2>4 DEF LpdStep, TestLock, MakeLock, Chdir, OpenDir, ReadEntry, EndOfDir,
         OpenDevice, PrintBlock, RemoveJob, RemoveEntry, Abort, printVars
    <3>2. \A q \in Procs : pc'[q] \in Serving => pc[q] \in Serving
      BY <1>0, <1>2, <2>4 DEF LpdStep, TestLock, MakeLock, Chdir, OpenDir, ReadEntry, EndOfDir,
         OpenDevice, PrintBlock, RemoveJob, RemoveEntry, Abort, Release, Goto, Typed, Serving
    <3> QED
      BY <1>0, <2>1, <3>1, <3>2, WholeKept
  <2> QED
    BY <2>2, <2>3, <2>4
<1>3. ASSUME NEW p \in Procs, Kill(p) PROVE WholeInv'
  BY <1>0, <1>3, WholeKept DEF Kill, Goto, Typed, Serving, printVars
<1>4. CASE Reboot
  BY <1>0, <1>4, WholeKept DEF Reboot, Serving, printVars
<1>5. CASE UNCHANGED vars
  BY <1>0, <1>5, WholeKept DEF vars, printVars
<1> QED
  BY <1>1, <1>2, <1>3, <1>4, <1>5 DEF Next

\* Only standard input is printed short of its text, when rgcopy and the
\* device do not fail; every other fault and any kill is allowed.
THEOREM WholeFilesTheorem ==
  ASSUME "copy" \notin FaultKinds, "print" \notin FaultKinds
  PROVE  Spec => []WholeFiles
<1>1. WholeInv => WholeFiles
  BY DEF WholeInv
<1>2. TypeInv /\ Stored /\ WholeInv /\ [Next]_vars => WholeInv'
  BY WholeStep
<1> QED
  BY TypeInit, TypeStep, StoredInit, StoredStep, WholeInit, <1>1, <1>2, PTL DEF Spec

-----------------------------------------------------------------------------
(* Who may touch the JOB_ file of an entry *)

\* An lpr that has a name it has not entered, or may still ask for one.
Handing == {"put", "copy", "freopen", "write", "link"}
Spools(p) == pc[p] \in {"mktemp"} \cup Spooling

\* An entry without its JOB_ file, whose name its lpr may get again or has got.
Orphan(n) ==
    /\ n \in Queue
    /\ Spools(n[1])
    /\ job[n] = NoJob \/ (pc[n[1]] \in Handing /\ name[n[1]] = n)

\* The lock keeps daemons away from n: the one that has it stands between the
\* unlinks of rmv_job, or died there.
Guarded(n) == lock /\ \A d \in Procs : pc[d] \in Holding => pc[d] = "rment" /\ best[d] = n

OrphanInv ==
    /\ \A n \in Names : Orphan(n) => Guarded(n)
    /\ \A m, n \in Names : Orphan(m) /\ Orphan(n) => m = n
    /\ \A n \in Queue : pc[n[1]] # "idle"

\* The daemon at work has an entry that is in the queue.
Picked(d) == pc[d] \in Serving \cup {"openjob", "rment"} \/ (pc[d] = "read" /\ maxpri[d] # -1)
BestQueued == \A d \in Procs : Picked(d) => best[d] \in Queue

ReadingInv ==
    \A d \in Procs :
        /\ pc[d] \in Serving => job[best[d]] = reading[d]
        /\ pc[d] = "rmjob" /\ reading[d] # NoJob => printed[reading[d]] > 0
        /\ pc[d] = "rment" /\ job[best[d]] # NoJob => job[best[d]] \notin entered

LinkInv ==
    \A p \in Procs :
        /\ pc[p] \in {"write", "link"} => job[name[p]] = Me(p) /\ printed[Me(p)] = 0
        /\ pc[p] \in {"unpre", "rm", "flush"} => Me(p) \in entered

\* A text behind an entry that was not made for it: its lpr has yet to find
\* that out, or is dead.
Strays ==
    \A n \in Queue :
        job[n] # NoJob /\ job[n] \notin entered =>
            pc[n[1]] = "dead" \/ (pc[n[1]] \in {"write", "link"} /\ name[n[1]] = n)

EnteredKept ==
    /\ gone \subseteq entered
    /\ \A j \in entered : printed[j] > 0 \/ Queued(j)

KeptInv == OrphanInv /\ BestQueued /\ ReadingInv /\ LinkInv /\ Strays /\ EnteredKept

\* rgcopy, the unlinks and opendir do not fail: what happens to a queued text
\* when they do is another matter.
SafeFaults == FaultKinds \cap {"copy", "unpre", "opendir", "unlink"} = {}

LEMMA QueueType == Typed /\ ent \in [Slots -> Names \cup {NoName}] => Queue \subseteq Names
  BY DEF Queue

LEMMA KeptInit == Init => KeptInv
<1> SUFFICES ASSUME Init PROVE KeptInv
  OBVIOUS
<1>1. Queue = {}
  BY DEF Init, Queue
<1>2. OrphanInv /\ BestQueued /\ Strays
  BY <1>1 DEF Init, OrphanInv, Orphan, BestQueued, Picked, Strays, Serving
<1>3. ReadingInv /\ LinkInv /\ EnteredKept
  BY DEF Init, ReadingInv, LinkInv, EnteredKept, Serving
<1> QED
  BY <1>2, <1>3 DEF KeptInv

\* While a daemon serves an entry, no lpr has its name in hand.
LEMMA HandingApart ==
  ASSUME Typed, Stored, OrphanInv, BestQueued, NEW q \in Procs, pc[q] \in Handing,
         NEW d \in Procs, pc[d] \in Serving
  PROVE  name[q] \in Names /\ name[q] # best[d]
<1>1. name[q] \in Names /\ name[q][1] = q
  BY NamesType DEF Typed, Handing, Spooling, Stored, NamesOwn
<1>2. SUFFICES ASSUME name[q] = best[d] PROVE FALSE
  BY <1>1
<1>3. name[q] \in Queue
  BY <1>2 DEF BestQueued, Picked
<1>4. Orphan(name[q])
  BY <1>1, <1>3 DEF Orphan, Spools, Handing, Spooling
<1>5. Guarded(name[q])
  BY <1>1, <1>4 DEF OrphanInv
<1> QED
  BY <1>5 DEF Guarded, Serving, Holding

\* A daemon at work elsewhere than between the unlinks: there are no orphans.
LEMMA NoOrphan ==
  ASSUME OrphanInv, NEW d \in Procs, pc[d] \in Holding \ {"rment"}
  PROVE  \A n \in Names : ~Orphan(n)
  BY DEF OrphanInv, Guarded

\* A step that makes no orphan and brings no daemon to work.
LEMMA OrphanSame ==
  ASSUME OrphanInv, lock' = lock, best' = best, 
         \A d \in Procs : pc'[d] \in Holding => pc'[d] = pc[d],
         \A n \in Names : Orphan(n)' => Orphan(n),
         \A n \in Queue' : pc'[n[1]] # "idle"
  PROVE  OrphanInv'
  BY DEF OrphanInv, Guarded

LEMMA OrphanNone ==
  ASSUME \A n \in Names : ~Orphan(n)', \A n \in Queue' : pc'[n[1]] # "idle"
  PROVE  OrphanInv'
  BY DEF OrphanInv

LEMMA OrphanLpr ==
  ASSUME TypeInv, Typed, Typed', Stored, KeptInv, SafeFaults, NEW p \in Procs, Start(p) \/ LprStep(p)
  PROVE  OrphanInv'
<1>0. /\ lock' = lock /\ best' = best /\ \A q \in Procs \ {p} : pc'[q] = pc[q] /\ name'[q] = name[q]
      /\ pc[p] \notin Holding /\ pc'[p] \notin Holding
      /\ pc'[p] # "idle" /\ (pc[p] = "idle" => pc'[p] = "mktemp" /\ ent' = ent)
  BY DEF Start, LprStep, Mktemp, NextFile, PutJob, Copy, Freopen, Write, LinkEntry, UnlinkPre,
     RemoveOriginal, Flush, Exec, Goto, Typed, Holding, scanVars, lprVars
<1>1. ent \in [Slots -> Names \cup {NoName}] /\ Queue \subseteq Names
  BY DEF TypeInv, TypeOK, DirType, Queue
<1>2. ASSUME UNCHANGED ent, \A n \in Names : n[1] = p /\ Orphan(n)' => Orphan(n),
             \A n \in Names : n[1] # p => job'[n] = job[n]
      PROVE  OrphanInv'
  <2>1. Queue' = Queue
    BY <1>2 DEF Queue
  <2>2. \A n \in Names : Orphan(n)' => Orphan(n)
    BY <1>0, <1>2, <2>1, NamesType DEF Orphan, Spools
  <2>3. \A n \in Queue' : pc'[n[1]] # "idle"
    BY <1>0, <1>1, <2>1, NamesType DEF KeptInv, OrphanInv
  <2> QED
    BY <1>0, <2>2, <2>3, OrphanSame DEF KeptInv
<1>3. CASE Start(p)
  <2>1. \A n \in Names : n[1] = p => ~Orphan(n)'
    BY <1>1, <1>3 DEF Start, Orphan, KeptInv, OrphanInv, Queue
  <2> QED
    BY <1>2, <1>3, <2>1 DEF Start
<1>4. CASE Mktemp(p)
  <2>1. /\ UNCHANGED <<ent, job>> /\ pc[p] = "mktemp"
        /\ pc'[p] \in Handing => job[name'[p]] = NoJob
    <3>1. UNCHANGED <<ent, job>> /\ pc[p] = "mktemp" /\ (Goto(p, "done") => pc'[p] = "done")
      BY <1>4 DEF Mktemp, Goto, Typed
    <3> QED
      BY <1>4, <3>1, MktempCases DEF Named, Handing
  <2>2. Queue' = Queue
    BY <2>1 DEF Queue
  <2>3. \A n \in Names : n[1] = p /\ Orphan(n)' => Orphan(n)
    BY <2>1, <2>2 DEF Orphan, Spools
  <2> QED
    BY <1>2, <2>1, <2>3
<1>5. CASE PutJob(p) \/ RemoveOriginal(p) \/ Flush(p) \/ Exec(p) \/ UnlinkPre(p)
  <2>1. /\ UNCHANGED <<ent, job, name>>
        /\ Spools(p) \/ ~Spools(p)'
        /\ pc'[p] \in Handing => pc[p] \in Handing
    BY <1>5 DEF PutJob, RemoveOriginal, NextFile, Flush, Exec, UnlinkPre, SafeFaults, Fail, Goto,
       Typed, Spools, Handing, Spooling, lprVars
  <2>2. Queue' = Queue
    BY <2>1 DEF Queue
  <2> QED
    BY <1>2, <2>1, <2>2 DEF Orphan, Spools
<1>6. CASE Copy(p) \/ Freopen(p) \/ Write(p)
  <2>1. /\ UNCHANGED <<ent, name>> /\ pc[p] \in Handing /\ name[p] \in Names
        /\ pc'[p] = "done" \/ pc'[p] \in Handing
        /\ \A n \in Names \ {name[p]} : job'[n] = job[n]
    BY <1>6 DEF Copy, Freopen, Write, SafeFaults, Fail, Goto,
       Typed, Handing, Spooling, lprVars
  <2>2. Queue' = Queue
    BY <2>1 DEF Queue
  <2>3. \A n \in Names : n[1] = p /\ Orphan(n)' => Orphan(n)
    BY <2>1, <2>2 DEF Orphan, Spools, Handing, Spooling
  <2> QED
    BY <1>2, <2>1, <2>3, NamesType DEF Stored, NamesOwn
<1>7. CASE LinkEntry(p)
  <2>0. name[p] \in Names /\ name[p][1] = p /\ name' = name
    BY <1>7, NamesType DEF Typed, Spooling, Stored, NamesOwn, LinkEntry
  <2>1. CASE name[p] \in Queue
    <3>1. /\ UNCHANGED ent /\ pc'[p] = "done" /\ \A n \in Names \ {name[p]} : job'[n] = job[n]
      BY <1>7, <2>1 DEF LinkEntry, Goto, Typed
    <3>2. \A n \in Names : n[1] = p => ~Orphan(n)'
      BY <3>1 DEF Orphan, Spools, Spooling
    <3> QED
      BY <1>2, <2>0, <3>1, <3>2
  <2>2. CASE name[p] \notin Queue
    <3>1. PICK s \in Slots : ent[s] = NoName /\ ent' = [ent EXCEPT ![s] = name[p]]
      BY <1>7, <2>2 DEF LinkEntry
    <3>2. Queue' = Queue \cup {name[p]}
      BY <1>1, <2>0, <3>1, NamesType DEF Queue
    <3>3. job' = job /\ pc[p] = "link" /\ pc'[p] = "unpre"
      BY <1>7, <2>2 DEF LinkEntry, Goto, Typed
    <3>4. job[name[p]] # NoJob
      BY <3>3, JobsType DEF KeptInv, LinkInv, Typed
    <3>5. \A n \in Names : Orphan(n)' => Orphan(n)
      <4>1. ASSUME NEW n \in Names, Orphan(n)' PROVE n # name[p] /\ n \in Queue
        BY <2>0, <3>2, <3>3, <3>4, <4>1 DEF Orphan, Handing
      <4>2. ASSUME NEW n \in Names, n[1] = p, Orphan(n)' PROVE Orphan(n)
        BY <2>0, <3>3, <4>1, <4>2 DEF Orphan, Spools, Handing, Spooling
      <4>3. ASSUME NEW n \in Names, n[1] # p, Orphan(n)' PROVE Orphan(n)
        BY <1>0, <3>3, <4>1, <4>3, NamesType DEF Orphan, Spools
      <4> QED
        BY <4>2, <4>3
    <3>6. \A n \in Queue' : pc'[n[1]] # "idle"
      BY <1>0, <1>1, <2>0, <3>2, NamesType DEF KeptInv, OrphanInv
    <3> QED
      BY <1>0, <3>5, <3>6, OrphanSame DEF KeptInv
  <2> QED
    BY <2>1, <2>2
<1> QED
  BY <1>3, <1>4, <1>5, <1>6, <1>7 DEF LprStep

LEMMA OrphanLpd ==
  ASSUME TypeInv, Typed, Typed', OneDaemon, KeptInv, SafeFaults, NEW p \in Procs, LpdStep(p)
  PROVE  OrphanInv'
<1>0. /\ name' = name /\ \A q \in Procs \ {p} : pc'[q] = pc[q] /\ best'[q] = best[q]
      /\ ~Spools(p) /\ ~Spools(p)' /\ pc'[p] # "idle" /\ pc[p] # "idle"
  BY DEF LpdStep, TestLock, MakeLock, Chdir, OpenDir, ReadEntry, EndOfDir, OpenJob, OpenDevice,
     PrintBlock, EndPrint, RemoveJob, RemoveEntry, Abort, Release, Goto, Typed, Spools, Spooling,
     lprVars, scanVars
<1>1. ent \in [Slots -> Names \cup {NoName}] /\ Queue \subseteq Names
  BY DEF TypeInv, TypeOK, DirType, Queue
<1>2. ASSUME Queue' \subseteq Queue PROVE \A n \in Queue' : pc'[n[1]] # "idle"
  BY <1>0, <1>1, <1>2, NamesType DEF KeptInv, OrphanInv
<1>3. ASSUME UNCHANGED <<ent, job>> PROVE \A n \in Names : Orphan(n)' => Orphan(n)
  <2>1. Queue' = Queue /\ job' = job
    BY <1>3 DEF Queue
  <2> QED
    BY <1>0, <2>1, NamesType DEF Orphan, Spools
<1>4. CASE TestLock(p)
  BY <1>0, <1>2, <1>3, <1>4, OrphanSame DEF TestLock, Goto, Typed, Holding, KeptInv, Queue, scanVars
<1>5. CASE MakeLock(p)
  <2>1. UNCHANGED <<ent, job, best>> /\ Queue' = Queue
    BY <1>5 DEF MakeLock, scanVars, Queue
  <2>2. CASE lock
    BY <1>0, <1>2, <1>3, <1>5, <2>1, <2>2, OrphanSame DEF MakeLock, Goto, Typed, Holding, KeptInv
  <2>3. CASE ~lock
    BY <1>2, <1>3, <2>1, <2>3, OrphanNone DEF KeptInv, OrphanInv, Guarded
  <2> QED
    BY <2>2, <2>3
<1>6. CASE pc[p] \in Holding \ {"rment"} /\ UNCHANGED <<ent, job>>
  <2>1. Queue' = Queue
    BY <1>6 DEF Queue
  <2> QED
    BY <1>2, <1>3, <1>6, <2>1, NoOrphan, OrphanNone DEF KeptInv
<1>7. CASE RemoveJob(p)
  <2>1. /\ job' = [n \in Names |-> IF n = best[p] THEN NoJob ELSE job[n]] /\ ent' = ent
        /\ pc[p] = "rmjob" /\ pc'[p] = "rment" /\ lock' = lock /\ best' = best
    BY <1>7 DEF RemoveJob, Fail, SafeFaults, Goto, Typed, scanVars
  <2>2. Queue' = Queue
    BY <2>1 DEF Queue
  <2>3. \A n \in Names : ~Orphan(n)
    BY <2>1, NoOrphan DEF KeptInv, Holding
  <2>4. \A n \in Names : Orphan(n)' => n = best[p]
    BY <1>0, <2>1, <2>2, <2>3, NamesType DEF Orphan, Spools
  <2>5. Guarded(best[p])'
    BY <1>0, <2>1 DEF Guarded, OneDaemon, LockHeld, Holding
  <2>6. \A n \in Queue' : pc'[n[1]] # "idle"
    BY <1>2, <2>2
  <2>7. \A n \in Names : n = best[p] => Guarded(n)'
    BY <2>1, <2>5 DEF Guarded
  <2> QED
    BY <2>4, <2>6, <2>7 DEF OrphanInv
<1>8. CASE RemoveEntry(p)
  <2>1. /\ ent' = [s \in Slots |-> IF ent[s] = best[p] THEN NoName ELSE ent[s]]
        /\ pc[p] = "rment" /\ job' = job
    BY <1>8 DEF RemoveEntry, Fail, SafeFaults
  <2>2. Queue' = Queue \ {best[p]}
    BY <1>1, <2>1 DEF Queue
  <2>3. \A n \in Names : Orphan(n) => n = best[p]
    BY <2>1 DEF KeptInv, OrphanInv, Guarded, Holding
  <2>4. \A n \in Names : Orphan(n)' => Orphan(n) /\ n # best[p]
    BY <1>0, <2>1, <2>2, NamesType DEF Orphan, Spools
  <2> QED
    BY <1>2, <2>2, <2>3, <2>4, OrphanNone
<1> QED
  BY <1>4, <1>5, <1>6, <1>7, <1>8
  DEF LpdStep, Chdir, OpenDir, ReadEntry, EndOfDir, OpenJob, OpenDevice,
      PrintBlock, EndPrint, Abort, Holding

-----------------------------------------------------------------------------
(* What a step of lpr and of lpd does to the queue *)

\* Nothing a step of lpr does reaches the other processes and the daemons.
LprOthers(p) ==
    /\ best' = best /\ maxpri' = maxpri /\ reading' = reading /\ printed' = printed
    /\ \A q \in Procs \ {p} : pc'[q] = pc[q] /\ name'[q] = name[q] /\ Me(q)' = Me(q)
    /\ pc[p] \notin Holding \cup {"dead"} /\ pc'[p] \notin Holding
    /\ gone' \subseteq gone \cup {Me(q) : q \in {r \in {p} : pc[r] = "rm"}}

\* lpr leaves JOB_ and ENT_ files alone, ...
Quiet(p) ==
    /\ job' = job /\ entered' = entered /\ Queue' = Queue
    /\ pc'[p] \in {"write", "link"} <=> pc[p] \in {"write", "link"}
    /\ pc'[p] \in {"write", "link"} => name'[p] = name[p] /\ Me(p)' = Me(p)
    /\ pc'[p] \in {"unpre", "rm", "flush"} => pc[p] = "unpre" /\ Me(p)' = Me(p)

\* ... makes its JOB_ file, ...
Made(p) ==
    /\ pc[p] \in {"copy", "freopen"} /\ pc'[p] \in {"write", "link"}
    /\ job' = [job EXCEPT ![name[p]] = Me(p)]
    /\ entered' = entered /\ Queue' = Queue /\ name' = name /\ Me(p)' = Me(p)

\* ... withdraws it, ...
Withdrawn(p) ==
    /\ pc[p] \in {"write", "link"} /\ pc'[p] = "done"
    /\ job' = [job EXCEPT ![name[p]] = NoJob]
    /\ entered' = entered /\ Queue' = Queue /\ name' = name

\* ... or links its ENT_ file.
Linked(p) ==
    /\ pc[p] = "link" /\ pc'[p] = "unpre" /\ name[p] \notin Queue
    /\ job' = job /\ entered' = entered \cup {Me(p)} /\ Queue' = Queue \cup {name[p]}
    /\ name' = name /\ Me(p)' = Me(p)

LEMMA LprEffects ==
  ASSUME TypeInv, Typed, SafeFaults, NEW p \in Procs, Start(p) \/ LprStep(p)
  PROVE  LprOthers(p) /\ (Quiet(p) \/ Made(p) \/ Withdrawn(p) \/ Linked(p))
<1>1. LprOthers(p)
  <2>1. /\ best' = best /\ maxpri' = maxpri /\ reading' = reading /\ printed' = printed
        /\ pc[p] \notin Holding \cup {"dead"}
    BY DEF Start, LprStep, Mktemp, PutJob, Copy, Freopen, Write, LinkEntry,
       UnlinkPre, RemoveOriginal, Flush, Exec, scanVars, printVars, Holding
  <2>2. /\ \A q \in Procs \ {p} : pc'[q] = pc[q] /\ name'[q] = name[q] /\ Me(q)' = Me(q)
        /\ pc'[p] \notin Holding
    BY DEF Start, LprStep, Mktemp, NextFile, PutJob, Copy, Freopen, Write, LinkEntry,
       UnlinkPre, RemoveOriginal, Flush, Exec, lprVars, Holding, Goto, Typed, Me
  <2>3. gone' = gone \/ (pc[p] = "rm" /\ gone' = gone \cup {Me(p)})
    BY DEF Start, LprStep, Mktemp, PutJob, Copy, Freopen, Write, LinkEntry,
       UnlinkPre, RemoveOriginal, Flush, Exec, lprVars
  <2> QED
    BY <2>1, <2>2, <2>3 DEF LprOthers
<1>2. ent' = ent => Queue' = Queue
  BY DEF Queue
<1>3. CASE Start(p) \/ Mktemp(p) \/ PutJob(p) \/ UnlinkPre(p) \/ RemoveOriginal(p) \/ Flush(p) \/ Exec(p)
  <2>1. job' = job /\ entered' = entered /\ ent' = ent
    BY <1>3 DEF Start, Mktemp, PutJob, UnlinkPre, RemoveOriginal, Flush, Exec, SafeFaults, Fail, lprVars
  <2>2. /\ pc[p] \notin {"write", "link"} /\ pc'[p] \notin {"write", "link"}
        /\ pc'[p] \in {"unpre", "rm", "flush"} => pc[p] = "unpre" /\ Me(p)' = Me(p)
    BY <1>3 DEF Start, Mktemp, NextFile, PutJob, UnlinkPre, RemoveOriginal, Flush, Exec, Goto, Typed, Me
  <2> QED
    BY <1>1, <1>2, <2>1, <2>2 DEF Quiet
<1>4. CASE Copy(p) \/ Freopen(p) \/ Write(p)
  <2>1. name' = name /\ arg' = arg /\ entered' = entered /\ ent' = ent
    BY <1>4 DEF Copy, Freopen, Write, lprVars
  <2>2. Me(p)' = Me(p)
    BY <2>1 DEF Me
  <2>3. CASE Copy(p)
    BY <1>1, <1>2, <2>1, <2>2, <2>3 DEF Copy, SafeFaults, Fail, Goto, Typed, Made
  <2>4. CASE Freopen(p)
    BY <1>1, <1>2, <2>1, <2>2, <2>4 DEF Freopen, Goto, Typed, Made, Quiet
  <2>5. CASE Write(p)
    BY <1>1, <1>2, <2>1, <2>2, <2>5 DEF Write, Goto, Typed, Withdrawn, Quiet
  <2> QED
    BY <1>4, <2>3, <2>4, <2>5
<1>5. CASE LinkEntry(p)
  <2>1. name' = name /\ arg' = arg /\ pc[p] = "link" /\ name[p] \in Names
    BY <1>5 DEF LinkEntry, Typed, Spooling
  <2>2. Me(p)' = Me(p)
    BY <2>1 DEF Me
  <2>3. CASE name[p] \in Queue
    BY <1>1, <1>2, <1>5, <2>1, <2>2, <2>3 DEF LinkEntry, Goto, Typed, Withdrawn
  <2>4. CASE name[p] \notin Queue
    <3>1. PICK s \in Slots : ent[s] = NoName /\ ent' = [ent EXCEPT ![s] = name[p]]
      BY <1>5, <2>4 DEF LinkEntry
    <3>2. ent \in [Slots -> Names \cup {NoName}]
      BY DEF TypeInv, TypeOK, DirType
    <3>3. Queue' = Queue \cup {name[p]}
      BY <2>1, <3>1, <3>2, NamesType DEF Queue
    <3>4. job' = job /\ entered' = entered \cup {Me(p)} /\ Goto(p, "unpre")
      BY <1>5, <2>4 DEF LinkEntry
    <3>5. pc'[p] = "unpre"
      BY <3>4 DEF Goto, Typed
    <3> QED
      BY <1>1, <2>1, <2>2, <2>4, <3>3, <3>4, <3>5 DEF Linked
  <2> QED
    BY <2>3, <2>4
<1> QED
  BY <1>1, <1>3, <1>4, <1>5 DEF LprStep

\* Nothing a step of lpd does reaches the other processes.
LpdOthers(p) ==
    /\ name' = name /\ arg' = arg /\ entered' = entered /\ gone' = gone
    /\ \A q \in Procs \ {p} : /\ pc'[q] = pc[q] /\ best'[q] = best[q]
                              /\ maxpri'[q] = maxpri[q] /\ reading'[q] = reading[q]
    /\ pc[p] \in {"tst", "mk"} \cup Holding /\ pc'[p] \in {"mk", "done"} \cup Holding

\* lpd looks for work, prepares to print or leaves.
Calm(p) ==
    /\ job' = job /\ Queue' = Queue /\ printed' = printed /\ reading' = reading
    /\ pc'[p] \in Serving => pc[p] \in {"opendev", "print"} /\ pc'[p] = "print" /\ best'[p] = best[p]
    /\ pc[p] # "rment" /\ pc'[p] # "rment"
    /\ Picked(p)' => best'[p] \in Queue

LEMMA LpdEffects ==
  ASSUME TypeInv, Typed, SafeFaults, BestQueued, NEW p \in Procs, LpdStep(p)
  PROVE  /\ LpdOthers(p)
         /\ Calm(p) \/ OpenJob(p) \/ EndPrint(p) \/ RemoveJob(p) \/ RemoveEntry(p)
<1>1. LpdOthers(p)
  <2>1. /\ name' = name /\ arg' = arg /\ entered' = entered /\ gone' = gone
        /\ pc[p] \in {"tst", "mk"} \cup Holding
    BY DEF LpdStep, TestLock, MakeLock, Chdir, OpenDir, ReadEntry, EndOfDir, OpenJob, OpenDevice,
       PrintBlock, EndPrint, RemoveJob, RemoveEntry, Abort, lprVars, Holding
  <2>2. /\ \A q \in Procs \ {p} : pc'[q] = pc[q]
        /\ pc'[p] \in {"mk", "done"} \cup Holding
    BY DEF LpdStep, TestLock, MakeLock, Chdir, OpenDir, ReadEntry, EndOfDir, OpenJob, OpenDevice,
       PrintBlock, EndPrint, RemoveJob, RemoveEntry, Abort, Release, Goto, Typed, Holding
  <2>4. \A q \in Procs \ {p} : maxpri'[q] = maxpri[q] /\ best'[q] = best[q]
    BY DEF LpdStep, TestLock, MakeLock, Chdir, OpenDir, ReadEntry, EndOfDir, OpenJob, OpenDevice,
       PrintBlock, EndPrint, RemoveJob, RemoveEntry, Abort, TypeInv, TypeOK, ScanType, scanVars
  <2>3. \A q \in Procs \ {p} : reading'[q] = reading[q]
    BY DEF LpdStep, TestLock, MakeLock, Chdir, OpenDir, ReadEntry, EndOfDir, OpenJob, OpenDevice,
       PrintBlock, EndPrint, RemoveJob, RemoveEntry, Abort, Typed, printVars
  <2> QED
    BY <2>1, <2>2, <2>3, <2>4 DEF LpdOthers
<1>2. ent' = ent => Queue' = Queue
  BY DEF Queue
<1>3. CASE TestLock(p) \/ MakeLock(p) \/ Chdir(p) \/ OpenDir(p) \/ EndOfDir(p) \/ OpenDevice(p)
             \/ PrintBlock(p) \/ Abort(p)
  <2>1. job' = job /\ ent' = ent /\ printed' = printed /\ reading' = reading
    BY <1>3 DEF TestLock, MakeLock, Chdir, OpenDir, EndOfDir, OpenDevice, PrintBlock, Abort, printVars
  <2>2. /\ best' = best /\ pc[p] # "rment" /\ pc'[p] # "rment"
        /\ pc'[p] \in Serving => pc[p] \in {"opendev", "print"} /\ pc'[p] = "print"
    BY <1>3 DEF TestLock, MakeLock, Chdir, OpenDir, EndOfDir, OpenDevice, PrintBlock, Abort, Release,
       SafeFaults, Fail, Goto, Typed, Serving, scanVars
  <2>3. CASE OpenDir(p)
    <3>1. pc'[p] = "read" /\ maxpri'[p] = -1
      BY <2>3 DEF OpenDir, SafeFaults, Fail, Goto, Typed, TypeInv, TypeOK, ScanType
    <3> QED
      BY <1>1, <1>2, <2>1, <2>2, <3>1 DEF Calm, Picked, Serving
  <2>4. CASE ~OpenDir(p)
    <3>1. maxpri' = maxpri
      BY <1>3, <2>4 DEF TestLock, MakeLock, Chdir, EndOfDir, OpenDevice, PrintBlock, Abort, scanVars
    <3>2. Picked(p)' => Picked(p)
      BY <1>3, <2>4, <3>1 DEF TestLock, MakeLock, Chdir, EndOfDir, OpenDevice, PrintBlock, Abort,
         Release, Goto, Typed, Serving, Picked
    <3> QED
      BY <1>1, <1>2, <2>1, <2>2, <3>2 DEF Calm, BestQueued
  <2> QED
    BY <2>3, <2>4
<1>4. CASE ReadEntry(p)
  <2>1. /\ job' = job /\ ent' = ent /\ printed' = printed /\ reading' = reading
        /\ pc' = pc /\ pc[p] = "read"
    BY <1>4 DEF ReadEntry, printVars
  <2>2. CASE best'[p] = ent[pos[p]] /\ Better(p, ent[pos[p]])
    <3>1. best'[p] = ent[pos[p]] /\ ent[pos[p]] \in Queue
      BY <1>4, <2>2 DEF ReadEntry, Better, Queue
    <3> QED
      BY <1>1, <1>2, <2>1, <3>1 DEF Calm, Serving
  <2>3. CASE best'[p] = best[p] /\ maxpri'[p] = maxpri[p]
    <3>1. Picked(p)' => best'[p] \in Queue
      BY <2>1, <2>3 DEF Picked, BestQueued
    <3> QED
      BY <1>1, <1>2, <2>1, <2>3, <3>1 DEF Calm, Serving
  <2>4. \/ best'[p] = ent[pos[p]] /\ Better(p, ent[pos[p]])
        \/ best'[p] = best[p] /\ maxpri'[p] = maxpri[p]
    BY <1>4 DEF ReadEntry, TypeInv, TypeOK, ScanType
  <2> QED
    BY <2>2, <2>3, <2>4
<1> QED
  BY <1>1, <1>3, <1>4 DEF LpdStep

-----------------------------------------------------------------------------
(* A step of lpr keeps the queue *)

LEMMA MeApart ==
  ASSUME Typed, Stored, NEW p \in Procs, NEW q \in Procs, q # p,
         pc[p] \in Spooling, pc[q] \in Spooling
  PROVE  name[p] # name[q] /\ Me(p) # Me(q) /\ name[p] \in Names /\ name[p][1] = p
  BY MeType, NamesType DEF Typed, Stored, NamesOwn

LEMMA LprKeepsReading ==
  ASSUME TypeInv, Typed, Stored, KeptInv, SafeFaults, NEW p \in Procs, Start(p) \/ LprStep(p)
  PROVE  BestQueued' /\ ReadingInv'
<1>1. LprOthers(p) /\ (Quiet(p) \/ Made(p) \/ Withdrawn(p) \/ Linked(p))
  BY LprEffects
<1>2. \A q \in Procs : pc'[q] \in Holding => pc'[q] = pc[q] /\ q # p
  BY <1>1 DEF LprOthers
<1>3. Queue \subseteq Queue'
  BY <1>1 DEF Quiet, Made, Withdrawn, Linked
<1>4. BestQueued'
  BY <1>1, <1>2, <1>3 DEF LprOthers, KeptInv, BestQueued, Picked, Serving, Holding
<1>5. ASSUME NEW d \in Procs, pc'[d] \in Serving \cup {"rment"}
      PROVE  /\ pc'[d] = pc[d] /\ best'[d] = best[d] /\ reading'[d] = reading[d]
             /\ best[d] \in Queue /\ best[d] \in Names
  <2>1. pc'[d] = pc[d]
    BY <1>2, <1>5 DEF Serving, Holding
  <2>2. best[d] \in Queue
    BY <1>5, <2>1 DEF KeptInv, BestQueued, Picked
  <2>3. Queue \subseteq Names
    BY DEF TypeInv, TypeOK, DirType, Queue
  <2> QED
    BY <1>1, <2>1, <2>2, <2>3 DEF LprOthers
<1>6. ASSUME NEW d \in Procs, pc'[d] \in Serving PROVE job'[best[d]] = reading[d]
  <2>1. job[best[d]] = reading[d]
    BY <1>5, <1>6 DEF KeptInv, ReadingInv
  <2>2. pc[p] \in Handing => name[p] # best[d]
    BY <1>5, <1>6, HandingApart DEF KeptInv
  <2> QED
    BY <1>1, <1>5, <1>6, <2>1, <2>2 DEF Quiet, Made, Withdrawn, Linked, Handing, Typed
<1>7. ASSUME NEW d \in Procs, pc'[d] = "rment", job'[best[d]] # NoJob
      PROVE  job'[best[d]] \notin entered'
  <2>0. pc[d] = "rment" /\ best[d] \in Queue /\ best[d] \in Names
    BY <1>5, <1>7
  <2>1. job[best[d]] # NoJob => job[best[d]] \notin entered
    BY <2>0 DEF KeptInv, ReadingInv
  <2>2. CASE Quiet(p) \/ Withdrawn(p)
    BY <1>7, <2>0, <2>1, <2>2 DEF Quiet, Withdrawn, Typed
  <2>3. CASE Made(p)
    <3>1. Ahead(Me(p)) /\ Me(p) \in Jobs
      BY <2>3, MeType DEF Made, Ahead, Typed
    <3>2. Me(p) \notin entered
      BY <3>1 DEF Stored, AheadUntouched, Untouched
    <3> QED
      BY <1>7, <2>0, <2>1, <2>3, <3>2 DEF Made, Typed
  <2>4. CASE Linked(p)
    <3>1. job[name[p]] = Me(p) /\ name[p] \in Names /\ Me(p) # NoJob
      BY <2>4, JobsType DEF Linked, KeptInv, LinkInv, Typed, Spooling
    <3>2. job[best[d]] # Me(p)
      BY <2>0, <2>4, <3>1 DEF Linked, Stored, Once
    <3> QED
      BY <1>7, <2>1, <2>4, <3>2 DEF Linked
  <2> QED
    BY <1>1, <2>2, <2>3, <2>4
<1>8. ReadingInv'
  <2> SUFFICES ASSUME NEW d \in Procs
               PROVE  /\ pc'[d] \in Serving => job'[best'[d]] = reading'[d]
                      /\ pc'[d] = "rmjob" /\ reading'[d] # NoJob => printed'[reading'[d]] > 0
                      /\ pc'[d] = "rment" /\ job'[best'[d]] # NoJob => job'[best'[d]] \notin entered'
    BY DEF ReadingInv
  <2>1. pc'[d] = "rmjob" /\ reading'[d] # NoJob => printed'[reading'[d]] > 0
    BY <1>1, <1>5 DEF LprOthers, KeptInv, ReadingInv, Serving
  <2> QED
    BY <1>5, <1>6, <1>7, <2>1
<1> QED
  BY <1>4, <1>8

LEMMA LprKeepsLink ==
  ASSUME TypeInv, Typed, Typed', Stored, Stored', KeptInv, SafeFaults, NEW p \in Procs,
         Start(p) \/ LprStep(p)
  PROVE  LinkInv' /\ Strays'
<1>1. LprOthers(p) /\ (Quiet(p) \/ Made(p) \/ Withdrawn(p) \/ Linked(p))
  BY LprEffects
<1>0. Queue \subseteq Names
  BY DEF TypeInv, TypeOK, DirType, Queue
<1>2. ASSUME NEW q \in Procs, pc'[q] \in {"write", "link"}
      PROVE  job'[name'[q]] = Me(q)' /\ printed'[Me(q)'] = 0
  <2>1. CASE q = p
    <3>1. CASE Quiet(p)
      BY <1>1, <1>2, <2>1, <3>1 DEF LprOthers, Quiet, KeptInv, LinkInv
    <3>2. CASE Made(p)
      <4>1. Ahead(Me(p)) /\ Me(p) \in Jobs /\ name[p] \in Names
        BY <3>2, MeType DEF Made, Ahead, Typed, Spooling
      <4>2. printed[Me(p)] = 0
        BY <4>1 DEF Stored, AheadUntouched, Untouched
      <4> QED
        BY <1>1, <2>1, <3>2, <4>1, <4>2 DEF LprOthers, Made, Typed
    <3> QED
      BY <1>1, <1>2, <2>1, <3>1, <3>2 DEF Withdrawn, Linked
  <2>2. CASE q # p
    <3>1. pc[q] = pc'[q] /\ name'[q] = name[q] /\ Me(q)' = Me(q) /\ printed' = printed
      BY <1>1, <2>2 DEF LprOthers
    <3>2. job[name[q]] = Me(q) /\ printed[Me(q)] = 0
      BY <1>2, <3>1 DEF KeptInv, LinkInv
    <3>3. name[q] \in Names /\ (pc[p] \in Spooling => name[p] # name[q])
      BY <1>2, <2>2, <3>1, MeApart DEF Spooling, Typed
    <3>4. job'[name[q]] = job[name[q]]
      BY <1>1, <3>3 DEF Quiet, Made, Withdrawn, Linked, Typed, Spooling
    <3> QED
      BY <3>1, <3>2, <3>4
  <2> QED
    BY <2>1, <2>2
<1>3. ASSUME NEW q \in Procs, pc'[q] \in {"unpre", "rm", "flush"} PROVE Me(q)' \in entered'
  <2>1. entered \subseteq entered'
    BY <1>1 DEF Quiet, Made, Withdrawn, Linked
  <2>2. CASE q = p
    BY <1>1, <1>3, <2>2 DEF Quiet, Made, Withdrawn, Linked, KeptInv, LinkInv
  <2>3. CASE q # p
    BY <1>1, <1>3, <2>1, <2>3 DEF LprOthers, KeptInv, LinkInv
  <2> QED
    BY <2>2, <2>3
<1>4. LinkInv'
  BY <1>2, <1>3 DEF LinkInv
<1>5. ASSUME NEW n \in Queue', job'[n] # NoJob, job'[n] \notin entered'
      PROVE  pc'[n[1]] = "dead" \/ (pc'[n[1]] \in {"write", "link"} /\ name'[n[1]] = n)
  <2>1. CASE Quiet(p)
    <3>1. /\ n \in Names /\ n[1] \in Procs
          /\ pc[n[1]] = "dead" \/ (pc[n[1]] \in {"write", "link"} /\ name[n[1]] = n)
      BY <1>0, <1>5, <2>1, NamesType DEF Quiet, KeptInv, Strays
    <3> QED
      BY <1>1, <2>1, <3>1 DEF LprOthers, Quiet
  <2>2. CASE Made(p)
    <3>1. n \in Names /\ n[1] \in Procs /\ n \in Queue /\ name[p] \in Names /\ name[p][1] = p
      BY <1>0, <1>5, <2>2, NamesType DEF Made, Typed, Spooling, Stored, NamesOwn
    <3>2. CASE n = name[p]
      BY <2>2, <3>1, <3>2 DEF Made
    <3>3. CASE n # name[p]
      <4>1. job'[n] = job[n] /\ entered' = entered
        BY <2>2, <3>1, <3>3 DEF Made, Typed
      <4>2. pc[n[1]] = "dead" \/ (pc[n[1]] \in {"write", "link"} /\ name[n[1]] = n)
        BY <1>5, <3>1, <4>1 DEF KeptInv, Strays
      <4>3. n[1] # p
        BY <2>2, <4>2 DEF Made
      <4> QED
        BY <1>1, <3>1, <4>2, <4>3 DEF LprOthers
    <3> QED
      BY <3>2, <3>3
  <2>3. CASE Withdrawn(p)
    <3>1. /\ n \in Names /\ n[1] \in Procs /\ n \in Queue /\ name[p] \in Names /\ name[p][1] = p
          /\ n # name[p] /\ job'[n] = job[n]
      BY <1>0, <1>5, <2>3, NamesType DEF Withdrawn, Typed, Spooling, Stored, NamesOwn
    <3>2. pc[n[1]] = "dead" \/ (pc[n[1]] \in {"write", "link"} /\ name[n[1]] = n)
      BY <1>5, <2>3, <3>1 DEF Withdrawn, KeptInv, Strays
    <3> QED
      BY <1>1, <2>3, <3>1, <3>2 DEF LprOthers, Withdrawn
  <2>4. CASE Linked(p)
    <3>1. n \in Queue /\ n \in Names /\ n[1] \in Procs /\ n # name[p]
      <4>1. n # name[p]
        BY <1>5, <2>4 DEF Linked, KeptInv, LinkInv
      <4> QED
        BY <1>0, <2>4, <4>1, NamesType DEF Linked
    <3>2. pc[n[1]] = "dead" \/ (pc[n[1]] \in {"write", "link"} /\ name[n[1]] = n)
      BY <1>5, <2>4, <3>1 DEF Linked, KeptInv, Strays
    <3> QED
      BY <1>1, <2>4, <3>1, <3>2 DEF LprOthers, Linked
  <2> QED
    BY <1>1, <2>1, <2>2, <2>3, <2>4
<1>6. Strays'
  BY <1>5 DEF Strays
<1> QED
  BY <1>4, <1>6

LEMMA LprKeepsEntered ==
  ASSUME TypeInv, Typed, Stored, KeptInv, SafeFaults, NEW p \in Procs, Start(p) \/ LprStep(p)
  PROVE  EnteredKept'
<1>1. LprOthers(p) /\ (Quiet(p) \/ Made(p) \/ Withdrawn(p) \/ Linked(p))
  BY LprEffects
<1>0. Queue \subseteq Names
  BY DEF TypeInv, TypeOK, DirType, Queue
<1>2. gone' \subseteq entered'
  <2>1. entered \subseteq entered'
    BY <1>1 DEF Quiet, Made, Withdrawn, Linked
  <2>2. pc[p] = "rm" => Me(p) \in entered
    BY DEF KeptInv, LinkInv
  <2> QED
    BY <1>1, <2>1, <2>2 DEF LprOthers, KeptInv, EnteredKept
<1>3. ASSUME NEW j \in entered', ~(printed'[j] > 0) PROVE Queued(j)'
  <2>0. printed' = printed
    BY <1>1 DEF LprOthers
  <2>1. CASE j \notin entered
    <3>1. Linked(p) /\ j = Me(p)
      BY <1>1, <1>3, <2>1 DEF Quiet, Made, Withdrawn, Linked
    <3>2. name[p] \in Queue' /\ job'[name[p]] = j
      BY <3>1 DEF Linked, KeptInv, LinkInv
    <3> QED
      BY <3>2 DEF Queued
  <2>2. CASE j \in entered
    <3>1. PICK n \in Queue : job[n] = j
      BY <1>3, <2>0, <2>2 DEF KeptInv, EnteredKept, Queued
    <3>2. n \in Names /\ j # NoJob
      BY <1>0, <2>2, <3>1, JobsType DEF TypeInv, TypeOK, LprType
    <3>3. pc[p] \in {"write", "link"} => Me(p) \notin entered /\ job[name[p]] = Me(p)
      BY DEF Stored, Pending, KeptInv, LinkInv
    <3>4. pc[p] \in {"copy", "freopen"} => job[name[p]] = NoJob
      BY DEF Stored, NotYet
    <3>5. job'[n] = j
      BY <1>1, <2>2, <3>1, <3>2, <3>3, <3>4 DEF Quiet, Made, Withdrawn, Linked, Typed
    <3>6. n \in Queue'
      BY <1>1, <3>1 DEF Quiet, Made, Withdrawn, Linked
    <3> QED
      BY <3>5, <3>6 DEF Queued
  <2> QED
    BY <2>1, <2>2
<1> QED
  BY <1>2, <1>3 DEF EnteredKept

-----------------------------------------------------------------------------
(* A step of lpd keeps the queue *)

\* Nobody else works on the queue beside the daemon that is at work.
LEMMA Alone ==
  ASSUME OneDaemon, NEW p \in Procs, LpdOthers(p), pc[p] \in Holding
  PROVE  \A d \in Procs \ {p} : pc[d] \notin Holding /\ pc'[d] \notin Holding
  BY DEF OneDaemon, LpdOthers

LEMMA PickedHolds == ASSUME NEW d \in Procs, Picked(d) PROVE pc[d] \in Holding
  BY DEF Picked, Serving, Holding

LEMMA LpdKeepsReading ==
  ASSUME TypeInv, Typed, OneDaemon, KeptInv, SafeFaults, NEW p \in Procs, LpdStep(p)
  PROVE  BestQueued' /\ ReadingInv'
<1>1. LpdOthers(p) /\ (Calm(p) \/ OpenJob(p) \/ EndPrint(p) \/ RemoveJob(p) \/ RemoveEntry(p))
  BY LpdEffects DEF KeptInv
<1>2. ASSUME pc[p] \in Holding, (Picked(p) => best[p] \in Queue)',
             (/\ pc[p] \in Serving => job[best[p]] = reading[p]
              /\ pc[p] = "rmjob" /\ reading[p] # NoJob => printed[reading[p]] > 0
              /\ pc[p] = "rment" /\ job[best[p]] # NoJob => job[best[p]] \notin entered)'
      PROVE  BestQueued' /\ ReadingInv'
  <2>1. \A d \in Procs \ {p} : pc'[d] \notin Holding
    BY <1>1, <1>2, Alone
  <2>2. \A d \in Procs \ {p} : ~Picked(d)' /\ pc'[d] \notin Serving \cup {"rment"}
    BY <2>1 DEF Picked, Serving, Holding
  <2>3. BestQueued'
    BY <1>2, <2>2 DEF BestQueued
  <2>4. ReadingInv'
    BY <1>2, <2>2 DEF ReadingInv, Serving
  <2> QED
    BY <2>3, <2>4
<1>3. CASE Calm(p)
  <2>1. BestQueued'
    BY <1>1, <1>3 DEF LpdOthers, Calm, KeptInv, BestQueued, Picked
  <2>2. ASSUME NEW d \in Procs
        PROVE  /\ pc'[d] \in Serving => job'[best'[d]] = reading'[d]
               /\ pc'[d] = "rmjob" /\ reading'[d] # NoJob => printed'[reading'[d]] > 0
               /\ pc'[d] = "rment" /\ job'[best'[d]] # NoJob => job'[best'[d]] \notin entered'
    <3>1. CASE d = p
      BY <1>3, <3>1 DEF Calm, KeptInv, ReadingInv, Serving
    <3>2. CASE d # p
      BY <1>1, <1>3, <3>2 DEF LpdOthers, Calm, KeptInv, ReadingInv
    <3> QED
      BY <3>1, <3>2
  <2> QED
    BY <2>1, <2>2 DEF ReadingInv
<1>4. CASE OpenJob(p)
  <2>1. /\ pc[p] = "openjob" /\ best' = best /\ job' = job /\ ent' = ent
        /\ best[p] \in Queue /\ best[p] # NoName
    BY <1>4 DEF OpenJob, scanVars, KeptInv, BestQueued, Picked, Queue
  <2>2. /\ pc'[p] \in {"opendev", "rmjob"} /\ reading'[p] = job[best[p]]
        /\ pc'[p] = "rmjob" => reading'[p] = NoJob
    BY <1>4, <2>1 DEF OpenJob, Goto, Typed
  <2>3. Queue' = Queue
    BY <2>1 DEF Queue
  <2> QED
    BY <1>2, <2>1, <2>2, <2>3 DEF Holding
<1>5. CASE EndPrint(p)
  <2>1. /\ pc[p] = "print" /\ pc'[p] = "rmjob" /\ best' = best /\ job' = job /\ ent' = ent
        /\ reading' = reading /\ printed' = [printed EXCEPT ![reading[p]] = @ + 1]
        /\ best[p] \in Queue /\ job[best[p]] = reading[p]
    BY <1>5 DEF EndPrint, Goto, Typed, scanVars, Fail, KeptInv, BestQueued, Picked, ReadingInv, Serving
  <2>2. Queue' = Queue
    BY <2>1 DEF Queue
  <2>3. reading'[p] # NoJob => printed'[reading'[p]] > 0
    BY <2>1 DEF Typed
  <2> QED
    BY <1>2, <2>1, <2>2, <2>3 DEF Holding
<1>6. CASE RemoveJob(p)
  <2>1. /\ pc[p] = "rmjob" /\ pc'[p] = "rment" /\ best' = best /\ ent' = ent
        /\ job' = [n \in Names |-> IF n = best[p] THEN NoJob ELSE job[n]]
        /\ best[p] \in Queue
    BY <1>6 DEF RemoveJob, SafeFaults, Fail, Goto, Typed, scanVars, KeptInv, BestQueued, Picked, Serving
  <2>2. Queue' = Queue /\ Queue \subseteq Names
    BY <2>1 DEF Queue, TypeInv, TypeOK, DirType
  <2> QED
    BY <1>2, <2>1, <2>2 DEF Holding, Serving
<1>7. CASE RemoveEntry(p)
  <2>1. pc[p] = "rment" /\ pc'[p] = "scan"
    BY <1>7 DEF RemoveEntry, Goto, Typed
  <2> QED
    BY <1>2, <2>1 DEF Holding, Serving, Picked
<1> QED
  BY <1>1, <1>3, <1>4, <1>5, <1>6, <1>7

\* What a daemon at rmjob, at print or between the unlinks does to the directory.
LEMMA LpdRemoves ==
  ASSUME TypeInv, Typed, KeptInv, SafeFaults, NEW p \in Procs
  PROVE  /\ RemoveJob(p) =>
            /\ pc[p] = "rmjob" /\ best[p] \in Queue /\ best[p] \in Names
            /\ job[best[p]] = reading[p]
            /\ reading[p] # NoJob => printed[reading[p]] > 0
            /\ job' = [n \in Names |-> IF n = best[p] THEN NoJob ELSE job[n]]
            /\ Queue' = Queue /\ printed' = printed
         /\ EndPrint(p) =>
            /\ pc[p] = "print" /\ best[p] \in Queue /\ best[p] \in Names
            /\ job[best[p]] = reading[p]
            /\ printed' = [printed EXCEPT ![reading[p]] = @ + 1]
            /\ Queue' = Queue /\ job' = job
         /\ RemoveEntry(p) =>
            /\ pc[p] = "rment" /\ best[p] \in Queue
            /\ job[best[p]] # NoJob => job[best[p]] \notin entered
            /\ Queue' = Queue \ {best[p]} /\ job' = job /\ printed' = printed
         /\ OpenJob(p) => Queue' = Queue /\ job' = job /\ printed' = printed
<1>1. ent \in [Slots -> Names \cup {NoName}] /\ Queue \subseteq Names
  BY DEF TypeInv, TypeOK, DirType, Queue
<1>2. ent' = ent => Queue' = Queue
  BY DEF Queue
<1>3. ASSUME RemoveJob(p)
      PROVE /\ pc[p] = "rmjob" /\ best[p] \in Queue
            /\ job[best[p]] = reading[p]
            /\ reading[p] # NoJob => printed[reading[p]] > 0
            /\ job' = [n \in Names |-> IF n = best[p] THEN NoJob ELSE job[n]]
            /\ Queue' = Queue /\ printed' = printed
  BY <1>2, <1>3 DEF RemoveJob, SafeFaults, Fail, KeptInv, BestQueued, Picked, ReadingInv, Serving, printVars
<1>4. ASSUME EndPrint(p)
      PROVE /\ pc[p] = "print" /\ best[p] \in Queue
            /\ job[best[p]] = reading[p]
            /\ printed' = [printed EXCEPT ![reading[p]] = @ + 1]
            /\ Queue' = Queue /\ job' = job
  BY <1>2, <1>4 DEF EndPrint, KeptInv, BestQueued, Picked, ReadingInv, Serving
<1>5. ASSUME RemoveEntry(p)
      PROVE /\ pc[p] = "rment" /\ best[p] \in Queue
            /\ job[best[p]] # NoJob => job[best[p]] \notin entered
            /\ Queue' = Queue \ {best[p]} /\ job' = job /\ printed' = printed
  <2>1. /\ ent' = [s \in Slots |-> IF ent[s] = best[p] THEN NoName ELSE ent[s]]
        /\ pc[p] = "rment" /\ job' = job /\ printed' = printed
    BY <1>5 DEF RemoveEntry, Fail, SafeFaults, printVars
  <2>2. Queue' = Queue \ {best[p]}
    BY <1>1, <2>1 DEF Queue
  <2> QED
    BY <2>1, <2>2 DEF KeptInv, BestQueued, Picked, ReadingInv
<1>6. OpenJob(p) => Queue' = Queue /\ job' = job /\ printed' = printed
  BY <1>2 DEF OpenJob
<1> QED
  BY <1>1, <1>3, <1>4, <1>5, <1>6

LEMMA LpdKeepsLink ==
  ASSUME TypeInv, Typed, Stored, OneDaemon, KeptInv, SafeFaults, NEW p \in Procs, LpdStep(p)
  PROVE  LinkInv' /\ Strays'
<1>1. LpdOthers(p) /\ (Calm(p) \/ OpenJob(p) \/ EndPrint(p) \/ RemoveJob(p) \/ RemoveEntry(p))
  BY LpdEffects DEF KeptInv
<1>2. \A q \in Procs : Me(q)' = Me(q)
  BY <1>1 DEF LpdOthers, Me
<1>3. \A q \in Procs : pc'[q] \in {"write", "link", "unpre", "rm", "flush"} => pc'[q] = pc[q]
  BY <1>1 DEF LpdOthers, Holding
<1>4. ASSUME NEW q \in Procs, pc[q] \in {"write", "link"}
      PROVE  job'[name[q]] = Me(q) /\ printed'[Me(q)] = 0
  <2>1. /\ job[name[q]] = Me(q) /\ printed[Me(q)] = 0 /\ name[q] \in Names
        /\ Me(q) \in Jobs /\ Me(q) # NoJob /\ pc[q] \in Handing
    BY <1>4, JobsType DEF KeptInv, LinkInv, Typed, Spooling, Handing
  <2>2. pc[p] \in Serving => name[q] # best[p]
    BY <2>1, HandingApart DEF KeptInv
  <2>3. CASE EndPrint(p)
    <3>1. reading[p] # Me(q)
      BY <2>1, <2>2, <2>3, LpdRemoves DEF Stored, Once, Serving
    <3> QED
      BY <2>1, <2>3, <3>1, LpdRemoves DEF Typed
  <2>4. CASE RemoveJob(p)
    BY <2>1, <2>2, <2>4, LpdRemoves DEF Serving
  <2> QED
    BY <1>1, <2>1, <2>3, <2>4, LpdRemoves DEF Calm
<1>5. LinkInv'
  <2> SUFFICES ASSUME NEW q \in Procs
               PROVE  /\ pc'[q] \in {"write", "link"} => job'[name'[q]] = Me(q)' /\ printed'[Me(q)'] = 0
                      /\ pc'[q] \in {"unpre", "rm", "flush"} => Me(q)' \in entered'
    BY DEF LinkInv
  <2>1. name' = name /\ entered' = entered
    BY <1>1 DEF LpdOthers
  <2> QED
    BY <1>2, <1>3, <1>4, <2>1 DEF KeptInv, LinkInv
<1>6. ASSUME NEW n \in Queue', job'[n] # NoJob, job'[n] \notin entered'
      PROVE  pc'[n[1]] = "dead" \/ (pc'[n[1]] \in {"write", "link"} /\ name'[n[1]] = n)
  <2>1. Queue \subseteq Names
    BY DEF TypeInv, TypeOK, DirType, Queue
  <2>2. n \in Queue /\ n \in Names /\ n[1] \in Procs
    BY <1>1, <1>6, <2>1, LpdRemoves, NamesType DEF Calm
  <2>3. job'[n] = job[n]
    BY <1>1, <1>6, <2>2, LpdRemoves DEF Calm
  <2>4. pc[n[1]] = "dead" \/ (pc[n[1]] \in {"write", "link"} /\ name[n[1]] = n)
    BY <1>1, <1>6, <2>2, <2>3 DEF LpdOthers, KeptInv, Strays
  <2> QED
    BY <1>1, <2>2, <2>4 DEF LpdOthers, Holding
<1> QED
  BY <1>5, <1>6 DEF Strays

LEMMA LpdKeepsEntered ==
  ASSUME TypeInv, Typed, KeptInv, SafeFaults, NEW p \in Procs, LpdStep(p)
  PROVE  EnteredKept'
<1>1. LpdOthers(p) /\ (Calm(p) \/ OpenJob(p) \/ EndPrint(p) \/ RemoveJob(p) \/ RemoveEntry(p))
  BY LpdEffects DEF KeptInv
<1>2. entered' = entered /\ gone' = gone /\ entered \subseteq Jobs
  BY <1>1 DEF LpdOthers, TypeInv, TypeOK, LprType
<1>3. ASSUME NEW j \in entered, printed[j] > 0 PROVE printed'[j] > 0
  <2>1. printed' = printed \/ printed' = [printed EXCEPT ![reading[p]] = @ + 1]
    BY <1>1, LpdRemoves DEF Calm
  <2>2. j \in Jobs /\ printed \in [Jobs -> Nat]
    BY <1>2 DEF Typed
  <2>3. printed'[j] = printed[j] \/ printed'[j] = printed[j] + 1
    BY <2>1, <2>2
  <2> QED
    BY <1>3, <2>2, <2>3
<1>4. ASSUME NEW j \in entered, Queued(j) PROVE printed'[j] > 0 \/ Queued(j)'
  <2>1. PICK n \in Queue : job[n] = j
    BY <1>4 DEF Queued
  <2>2. n \in Names /\ j # NoJob
    BY <1>2, <2>1, JobsType DEF TypeInv, TypeOK, DirType, Queue
  <2>3. CASE RemoveJob(p)
    BY <1>3, <2>1, <2>2, <2>3, LpdRemoves DEF Queued
  <2>4. CASE RemoveEntry(p)
    <3>1. n # best[p]
      BY <2>1, <2>2, <2>4, LpdRemoves
    <3> QED
      BY <2>1, <2>4, <3>1, LpdRemoves DEF Queued
  <2>5. CASE Calm(p) \/ OpenJob(p) \/ EndPrint(p)
    <3>1. Queue' = Queue /\ job' = job
      BY <2>5, LpdRemoves DEF Calm
    <3> QED
      BY <2>1, <3>1 DEF Queued
  <2> QED
    BY <1>1, <2>3, <2>4, <2>5
<1> QED
  BY <1>2, <1>3, <1>4 DEF KeptInv, EnteredKept

-----------------------------------------------------------------------------
(* Kills, reboots, and the queue for good *)

\* The files and the records of a step that only ends processes.
Same ==
    /\ arg' = arg /\ name' = name /\ job' = job /\ ent' = ent /\ entered' = entered
    /\ gone' = gone /\ best' = best /\ maxpri' = maxpri /\ reading' = reading
    /\ printed' = printed

LEMMA EndedKeeps ==
  ASSUME TypeInv, KeptInv, Same,
         \A q \in Procs : pc'[q] = pc[q] \/ pc'[q] = "dead",
         lock' = lock \/ \A q \in Procs : ~Spools(q)'
  PROVE  KeptInv'
<1>1. Queue' = Queue /\ Queue \subseteq Names
  BY DEF Same, Queue, TypeInv, TypeOK, DirType
<1>2. \A q \in Procs : Me(q)' = Me(q)
  BY DEF Same, Me
<1>3. \A q \in Procs : pc'[q] \in Holding \cup Spooling \cup {"mktemp"} => pc'[q] = pc[q]
  BY DEF Holding, Spooling
<1>4. \A n \in Names : Orphan(n)' => Orphan(n) /\ Spools(n[1])'
  BY <1>1, <1>3, NamesType DEF Same, Orphan, Spools, Handing, Spooling
<1>5. \A n \in Queue' : pc'[n[1]] # "idle"
  BY <1>1, NamesType DEF KeptInv, OrphanInv
<1>6. OrphanInv'
  <2>1. CASE lock' = lock
    BY <1>3, <1>4, <1>5, <2>1, OrphanSame DEF KeptInv, Same
  <2>2. CASE \A q \in Procs : ~Spools(q)'
    BY <1>4, <1>5, <2>2, NamesType, OrphanNone
  <2> QED
    BY <2>1, <2>2
<1>7. BestQueued'
  BY <1>1 DEF Same, KeptInv, BestQueued, Picked, Serving
<1>8. ReadingInv'
  BY DEF Same, KeptInv, ReadingInv, Serving
<1>9. LinkInv'
  BY <1>2 DEF Same, KeptInv, LinkInv
<1>10. Strays'
  <2> SUFFICES ASSUME NEW n \in Queue', (job[n] # NoJob)', (job[n] \notin entered)'
               PROVE  pc'[n[1]] = "dead" \/ (pc'[n[1]] \in {"write", "link"} /\ name'[n[1]] = n)
    BY DEF Strays
  <2>1. n \in Queue /\ n[1] \in Procs
    BY <1>1, NamesType
  <2> QED
    BY <2>1 DEF Same, KeptInv, Strays
<1>11. EnteredKept'
  BY <1>1 DEF Same, KeptInv, EnteredKept, Queued
<1> QED
  BY <1>6, <1>7, <1>8, <1>9, <1>10, <1>11 DEF KeptInv

LEMMA KillEnds ==
  ASSUME Typed, NEW p \in Procs, Kill(p) 
  PROVE  Same /\ lock' = lock /\ pc' = [pc EXCEPT ![p] = "dead"]
  BY DEF Kill, Goto, Same, lprVars, scanVars, printVars

LEMMA RebootEnds ==
  ASSUME Typed, Reboot
  PROVE  Same /\ pc' = [q \in Procs |-> IF Running(q) THEN "dead" ELSE pc[q]]
  BY DEF Reboot, Same, lprVars, scanVars, printVars

LEMMA KeptStep ==
  ASSUME SafeFaults
  PROVE  TypeInv /\ OneDaemon /\ Stored /\ KeptInv /\ [Next]_vars => KeptInv'
<1> SUFFICES ASSUME TypeInv, OneDaemon, Stored, KeptInv, [Next]_vars PROVE KeptInv'
  OBVIOUS
<1>0. Typed /\ Typed' /\ Stored'
  BY TypedStep, StoredStep
<1>1. ASSUME NEW p \in Procs, Start(p) \/ LprStep(p) PROVE KeptInv'
  BY <1>0, <1>1, OrphanLpr, LprKeepsReading, LprKeepsLink, LprKeepsEntered DEF KeptInv
<1>2. ASSUME NEW p \in Procs, LpdStep(p) PROVE KeptInv'
  BY <1>0, <1>2, OrphanLpd, LpdKeepsReading, LpdKeepsLink, LpdKeepsEntered DEF KeptInv
<1>3. ASSUME NEW p \in Procs, Kill(p) PROVE KeptInv'
  BY <1>0, <1>3, KillEnds, EndedKeeps DEF Typed
<1>4. CASE Reboot
  <2>1. \A q \in Procs : ~Spools(q)'
    BY <1>0, <1>4, RebootEnds DEF Running, Spools, Spooling, Typed
  <2> QED
    BY <1>0, <1>4, <2>1, RebootEnds, EndedKeeps
<1>5. CASE UNCHANGED vars
  <2>1. Same /\ lock' = lock /\ pc' = pc
    BY <1>5 DEF vars, lprVars, scanVars, printVars, Same
  <2> QED
    BY <2>1, EndedKeeps
<1> QED
  BY <1>1, <1>2, <1>3, <1>4, <1>5 DEF Next

\* What becomes of a job, however many processes there are and are killed: a
\* daemon removes the file it printed, a job is on paper again only for a
\* reason, and what -r removed is on paper or in the queue.
THEOREM JobsKeptTheorem ==
  ASSUME SafeFaults, "print" \notin FaultKinds
  PROVE  Spec => []JobsKept
<1>0. "copy" \notin FaultKinds
  BY DEF SafeFaults
<1>1. TypeInv /\ CountInv /\ WholeInv /\ KeptInv => JobsKept
  <2> SUFFICES ASSUME TypeInv, CountInv, WholeInv, KeptInv PROVE JobsKept
    OBVIOUS
  <2>1. RemovesWhatItPrinted
    BY DEF RemovesWhatItPrinted, KeptInv, ReadingInv, Serving
  <2>2. DataSurvives
    BY DEF DataSurvives, KeptInv, EnteredKept, Queued
  <2> QED
    BY <2>1, <2>2 DEF JobsKept, CountInv, WholeInv
<1>2. Init => TypeInv /\ OneDaemon /\ Stored /\ CountInv /\ WholeInv /\ KeptInv
  BY TypeInit, MutexInit, StoredInit, CountInit, WholeInit, KeptInit
<1>3. TypeInv /\ OneDaemon /\ Stored /\ CountInv /\ WholeInv /\ KeptInv /\ [Next]_vars
      => (TypeInv /\ OneDaemon /\ Stored /\ CountInv /\ WholeInv /\ KeptInv)'
  BY <1>0, TypeStep, MutexStep, StoredStep, CountStep, WholeStep, KeptStep
<1> QED
  BY <1>1, <1>2, <1>3, PTL DEF Spec

-----------------------------------------------------------------------------
(* The texts that a daemon can find *)

\* The lpr of the JOB_ file has it in hand, or was killed with it.
UnderWay(n) == name[n[1]] = n /\ pc[n[1]] \in {"write", "link", "dead"}

\* Only such a file holds a job that was not entered: so rmv_job, on its way to
\* an entry whose JOB_ file is gone, unlinks no entry from under another text.
Unentered == \A n \in Names : job[n] # NoJob => job[n] \in entered \/ UnderWay(n)

ReachInv == Unentered /\ TextsReachable

LEMMA ReachLpr ==
  ASSUME TypeInv, Typed, Stored, KeptInv, SafeFaults, ReachInv,
         NEW p \in Procs, Start(p) \/ LprStep(p)
  PROVE  ReachInv'
<1>1. LprOthers(p) /\ (Quiet(p) \/ Made(p) \/ Withdrawn(p) \/ Linked(p))
  BY LprEffects
<1>2. Queue \subseteq Queue' /\ entered \subseteq entered'
  BY <1>1 DEF Quiet, Made, Withdrawn, Linked
<1> SUFFICES ASSUME NEW n \in Names, job'[n] # NoJob
             PROVE  /\ job'[n] \in entered' \/ UnderWay(n)'
                    /\ n \in Queue' \/ UnderWay(n)'
  BY DEF ReachInv, Unentered, TextsReachable, UnderWay
<1>3. n[1] \in Procs /\ n # NoName
  BY NamesType
<1>4. job[n] # NoJob => /\ job[n] \in entered \/ UnderWay(n)
                        /\ n \in Queue \/ UnderWay(n)
  BY DEF ReachInv, Unentered, TextsReachable, UnderWay
<1>5. pc[p] \in Spooling => name[p] \in Names /\ name[p][1] = p
  BY NamesType DEF Typed, Stored, NamesOwn
<1>6. CASE n[1] # p
  <2>1. UnderWay(n) => UnderWay(n)'
    BY <1>1, <1>3, <1>6 DEF LprOthers, UnderWay
  <2>2. job'[n] = job[n]
    BY <1>1, <1>5, <1>6 DEF Quiet, Made, Withdrawn, Linked, Typed, Spooling
  <2> QED
    BY <1>2, <1>4, <2>1, <2>2
<1>7. CASE n[1] = p
  <2>1. CASE Quiet(p)
    <3>1. UnderWay(n) => UnderWay(n)'
      BY <1>1, <1>7, <2>1 DEF LprOthers, Quiet, UnderWay
    <3> QED
      BY <1>2, <1>4, <2>1, <3>1 DEF Quiet
  <2>2. CASE Made(p)
    <3>1. CASE n = name[p]
      BY <1>7, <2>2, <3>1 DEF Made, UnderWay
    <3>2. CASE n # name[p]
      BY <1>2, <1>4, <1>7, <2>2, <3>2 DEF Made, UnderWay, Typed
    <3> QED
      BY <3>1, <3>2
  <2>3. CASE Withdrawn(p)
    <3>1. n # name[p]
      BY <2>3 DEF Withdrawn, Typed
    <3> QED
      BY <1>2, <1>4, <1>7, <2>3, <3>1 DEF Withdrawn, UnderWay, Typed
  <2>4. CASE Linked(p)
    <3>1. CASE n = name[p]
      BY <2>4, <3>1 DEF Linked, KeptInv, LinkInv
    <3>2. CASE n # name[p]
      BY <1>2, <1>4, <1>7, <2>4, <3>2 DEF Linked, UnderWay
    <3> QED
      BY <3>1, <3>2
  <2> QED
    BY <1>1, <2>1, <2>2, <2>3, <2>4
<1> QED
  BY <1>6, <1>7

LEMMA ReachLpd ==
  ASSUME TypeInv, Typed, Stored, KeptInv, SafeFaults, ReachInv, NEW p \in Procs, LpdStep(p)
  PROVE  ReachInv'
<1>1. LpdOthers(p) /\ (Calm(p) \/ OpenJob(p) \/ EndPrint(p) \/ RemoveJob(p) \/ RemoveEntry(p))
  BY LpdEffects DEF KeptInv
<1>2. entered' = entered /\ name' = name
  BY <1>1 DEF LpdOthers
<1> SUFFICES ASSUME NEW n \in Names, job'[n] # NoJob
             PROVE  /\ job'[n] \in entered' \/ UnderWay(n)'
                    /\ n \in Queue' \/ UnderWay(n)'
  BY DEF ReachInv, Unentered, TextsReachable, UnderWay
<1>3. job'[n] = job[n]
  BY <1>1, LpdRemoves DEF Calm, Typed
<1>4. /\ job[n] \in entered \/ UnderWay(n)
      /\ n \in Queue \/ UnderWay(n)
  BY <1>3 DEF ReachInv, Unentered, TextsReachable, UnderWay
<1>5. UnderWay(n) => UnderWay(n)'
  BY <1>1, <1>2, NamesType DEF LpdOthers, UnderWay, Holding
<1>6. n \in Queue' \/ UnderWay(n)'
  <2>1. CASE RemoveEntry(p)
    BY <1>3, <1>4, <1>5, <2>1, LpdRemoves
  <2>2. CASE Calm(p) \/ OpenJob(p) \/ EndPrint(p) \/ RemoveJob(p)
    BY <1>4, <1>5, <2>2, LpdRemoves DEF Calm
  <2> QED
    BY <1>1, <2>1, <2>2
<1> QED
  BY <1>2, <1>3, <1>4, <1>5, <1>6

LEMMA ReachEnded ==
  ASSUME ReachInv, Same, \A q \in Procs : pc'[q] = pc[q] \/ pc'[q] = "dead"
  PROVE  ReachInv'
  BY NamesType DEF Same, ReachInv, Unentered, TextsReachable, UnderWay, Queue

LEMMA ReachStep ==
  ASSUME SafeFaults
  PROVE  TypeInv /\ OneDaemon /\ Stored /\ KeptInv /\ ReachInv /\ [Next]_vars => ReachInv'
<1> SUFFICES ASSUME TypeInv, OneDaemon, Stored, KeptInv, ReachInv, [Next]_vars PROVE ReachInv'
  OBVIOUS
<1>0. Typed
  BY TypedLemma
<1>1. ASSUME NEW p \in Procs, Start(p) \/ LprStep(p) PROVE ReachInv'
  BY <1>0, <1>1, ReachLpr
<1>2. ASSUME NEW p \in Procs, LpdStep(p) PROVE ReachInv'
  BY <1>0, <1>2, ReachLpd
<1>3. ASSUME NEW p \in Procs, Kill(p) PROVE ReachInv'
  BY <1>0, <1>3, KillEnds, ReachEnded DEF Typed
<1>4. CASE Reboot
  BY <1>0, <1>4, RebootEnds, ReachEnded
<1>5. CASE UNCHANGED vars
  <2>1. Same /\ pc' = pc
    BY <1>5 DEF vars, lprVars, scanVars, printVars, Same
  <2> QED
    BY <2>1, ReachEnded
<1> QED
  BY <1>1, <1>2, <1>3, <1>4, <1>5 DEF Next

\* However often names are used again and whoever is killed, every text in the
\* spool directory has its entry, or its lpr is at work on it or was killed then:
\* rmv_job unlinks no entry that another job stands behind by now, and the text
\* that enterjob refuses is removed.
THEOREM ReachableTheorem ==
  ASSUME SafeFaults
  PROVE  Spec => []TextsReachable
<1>1. Init => ReachInv
  BY DEF Init, ReachInv, Unentered, TextsReachable
<1>2. TypeInv /\ OneDaemon /\ Stored /\ KeptInv /\ ReachInv /\ [Next]_vars
      => (TypeInv /\ OneDaemon /\ Stored /\ KeptInv /\ ReachInv)'
  BY TypeStep, MutexStep, StoredStep, KeptStep, ReachStep
<1>3. ReachInv => TextsReachable
  BY DEF ReachInv
<1> QED
  BY <1>1, <1>2, <1>3, TypeInit, MutexInit, StoredInit, KeptInit, PTL DEF Spec

-----------------------------------------------------------------------------
(* The spooler implements the queue of PrintQueue *)

InQueue == {j \in Jobs : Waiting(j)}
Paper == {j \in Jobs : printed[j] > 0}
QueueStep == [PQ!Next]_<<InQueue, Paper>>

\* A text behind an entry that was not made for it and is not adopted yet.
Stray(n) == n \in Queue /\ job[n] \in Jobs /\ job[n] \notin entered /\ ~Adopted(n)

\* The queue as the users see it stays, ...
LEMMA QueueStays ==
  ASSUME printed' = printed, \A j \in Jobs : Waiting(j)' <=> Waiting(j)
  PROVE  QueueStep
<1>1. InQueue' = InQueue /\ Paper' = Paper
  BY DEF InQueue, Paper
<1> QED
  BY <1>1 DEF QueueStep

\* ... gets one more job, ...
LEMMA QueueGrows ==
  ASSUME printed' = printed, NEW k \in Jobs, printed[k] = 0, ~Waiting(k), 
         \A j \in Jobs : Waiting(j)' <=> Waiting(j) \/ j = k
  PROVE  QueueStep
<1>1. k \notin InQueue \cup Paper /\ InQueue' = InQueue \cup {k} /\ Paper' = Paper
  BY DEF InQueue, Paper
<1>2. PQ!Enter(k)
  BY <1>1 DEF PQ!Enter, InQueue, Paper
<1> QED
  BY <1>2 DEF QueueStep, PQ!Next

\* ... or loses one that was printed.
LEMMA QueueShrinks ==
  ASSUME Typed, NEW k \in Jobs, Waiting(k), printed' = [printed EXCEPT ![k] = @ + 1],
         \A j \in Jobs \ {k} : Waiting(j)' <=> Waiting(j)
  PROVE  QueueStep
<1>1. printed[k] = 0 /\ printed'[k] = 1 /\ \A j \in Jobs \ {k} : printed'[j] = printed[j]
  BY DEF Typed, Waiting
<1>2. ~Waiting(k)'
  BY <1>1 DEF Waiting
<1>3. k \in InQueue /\ InQueue' = InQueue \ {k}
  BY <1>2 DEF InQueue
<1>4. Paper' = Paper \cup {k}
  BY <1>1 DEF Paper
<1>5. PQ!TakeOut(k)
  BY <1>3, <1>4 DEF PQ!TakeOut, InQueue, Paper
<1> QED
  BY <1>5 DEF QueueStep, PQ!Next

LEMMA LprStepEnds ==
  ASSUME Typed, NEW p \in Procs, Start(p) \/ LprStep(p) PROVE pc'[p] # "dead"
  BY DEF Start, LprStep, Mktemp, NextFile, PutJob, Copy, Freopen, Write, LinkEntry, UnlinkPre,
     RemoveOriginal, Flush, Exec, Goto, Typed

LEMMA LprQueueStep ==
  ASSUME TypeInv, Typed, Stored, KeptInv, SafeFaults, NEW p \in Procs, Start(p) \/ LprStep(p)
  PROVE  QueueStep
<1>1. LprOthers(p) /\ (Quiet(p) \/ Made(p) \/ Withdrawn(p) \/ Linked(p))
  BY LprEffects
<1>2. Queue \subseteq Names /\ printed' = printed
  BY <1>1 DEF TypeInv, TypeOK, DirType, Queue, LprOthers
<1>3. pc[p] # "dead" /\ pc'[p] # "dead" /\ pc[p] # "rment" /\ pc'[p] # "rment"
  BY <1>1, LprStepEnds DEF LprOthers, Holding
<1>4. \A n \in Names : Adopted(n)' <=> Adopted(n)
  BY <1>1, <1>3, NamesType DEF LprOthers, Adopted
<1>5. pc[p] \in Spooling => /\ name[p] \in Names /\ name[p][1] = p
                            /\ Me(p) \in Jobs /\ Me(p) # NoJob /\ ~Adopted(name[p])
  BY <1>3, NamesType, JobsType DEF Typed, Stored, NamesOwn, Adopted
<1>6. CASE Quiet(p)
  BY <1>2, <1>4, <1>6, QueueStays DEF Quiet, Waiting
<1>7. CASE Made(p) \/ Withdrawn(p)
  <2>1. /\ Queue' = Queue /\ entered' = entered /\ pc[p] \in Spooling
        /\ \A n \in Names \ {name[p]} : job'[n] = job[n]
    BY <1>7 DEF Made, Withdrawn, Typed, Spooling
  <2>2. job[name[p]] \notin entered /\ job'[name[p]] \notin entered
    <3>1. NoJob \notin entered
      BY JobsType DEF TypeInv, TypeOK, LprType
    <3>2. CASE Made(p)
      <4>1. Ahead(Me(p))
        BY <1>5, <2>1, <3>2, MeType DEF Made, Ahead, Typed
      <4> QED
        BY <1>5, <2>1, <3>1, <3>2, <4>1 DEF Made, Typed, Stored, NotYet, AheadUntouched, Untouched
    <3>3. CASE Withdrawn(p)
      BY <1>5, <2>1, <3>1, <3>3 DEF Withdrawn, Typed, KeptInv, LinkInv, Stored, Pending
    <3> QED
      BY <1>7, <3>2, <3>3
  <2>3. \A n \in Queue, j \in Jobs :
            (job'[n] = j /\ (j \in entered \/ Adopted(n))) <=> (job[n] = j /\ (j \in entered \/ Adopted(n)))
    BY <1>2, <1>5, <2>1, <2>2
  <2>4. \A j \in Jobs : Waiting(j)' <=> Waiting(j)
    BY <1>2, <1>4, <2>1, <2>3 DEF Waiting
  <2> QED
    BY <1>2, <2>4, QueueStays
<1>8. CASE Linked(p)
  <2>1. /\ pc[p] \in Spooling /\ pc[p] = "link" /\ name[p] \notin Queue /\ job' = job
        /\ entered' = entered \cup {Me(p)} /\ Queue' = Queue \cup {name[p]}
    BY <1>8 DEF Linked, Spooling
  <2>2. PICK k \in Jobs : k = Me(p)
    BY <1>5, <2>1
  <2>3. job[name[p]] = k /\ printed[k] = 0
    BY <2>1, <2>2 DEF KeptInv, LinkInv
  <2>4. \A n \in Queue : job[n] # k
    BY <1>2, <1>5, <2>1, <2>2, <2>3 DEF Stored, Once
  <2>5. ~Waiting(k)
    BY <2>4 DEF Waiting
  <2>6. Waiting(k)'
    BY <1>2, <2>1, <2>2, <2>3 DEF Waiting
  <2>7. \A j \in Jobs \ {k} : Waiting(j)' <=> Waiting(j)
    BY <1>2, <1>4, <1>5, <2>1, <2>2, <2>3 DEF Waiting
  <2>8. \A j \in Jobs : Waiting(j)' <=> Waiting(j) \/ j = k
    BY <2>6, <2>7
  <2> QED
    BY <1>2, <2>3, <2>5, <2>8, QueueGrows
<1> QED
  BY <1>1, <1>6, <1>7, <1>8

LEMMA LpdQueueStep ==
  ASSUME TypeInv, Typed, Stored, OneDaemon, KeptInv, SafeFaults, NEW p \in Procs, LpdStep(p)
  PROVE  QueueStep
<1>1. LpdOthers(p) /\ (Calm(p) \/ OpenJob(p) \/ EndPrint(p) \/ RemoveJob(p) \/ RemoveEntry(p))
  BY LpdEffects DEF KeptInv
<1>2. /\ Queue \subseteq Names /\ entered' = entered
      /\ \A d \in Procs \ {p} : pc'[d] = pc[d] /\ best'[d] = best[d]
      /\ pc[p] # "dead" /\ pc'[p] # "dead"
  BY <1>1 DEF TypeInv, TypeOK, DirType, Queue, LpdOthers, Holding
<1>3. ASSUME pc[p] # "rment", pc'[p] # "rment" PROVE \A n \in Names : Adopted(n)' <=> Adopted(n)
  BY <1>2, <1>3, NamesType DEF Adopted
<1>4. CASE Calm(p) \/ OpenJob(p)
  <2>1. pc[p] # "rment" /\ pc'[p] # "rment"
    BY <1>4 DEF Calm, OpenJob, Goto, Typed
  <2>2. Queue' = Queue /\ job' = job /\ printed' = printed
    BY <1>4, LpdRemoves DEF Calm
  <2>3. \A j \in Jobs : Waiting(j)' <=> Waiting(j)
    BY <1>2, <1>3, <2>1, <2>2 DEF Waiting
  <2> QED
    BY <2>2, <2>3, QueueStays
<1>5. CASE EndPrint(p)
  <2>1. /\ pc[p] = "print" /\ best[p] \in Queue /\ best[p] \in Names /\ job[best[p]] = reading[p]
        /\ printed' = [printed EXCEPT ![reading[p]] = @ + 1] /\ Queue' = Queue /\ job' = job
    BY <1>5, LpdRemoves
  <2>2. pc'[p] = "rmjob"
    BY <1>5 DEF EndPrint, Goto, Typed
  <2>3. \A j \in Jobs \ {reading[p]} : Waiting(j)' <=> Waiting(j)
    <3>1. \A j \in Jobs \ {reading[p]} : printed'[j] = printed[j]
      BY <2>1 DEF Typed
    <3> QED
      BY <1>2, <1>3, <2>1, <2>2, <3>1 DEF Waiting
  <2>4. CASE reading[p] \notin Jobs
    <3>1. printed' = printed
      BY <2>1, <2>4 DEF Typed
    <3> QED
      BY <2>3, <2>4, <3>1, QueueStays
  <2>5. CASE reading[p] \in Jobs /\ printed[reading[p]] # 0
    <3>1. \A j \in Jobs : printed'[j] > 0 <=> printed[j] > 0
      BY <2>1, <2>5 DEF Typed
    <3>2. printed'[reading[p]] # 0
      BY <2>1, <2>5 DEF Typed
    <3>3. \A j \in Jobs : Waiting(j)' <=> Waiting(j)
      BY <2>3, <2>5, <3>2 DEF Waiting
    <3>4. InQueue' = InQueue /\ Paper' = Paper
      BY <3>1, <3>3 DEF InQueue, Paper
    <3> QED
      BY <3>4 DEF QueueStep
  <2>6. CASE reading[p] \in Jobs /\ printed[reading[p]] = 0
    <3>1. reading[p] \in entered \/ pc[best[p][1]] = "dead"
      <4>1. ~(pc[best[p][1]] \in {"write", "link"} /\ name[best[p][1]] = best[p])
        BY <2>1, NamesType, HandingApart DEF KeptInv, Handing, Serving
      <4>2. job[best[p]] # NoJob
        BY <2>1, <2>6, JobsType
      <4> QED
        BY <2>1, <4>1, <4>2 DEF KeptInv, Strays
    <3>2. \A d \in Procs : pc[d] # "rment"
      BY <2>1 DEF OneDaemon, Holding
    <3>3. Waiting(reading[p])
      BY <2>1, <2>6, <3>1, <3>2 DEF Waiting, Adopted
    <3> QED
      BY <2>1, <2>3, <2>6, <3>3, QueueShrinks
  <2> QED
    BY <2>4, <2>5, <2>6 DEF Typed
<1>6. CASE RemoveJob(p)
  <2>1. /\ pc[p] = "rmjob" /\ best[p] \in Queue /\ best[p] \in Names /\ job[best[p]] = reading[p]
        /\ reading[p] # NoJob => printed[reading[p]] > 0
        /\ job' = [n \in Names |-> IF n = best[p] THEN NoJob ELSE job[n]]
        /\ Queue' = Queue /\ printed' = printed
    BY <1>6, LpdRemoves
  <2>2. best' = best
    BY <1>6 DEF RemoveJob, scanVars
  <2>3. \A n \in Names \ {best[p]} : Adopted(n)' <=> Adopted(n)
    BY <1>2, <2>1, <2>2, NamesType DEF Adopted
  <2>4. \A j \in Jobs : job[best[p]] = j => printed[j] # 0
    BY <2>1, JobsType DEF Typed
  <2>5. \A j \in Jobs : job'[best[p]] # j
    BY <2>1, JobsType
  <2>6. \A n \in Queue \ {best[p]} : job'[n] = job[n] /\ (Adopted(n)' <=> Adopted(n))
    BY <1>2, <2>1, <2>3
  <2>7. \A j \in Jobs : Waiting(j)' <=> Waiting(j)
    BY <1>2, <2>1, <2>4, <2>5, <2>6 DEF Waiting
  <2> QED
    BY <2>1, <2>7, QueueStays
<1>7. CASE RemoveEntry(p)
  <2>1. /\ pc[p] = "rment" /\ best[p] \in Queue
        /\ job[best[p]] # NoJob => job[best[p]] \notin entered
        /\ Queue' = Queue \ {best[p]} /\ job' = job /\ printed' = printed
    BY <1>7, LpdRemoves
  <2>2. best' = best
    BY <1>7 DEF RemoveEntry, scanVars
  <2>3. \A n \in Names \ {best[p]} : Adopted(n)' <=> Adopted(n)
    BY <1>2, <2>1, <2>2, NamesType DEF Adopted
  <2>4. ~Adopted(best[p])
    BY <2>1 DEF Adopted
  <2>5. \A j \in Jobs : job[best[p]] = j => j \notin entered
    BY <2>1, JobsType
  <2>6. \A j \in Jobs : Waiting(j)' <=> Waiting(j)
    BY <1>2, <2>1, <2>3, <2>4, <2>5 DEF Waiting
  <2> QED
    BY <2>1, <2>6, QueueStays
<1> QED
  BY <1>1, <1>4, <1>5, <1>6, <1>7

\* There is one such text at most: the lock and the names see to it.
LEMMA StrayOne ==
  ASSUME TypeInv, Typed, OneDaemon, KeptInv, NEW m, NEW n, Stray(m), Stray(n)
  PROVE  m = n
<1>1. m \in Names /\ n \in Names
  BY DEF Stray, TypeInv, TypeOK, DirType, Queue
<1>2. ASSUME NEW k \in Names, Stray(k)
      PROVE  (\E d \in Procs : pc[d] = "rment" /\ best[d] = k) \/ Orphan(k)
  <2>1. job[k] # NoJob
    BY <1>2, JobsType DEF Stray
  <2>2. pc[k[1]] = "dead" \/ (pc[k[1]] \in {"write", "link"} /\ name[k[1]] = k)
    BY <1>2, <2>1 DEF Stray, KeptInv, Strays
  <2> QED
    BY <1>2, <2>2 DEF Stray, Adopted, Orphan, Spools, Handing, Spooling
<1>3. ASSUME NEW k \in Names, NEW l \in Names, Orphan(k), NEW d \in Procs, pc[d] = "rment", best[d] = l
      PROVE  k = l
  BY <1>3 DEF KeptInv, OrphanInv, Guarded, Holding
<1>4. \A d, e \in Procs : pc[d] = "rment" /\ pc[e] = "rment" => d = e
  BY DEF OneDaemon, Holding
<1> QED
  BY <1>1, <1>2, <1>3, <1>4 DEF KeptInv, OrphanInv

LEMMA EndedQueueStep ==
  ASSUME TypeInv, Typed, OneDaemon, KeptInv, Same,
         \A q \in Procs : pc'[q] = pc[q] \/ pc'[q] = "dead"
  PROVE  QueueStep
<1>1. Queue' = Queue /\ Queue \subseteq Names
  BY DEF Same, Queue, TypeInv, TypeOK, DirType
<1>2. \A n \in Names : Adopted(n) => Adopted(n)'
  BY NamesType DEF Same, Adopted
<1>3. \A j \in Jobs : Waiting(j) => Waiting(j)'
  BY <1>1, <1>2 DEF Same, Waiting
<1>4. ASSUME NEW j \in Jobs, Waiting(j)', ~Waiting(j)
      PROVE  printed[j] = 0 /\ \E n \in Queue : job[n] = j /\ Stray(n)
  BY <1>1, <1>4 DEF Same, Waiting, Stray
<1>5. CASE \A j \in Jobs : Waiting(j)' => Waiting(j)
  BY <1>3, <1>5, QueueStays DEF Same
<1>6. CASE \E j \in Jobs : Waiting(j)' /\ ~Waiting(j)
  <2>1. PICK k \in Jobs : Waiting(k)' /\ ~Waiting(k)
    BY <1>6
  <2>2. \A j \in Jobs : Waiting(j)' => Waiting(j) \/ j = k
    BY <1>4, <2>1, StrayOne
  <2> QED
    BY <1>3, <1>4, <2>1, <2>2, QueueGrows DEF Same
<1> QED
  BY <1>5, <1>6

LEMMA QueueInit == Init => PQ!Init
<1> SUFFICES ASSUME Init PROVE PQ!Init
  OBVIOUS
<1>1. Queue = {} /\ \A j \in Jobs : printed[j] = 0
  BY DEF Init, Queue
<1>2. InQueue = {} /\ Paper = {}
  BY <1>1 DEF InQueue, Paper, Waiting
<1> QED
  BY <1>2 DEF PQ!Init, InQueue, Paper

LEMMA QueueNext ==
  ASSUME SafeFaults
  PROVE  TypeInv /\ OneDaemon /\ Stored /\ KeptInv /\ [Next]_vars => QueueStep
<1> SUFFICES ASSUME TypeInv, OneDaemon, Stored, KeptInv, [Next]_vars PROVE QueueStep
  OBVIOUS
<1>0. Typed
  BY TypedLemma
<1>1. ASSUME NEW p \in Procs, Start(p) \/ LprStep(p) PROVE QueueStep
  BY <1>0, <1>1, LprQueueStep
<1>2. ASSUME NEW p \in Procs, LpdStep(p) PROVE QueueStep
  BY <1>0, <1>2, LpdQueueStep
<1>3. ASSUME NEW p \in Procs, Kill(p) PROVE QueueStep
  BY <1>0, <1>3, KillEnds, EndedQueueStep DEF Typed
<1>4. CASE Reboot
  BY <1>0, <1>4, RebootEnds, EndedQueueStep
<1>5. CASE UNCHANGED vars
  <2>1. Same /\ pc' = pc
    BY <1>5 DEF vars, lprVars, scanVars, printVars, Same
  <2> QED
    BY <1>0, <2>1, EndedQueueStep
<1> QED
  BY <1>1, <1>2, <1>3, <1>4, <1>5 DEF Next

\* The spooler keeps the promise of PrintQueue: a job that was entered waits,
\* with its text, until it is printed, whoever is killed meanwhile.
THEOREM QueueTheorem ==
  ASSUME SafeFaults
  PROVE  Spec => ImplementsQueue
<1>1. TypeInv /\ OneDaemon /\ Stored /\ KeptInv /\ [Next]_vars
      => (TypeInv /\ OneDaemon /\ Stored /\ KeptInv)'
  BY TypeStep, MutexStep, StoredStep, KeptStep
<1>2. TypeInv /\ OneDaemon /\ Stored /\ KeptInv /\ [Next]_vars
      => [PQ!Next]_<<{j \in Jobs : Waiting(j)}, {j \in Jobs : printed[j] > 0}>>
  BY QueueNext DEF QueueStep, InQueue, Paper
<1> QED
  BY <1>1, <1>2, TypeInit, MutexInit, StoredInit, KeptInit, QueueInit, PTL
  DEF Spec, ImplementsQueue, PQ!Spec
=============================================================================

--------------------------- MODULE SpoolerProofs ---------------------------
(***************************************************************************)
(* What holds of Spooler for every number of processes, files, directory   *)
(* places, faults and crashes.                                             *)
(***************************************************************************)
EXTENDS Spooler, TLAPS

\* lpr has a name from mktemp, the daemon prints a job, and an entry that was
\* found is in sp: what the type of the variables needs to be inductive.
Spooling == {"put", "copy", "freopen", "write", "link", "unpre", "rm", "flush"}

Filled ==
    \A p \in Procs :
        /\ pc[p] \in Spooling => name[p] \in Names
        /\ pc[p] = "print" => reading[p] \in Jobs
        /\ maxpri[p] # -1 => best[p] \in Names

Scalars ==
    /\ pc \in [Procs -> PCs]
    /\ faults \in 0..MaxFaults /\ crashes \in 0..MaxCrashes

TypeInv == TypeOK /\ Filled

LEMMA BlocksType == Blocks \in Nat \ {0} /\ MaxFaults \in Nat /\ MaxCrashes \in Nat
  BY ConstantsAssumption DEF ConstantsAssumption

LEMMA NFilesType == NFiles \in [Procs -> Nat \ {0}]
  BY ConstantsAssumption DEF ConstantsAssumption

LEMMA PriOfType == ASSUME NEW n \in Names PROVE PriOf(n) \in 1..9
  BY ConstantsAssumption DEF ConstantsAssumption, PriOf, Names

LEMMA MeInJobs == ASSUME TypeOK, NEW p \in Procs PROVE Me(p) \in Jobs
  BY NFilesType DEF TypeOK, LprType, Me, Jobs

LEMMA NextFileType ==
  ASSUME LprType, NEW p \in Procs, NextFile(p)
  PROVE  arg' \in [Procs -> Nat \ {0}] /\ \A q \in Procs : arg'[q] <= NFiles[q]
<1>1. CASE arg[p] < NFiles[p]
  <2>1. arg' = [arg EXCEPT ![p] = arg[p] + 1]
    BY <1>1 DEF NextFile
  <2>2. arg[p] \in Nat /\ NFiles[p] \in Nat /\ arg[p] + 1 <= NFiles[p]
    BY <1>1, NFilesType DEF LprType
  <2>3. arg' \in [Procs -> Nat \ {0}]
    BY <2>1, <2>2 DEF LprType
  <2>4. ASSUME NEW q \in Procs PROVE arg'[q] <= NFiles[q]
    BY <2>1, <2>2 DEF LprType
  <2> QED
    BY <2>3, <2>4
<1>2. CASE ~(arg[p] < NFiles[p])
  BY <1>2 DEF NextFile, LprType
<1> QED
  BY <1>1, <1>2

LEMMA TypeInit == Init => TypeInv
<1> SUFFICES ASSUME Init PROVE TypeInv
  OBVIOUS
<1>1. LprType /\ DirType
  BY BlocksType, NFilesType DEF Init, LprType, DirType
<1>2. ScanType /\ PrintType
  BY BlocksType DEF Init, ScanType, PrintType
<1>3. Scalars
  BY BlocksType DEF Init, Scalars, PCs
<1>5. lock \in BOOLEAN
  BY DEF Init
<1>4. Filled
  BY DEF Init, Filled, Spooling
<1> QED
  BY <1>1, <1>2, <1>3, <1>4, <1>5 DEF TypeInv, TypeOK, Scalars

LEMMA TypeStart == ASSUME TypeInv, NEW p \in Procs, Start(p) PROVE TypeInv'
<1> USE DEF TypeInv, TypeOK, Start
<1>1. Scalars'
  BY BlocksType DEF Scalars, Goto, PCs, Holding, faultVars
<1>2. lock' \in BOOLEAN
  OBVIOUS
<1>3. LprType' /\ DirType' /\ ScanType' /\ PrintType'
  BY DEF LprType, DirType, ScanType, PrintType, lprVars, scanVars, printVars
<1>4. Filled'
  BY DEF Filled, Spooling, PCs, LprType, ScanType, PrintType, Goto, lprVars, scanVars, printVars
<1> QED
  BY <1>1, <1>2, <1>3, <1>4 DEF Scalars

LEMMA TypeMktemp == ASSUME TypeInv, NEW p \in Procs, Mktemp(p) PROVE TypeInv'
<1> USE DEF TypeInv, TypeOK, Mktemp
<1>1. Scalars'
  BY BlocksType DEF Scalars, Goto, PCs, Holding, faultVars, NextFile
<1>2. lock' \in BOOLEAN
  OBVIOUS
<1>3. LprType'
  BY MeInJobs, NextFileType DEF LprType, Filled, Spooling
<1>4. DirType' /\ ScanType' /\ PrintType'
  BY DEF DirType, ScanType, PrintType, scanVars, printVars
<1>5. Filled'
  BY DEF Filled, Spooling, PCs, LprType, ScanType, PrintType, Goto, lprVars, scanVars, printVars, NextFile
<1> QED
  BY <1>1, <1>2, <1>3, <1>4, <1>5 DEF Scalars

LEMMA TypePutJob == ASSUME TypeInv, NEW p \in Procs, PutJob(p) PROVE TypeInv'
<1> USE DEF TypeInv, TypeOK, PutJob, Fail
<1>1. Scalars'
  BY BlocksType DEF Scalars, Goto, PCs, Holding, faultVars
<1>2. lock' \in BOOLEAN
  OBVIOUS
<1>3. LprType'
  BY MeInJobs, NextFileType DEF LprType, Filled, Spooling
<1>4. DirType' /\ ScanType' /\ PrintType'
  BY DEF DirType, ScanType, PrintType, scanVars, printVars
<1>5. Filled'
  BY DEF Filled, Spooling, PCs, LprType, ScanType, PrintType, Goto, lprVars, scanVars, printVars
<1> QED
  BY <1>1, <1>2, <1>3, <1>4, <1>5 DEF Scalars

LEMMA TypeCopy == ASSUME TypeInv, NEW p \in Procs, Copy(p) PROVE TypeInv'
<1> USE DEF TypeInv, TypeOK, Copy, Fail
<1>1. Scalars'
  BY BlocksType DEF Scalars, Goto, PCs, Holding, faultVars
<1>2. lock' \in BOOLEAN
  OBVIOUS
<1>3. DirType'
  BY MeInJobs, BlocksType DEF DirType, Filled, Spooling
<1>4. LprType' /\ ScanType' /\ PrintType'
  BY DEF LprType, ScanType, PrintType, lprVars, scanVars, printVars
<1>5. Filled'
  BY DEF Filled, Spooling, PCs, LprType, ScanType, PrintType, Goto, lprVars, scanVars, printVars
<1> QED
  BY <1>1, <1>2, <1>3, <1>4, <1>5 DEF Scalars

LEMMA TypeFreopen == ASSUME TypeInv, NEW p \in Procs, Freopen(p) PROVE TypeInv'
<1> USE DEF TypeInv, TypeOK, Freopen, Fail
<1>1. Scalars'
  BY BlocksType DEF Scalars, Goto, PCs, Holding, faultVars
<1>2. lock' \in BOOLEAN
  OBVIOUS
<1>3. DirType'
  BY MeInJobs, BlocksType DEF DirType, Filled, Spooling
<1>4. LprType' /\ ScanType' /\ PrintType'
  BY DEF LprType, ScanType, PrintType, lprVars, scanVars, printVars
<1>5. Filled'
  BY DEF Filled, Spooling, PCs, LprType, ScanType, PrintType, Goto, lprVars, scanVars, printVars
<1> QED
  BY <1>1, <1>2, <1>3, <1>4, <1>5 DEF Scalars

LEMMA TypeWrite == ASSUME TypeInv, NEW p \in Procs, Write(p) PROVE TypeInv'
<1> USE DEF TypeInv, TypeOK, Write, Fail
<1>1. Scalars'
  BY BlocksType DEF Scalars, Goto, PCs, Holding, faultVars
<1>2. lock' \in BOOLEAN
  OBVIOUS
<1>3. DirType'
  BY MeInJobs, BlocksType DEF DirType, Filled, Spooling
<1>4. LprType' /\ ScanType' /\ PrintType'
  BY DEF LprType, ScanType, PrintType, lprVars, scanVars, printVars
<1>5. Filled'
  BY DEF Filled, Spooling, PCs, LprType, ScanType, PrintType, Goto, lprVars, scanVars, printVars
<1> QED
  BY <1>1, <1>2, <1>3, <1>4, <1>5 DEF Scalars

LEMMA TypeLinkEntry == ASSUME TypeInv, NEW p \in Procs, LinkEntry(p) PROVE TypeInv'
<1> USE DEF TypeInv, TypeOK, LinkEntry
<1>1. Scalars'
  BY BlocksType DEF Scalars, Goto, PCs, Holding, faultVars
<1>2. lock' \in BOOLEAN
  OBVIOUS
<1>3. LprType'
  BY MeInJobs, NextFileType DEF LprType, Filled, Spooling
<1>4. DirType'
  BY MeInJobs, BlocksType DEF DirType, Filled, Spooling
<1>5. ScanType' /\ PrintType'
  BY DEF ScanType, PrintType, scanVars, printVars
<1>6. Filled'
  BY DEF Filled, Spooling, PCs, LprType, ScanType, PrintType, Goto, lprVars, scanVars, printVars
<1> QED
  BY <1>1, <1>2, <1>3, <1>4, <1>5, <1>6 DEF Scalars

LEMMA TypeUnlinkPre == ASSUME TypeInv, NEW p \in Procs, UnlinkPre(p) PROVE TypeInv'
<1> USE DEF TypeInv, TypeOK, UnlinkPre, Fail
<1>1. Scalars'
  BY BlocksType DEF Scalars, Goto, PCs, Holding, faultVars
<1>2. lock' \in BOOLEAN
  OBVIOUS
<1>3. LprType'
  BY MeInJobs, NextFileType DEF LprType, Filled, Spooling
<1>4. DirType'
  BY MeInJobs, BlocksType DEF DirType, Filled, Spooling
<1>5. ScanType' /\ PrintType'
  BY DEF ScanType, PrintType, scanVars, printVars
<1>6. Filled'
  BY DEF Filled, Spooling, PCs, LprType, ScanType, PrintType, Goto, lprVars, scanVars, printVars
<1> QED
  BY <1>1, <1>2, <1>3, <1>4, <1>5, <1>6 DEF Scalars

LEMMA TypeRemoveOriginal == ASSUME TypeInv, NEW p \in Procs, RemoveOriginal(p) PROVE TypeInv'
<1> USE DEF TypeInv, TypeOK, RemoveOriginal
<1>1. Scalars'
  BY BlocksType DEF Scalars, Goto, PCs, Holding, faultVars, NextFile
<1>2. lock' \in BOOLEAN
  OBVIOUS
<1>3. LprType'
  BY MeInJobs, NextFileType DEF LprType, Filled, Spooling
<1>4. DirType' /\ ScanType' /\ PrintType'
  BY DEF DirType, ScanType, PrintType, scanVars, printVars
<1>5. Filled'
  BY DEF Filled, Spooling, PCs, LprType, ScanType, PrintType, Goto, lprVars, scanVars, printVars, NextFile
<1> QED
  BY <1>1, <1>2, <1>3, <1>4, <1>5 DEF Scalars

LEMMA TypeFlush == ASSUME TypeInv, NEW p \in Procs, Flush(p) PROVE TypeInv'
<1> USE DEF TypeInv, TypeOK, Flush
<1>1. Scalars'
  BY BlocksType DEF Scalars, Goto, PCs, Holding, faultVars
<1>2. lock' \in BOOLEAN
  OBVIOUS
<1>3. DirType'
  BY MeInJobs, BlocksType DEF DirType, Filled, Spooling
<1>4. LprType' /\ ScanType' /\ PrintType'
  BY DEF LprType, ScanType, PrintType, lprVars, scanVars, printVars
<1>5. Filled'
  BY DEF Filled, Spooling, PCs, LprType, ScanType, PrintType, Goto, lprVars, scanVars, printVars
<1> QED
  BY <1>1, <1>2, <1>3, <1>4, <1>5 DEF Scalars

LEMMA TypeExec == ASSUME TypeInv, NEW p \in Procs, Exec(p) PROVE TypeInv'
<1> USE DEF TypeInv, TypeOK, Exec, Fail
<1>1. Scalars'
  BY BlocksType DEF Scalars, Goto, PCs, Holding, faultVars
<1>2. lock' \in BOOLEAN
  OBVIOUS
<1>3. LprType' /\ DirType' /\ ScanType' /\ PrintType'
  BY DEF LprType, DirType, ScanType, PrintType, lprVars, scanVars, printVars
<1>4. Filled'
  BY DEF Filled, Spooling, PCs, LprType, ScanType, PrintType, Goto, lprVars, scanVars, printVars
<1> QED
  BY <1>1, <1>2, <1>3, <1>4 DEF Scalars

LEMMA TypeTestLock == ASSUME TypeInv, NEW p \in Procs, TestLock(p) PROVE TypeInv'
<1> USE DEF TypeInv, TypeOK, TestLock
<1>1. Scalars'
  BY BlocksType DEF Scalars, Goto, PCs, Holding, faultVars
<1>2. lock' \in BOOLEAN
  OBVIOUS
<1>3. LprType' /\ DirType' /\ ScanType' /\ PrintType'
  BY DEF LprType, DirType, ScanType, PrintType, lprVars, scanVars, printVars
<1>4. Filled'
  BY DEF Filled, Spooling, PCs, LprType, ScanType, PrintType, Goto, lprVars, scanVars, printVars
<1> QED
  BY <1>1, <1>2, <1>3, <1>4 DEF Scalars

LEMMA TypeMakeLock == ASSUME TypeInv, NEW p \in Procs, MakeLock(p) PROVE TypeInv'
<1> USE DEF TypeInv, TypeOK, MakeLock
<1>1. Scalars'
  BY BlocksType DEF Scalars, Goto, PCs, Holding, faultVars
<1>2. lock' \in BOOLEAN
  OBVIOUS
<1>3. LprType' /\ DirType' /\ ScanType' /\ PrintType'
  BY DEF LprType, DirType, ScanType, PrintType, lprVars, scanVars, printVars
<1>4. Filled'
  BY DEF Filled, Spooling, PCs, LprType, ScanType, PrintType, Goto, lprVars, scanVars, printVars
<1> QED
  BY <1>1, <1>2, <1>3, <1>4 DEF Scalars

LEMMA TypeChdir == ASSUME TypeInv, NEW p \in Procs, Chdir(p) PROVE TypeInv'
<1> USE DEF TypeInv, TypeOK, Chdir, Fail, Release
<1>1. Scalars'
  BY BlocksType DEF Scalars, Goto, PCs, Holding, faultVars
<1>2. lock' \in BOOLEAN
  OBVIOUS
<1>3. LprType' /\ DirType' /\ ScanType' /\ PrintType'
  BY DEF LprType, DirType, ScanType, PrintType, lprVars, scanVars, printVars
<1>4. Filled'
  BY DEF Filled, Spooling, PCs, LprType, ScanType, PrintType, Goto, lprVars, scanVars, printVars
<1> QED
  BY <1>1, <1>2, <1>3, <1>4 DEF Scalars

LEMMA TypeOpenDir == ASSUME TypeInv, NEW p \in Procs, OpenDir(p) PROVE TypeInv'
<1> USE DEF TypeInv, TypeOK, OpenDir, Fail
<1>1. Scalars'
  BY BlocksType DEF Scalars, Goto, PCs, Holding, faultVars
<1>2. lock' \in BOOLEAN
  OBVIOUS
<1>3. ScanType'
  BY PriOfType DEF ScanType, DirType, Queue, scanVars
<1>4. LprType' /\ DirType' /\ PrintType'
  BY DEF LprType, DirType, PrintType, lprVars, printVars
<1>5. Filled'
  BY DEF Filled, Spooling, PCs, LprType, ScanType, PrintType, Goto, lprVars, scanVars, printVars
<1> QED
  BY <1>1, <1>2, <1>3, <1>4, <1>5 DEF Scalars

LEMMA TypeReadEntry == ASSUME TypeInv, NEW p \in Procs, ReadEntry(p) PROVE TypeInv'
<1> USE DEF TypeInv, TypeOK, ReadEntry, Fail
<1>1. Scalars'
  BY BlocksType DEF Scalars, Goto, PCs, Holding, faultVars
<1>2. lock' \in BOOLEAN
  OBVIOUS
<1>3. ScanType'
  BY PriOfType DEF ScanType, DirType, Better
<1>4. LprType' /\ DirType' /\ PrintType'
  BY DEF LprType, DirType, PrintType, lprVars, printVars
<1>5. Filled'
  BY DEF Filled, Spooling, PCs, LprType, ScanType, PrintType, Goto, lprVars, scanVars, printVars, Better, DirType
<1> QED
  BY <1>1, <1>2, <1>3, <1>4, <1>5 DEF Scalars

LEMMA TypeEndOfDir == ASSUME TypeInv, NEW p \in Procs, EndOfDir(p) PROVE TypeInv'
<1> USE DEF TypeInv, TypeOK, EndOfDir
<1>1. Scalars'
  BY BlocksType DEF Scalars, Goto, PCs, Holding, faultVars
<1>2. lock' \in BOOLEAN
  OBVIOUS
<1>3. LprType' /\ DirType' /\ ScanType' /\ PrintType'
  BY DEF LprType, DirType, ScanType, PrintType, lprVars, scanVars, printVars
<1>4. Filled'
  BY DEF Filled, Spooling, PCs, LprType, ScanType, PrintType, Goto, lprVars, scanVars, printVars
<1> QED
  BY <1>1, <1>2, <1>3, <1>4 DEF Scalars

LEMMA TypeOpenJob == ASSUME TypeInv, NEW p \in Procs, OpenJob(p) PROVE TypeInv'
<1> USE DEF TypeInv, TypeOK, OpenJob
<1>1. Scalars'
  BY BlocksType DEF Scalars, Goto, PCs, Holding, faultVars
<1>2. lock' \in BOOLEAN
  OBVIOUS
<1>3. PrintType'
  BY MeInJobs, BlocksType DEF PrintType, Filled, Spooling, DirType, ScanType, printVars
<1>4. LprType' /\ DirType' /\ ScanType'
  BY DEF LprType, DirType, ScanType, lprVars, scanVars
<1>5. Filled'
  BY DEF Filled, Spooling, PCs, LprType, ScanType, PrintType, Goto, lprVars, scanVars, printVars
<1> QED
  BY <1>1, <1>2, <1>3, <1>4, <1>5 DEF Scalars

LEMMA TypeOpenDevice == ASSUME TypeInv, NEW p \in Procs, OpenDevice(p) PROVE TypeInv'
<1> USE DEF TypeInv, TypeOK, OpenDevice, Fail, Release
<1>1. Scalars'
  BY BlocksType DEF Scalars, Goto, PCs, Holding, faultVars
<1>2. lock' \in BOOLEAN
  OBVIOUS
<1>3. PrintType'
  BY MeInJobs, BlocksType DEF PrintType, Filled, Spooling, DirType, ScanType, printVars
<1>4. LprType' /\ DirType' /\ ScanType'
  BY DEF LprType, DirType, ScanType, lprVars, scanVars
<1>5. Filled'
  BY DEF Filled, Spooling, PCs, LprType, ScanType, PrintType, Goto, lprVars, scanVars, printVars
<1> QED
  BY <1>1, <1>2, <1>3, <1>4, <1>5 DEF Scalars

LEMMA TypePrintBlock == ASSUME TypeInv, NEW p \in Procs, PrintBlock(p) PROVE TypeInv'
<1> USE DEF TypeInv, TypeOK, PrintBlock
<1>1. Scalars'
  BY BlocksType DEF Scalars, Goto, PCs, Holding, faultVars
<1>2. lock' \in BOOLEAN
  OBVIOUS
<1>3. PrintType'
  BY MeInJobs, BlocksType DEF PrintType, Filled, Spooling, DirType, ScanType, printVars
<1>4. LprType' /\ DirType' /\ ScanType'
  BY DEF LprType, DirType, ScanType, lprVars, scanVars
<1>5. Filled'
  BY DEF Filled, Spooling, PCs, LprType, ScanType, PrintType, Goto, lprVars, scanVars, printVars
<1> QED
  BY <1>1, <1>2, <1>3, <1>4, <1>5 DEF Scalars

LEMMA TypeEndPrint == ASSUME TypeInv, NEW p \in Procs, EndPrint(p) PROVE TypeInv'
<1> USE DEF TypeInv, TypeOK, EndPrint, Fail
<1>1. Scalars'
  BY BlocksType DEF Scalars, Goto, PCs, Holding, faultVars
<1>2. lock' \in BOOLEAN
  OBVIOUS
<1>3. PrintType'
  BY MeInJobs, BlocksType DEF PrintType, Filled, Spooling, DirType, ScanType, printVars
<1>4. LprType' /\ DirType' /\ ScanType'
  BY DEF LprType, DirType, ScanType, lprVars, scanVars
<1>5. Filled'
  BY DEF Filled, Spooling, PCs, LprType, ScanType, PrintType, Goto, lprVars, scanVars, printVars
<1> QED
  BY <1>1, <1>2, <1>3, <1>4, <1>5 DEF Scalars

LEMMA TypeRemoveJob == ASSUME TypeInv, NEW p \in Procs, RemoveJob(p) PROVE TypeInv'
<1> USE DEF TypeInv, TypeOK, RemoveJob, Fail
<1>1. Scalars'
  BY BlocksType DEF Scalars, Goto, PCs, Holding, faultVars
<1>2. lock' \in BOOLEAN
  OBVIOUS
<1>3. DirType'
  BY MeInJobs, BlocksType DEF DirType, Filled, Spooling
<1>4. LprType' /\ ScanType' /\ PrintType'
  BY DEF LprType, ScanType, PrintType, lprVars, scanVars, printVars
<1>5. Filled'
  BY DEF Filled, Spooling, PCs, LprType, ScanType, PrintType, Goto, lprVars, scanVars, printVars
<1> QED
  BY <1>1, <1>2, <1>3, <1>4, <1>5 DEF Scalars

LEMMA TypeRemoveEntry == ASSUME TypeInv, NEW p \in Procs, RemoveEntry(p) PROVE TypeInv'
<1> USE DEF TypeInv, TypeOK, RemoveEntry, Fail
<1>1. Scalars'
  BY BlocksType DEF Scalars, Goto, PCs, Holding, faultVars
<1>2. lock' \in BOOLEAN
  OBVIOUS
<1>3. DirType'
  BY MeInJobs, BlocksType DEF DirType, Filled, Spooling
<1>4. LprType' /\ ScanType' /\ PrintType'
  BY DEF LprType, ScanType, PrintType, lprVars, scanVars, printVars
<1>5. Filled'
  BY DEF Filled, Spooling, PCs, LprType, ScanType, PrintType, Goto, lprVars, scanVars, printVars
<1> QED
  BY <1>1, <1>2, <1>3, <1>4, <1>5 DEF Scalars

LEMMA TypeAbort == ASSUME TypeInv, NEW p \in Procs, Abort(p) PROVE TypeInv'
<1> USE DEF TypeInv, TypeOK, Abort, Release
<1>1. Scalars'
  BY BlocksType DEF Scalars, Goto, PCs, Holding, faultVars
<1>2. lock' \in BOOLEAN
  OBVIOUS
<1>3. LprType' /\ DirType' /\ ScanType' /\ PrintType'
  BY DEF LprType, DirType, ScanType, PrintType, lprVars, scanVars, printVars
<1>4. Filled'
  BY DEF Filled, Spooling, PCs, LprType, ScanType, PrintType, Goto, lprVars, scanVars, printVars
<1> QED
  BY <1>1, <1>2, <1>3, <1>4 DEF Scalars

LEMMA TypeKill == ASSUME TypeInv, NEW p \in Procs, Kill(p) PROVE TypeInv'
<1> USE DEF TypeInv, TypeOK, Kill
<1>1. Scalars'
  BY BlocksType DEF Scalars, Goto, PCs, Holding, faultVars, Running
<1>2. lock' \in BOOLEAN
  OBVIOUS
<1>3. LprType' /\ DirType' /\ ScanType' /\ PrintType'
  BY DEF LprType, DirType, ScanType, PrintType, lprVars, scanVars, printVars
<1>4. Filled'
  BY DEF Filled, Spooling, PCs, LprType, ScanType, PrintType, Goto, lprVars, scanVars, printVars
<1> QED
  BY <1>1, <1>2, <1>3, <1>4 DEF Scalars

LEMMA TypeReboot == ASSUME TypeInv, Reboot PROVE TypeInv'
<1> USE DEF TypeInv, TypeOK, Reboot, Running
<1>1. Scalars'
  BY BlocksType DEF Scalars, PCs
<1>4. lock' \in BOOLEAN
  OBVIOUS
<1>2. LprType' /\ DirType' /\ ScanType' /\ PrintType'
  BY DEF LprType, DirType, ScanType, PrintType, lprVars, scanVars, printVars
<1>3. Filled'
  BY DEF Filled, Spooling, lprVars, scanVars, printVars
<1> QED
  BY <1>1, <1>2, <1>3, <1>4 DEF Scalars

LEMMA TypeStep == TypeInv /\ [Next]_vars => TypeInv'
<1> SUFFICES ASSUME TypeInv, [Next]_vars PROVE TypeInv'
  OBVIOUS
<1>1. ASSUME NEW p \in Procs, LprStep(p) PROVE TypeInv'
  BY <1>1, TypeMktemp, TypePutJob, TypeCopy, TypeFreopen,
     TypeWrite, TypeLinkEntry, TypeUnlinkPre, TypeRemoveOriginal, TypeFlush, TypeExec
  DEF LprStep
<1>2. ASSUME NEW p \in Procs, LpdStep(p) PROVE TypeInv'
  BY <1>2, TypeTestLock, TypeMakeLock, TypeChdir, TypeOpenDir, TypeReadEntry,
     TypeEndOfDir, TypeOpenJob, TypeOpenDevice, TypePrintBlock, TypeEndPrint,
     TypeRemoveJob, TypeRemoveEntry, TypeAbort
  DEF LpdStep
<1>3. CASE UNCHANGED vars
  BY <1>3 DEF TypeInv, TypeOK, Filled, LprType, DirType, ScanType, PrintType,
              vars, lprVars, scanVars, printVars, faultVars
<1> QED
  BY <1>1, <1>2, <1>3, TypeStart, TypeKill, TypeReboot DEF Next

\* The variables keep their types.
THEOREM TypeCorrect == Spec => []TypeOK
<1>1. TypeInv => TypeOK
  BY DEF TypeInv
<1> QED
  BY TypeInit, TypeStep, <1>1, PTL DEF Spec

-----------------------------------------------------------------------------
(* The lock *)

\* A step of p that leaves the lock alone and does not make p a holder.
LEMMA MutexKept ==
  ASSUME OneDaemon, NEW p \in Procs, NEW l, l \in Holding => pc[p] \in Holding,
         pc \in [Procs -> PCs], Goto(p, l), UNCHANGED lock
  PROVE  OneDaemon'
  BY DEF OneDaemon, LockHeld, Goto

\* A holder leaves and removes the lock.
LEMMA MutexReleased ==
  ASSUME OneDaemon, NEW p \in Procs, pc[p] \in Holding, pc \in [Procs -> PCs], Release(p)
  PROVE  OneDaemon'
  BY DEF OneDaemon, LockHeld, Goto, Release, Holding

LEMMA MutexStep == TypeInv /\ OneDaemon /\ [Next]_vars => OneDaemon'
<1> SUFFICES ASSUME TypeInv, OneDaemon, [Next]_vars PROVE OneDaemon'
  OBVIOUS
<1>0. pc \in [Procs -> PCs]
  BY DEF TypeInv, TypeOK
<1>1. ASSUME NEW p \in Procs, Start(p) \/ LprStep(p) PROVE OneDaemon'
  <2>1. PICK l \in PCs \ Holding : Goto(p, l) \/ UNCHANGED pc
    BY <1>1 DEF Start, LprStep, Mktemp, PutJob, Copy, Freopen, Write, LinkEntry,
       UnlinkPre, RemoveOriginal, Flush, Exec, NextFile, PCs, Holding
  <2>2. UNCHANGED lock
    BY <1>1 DEF Start, LprStep, Mktemp, PutJob, Copy, Freopen, Write, LinkEntry,
       UnlinkPre, RemoveOriginal, Flush, Exec
  <2>3. CASE UNCHANGED pc
    BY <2>2, <2>3 DEF OneDaemon, LockHeld
  <2> QED
    BY <1>0, <2>1, <2>2, <2>3, MutexKept
<1>2. ASSUME NEW p \in Procs, MakeLock(p) PROVE OneDaemon'
  <2>1. CASE lock
    BY <1>0, <1>2, <2>1, MutexKept DEF MakeLock, Holding
  <2>2. CASE ~lock
    <3>1. \A q \in Procs : pc[q] \notin Holding
      BY <2>2 DEF OneDaemon, LockHeld
    <3>2. lock' /\ \A q \in Procs \ {p} : pc'[q] \notin Holding
      BY <1>0, <1>2, <3>1 DEF MakeLock, Goto
    <3> QED
      BY <3>2 DEF OneDaemon, LockHeld
  <2> QED
    BY <2>1, <2>2
<1>3. ASSUME NEW p \in Procs, TestLock(p) PROVE OneDaemon'
  BY <1>0, <1>3, MutexKept DEF TestLock, Holding
<1>4. ASSUME NEW p \in Procs, Release(p), pc[p] \in {"chdir", "opendev", "abort"}
      PROVE OneDaemon'
  BY <1>0, <1>4, MutexReleased DEF Holding
<1>5. ASSUME NEW p \in Procs, LpdStep(p), pc[p] \in Holding, UNCHANGED lock
      PROVE OneDaemon'
  <2>1. CASE UNCHANGED pc
    BY <1>5, <2>1 DEF OneDaemon, LockHeld
  <2>2. CASE \E l \in PCs : Goto(p, l)
    BY <1>0, <1>5, <2>2, MutexKept
  <2> QED
    BY <1>5, <2>1, <2>2 DEF LpdStep, TestLock, MakeLock, Chdir, OpenDir, ReadEntry,
       EndOfDir, OpenJob, OpenDevice, PrintBlock, EndPrint, RemoveJob, RemoveEntry,
       Abort, Release, PCs, Holding
<1>6. ASSUME NEW p \in Procs, LpdStep(p) PROVE OneDaemon'
  BY <1>2, <1>3, <1>4, <1>5, <1>6 DEF LpdStep, Chdir, OpenDir, ReadEntry, EndOfDir,
     OpenJob, OpenDevice, PrintBlock, EndPrint, RemoveJob, RemoveEntry, Abort, Holding
<1>7. ASSUME NEW p \in Procs, Kill(p) PROVE OneDaemon'
  BY <1>0, <1>7, MutexKept DEF Kill, Holding
<1>8. CASE Reboot
  BY <1>0, <1>8 DEF Reboot, Running, OneDaemon, LockHeld, Holding
<1>9. CASE UNCHANGED vars
  BY <1>9 DEF vars, OneDaemon, LockHeld
<1> QED
  BY <1>1, <1>6, <1>7, <1>8, <1>9 DEF Next

LEMMA MutexInit == Init => OneDaemon
  BY DEF Init, OneDaemon, LockHeld, Holding

\* There is never more than one daemon at work, and it has the lock.
THEOREM OneDaemonTheorem == Spec => []OneDaemon
  BY TypeInit, TypeStep, MutexInit, MutexStep, PTL DEF Spec

-----------------------------------------------------------------------------
(* The scan of get_job *)

\* While it reads, the entries it saw at the start and could open, so far, are
\* still there, and those it has passed are no better than the best so far;
\* afterwards none is.
Scanning(p) ==
    /\ seen[p] \subseteq Queue
    /\ \A s \in Slots :
          s < pos[p] /\ ent[s] \in seen[p] => PriOf(ent[s]) <= maxpri[p]

ScanInv ==
    \A p \in Procs :
        /\ pc[p] = "read" => Scanning(p)
        /\ pc[p] \notin {"read", "dead"} /\ maxpri[p] # -1 =>
              \A n \in seen[p] : PriOf(n) <= maxpri[p]
        /\ maxpri[p] # -1 => PriOf(best[p]) = maxpri[p]

LEMMA SlotsType == \E n \in Nat : Slots = 1..n
  BY ConstantsAssumption DEF ConstantsAssumption, Slots

LEMMA ScanInit == Init => ScanInv
  BY DEF Init, ScanInv

\* A step that leaves the directory and the scans alone.
LEMMA ScanKept ==
  ASSUME ScanInv, UNCHANGED <<ent, scanVars>>, pc \in [Procs -> PCs],
         \A p \in Procs : \/ pc'[p] = pc[p]
                          \/ pc'[p] = "dead"
                          \/ pc[p] \notin {"read", "dead"} /\ pc'[p] # "read"
  PROVE  ScanInv'
  BY DEF ScanInv, Scanning, Queue, scanVars, PriOf

LEMMA ScanOpenDir ==
  ASSUME TypeInv, ScanInv, NEW p \in Procs, OpenDir(p) PROVE ScanInv'
<1>0. /\ pc \in [Procs -> PCs] /\ pos \in [Procs -> Nat \ {0}]
      /\ maxpri \in [Procs -> -1..9] /\ seen \in [Procs -> SUBSET Names]
  BY DEF TypeInv, TypeOK, ScanType
<1>1. CASE pc'[p] # "read"
  BY <1>0, <1>1, ScanKept DEF OpenDir, Goto
<1>2. CASE pc'[p] = "read"
  <2>1. /\ pc' = [pc EXCEPT ![p] = "read"] /\ pos' = [pos EXCEPT ![p] = 1]
        /\ maxpri' = [maxpri EXCEPT ![p] = -1] /\ seen' = [seen EXCEPT ![p] = Queue]
        /\ UNCHANGED <<best, ent>>
    BY <1>0, <1>2 DEF OpenDir, Goto
  <2>2. \A s \in Slots : ~(s < 1)
    BY SlotsType
  <2>3. Scanning(p)' /\ maxpri'[p] = -1
    BY <1>0, <2>1, <2>2 DEF Scanning, Queue
  <2>4. \A q \in Procs \ {p} : /\ pc'[q] = pc[q] /\ maxpri'[q] = maxpri[q]
                               /\ seen'[q] = seen[q] /\ pos'[q] = pos[q]
    BY <1>0, <2>1
  <2>5. \A q \in Procs \ {p} : Scanning(q) => Scanning(q)'
    BY <2>1, <2>4 DEF Scanning, Queue, PriOf
  <2> QED
    BY <1>0, <2>1, <2>3, <2>4, <2>5 DEF ScanInv, PriOf
<1> QED
  BY <1>0, <1>1, <1>2 DEF OpenDir, Goto

\* get_job keeps the entry or passes it because it is no better.
Looks(p, n) ==
    /\ pc[p] = "read" /\ pos[p] \in Slots
    /\ best' = [best EXCEPT ![p] = IF Better(p, n) THEN n ELSE best[p]]
    /\ maxpri' = [maxpri EXCEPT ![p] = IF Better(p, n) THEN PriOf(n) ELSE maxpri[p]]
    /\ pos' = [pos EXCEPT ![p] = pos[p] + 1]
    /\ UNCHANGED <<pc, seen, ent>>

\* get_job cannot open it.
CannotOpen(p, n) ==
    /\ pc[p] = "read" /\ pos[p] \in Slots
    /\ seen' = [seen EXCEPT ![p] = seen[p] \ {n}]
    /\ pos' = [pos EXCEPT ![p] = pos[p] + 1]
    /\ UNCHANGED <<pc, best, maxpri, ent>>

LEMMA ScanLooks ==
  ASSUME TypeInv, ScanInv, NEW p \in Procs, Looks(p, ent[pos[p]]) PROVE ScanInv'
<1>0. /\ pc \in [Procs -> PCs] /\ pos \in [Procs -> Nat \ {0}]
      /\ maxpri \in [Procs -> -1..9] /\ best \in [Procs -> Names \cup {NoName}]
      /\ ent \in [Slots -> Names \cup {NoName}] /\ seen[p] \subseteq Names
  BY DEF TypeInv, TypeOK, ScanType, DirType
<1> DEFINE n == ent[pos[p]]
<1>1. /\ best' = [best EXCEPT ![p] = IF Better(p, n) THEN n ELSE best[p]]
      /\ maxpri' = [maxpri EXCEPT ![p] = IF Better(p, n) THEN PriOf(n) ELSE maxpri[p]]
      /\ pos' = [pos EXCEPT ![p] = pos[p] + 1]
      /\ UNCHANGED <<pc, seen, ent>>
      /\ pc[p] = "read" /\ pos[p] \in Slots
  BY DEF Looks
<1>2. \A q \in Procs \ {p} :
         /\ best'[q] = best[q] /\ maxpri'[q] = maxpri[q] /\ pos'[q] = pos[q]
         /\ Scanning(q) => Scanning(q)'
  BY <1>0, <1>1 DEF Scanning, Queue, PriOf
<1>3. /\ maxpri[p] <= maxpri'[p] /\ maxpri'[p] \in Int
      /\ n \in Names => PriOf(n) <= maxpri'[p]
      /\ maxpri'[p] # -1 => PriOf(best'[p]) = maxpri'[p]
  <2>1. CASE Better(p, n)
    BY <1>0, <1>1, <2>1, PriOfType DEF Better
  <2>2. CASE ~Better(p, n)
    <3>1. best'[p] = best[p] /\ maxpri'[p] = maxpri[p]
      BY <1>0, <1>1, <2>2
    <3>2. n \in Names => PriOf(n) <= maxpri[p]
      <4>1. n \in Names => n # NoName
        BY ConstantsAssumption DEF ConstantsAssumption
      <4>2. maxpri[p] \in Int /\ (n \in Names => PriOf(n) \in Int)
        BY <1>0, PriOfType
      <4> QED
        BY <2>2, <4>1, <4>2 DEF Better
    <3> QED
      BY <1>0, <3>1, <3>2 DEF ScanInv
  <2> QED
    BY <2>1, <2>2
<1>4. Scanning(p)'
  <2>1. seen'[p] \subseteq Queue'
    BY <1>1 DEF ScanInv, Scanning, Queue
  <2>2. ASSUME NEW s \in Slots, s < pos'[p], ent'[s] \in seen'[p]
        PROVE PriOf(ent'[s]) <= maxpri'[p]
    <3>1. s \in Nat /\ pos[p] \in Nat /\ pos'[p] = pos[p] + 1
      BY <1>0, <1>1, SlotsType
    <3>2. ent[s] \in seen[p] /\ ent[s] \in Names /\ ent'[s] = ent[s]
      BY <1>0, <1>1, <2>2
    <3>3. CASE s = pos[p]
      BY <1>3, <3>2, <3>3 DEF PriOf
    <3>4. CASE s < pos[p]
      <4>1. PriOf(ent[s]) <= maxpri[p]
        <5>1. Scanning(p)
          BY <1>1 DEF ScanInv
        <5> QED
          BY <3>2, <3>4, <5>1 DEF Scanning
      <4>2. PriOf(ent[s]) \in Int /\ maxpri[p] \in Int /\ maxpri'[p] \in Int
        BY <1>0, <1>3, <3>2, PriOfType
      <4> QED
        BY <1>3, <3>2, <4>1, <4>2 DEF PriOf
    <3> QED
      BY <2>2, <3>1, <3>3, <3>4
  <2> QED
    BY <2>1, <2>2 DEF Scanning
<1> QED
  BY <1>1, <1>2, <1>3, <1>4 DEF ScanInv, PriOf

LEMMA ScanCannotOpen ==
  ASSUME TypeInv, ScanInv, NEW p \in Procs, CannotOpen(p, ent[pos[p]]) PROVE ScanInv'
<1>0. /\ pc \in [Procs -> PCs] /\ pos \in [Procs -> Nat \ {0}]
      /\ seen \in [Procs -> SUBSET Names]
  BY DEF TypeInv, TypeOK, ScanType
<1> DEFINE n == ent[pos[p]]
<1>1. /\ seen' = [seen EXCEPT ![p] = seen[p] \ {n}]
      /\ pos' = [pos EXCEPT ![p] = pos[p] + 1]
      /\ UNCHANGED <<pc, best, maxpri, ent>>
      /\ pc[p] = "read" /\ pos[p] \in Slots
  BY DEF CannotOpen
<1>2. \A q \in Procs \ {p} : pos'[q] = pos[q] /\ seen'[q] = seen[q]
  BY <1>0, <1>1
<1>3. \A q \in Procs \ {p} : Scanning(q) => Scanning(q)'
  BY <1>1, <1>2 DEF Scanning, Queue, PriOf
<1>4. Scanning(p)'
  <2>1. Scanning(p) /\ seen'[p] = seen[p] \ {n} /\ pos'[p] = pos[p] + 1
    BY <1>0, <1>1 DEF ScanInv
  <2>2. ASSUME NEW s \in Slots, s < pos'[p], ent'[s] \in seen'[p]
        PROVE  PriOf(ent'[s]) <= maxpri'[p]
    <3>1. s \in Nat /\ pos[p] \in Nat
      BY <1>0, SlotsType
    <3>2. ent[s] # n /\ ent[s] \in seen[p]
      BY <1>1, <2>1, <2>2
    <3>3. s < pos[p]
      BY <2>1, <2>2, <3>1, <3>2
    <3> QED
      BY <1>1, <2>1, <3>2, <3>3 DEF Scanning, PriOf
  <2>3. seen'[p] \subseteq Queue'
    BY <1>1, <2>1 DEF Scanning, Queue
  <2> QED
    BY <2>2, <2>3 DEF Scanning
<1> QED
  BY <1>1, <1>2, <1>3, <1>4 DEF ScanInv, PriOf

LEMMA ScanReadEntry ==
  ASSUME TypeInv, ScanInv, NEW p \in Procs, ReadEntry(p) PROVE ScanInv'
<1>1. Looks(p, ent[pos[p]]) \/ CannotOpen(p, ent[pos[p]])
  BY DEF ReadEntry, Looks, CannotOpen
<1> QED
  BY <1>1, ScanLooks, ScanCannotOpen

LEMMA ScanEndOfDir ==
  ASSUME TypeInv, ScanInv, NEW p \in Procs, EndOfDir(p) PROVE ScanInv'
<1>0. pc \in [Procs -> PCs] /\ pos \in [Procs -> Nat \ {0}]
  BY DEF TypeInv, TypeOK, ScanType
<1>1. \A s \in Slots : s < pos[p]
  <2>1. PICK n \in Nat : Slots = 1..n
    BY SlotsType
  <2> QED
    BY <1>0, <2>1 DEF EndOfDir
<1>2. \A n \in seen[p] : PriOf(n) <= maxpri[p]
  BY <1>1 DEF EndOfDir, ScanInv, Scanning, Queue
<1>3. /\ pc'[p] \in {"openjob", "abort"}
      /\ \A q \in Procs \ {p} : pc'[q] = pc[q]
      /\ UNCHANGED <<ent, pos, maxpri, best, seen>>
  BY <1>0 DEF EndOfDir, Goto, scanVars
<1> QED
  BY <1>2, <1>3 DEF ScanInv, Scanning, Queue, PriOf

LEMMA ScanLinkEntry ==
  ASSUME TypeInv, ScanInv, NEW p \in Procs, LinkEntry(p) PROVE ScanInv'
<1>0. /\ pc \in [Procs -> PCs] /\ ent \in [Slots -> Names \cup {NoName}]
      /\ pc' \in {[pc EXCEPT ![p] = "unpre"], [pc EXCEPT ![p] = "done"]}
      /\ UNCHANGED <<pos, maxpri, best, seen>> /\ pc[p] = "link"
  BY DEF TypeInv, TypeOK, DirType, LinkEntry, Goto, scanVars
<1>1. CASE UNCHANGED ent
  BY <1>0, <1>1, ScanKept DEF scanVars
<1>2. CASE name[p] \notin Queue
  <2>1. PICK s \in Slots : ent[s] = NoName /\ ent' = [ent EXCEPT ![s] = name[p]]
    BY <1>2 DEF LinkEntry
  <2>2. Queue \subseteq Queue'
    BY <1>0, <2>1 DEF Queue
  <2>3. ASSUME NEW q \in Procs, Scanning(q) PROVE Scanning(q)'
    BY <1>0, <1>2, <2>1, <2>2, <2>3 DEF Scanning, PriOf
  <2> QED
    BY <1>0, <2>3 DEF ScanInv, PriOf
<1> QED
  BY <1>1, <1>2 DEF LinkEntry

LEMMA ScanRemoveEntry ==
  ASSUME TypeInv, OneDaemon, ScanInv, NEW p \in Procs, RemoveEntry(p) PROVE ScanInv'
<1>1. pc \in [Procs -> PCs] /\ UNCHANGED <<pos, maxpri, best, seen>>
  BY DEF TypeInv, TypeOK, RemoveEntry, scanVars
<1>2. \A q \in Procs : pc[q] # "read" /\ pc'[q] # "read"
  BY <1>1 DEF RemoveEntry, Goto, OneDaemon, Holding
<1>3. \A q \in Procs : pc'[q] = pc[q] \/ pc[q] = "rment"
  BY <1>1 DEF RemoveEntry, Goto
<1> QED
  BY <1>1, <1>2, <1>3 DEF ScanInv, PriOf

LEMMA ScanStep == TypeInv /\ OneDaemon /\ ScanInv /\ [Next]_vars => ScanInv'
<1> SUFFICES ASSUME TypeInv, OneDaemon, ScanInv, [Next]_vars PROVE ScanInv'
  OBVIOUS
<1>0. pc \in [Procs -> PCs]
  BY DEF TypeInv, TypeOK
<1>1. ASSUME NEW p \in Procs, NEW l \in PCs \ {"read"}, Goto(p, l),
             pc[p] \notin {"read", "dead"}, UNCHANGED <<ent, scanVars>>
      PROVE ScanInv'
  BY <1>0, <1>1, ScanKept DEF Goto
<1>2. ASSUME UNCHANGED <<pc, ent, scanVars>> PROVE ScanInv'
  BY <1>0, <1>2, ScanKept
<1>3. ASSUME NEW p \in Procs, Start(p) \/ LprStep(p) PROVE ScanInv'
  BY <1>1, <1>2, <1>3, ScanLinkEntry
  DEF Start, LprStep, Mktemp, PutJob, Copy, Freopen, Write, UnlinkPre,
      RemoveOriginal, Flush, Exec, NextFile, PCs
<1>4. ASSUME NEW p \in Procs, LpdStep(p) PROVE ScanInv'
  <2>1. CASE OpenDir(p) \/ ReadEntry(p) \/ EndOfDir(p) \/ RemoveEntry(p)
    BY <2>1, ScanOpenDir, ScanReadEntry, ScanEndOfDir, ScanRemoveEntry
  <2>2. CASE TestLock(p) \/ MakeLock(p) \/ Chdir(p) \/ OpenJob(p) \/ OpenDevice(p)
    BY <1>1, <2>2 DEF TestLock, MakeLock, Chdir, OpenJob, OpenDevice, Release, PCs, Holding
  <2>3. CASE PrintBlock(p) \/ EndPrint(p) \/ RemoveJob(p) \/ Abort(p)
    BY <1>1, <1>2, <2>3 DEF PrintBlock, EndPrint, RemoveJob, Abort, Release, PCs, Holding
  <2> QED
    BY <1>4, <2>1, <2>2, <2>3 DEF LpdStep
<1>5. ASSUME NEW p \in Procs, Kill(p) PROVE ScanInv'
  BY <1>0, <1>5, ScanKept DEF Kill, Goto
<1>6. CASE Reboot
  BY <1>0, <1>6, ScanKept DEF Reboot
<1>7. CASE UNCHANGED vars
  BY <1>2, <1>7 DEF vars
<1> QED
  BY <1>3, <1>4, <1>5, <1>6, <1>7 DEF Next

\* The daemon takes an entry of the highest priority among those that were in
\* the directory when its scan began and that it could open, whatever lpr adds in
\* the meantime and whichever calls fail.
THEOREM PriorityTheorem == Spec => []PriorityRespected
<1>1. TypeInv /\ ScanInv => PriorityRespected
  BY DEF ScanInv, PriorityRespected
<1> QED
  BY TypeInit, TypeStep, MutexInit, MutexStep, ScanInit, ScanStep, <1>1, PTL DEF Spec

=============================================================================

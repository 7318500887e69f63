# DNIX commands: a verification development in TLA+

The repository holds the source of the commands, the libraries and the start-up
programs of DNIX, the Unix-like system of the Luxor ABC 1600 (1983-1987, K&R C):
242 files, nearly all of them one command each.  Most commands are a loop over
arguments that ends with an exit.  The difficult code is where *several processes
share files or signals*: the print spooler, the account files, init and the
terminals, the shell.  Those parts come first here; then come the commands that change the file
tree and the media, where *calls fail in the middle*, and the commands that
*read a language* (the shell, expr, test, find, dd), where a test of every
combination is out of reach.

All paths below are relative to `src/cmdsrc-v1.2-Luxor/`.

## 1. Inventory

| part | source | state | operations | interacts with | hard behaviour | what makes it correct |
|---|---|---|---|---|---|---|
| print spooler | `bin_cmdsrc/lpr.c`, `lpd.c`, `cmdlib/{put,get,rmv}_job.c`, `{mk,tst,rmv}_lock.c` | spool directory (`PRE_`, `JOB_`, `ENT_` files), lock file | spool a file or stdin, enter it, become the daemon, scan by priority, print, remove | many lpr and one lpd at a time through the directory; `/etc/rc` removes the lock | no lock around the queue, names used again, kills between link and unlink, last scan against last entry | one daemon, no job lost, mixed up, out of reach or overtaken, everything ends |
| account files | `bin_cmdsrc/passwd.c`, `cmdlib/{rmv,app,put}pwent.c`, `rgcopy.c`, `etc_cmdsrc/mkuser`, `etc_cmdsrc/rmuser` | `/etc/passwd`, `/etc/group`, backups, temporary files, lock, home directories | set a password, add a user, remove a user | commands share the names of the files | a file is replaced by unlink and link, or by a copy; kills and failing calls between any two; the lock | a user nobody changes keeps line, id and group; files agree |
| init | `etc_cmdsrc/init.c` | table of terminals, flags set by signals, `/etc/ttys`, utmp | rdttys, dfork, the wait loop, term, logout, stopsys | its children, login, the administrator's signals | signals between two instructions, wait of any child, forks that fail, process ids used again | one getty per terminal, none forgotten, only its own processes killed |
| shell, processes | `bin_cmdsrc/sh/{execute,x_*,sign,cmdsub,filehdl,main}.c` | process tree, pipes, waitlist, traps, dead_end, break levels | run a tree of commands | children through fork, exec, wait, pipes and signals | handlers that run the shell again, wait of any child, pipes that fill | a command's own status, nobody waits for what cannot end |
| shell, words | `bin_cmdsrc/sh/{cmdbuf,parsex,p_*,rsrvword,var,expand,argcrunch,wmatch,dirlook,strutil,stack}.c` | command buffer, variables | read, parse, substitute, split, match | the rest of the shell | none concurrent; quoting through several stages | parse and expansion against a reference |
| file tree | `bin_cmdsrc/{mv,cp,ln,rm,rmdir,mkdir,unlink,copy}.c`, `cmdlib/{makedir,rmvdir,rgcopy,spcopy,instree}.c` | names and inodes | move, copy, link, remove | `passwd` uses `rgcopy` | a target unlinked before the new link, directories made by mknod and two links | the data keeps a name; links are counted right |
| mount table | `etc_cmdsrc/mount.c` | `/etc/mtab`, file handlers | mount, umount | handler processes by signals and an alarm | read, wait three seconds, write back; nothing locked | the table names what is mounted |
| queue | `bin_cmdsrc/queue.c` | the spool directory | list, remove | lpd | see hazards of the spooler | |
| login and others | `bin_cmdsrc/{login,su}.c`, `etc_cmdsrc/{update,setbclock,timezone}.c`, `etc_shscripts` | utmp, wtmp, clock | | init | one pass of system calls | |
| tar | `bin_cmdsrc/tar` | block buffer, volumes, link table | create, extract, list | | files over several volumes | what is extracted is what was stored |
| dd | `bin_cmdsrc/dd.c` | two buffers, counters | read, convert, write | | partial blocks, odd sizes with swab, seek | counts and bytes |
| find, expr, test | `bin_cmdsrc/{find,expr,test}.c` | an expression | evaluate | | recursion, precedence, end of arguments | agrees with the grammar |
| siv | `bin_cmdsrc/siv` | a text buffer | edit | terminal | gap, screen image | the buffer is the text |
| text, listing, attribute tools | `bin_cmdsrc/*` | none | filter, format, one system call | | none | |
| group library, patterns, stacks | `cmdlib` | none | | | `gmatch` is recursive | |
| memory tests | `sas_cmdsrc` | hardware | | | | |

Every component is listed in `PROJECT.json` with its status, every hazard met
while reading with the line where it bites.

## 2. Modules

| module | what it is |
|---|---|
| `PrintQueue` | what the spooler promises: a job that was entered stays until it was printed |
| `Spooler` | lpr and lpd, process by process and call by call |
| `MCSpooler` | its instances for TLC |
| `SpoolerProofs`, `SpoolerJobsProofs` | theorems about `Spooler`: types, lock, priority; what becomes of the jobs and their texts, and the refinement of `PrintQueue` |
| `Accounts`, `MCAccounts`, `AccountsProofs` | passwd, mkuser and rmuser on the names and inodes of `/etc` |
| `InitProc`, `MCInitProc`, `InitProcProofs` | init, its children, login, signals and `/etc/ttys` |
| `ShellWait`, `MCShellWait`, `ShellWaitProofs` | the shell and its children: fork, the waitlist, `waitfor`, SIGINT and traps |
| `ShellExec`, `ShellRun`, `MCShellRun` | the execution of a parsed list (`x_*.c`), a script read line by line, and what the script means |
| `CmdBuf`, `Parser`, `WordSubst`, `ShellText`, `MCShellText` | command buffer and segments of memory; the parser; variables, substitution, patterns; all of them against what was meant |
| `FileSystem`, `MoveRemove`, `CopyLink`, `FileTree`, `MCFileTree` | names and inodes; mv, rm, rmdir, mkdir; cp, ln, copy, unlink; the properties of all together |
| `Tape`, `Tar`, `MCTar`, `TarProofs`, `TarVolumesProofs` | the buffered unit of `tar/io.c`; tar itself on it; theorems: what r and u leave of an archive, what c, r and u write |
| `Expr`, `Test`, `Find`, `Dd`, `Evaluators`, `MCEvaluators` | the four commands as functions of their input, and what the input means |
| `Mount`, `MCMount`, `MountProofs` | mount and umount, the mount table, the handlers |

`CopyLink` extends `MoveRemove`, which extends `FileSystem`: one process runs one
command, two processes share the tree, and `mv` calls `cp` as the code does.
`ShellRun` extends `ShellExec`; `ShellText` uses `CmdBuf` for what the parser
reads and extends `WordSubst`, which extends `Parser`.  `ShellWait` and
`ShellExec` model the same files for two questions: the first lets signals and
children come between any two steps and leaves out what is executed, the second
executes everything and runs a child where it is forked.

The definitions named after a code change (`LinkEntryKeeps`, `ScanAlways`, ...)
and commented as mutants or wrong forms are not part of `Next`: each is the
definition below it with a plausible mistake, and shows that the property it
belongs to can tell the difference.

### Spooler

A process runs `lpr` and then, by `execl`, is a daemon; `pc` is its place in the
two programs.  One action is one system call or the code up to the next one:

| action | code |
|---|---|
| `Mktemp`, `PutJob`, `Copy`, `Freopen`, `Write`, `LinkEntry`, `UnlinkPre`, `RemoveOriginal`, `Flush`, `Exec` | the loop of `main` of `lpr.c`, its `enterjob`, `put_job`, `rgcopy` |
| `TestLock`, `MakeLock`, `Chdir`, `Abort` | `main` and `abort` of `lpd.c`, `tst_lock`, `mk_lock`, `rmv_lock` |
| `OpenDir`, `ReadEntry`, `EndOfDir` | `get_job`, one directory entry at a time |
| `OpenJob`, `OpenDevice`, `PrintBlock`, `EndPrint`, `RemoveJob`, `RemoveEntry` | `do_job`, `do_copy`, `rmv_job` |
| `Kill`, `Reboot` | a process dies at any step; `/etc/rc` removes the lock |

Data that is abstracted: the name `mktemp` makes is a pair of process and letter
(the C library tries letters in turn); text is counted in stdio buffers, which is
what tells a job printed before its last buffer was flushed from a whole one;
the directory is an array of places, so that `get_job` can miss or meet an entry
that is linked while it reads.  A call that can fail takes one of `FaultKinds`.
`seen` loses an entry that `get_job` could not open: what it says of priorities
(`PriorityRespected`) is said of the entries that could be opened.  The fork of
`setup` changes the number of the process only, and is a step when it fails.
Left out: the mail sent at the end of a job, the banner, the header of the
`ENT_` file beyond the names it holds.  `creat` of the lock fails when the file
is there since the daemon runs as `SPOOL_UID` and the lock has mode 0; for the
superuser it would not, which is the mutant `MakeLockAsRoot`, and the reason for
what section 5 says of passwd.

### Accounts

A path leads to an inode, an inode holds lines.  That distinction is the whole
point: `link`, `unlink` and `creat` on names decide whether a file is replaced or
emptied.  `onedev` chooses between the two ways of `rgcopy`.  Actions follow
`rmvpwent` and `apppwent` (`PasswdStep`), and `flincat`, `flinread`, `flinwrit`
and `chname` of mkuser and rmuser (`AdminStep`); the two programs share them with
the labels of the passwd file and of the group file.  Questions and answers of
the dialogue are nondeterministic choices.

### InitProc

`pc` walks through `main`, `multusr` and `rdttys`; the loops over the table take
one slot in each step, because signals and logouts come between.  `child` is the
kernel's view of the processes, `itab` that of init; the invariants relate the
two.  A process id that was reaped can be given again.  `Signal` is `setsig`:
the handler is reset by delivery, and a sleeping `wait` returns -1 with EINTR,
while one that has not gone to sleep yet sleeps on.  `missed` and `late` are
history variables that name the two situations in which the table or utmp
deviates (an exit that was not looked at, a login between `logout` and `kill`).
Delivery of a signal resets its handler, and a second one of the kind that comes
before `multusr` has set it again meets `SIG_DFL`: what the kernel does to process 1
then is not in this code, and such signals are left out.

### ShellWait

The state is a stack of activations, because the shell runs parts of itself again
inside its signal handlers: at the bottom the command level (`parsex`), above it
`waitfor` or the `parsex` of eval, and on top of any of them `itrpt` (whose
`waitfor(-1, TRUE)` shares its frame) or a trap.  A frame says where its
routine is and holds its locals; `waitlist`, `waiting` and `interactive` are the
globals of `sign.c` and `main.c`.  A signal may come between any two steps.  The
parts of `waitfor` between two accesses to the globals are steps of their own
(`WhileTest`, `CallWait`, `Remwait`, `TestWaiting`, `ClearWaiting`, `AfterWait`),
for what goes wrong happens between them.

A status is modelled by whose it is; a child by the reason it was made for.  Two
kinds of command substitution are told apart: one that ends by itself, and one
(`talk`) that has filled its pipe and ends only while `listen` reads it.
`Putwait` also sets `interactive`, one statement later in the code.  eval and a trap
run one plain command at most (`CanSpawn`), where the code runs any list.  The T flag,
the trap on exit, and what goes on inside a child are left out.  The history
variables name the windows in which the shell does not do what it is meant to:
`trapped` (a trap was run while the child was there), `unlisted` (a SIGINT
between fork and `putwait`), `dropped` (a SIGINT between the test and the reset of
`waiting`).  `StaleList` is one more: a handler that runs between `wait` and
`remwait` finds a dead child on the list.  The properties exclude those windows,
and for `InterruptActed` a sleeping wait command and a blocked command
substitution, and no more: so they also say that there are no others.

### FileTree

A directory is a function from names to inodes, `.` and `..` among them; link and
unlink take directories too, as the superuser may.  A process is a stack of frames,
one for each active C function: `At(p, fn)` is the function on top, its fields the
locals and the place in it.  Every system call that changes something is a step,
and any of them may fail while `faults` are left; a `Killed` process stops between
two.  `Killed` does nothing to the file system: what was done stays.  `keep` is
the set of files no command was asked to remove or overwrite.  Texts are short
sequences of blocks; owners, modes and dates are left out, but for `prot`, the
files that `rm` and `mv` ask about.

### ShellExec and ShellRun

Each `x_` function is an operator from the state of a shell process to the state
it leaves; a child starts from a copy where it is forked.  The state has the
descriptors, `dead_end` (the process is to end with this list), the levels of
break and continue, the status, the flags, the parameters.  Commands write what
they ran with (who, arguments, descriptors) into a trace.  `Meaning` executes the
same trees, with sound links (section 5), the plain way: every command forked, no `dead_end`, break and continue
as what they stop; `RunsAsWritten` compares the traces.  `nofork` makes one fork
fail, `nopipe` one pipe of a pipeline, `skipex` is set in a shell that was given a
command, and `junk` is the value of a loop that was left without a turn.  The pipes
of here documents, of eval and of traps, and the open of `/dev/null`, do not fail.

### Shell text

A character is a name, and the letters of a word may be one character, since the
parser looks only at the first letter of words that are not reserved.  The parser
routines take the text with a position and give the node and the new position; a
routine that finds nothing sets the position back as `setcmdpos` does.  `CmdBuf`
models the buffers of `BUFLEN` characters behind it, with sizes of a few
characters, and the segments of `stack.c`.  `WordSubst` is the order of the code:
variables, commands, blanks, names of files, quotes, and `Markvar`'s sorted list.
What was meant is written in `ShellText` the other way round: trees are printed
(`ListText`) and parsed back, as the first command or a later one (`first`), words are sequences of parts with their quoting, and
`MeantArgs` puts the arguments together from the parts.

### Evaluators

`Expr`, `Test`, `Find` and `Dd` are functions of the arguments and of what the
system calls return (files that vanish, reads that fall short, an output that
fills).  The reference definitions in `Evaluators` and at the end of the modules
start from the tree that was written, not from the text.

### Tar

`Tape` is `io.c`: two buffers, at most one request outstanding, done by the device
at any later moment with what the buffer holds *then*.  `Tar` follows `putfile`,
`splitfile`, `checkupdate`, `getfile`, `tapeextr` and `exfilsplit`, a block at a
time; between two steps a file may change (`version` counts its texts and dates),
vanish or an interrupt come, up to `Budget` times.  `kept` says what the archive
ought to hold, `lost` that tar itself reported an error.  u looks up the date of an
archived file in a sorted temporary file; that its binary search (`bsrch`,
`help.c:515`) finds the name when it is there is assumed, and a sort or awk that fails
is left out.  `ArchiveKept` speaks of the
medium a call of r or u begins with, when that holds an archive (`Whole`).

### Mount

Commands read `/etc/mtab` into `mem`, wait, and write `mem` back; `creat` empties
the file in a step of its own.  `owner` is the kernel's view of the numbers in
use.  `outside` names the handlers that the table cannot know of (they ended after
the alarm, found the table full, or it could not be created); `stale` the commands
whose copy is older than the file, `spoilt` that such a copy was written.  The
properties except those and nothing else.

## 3. Runs

| run | expects | shows |
|---|---|---|
| `spooler_safe` | pass | `TypeOK`, `OneDaemon` (with the lock), `TextsReachable`, `PriorityRespected`, `JobsKept`, `ImplementsQueue`, with up to two kills or reboots and one failing call that is no copy, unlink or opendir |
| `spooler_live` | pass | under fairness `Terminates`, with any two calls failing and a name too few, and `ScanServed` as long as none has failed |
| `spooler_wakeup` | violation | `QueueEmptied`: a job entered after the last scan stays |
| `accounts_serial` | pass | `UsersSafe`, `FilesSound`, `StepsSound`: the commands one at a time, with one failing call and one kill |
| `init_multi` | pass | `TerminalsServed`, `RdttysSound`, `StopHonoured`, under two signals |
| `shell_wait` | pass | `WaitSound`, `InterruptWaits`, `ShellGoesOn`, with two children and two signals |
| `shell_exec` | pass | `RunsAsWritten`, `FdsKept`, `ReaderSeesEnd` of scripts of every construct, nested, with a fork that fails |
| `shell_text` | pass | `ParsesBack`, `NothingLost`, `ArgumentsMean`, `StoreSound` |
| `files` | pass | `FilesKept`, `TreeSound`, `CommandsTrue`: every command with two failing calls or a kill, and pairs of commands |
| `evaluators` | pass | `ArgsMean`, `FindRight`, `DdRight` |
| `tar` | pass | `VolumesWhole`, `RoundTrip`, `UpToDate`, `ArchiveKept` |
| `mount_table` | pass | `TableTrue`, `KillsOwn`, two commands at once |

Several properties are conjunctions of named statements, each with its own comment
in the module and its own mutant in `PROJECT.json`: `JobsKept` of
`RemovesWhatItPrinted`, `PrintedOnce`, `WholeFiles`, `DataSurvives`; `UsersSafe` of
`UsersKept`, `UsersThere`; `FilesSound` of `UidUnique`, `FilesAgree`; and so on.

**Bounds, and why they are enough.**
*Spooler*: two processes, of which one spools two files, are the least with which
the hazards exist: a name used again by the same lpr needs two files, two daemons
need two processes, an overtaken job needs two priorities.  A third process comes
only after the first crash and no other fault, and its own file cannot be read
(`Explored`): it is the daemon that finds what the crash left, the least that lets
a stray text be met (see `Adopted`).  Two letters let `mktemp` choose, two places
of the directory let an entry be linked before or behind the one being read, two
buffers tell "not flushed" from "complete".  Two crashes allow a crash of the
recovery.
In `spooler_live` there are no crashes (a killed daemon leaves its lock, and then
nothing is printed until rc runs) but every kind of fault, and one letter, so that
lpr finds no name for its second file while the first is queued.  A failure
that lasts is outside of it: `MaxFaults` ends every failure, as the two retries of
section 5 need.
*Accounts*: four commands give every order of two passwd, a mkuser and a rmuser;
one bystander (`u4`) is a user nobody touches whose name is a prefix of another.
Eighteen inodes are one more than all names and descriptors can lead to, so that
`creat` finds one unless it is made to fail.
The fault `write` (full disk) is not among those of `accounts_serial`: what
`fclose` and `write` return is not looked at in `rmvpwent`, and `UsersKept` does
fail with it; the hazard is listed.
*InitProc*: two terminals in a table of two slots, three process ids, so that ids
are used again; two contents of `/etc/ttys`, the second of which drops a terminal
and has the other twice, the second time with another mode; two signals, so that one can be
handled while the other is being acted on; two edits of the file, so that a
terminal goes and comes back, or one edit and a failed fork, an orphan or a file
that cannot be opened.
*ShellWait*: two children let a background process or the writer of a pipe meet a
command in hand, or the process of a trap the command it interrupts; two signals
let a second one arrive while the first is handled.  A fork fails once both
children are made.  The safety properties were also seen to hold with three
children (5.2 million states), which is too large for the liveness properties;
only there can the commands of a trap make a process beside a background one.

*FileTree*: one tree of four directories, four files and a device holds every kind of source
and target.  Commands that run alone meet up to two failing calls (the second in
the undoing of the first) or one kill; eight pairs meet one of each, and
four pairs that move directories run undisturbed.
*ShellExec*: every construct around every simple command, all constructs once
nested, loops in loops with break and continue of one and two levels, in the
foreground and with `&`; any one of the first four forks or the first two pipes
fails.  Left out of the
lines in the background are those of `LosesRest` (see section 5).
*Shell text*: trees two levels deep; all texts of up to five tokens for lists,
redirections, `if`, `case`, `for` and groups; words of up to two parts of 32, and
three words where only values stand; patterns of up to three of eight
pieces on names of up to four letters; up to four calls that change variables, one setting eleven
parameters (the tenth sorts behind the second as a number only); lines of two to
eight characters over buffers of three, so that each boundary is met.
*Evaluators*: expressions of up to three operators with signs, in five bits, so that
sums wrap; texts of up to a few tokens; dd with block sizes of two to five
bytes and texts that end one before, at and one after a block.
*Tar*: files of one to thirteen bytes in blocks of two bytes, volumes of
eight blocks, so that a file takes one, two or three extents; two changes or
interrupts.  A file that does not fit goes to the next volume when fewer than
two blocks are left or when it is short, and is split otherwise; a link goes there
one block earlier (`tar.c:462`), and one of the calls puts it just at that place.
*Mount*: a table of two slots and three numbers let it be full and a number come
back.  `Explored` ends a behaviour where an old copy was written, since nothing is
claimed from there on, and lets one handler at most end behind the table.
Processes and numbers are symmetric.

**Fairness.**  In `spooler_live`, every process that has begun is scheduled
(`WF` of its own steps); typing `lpr` is not assumed.  In `init_multi`, init is
scheduled, and every process of a terminal ends some day: without the latter
SIGQUIT and SIGHUP are not honoured, because `wait` sleeps on when the signal
was handled just before it.  In `shell_wait`, the shell goes on except at its
prompt, and every process that is not in the background ends some day (one that
talks, only while it is read).

**Finding.**  `spooler_wakeup` shows a disagreement between the code and a comment of
it (`PROJECT.json`, "findings"): the daemon leaves although a job is queued.

## 4. Proofs

Every theorem holds for every number of processes, terminals, children, devices,
files, users, faults and so on: what it assumes of the constants is the named
`ASSUME` of the component's module, and where it says so a further condition.
The argument is always the same: an inductive invariant made of named parts, a lemma
for each action that says what it does to the state in a few words ("unlinks this
name", "the top frame becomes f"), and lemmas that say which of those changes keep
which part.  The invariants were checked by TLC on the instances of section 3
before they were proved.

**Spooler** (`SpoolerProofs`, from `ConstantsAssumption`)

* `TypeCorrect`: `TypeOK` is not inductive: the steps that index by `name[p]`,
  `best[p]` or `reading[p]` need these to be real names and jobs.  `Filled` says
  where they are; `TypeInv == TypeOK /\ Filled` is inductive.
* `OneDaemonTheorem`: one daemon, and `LockHeld`.  Neither half is inductive by
  itself: the lock is removed by whoever holds it, so that `LockHeld` needs
  `OneDaemon`, and the second daemon is stopped only since the lock exists.
* `PriorityTheorem`, whichever calls fail: what the scan has passed (`pos`), was seen
  and could be opened has at most `maxpri`, and `maxpri` is the priority of `best`
  (`ScanInv`).

**Spooler's jobs** (`SpoolerJobsProofs`).  `Stored` says which lpr made which `JOB_`
file, and that the files lpr has not come to are nowhere.

* `PrintedOnceTheorem`, whichever calls fail: a job that is stored or open has been
  printed at most once for each crash and fault so far (`CountInv`), so that its
  next print is within the bound.
* `WholeFilesTheorem`, while rgcopy and the printer do not fail: the text of a file is
  whole as soon as its `JOB_` file is there (`WholeInv`).
* `JobsKeptTheorem` and `QueueTheorem`, the refinement of `PrintQueue` step by step:
  `KeptInv`.  The difficulty is a crash between the two unlinks of `rmv_job`: it leaves
  an entry without a text, whose name the same lpr may get again (`Orphan`).  While
  its lpr lives, the lock keeps the daemons away from it (`Guarded`), and there is
  at most one; the text that comes to lie behind it was not made for it (`Strays`)
  and is adopted when both are dead.

* `ReachableTheorem`: a `JOB_` file has its entry, or its lpr has it in hand or died
  with it.  The entry that `rmv_job` unlinks is that of a job whose file is gone or
  of a text that was never entered (`Unentered`), and that one is in the hand of its
  lpr, which `enterjob` then lets enter it, or of a dead one.

These three assume `SafeFaults`: no failing copy, opendir, or unlink.  That is not for the
proof's sake: with those the code does lose or swap texts (section 5).
`JobsKeptTheorem` assumes in addition that the printer does not fail, since
`WholeFiles` is one of its parts.

**Accounts** (`AccountsProofs`, from `AccountsAssumption`: the users of the start
have ids of their own, and there are more inodes than names and descriptors)

* `AccountsTypeTheorem`, commands at once or not: the types, and that `creat` always
  finds an inode, by counting those that are linked or open.
* `UsersSafeTheorem`, `FilesSoundTheorem`, `StepsSoundTheorem` assume `Setting`: the
  commands run one at a time; those that die are passwd commands; `write` does not
  fail; and link and creat do not both fail in one run of `rgcopy`.  Each of the four
  excludes something the code does get wrong (section 5).

`Inv` follows the one command that runs.  `Apart` says which names may lead to one
inode, since a write to one name changes the file under the others.  `Changing`
says of passwd where the old lines are while the new file is made (in passwd, in
its temporary file, in passwd.bak), and which other lines are where; `Making`,
`Removing`, `Replacing` say the same of mkuser and rmuser.  `Gone` says that passwd
exists but in the short time where it is replaced, or after that failed.  `Kept`
says of every user that must not be lost that he is in the memory or the files of
the running command, in the file of a passwd that died, or in place.  The passwd
file of the next command may lack those whom only the file of a dead passwd
still has; `UsersKept` counts them as kept there.

**InitProc** (`InitProcProofs`, from `InitProcAssumption`)

* `InitTypeTheorem`, `TerminalsServedTheorem`: `Inv == TypeOK /\ Shape /\ Bonds`.
  `Shape` is the table by itself: no terminal twice, free slots without a process,
  marks only where `rdttys` is at work.  `Bonds` ties it to the processes: `Owner`
  (a live process has its terminal's slot), `Owns` and `Serves` (a slot's id is that
  of its process, or the slot is in hand, marked, or known to be missed), `Logged`
  (utmp).  A process id that was reaped and given again is what makes `Owns` hard.
* `RdttysSoundTheorem`: for a file of any length, with lines in any order and given
  twice.  What the lines make of the table is a recursive function (`Merged`); that
  it is defined by its equation is proved by a smallest counterexample (`First`), and
  what it computes by the same way for each property of the result.

**ShellWait** (`ShellWaitProofs`, from `ShellWaitAssumption`)

* `ShellWaitTypeTheorem`, `WaitSoundTheorem`, `InterruptWaitsTheorem`:
  `Inv == TypeOK /\ Frames /\ WaitlistTrue /\ Listed`.  `Frames` says of *every*
  activation on the stack, not only the running one, that it is `Sound`: what a
  `waitfor` deep in the stack knows of its child is still true when the handlers on
  top of it are through, because they only ever reap more children and only ever
  trap more.  `Listed` says where the children are that the list does not have.

**Mount** (`MountProofs`, from `MountAssumption`)

* `MountTypeTheorem`, `TableTrueTheorem`, `KillsOwnTheorem`: the copies of the
  commands that are not stale are the file (`Copies`); in the file and in those copies
  every entry is a handler with its device (`Truth`), and every handler that is not
  one of the exceptions is in each of them or about to be (`Complete`).

**Tar** (`TarProofs`, `TarVolumesProofs`, from `TarAssumption`: a block is not empty,
the calls and the bytes of the files are of their types, `EXTMIN`, 50 in `tar.h`, is at
least 2, and no file has an empty path)

* `ArchiveKeptTheorem`.  Fix the archive m on the medium and its end e.  The unit goes
  through `Reading` (the buffer holds a part of m, and what is read ahead is the part
  that follows), `Turned` (back over the end), `Aimed` (the device is back at the block
  of the tape in which m ends), `Writing` and `Dead`.  `Writing` is the heart: the
  medium, the request that is outstanding and the buffer that is being filled follow
  each other without a gap, and each agrees with m wherever it lies before e; the
  block in which m ends is read, filled up and written back.  `Dead` says that what is
  left in the buffer has no room: after an error nothing reaches the medium again,
  not even by the close.  `Phase` ties the state of the unit and of its call to the
  place of the program; `TarInv` adds the types.
* The end is a recursive function over the headers (`From`); that it is defined by its
  equation, and never before where it starts, is proved by a smallest counterexample.
* `VolumesWholeTheorem`: every medium that tar left without a word is an archive to its
  end, whatever became of the files while it was written.  Here m is the volume *as it
  will be* once the call that is under way is done: what comes of the blocks on the
  medium, of those of the request that is outstanding, in the buffer and in the call
  (`Stowed`, `Owes`).  `Berth` ties that to the place of the program, `Account` says how
  far m is an archive there: it ends where m ends before a header, `noblks` blocks
  behind m while the data of a header is written, and before an empty block once the
  volume is closed.  A block that did not get to the medium puts the unit into one of
  the states of `Short`, all of which end in an error of write or of close: so an
  archive that is not whole is never left in silence.  `Split` carries the sizes of a
  file over several volumes: as long as a part is to come, more bytes are left than the
  volumes before the last one take, so the last size is a number and `readdir` takes
  the header (the quotient of `splitfile` is bounded by hand, the provers do no
  division).  `EXTMIN` keeps the first part from being empty or less.

**Only model-checked.**  Liveness (`Terminates`, `ScanServed`, `StopHonoured`,
`ShellGoesOn`): fairness and ENABLED are beyond the prover.  `RunsAsWritten`,
`FdsKept`, `ReaderSeesEnd`; `ParsesBack`, `NothingLost`, `ArgumentsMean`,
`StoreSound`; `ArgsMean`, `FindRight`, `DdRight`: what these compute is induction over
trees and texts, and their modules use RECURSIVE operators, neither of which the
prover takes.  `RoundTrip`, `UpToDate` and the properties of `FileTree` (section 6).

## 5. Where the code departs from what it is meant to do

These were met while modelling and are modelled as they are; the properties name
them as exceptions or the inputs avoid them.  No run states the contrary.  (Those
marked with a star were each seen as a counterexample of TLC.)

*Spooler.* \* After a failed copy lpr enters the job all the same, and the daemon
that finds no `JOB_` file unlinks that name, by then perhaps the next file: with
`-r` its only text (`lpr.c:236`, `lpd.c:151`).  An entry that cannot be opened is
passed over, so that jobs of lower priority come first, and when none can be
opened the daemon ends with all of them queued (`get_job.c:61`).  When the fork of
the daemon fails, the -1 is taken for the child's number and the lock stays with
nobody behind it: nothing is printed until the next reboot (`lpd.c:138`).  A
lasting failure of put_job or of an unlink is tried again without end, by lpr with
the same file (`lpr.c:220`), by lpd with the same job, printed each time
(`lpd.c:182`).
*Accounts.* \* `mk_lock` cannot fail for the superuser, as whom passwd runs: two at
once lose a user (`mk_lock.c:24`).  \* mkuser writes the user id long after it has looked for a free one
(`getusrid.c:41`): a second mkuser takes the same one meanwhile, or a passwd writes
back the line it holds of a user whose number was given away because no line had it
then.  \* A mkuser that dies between link and unlink
leaves `passwd.tmp` as a second name of passwd, which the next `creat` empties
(`flincat.c:30`).  \* rmuser takes members out of the group whose name is the
beginning of the one given (`rmusrcmd.c:174`).  \* A full disk is not noticed
(`rmvpwent.c:58`).  \* passwd.bak is never removed: when both link and creat of
`rgcopy` fail, the backup of an earlier run becomes passwd (`rmvpwent.c:72`), and a
user made since then is gone.
*init.* \* A logout reaped together with a SIGINT starts no login (`init.c:218`); a
SIGINT that comes after the test of `mergflag` is lost (`init.c:212`).  \* A fork that
fails leaves -1 in the table, and a terminal that goes or changes before it is tried
again kills every process (`init.c:304`); so does a stale process id to one.
*Shell, children.* \* A trapped signal ends `waitfor` for a command that still runs
(`sign.c:184`).
*Shell, execution.* \* The status of a subshell is 256 times its exit status, of which
exit keeps the low byte (`x_cmdlist.c:87`; `x_intrn.c:237`).  \* A background child
ends with the first inner list that ends: in `(a | b; c) &` c is never run
(`x_cmdlist.c:130`).  eval whose fork fails leaves its pipe open (`x_intrn.c:215`), and eval and traps do
not look at what `pipe` returns.  A background child that cannot open `/dev/null`
returns from `x_cmdlist` and is a second shell that reads on (`x_cmdlist.c:71`).
*Shell, text.* \* `p_andor` never sets the next pointer of its node, and a list sets it
only when it goes on after it (`p_andor.c:51`, `p_cmdlist.c:71`): of an and/or that is
the right side of another, or that a newline at the top or a closing word follows, it
holds what the segment held, which is clear for the first command alone
(`stack.c:34`); `x_cmdlist` follows it (`x_cmdlist.c:128`).  In the model it is `Old`.
\* A value that ends in a blank leaves an empty argument behind (`argcrunch.c:85`); no
value of the inputs does.  At the top a stray `)`, `}`, `;;` or `esac` separates
(`p_cmdlist.c:59`); after `;` or `&` what cannot begin a command ends the list
silently (`a ; && b`); an unfinished construct at the end of the file is ignored
with status 0; a pattern of case whose first key is a reserved word is refused;
`elif` is reserved and not handled; a here document takes the rest of its command
line into its text; `2 >x` is taken for a descriptor; a word with quotes around
a part is no pattern; `?` fits no dot and `**` needs a character; `trap` runs
`parsex`, which clears the buffer that the interrupted one reads (`sign.c:67`);
more than BUFNUM buffers overrun their table (`cmdbuf.c:146`).
*File tree.* \* mv of a directory to a one-part name below it cuts it off, because the
path of the parent is then empty and `/..` is the root (`mv.c:478`).  Two mv that
cross may each be cut off (`mv.c:365`).  What is put into a directory between
rmdir's look and its last unlink is lost (`rmvdir.c:121`).
*test, expr, find, patterns.* `[ e ]` always exits with 1 (`test.c:29`, against
`test.c:7`); `!=` computes `=`, `<=` and `>=` are not recognised; a division by zero
with `%` traps; in `[...]` the `else` belongs to the range, so that only `-` counts
(`gmatch.c:41`); a file that vanished ends the list of its directory
(`find.c:516`).  \* find that may enter a directory and not read it stays in it, and
what it then looks up two levels above are names of another directory: it acts on one
file in the place of another (`find.c:531`); the inputs of `FindSound` have such a
directory only where nothing is looked up afterwards.
*dd.* swab works on an even number of pairs only (`dd.c:397`); sync pads with the
bytes of the last block (`dd.c:352`); a size is checked after its product may have
wrapped (`dd.c:652`).  The manual says "number ending with w = mult with 2"
(`dd.c:28`) and `getnum` multiplies by `sizeof(int)` (`dd.c:644`): `NumberValue` has no
`w` among its inputs.  A block size of 0 is refused after the output was emptied
(`dd.c:313`).
*tar.* r and u to a volume of several are refused by `diskseek`; less than EXTMIN
left overruns the volume (`tar.c:497`); a split file that shrinks is given up
after its header (`tar.c:599`); u cannot see a change that came between a dump and
its link's header; a truncated archive makes `io.c:355` loop for ever. \* A file with
several links that is given twice in one call of c is stored again as a link to itself
(`tar.c:448`), and x, which unlinks the name before it links it (`tar.c:685`), then
loses the file; the calls of `MCTar` name no path twice, and `RoundTrip` speaks of them.
*Mount.* \* Two commands that overlap undo each other, as each writes back what it read
seconds ago (`mount.c:172`); between `creat` and `write` a reader finds no entry; a
full table is not reported (`mount.c:176`); the entry of a handler that ended after
the alarm stays, and umount then signals whoever has its number (`mount.c:213`).

## 6. Plan

1. `UpToDate` and `RoundTrip`: besides that a volume is whole (`VolumesWholeTheorem`)
   they need which header stands for which file, and `RoundTrip` the reader's side of
   `Reading` with the bytes.
2. `FileTree`: types, and that an entry leads to an inode that is in use.  `FilesKept`
   for one command at a time follows the stack of frames, as `Sound` does in
   `ShellWaitProofs`; `TreeSound` needs an induction over paths.
3. The text buffer of siv (`f1.c`, `f5.c`), the only large state not modelled.

## 7. Not modelled

Formatting and listing tools, attribute tools, memory tests: nothing is kept
between two system calls.  The siv editor: interactive, its screen is most of it.
`queue`: its loop compares with EOF what `get_job` returns, which is that for an
entry and 0 for an empty queue (`queue.c:86`), so it ends at the first entry and
never on an empty queue; there is nothing behind that to check.  The group library
has no caller.  Of the shell: newgrp, umask and times; of tar: the options
that only choose messages, owners and modes; of mount: the listing.

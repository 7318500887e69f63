----------------------------- MODULE ShellWait -----------------------------
(***************************************************************************)
(* The shell and its children (bin_cmdsrc/sh): the commands that fork      *)
(* (x_simple, x_pipe, x_cmdlist, x_intrn, cmdsub), the list of children    *)
(* worth waiting for and the loop around wait (sign.c), and the handlers   *)
(* of SIGINT and of trapped signals, which run parts of the shell again.   *)
(*                                                                         *)
(* The stack holds the activations: a list of commands (parsex), waitfor,  *)
(* and on top of them those of the handlers.  A signal is handled between  *)
(* any two steps, and ends a wait only when it has gone to sleep.          *)
(* Children are numbered in the order they are made; what they run is      *)
(* their own affair, but for the pipe cmdsub reads from.                   *)
(***************************************************************************)
EXTENDS Integers, Sequences, FiniteSets

CONSTANTS MaxKids,      \* children the shell makes (bound)
          MaxSignals    \* signals it is sent (bound)

Pids == 1..MaxKids
None == 0               \* no process

ASSUME ShellWaitAssumption == MaxKids \in Nat /\ MaxSignals \in Nat

VARIABLES stack,        \* the activations, <<>> when the shell has exited
          waitlist,     \* the processes of waitlist
          waiting,
          interactive,
          child,        \* child[q]: the process q
          signals,      \* so far
          trapped,      \* history: children alive at, or made in, a trap
          unlisted,     \* history: children made and not listed when itrpt ended
          pending,      \* history: a SIGINT has not been acted on
          dropped       \* history: and never will be

hist == <<signals, trapped, unlisted, pending, dropped>>
vars == <<stack, waitlist, waiting, interactive, child, hist>>

\* What a child was made for.  "talk": its output fills the pipe of cmdsub.
Kinds == {"command", "pipe", "back", "listen", "talk", "eval", "trap"}
Listening == {"listen", "talk"}
Foreground == Kinds \ {"back"}
Child == [kind : Kinds, state : {"none", "live", "zombie", "gone"}]

Made(q) == child[q].state # "none"
Live(q) == child[q].state = "live"
Zombie(q) == child[q].state = "zombie"
Reaped(q) == child[q].state = "gone"
Gone == [kind |-> "command", state |-> "gone"]
Unreaped(q) == Live(q) \/ Zombie(q)

Fns == {"top", "eval", "trap", "waitfor", "itrpt"}
Ats == {"ready", "reader", "forked", "listen", "waiting", "done",
        "enter", "while", "wait", "woke", "test", "clear", "after", "ret"}

\* An activation: its routine and place, the child in hand, and of waitfor
\* the argument ignbgr, what wait returned and the result: the process whose
\* status it is, or 0.
Frame == [fn : Fns, at : Ats, what : Kinds \cup {"none", "wait"}, id : Pids \cup {-1, None},
          ign : BOOLEAN, i : Pids \cup {-1, None}, res : Pids \cup {0}, save : BOOLEAN]

NewList(fn, save) ==
    [fn |-> fn, at |-> "ready", what |-> "none", id |-> None, ign |-> FALSE,
     i |-> None, res |-> 0, save |-> save]
NewWait(fn, id, ign) ==
    [fn |-> fn, at |-> "while", what |-> "none", id |-> id, ign |-> ign,
     i |-> None, res |-> 0, save |-> FALSE]

Top == stack[Len(stack)]
At(l) == stack # <<>> /\ Top.at = l
Below == SubSeq(stack, 1, Len(stack) - 1)
Become(f) == stack' = [stack EXCEPT ![Len(stack)] = f]
Goto(l) == Become([Top EXCEPT !.at = l])
Push(below, f) == stack' = Append([stack EXCEPT ![Len(stack)] = below], f)

\* What comes after a command: the next one, but eval and a trap run one.
After(f) == [f EXCEPT !.at = IF f.fn = "top" THEN "ready" ELSE "done",
                      !.what = "none", !.id = None]

Init ==
    /\ interactive \in BOOLEAN
    /\ stack = <<NewList("top", FALSE)>>
    /\ waitlist = {} /\ waiting = FALSE
    /\ child = [q \in Pids |-> [kind |-> "command", state |-> "none"]]
    /\ signals = 0 /\ trapped = {} /\ unlisted = {}
    /\ pending = FALSE /\ dropped = FALSE

-----------------------------------------------------------------------------
(* Commands *)

NextPid(q) == ~Made(q) /\ \A r \in Pids : r < q => Made(r)

\* The kinds of process the activation on top may make next.  eval and a trap
\* run one plain command at most; the code lets them run any list.
CanSpawn(kind) ==
    \/ At("ready") /\ Top.fn = "top" /\ kind # "trap"
    \/ At("ready") /\ Top.fn # "top" /\ kind = "command"
    \/ At("reader") /\ kind \in {"command", "pipe"}
    \/ At("enter") /\ kind = "trap"

InTrap == \E k \in DOMAIN stack : stack[k].fn = "trap"

\* fork.  A background process is not waited for.
Spawn(kind) ==
    /\ CanSpawn(kind)
    /\ \E q \in Pids :
          /\ NextPid(q)
          /\ child' = [child EXCEPT ![q].kind = kind, ![q].state = "live"]
          /\ Become(IF kind = "back" THEN After(Top)
                    ELSE [Top EXCEPT !.at = "forked", !.what = kind, !.id = q])
          /\ trapped' = IF InTrap THEN trapped \cup {q} ELSE trapped
    /\ UNCHANGED <<waitlist, waiting, interactive, signals, unlisted, pending, dropped>>

\* fork returns -1.
SpawnFails(kind) ==
    /\ CanSpawn(kind)
    /\ \A q \in Pids : Made(q)
    /\ Become(After(Top))
    /\ UNCHANGED <<waitlist, waiting, interactive, child, hist>>

\* A command that makes no process.
BuiltIn ==
    /\ At("ready") \/ At("reader")
    /\ Become(After(Top))
    /\ UNCHANGED <<waitlist, waiting, interactive, child, hist>>

\* wait, of a process or of all.
WaitCommand(id) ==
    /\ At("ready") /\ Top.fn = "top"
    /\ Push([Top EXCEPT !.at = "waiting", !.what = "wait"], NewWait("waitfor", id, FALSE))
    /\ UNCHANGED <<waitlist, waiting, interactive, child, hist>>

\* Mutant: the writer of a pipe is not put on the list.
PutwaitNoWriter ==
    /\ At("forked")
    /\ waitlist' = IF Top.what = "pipe" THEN waitlist ELSE waitlist \cup {Top.id}
    /\ CASE Top.what = "command" -> Push([Top EXCEPT !.at = "waiting"], NewWait("waitfor", Top.id, TRUE))
         [] Top.what = "pipe" -> Become([Top EXCEPT !.at = "reader", !.id = None])
         [] Top.what \in Listening -> Goto("listen")
         [] Top.what = "eval" -> Push([Top EXCEPT !.at = "waiting"], NewList("eval", interactive))
         [] Top.what = "trap" -> Become([Top EXCEPT !.at = "ready", !.what = "none", !.id = None])
    /\ interactive' = (interactive /\ Top.what \notin {"eval", "trap"})
    /\ UNCHANGED <<waiting, child, hist>>

\* putwait, and what the parent does next: it waits for a command, goes on to
\* the reader of a pipe, reads the output of a command substitution, or
\* the commands of eval or of a trap from a pipe.
Putwait ==
    /\ At("forked")
    /\ waitlist' = waitlist \cup {Top.id}
    /\ CASE Top.what = "command" -> Push([Top EXCEPT !.at = "waiting"], NewWait("waitfor", Top.id, TRUE))
         [] Top.what = "pipe" -> Become([Top EXCEPT !.at = "reader", !.id = None])
         [] Top.what \in Listening -> Goto("listen")
         [] Top.what = "eval" -> Push([Top EXCEPT !.at = "waiting"], NewList("eval", interactive))
         [] Top.what = "trap" -> Become([Top EXCEPT !.at = "ready", !.what = "none", !.id = None])
    /\ interactive' = (interactive /\ Top.what \notin {"eval", "trap"})
    /\ UNCHANGED <<waiting, child, hist>>

\* listen reads up to the end of file.
ListenEnds ==
    /\ At("listen")
    /\ ~Live(Top.id)
    /\ Become(After(Top))
    /\ UNCHANGED <<waitlist, waiting, interactive, child, hist>>

\* The end of the text of eval or of a trap.
ParsexEnds ==
    /\ At("done")
    /\ stack' = IF Top.fn = "trap" THEN Below
                ELSE [Below EXCEPT ![Len(Below)] = After(@)]
    /\ interactive' = Top.save
    /\ UNCHANGED <<waitlist, waiting, child, hist>>

\* The end of the input.
Quit ==
    /\ At("ready") /\ Top.fn = "top"
    /\ stack' = <<>>
    /\ pending' = FALSE
    /\ UNCHANGED <<waitlist, waiting, interactive, child, signals, trapped, unlisted, dropped>>

-----------------------------------------------------------------------------
(* waitfor *)

\* Mutant: ignbgr is not looked at.
WhileTestAll ==
    /\ At("while")
    /\ Goto("wait") /\ waiting' = TRUE
    /\ UNCHANGED <<waitlist, interactive, child, hist>>

\* The loop test.  With ignbgr and an empty list waitfor ends without a
\* return statement, and its value is anything.
WhileTest ==
    /\ At("while")
    /\ IF Top.ign /\ waitlist = {}
       THEN /\ \E r \in Pids \cup {0} : Become([Top EXCEPT !.at = "ret", !.res = r])
            /\ UNCHANGED waiting
       ELSE Goto("wait") /\ waiting' = TRUE
    /\ UNCHANGED <<waitlist, interactive, child, hist>>

\* wait returns a child that ended, or -1 when there is none.  Else it sleeps.
CallWait ==
    /\ At("wait")
    /\ \/ \E q \in Pids :
             /\ Zombie(q)
             /\ child' = [child EXCEPT ![q] = Gone]
             /\ Become([Top EXCEPT !.at = "woke", !.i = q])
       \/ /\ \A q \in Pids : ~Unreaped(q)
          /\ Become([Top EXCEPT !.at = "woke", !.i = -1])
          /\ UNCHANGED child
    /\ UNCHANGED <<waitlist, waiting, interactive, hist>>

\* Mutant: only the awaited child is taken off the list.
RemwaitOwn ==
    /\ At("woke")
    /\ waitlist' = IF Top.i = Top.id THEN waitlist \ {Top.i} ELSE waitlist
    /\ Goto("test")
    /\ UNCHANGED <<waiting, interactive, child, hist>>

Remwait ==
    /\ At("woke")
    /\ waitlist' = waitlist \ {Top.i}
    /\ Goto("test")
    /\ UNCHANGED <<waiting, interactive, child, hist>>

\* IF !waiting THEN itrpt(); itrpt does not return.
TestWaiting ==
    /\ At("test")
    /\ IF waiting THEN Goto("clear")
       ELSE Push(Top, NewWait("itrpt", -1, TRUE))
    /\ UNCHANGED <<waitlist, waiting, interactive, child, hist>>

\* ELSE waiting = FALSE: a SIGINT handled since the test leaves no trace.
ClearWaiting ==
    /\ At("clear")
    /\ waiting' = FALSE
    /\ dropped' = (dropped \/ ~waiting)
    /\ Goto("after")
    /\ UNCHANGED <<waitlist, interactive, child, signals, trapped, unlisted, pending>>

\* Mutant: the two tests the other way round.
AfterWaitSwapped ==
    /\ At("after")
    /\ CASE Top.i = Top.id -> Become([Top EXCEPT !.at = "ret", !.res = Top.i]) /\ UNCHANGED waitlist
         [] Top.i = -1 /\ Top.i # Top.id ->
               waitlist' = {} /\ Become([Top EXCEPT !.at = "ret", !.res = 0])
         [] OTHER -> Goto("while") /\ UNCHANGED waitlist
    /\ UNCHANGED <<waiting, interactive, child, hist>>

\* Mutant: the status of whichever child comes first.
AfterWaitAny ==
    /\ At("after")
    /\ IF Top.i = -1
       THEN waitlist' = {} /\ Become([Top EXCEPT !.at = "ret", !.res = 0])
       ELSE Become([Top EXCEPT !.at = "ret", !.res = Top.i]) /\ UNCHANGED waitlist
    /\ UNCHANGED <<waiting, interactive, child, hist>>

\* What wait returned.  For any -1, EINTR or not, clrwait empties the list.
AfterWait ==
    /\ At("after")
    /\ CASE Top.i = -1 -> waitlist' = {} /\ Become([Top EXCEPT !.at = "ret", !.res = 0])
         [] Top.i = Top.id /\ Top.i # -1 ->
               /\ Become([Top EXCEPT !.at = "ret", !.res = Top.i])
               /\ UNCHANGED waitlist
         [] OTHER -> Goto("while") /\ UNCHANGED waitlist
    /\ UNCHANGED <<waiting, interactive, child, hist>>

WaitforReturns ==
    /\ At("ret") /\ Top.fn = "waitfor"
    /\ stack' = [Below EXCEPT ![Len(Below)] = After(@)]
    /\ UNCHANGED <<waitlist, waiting, interactive, child, hist>>

\* The end of itrpt: to the command level, or the end of the shell.
ItrptEnds ==
    /\ At("ret") /\ Top.fn = "itrpt"
    /\ IF interactive
       THEN stack' = <<NewList("top", FALSE)>>
       ELSE stack' = <<>>
    /\ unlisted' = unlisted \cup {stack[k].id : k \in {j \in DOMAIN stack : stack[j].at = "forked"}}
    /\ pending' = FALSE
    /\ UNCHANGED <<waitlist, waiting, interactive, child, signals, trapped, dropped>>

-----------------------------------------------------------------------------
(* Signals and children *)

\* What the signal finds when its handler returns: a wait that slept gives -1;
\* one that was about to sleep will sleep.
Asleep == Top.at = "wait" /\ (\E q \in Pids : Live(q)) /\ \A q \in Pids : ~Zombie(q)
Interrupted == {Top} \cup {f \in {[Top EXCEPT !.at = "woke", !.i = -1]} : Asleep}

SendSignal == stack # <<>> /\ signals < MaxSignals /\ signals' = signals + 1

\* Mutant: itrpt leaves it to waitfor also when waitfor is not running.
ItrptDeferred ==
    /\ SendSignal
    /\ \E f \in Interrupted : Become(f)
    /\ waiting' = FALSE
    /\ pending' = TRUE
    /\ UNCHANGED <<waitlist, interactive, child, trapped, unlisted, dropped>>

\* itrpt
Itrpt ==
    /\ SendSignal
    /\ \E f \in Interrupted :
          IF waiting THEN waiting' = FALSE /\ Become(f)
          ELSE Push(f, NewWait("itrpt", -1, TRUE)) /\ UNCHANGED waiting
    /\ pending' = TRUE
    /\ UNCHANGED <<waitlist, interactive, child, trapped, unlisted, dropped>>

\* trap(n), for a signal with a trap command.
Trap ==
    /\ SendSignal
    /\ \E f \in Interrupted : Push(f, [NewList("trap", interactive) EXCEPT !.at = "enter"])
    /\ trapped' = trapped \cup {q \in Pids : Unreaped(q) /\ child[q].kind # "back"}
    /\ UNCHANGED <<waitlist, waiting, interactive, child, unlisted, pending, dropped>>

\* A child ends.  One that talks has filled the pipe, and ends when somebody
\* reads it or nobody can.
Exit(q) ==
    /\ Live(q)
    /\ child[q].kind = "talk" => stack = <<>> \/ (At("listen") /\ Top.id = q)
    /\ child' = [child EXCEPT ![q].state = "zombie"]
    /\ UNCHANGED <<stack, waitlist, waiting, interactive, hist>>

ShellStep ==
    \/ \E k \in Kinds : Spawn(k) \/ SpawnFails(k)
    \/ BuiltIn \/ Putwait \/ ListenEnds \/ ParsexEnds
    \/ WhileTest \/ CallWait \/ Remwait \/ TestWaiting \/ ClearWaiting
    \/ AfterWait \/ WaitforReturns \/ ItrptEnds

Next ==
    \/ ShellStep
    \/ \E id \in Pids \cup {-1} : WaitCommand(id)
    \/ Quit
    \/ Itrpt \/ Trap
    \/ \E q \in Pids : Exit(q)

Spec == Init /\ [][Next]_vars

\* The shell goes on when it can, but at its prompt; every process but those
\* in the background ends some day, if it can.
FairSpec ==
    /\ Spec
    /\ WF_vars(ShellStep /\ ~(At("ready") /\ Top.fn = "top"))
    /\ \A q \in Pids : WF_vars(child[q].kind # "back" /\ Exit(q))

-----------------------------------------------------------------------------
(* Properties *)

TypeOK ==
    /\ stack \in Seq(Frame)
    /\ waitlist \subseteq Pids /\ waiting \in BOOLEAN /\ interactive \in BOOLEAN
    /\ child \in [Pids -> Child]
    /\ signals \in 0..MaxSignals /\ trapped \subseteq Pids /\ unlisted \subseteq Pids
    /\ pending \in BOOLEAN /\ dropped \in BOOLEAN

\* waitlist names children that are still to be reaped; but for those in hand
\* when the shell ran a trap, whose own commands reap any child.  A name that
\* stays on the list makes itrpt wait for background processes too.
WaitlistTrue ==
    \A q \in waitlist :
        Unreaped(q) \/ q \in trapped \/ \E k \in DOMAIN stack : stack[k].at = "woke" /\ stack[k].i = q

\* waitfor gives a command its own status; but if a trap was run meanwhile.
OwnStatus ==
    At("ret") /\ Top.fn = "waitfor" /\ Top.ign =>
        Top.id \in trapped \/ (Reaped(Top.id) /\ Top.res = Top.id)

\* After a SIGINT the shell comes back to the command level with no child of
\* a command alive.
InterruptWaits ==
    [][ItrptEnds =>
          \A q \in Pids : Live(q) /\ child[q].kind \in Foreground => q \in unlisted' \cup trapped]_vars

\* A command that was waited for does not hold up the shell when background
\* processes go on for ever; but if a trap was run, or a SIGINT handled between
\* wait and remwait, when the dead child still seems worth waiting for.
Awaits == \E k \in DOMAIN stack : stack[k].fn = "waitfor" /\ stack[k].ign
StaleList == \E k \in 1..(Len(stack) - 1) : stack[k].at = "woke" /\ stack[k].i # -1
FgReturns == Awaits ~> (~Awaits \/ trapped # {} \/ StaleList)

\* A SIGINT is acted on, whenever it comes, background processes or not; but
\* for the one that came between the test of waiting and its reset, or just
\* before the wait command went to sleep, or while the output of a command
\* substitution is blocked, and but for stale lists as above.
WaitCommandSleeps == At("wait") /\ ~Top.ign
Talking == \E q \in Pids : Live(q) /\ child[q].kind = "talk"
InterruptActed ==
    pending ~> (~pending \/ dropped \/ WaitCommandSleeps \/ Talking \/ StaleList)

\* The list of children and the status that waitfor returns are true.
WaitSound == WaitlistTrue /\ OwnStatus

\* Neither a background process nor a signal holds up the shell for ever.
ShellGoesOn == FgReturns /\ InterruptActed

=============================================================================

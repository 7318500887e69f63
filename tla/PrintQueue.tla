----------------------------- MODULE PrintQueue -----------------------------
(***************************************************************************)
(* What the users of lpr are promised: a job that was entered in the queue *)
(* stays there until it has been printed.  The order is left open here;    *)
(* Spooler states what get_job makes of the priorities.                    *)
(***************************************************************************)
CONSTANT Jobs

VARIABLES queue,    \* the jobs waiting to be printed
          done      \* the jobs that were printed

Init == queue = {} /\ done = {}

Enter(j) ==
    /\ j \notin queue \cup done
    /\ queue' = queue \cup {j}
    /\ UNCHANGED done

TakeOut(j) ==
    /\ j \in queue
    /\ queue' = queue \ {j}
    /\ done' = done \cup {j}

Next == \E j \in Jobs : Enter(j) \/ TakeOut(j)

Spec == Init /\ [][Next]_<<queue, done>>
=============================================================================

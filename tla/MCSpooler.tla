----------------------------- MODULE MCSpooler -----------------------------
(***************************************************************************)
(* Instances of Spooler for TLC: p1 spools two files with -r, p2 standard  *)
(* input at a higher priority, and the third process, where there is one,  *)
(* comes after a crash (Explored).  With one letter p1 has no name for its *)
(* second file until the first one was printed.                            *)
(***************************************************************************)
EXTENDS Spooler

CONSTANTS p1, p2, p3

MCNFiles == [p \in Procs |-> IF p = p1 THEN 2 ELSE 1]
MCPri == [p \in Procs |-> CASE p = p1 -> 5 [] p = p2 -> 7 [] OTHER -> 1]
MCLetters == 1..2
MCOneLetter == 1..1

\* The third process is the daemon that finds what the first crash left: its
\* own file cannot be read.
Explored == pc[p3] # "idle" => crashes = 1 /\ faults = 0 /\ pc[p3] # "put"
=============================================================================

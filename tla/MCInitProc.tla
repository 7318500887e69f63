----------------------------- MODULE MCInitProc -----------------------------
(***************************************************************************)
(* Instances of InitProc for TLC: two terminals, and two files, the second *)
(* without the first terminal and with two lines for the second, of which  *)
(* the last has another mode.                                              *)
(***************************************************************************)
EXTENDS InitProc

CONSTANTS ta, tb

MCFiles == {<<[line |-> ta, comn |-> 1], [line |-> tb, comn |-> 1]>>,
            <<[line |-> tb, comn |-> 1], [line |-> tb, comn |-> 2]>>}
MCPids == 2..4
=============================================================================

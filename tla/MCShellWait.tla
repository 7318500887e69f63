---------------------------- MODULE MCShellWait ----------------------------
(***************************************************************************)
(* Instances of ShellWait for TLC: two children and two signals, so that a *)
(* background or a dying child meets a command in hand, and a second       *)
(* SIGINT or a trap the handling of a first.                               *)
(***************************************************************************)
EXTENDS ShellWait
=============================================================================

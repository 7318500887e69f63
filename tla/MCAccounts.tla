----------------------------- MODULE MCAccounts -----------------------------
(***************************************************************************)
(* Instances of Accounts for TLC: p1 and p3 set the password of u1, p2     *)
(* makes u3, p4 removes u2, and u4, whose name begins that of u2, is in    *)
(* the files throughout.                                                   *)
(***************************************************************************)
EXTENDS Accounts

CONSTANTS p1, p2, p3, p4, u1, u2, u3, u4

MCCmd == [p \in Procs |-> CASE p = p2 -> "mkuser" [] p = p4 -> "rmuser"
                            [] OTHER -> "passwd"]
MCUser == [p \in Procs |-> CASE p = p2 -> u3 [] p = p4 -> u2 [] OTHER -> u1]
MCNewPw == [p \in Procs |-> IF p = p1 THEN 1 ELSE 2]
MCPrefix == {<<u, v>> \in Users \X Users : u = u4 /\ v = u2}
MCInodes == 1..18
MCUids == 1..5
=============================================================================

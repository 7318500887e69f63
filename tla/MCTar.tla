-------------------------------- MODULE MCTar --------------------------------
(* Three names of two inodes, in a directory and beside it; volumes of three *)
(* blocks of two.                                                            *)
EXTENDS Tar

A == <<"d", "a">>
B == <<"d", "b">>
C == <<"c">>
MCFiles == (A :> 1) @@ (B :> 1) @@ (C :> 2)
MCDirs == (<<"d">> :> <<A, B>>)
Of(first, n) == [k \in 1..n |-> first + k]
MCBytes == (<<1, 1>> :> Of(10, 3)) @@ (<<1, 2>> :> Of(20, 1)) @@ (<<2, 1>> :> Of(30, 13)) @@ (<<2, 2>> :> Of(60, 4))
Job(op, args) == [op |-> op, args |-> args, from |-> 1, s |-> op = "c", tblksz |-> 2, tblkmax |-> 0, capacity |-> 30, mine |-> DOMAIN MCFiles]
All == <<<<"d">>, C>>
Restore == Job("x", <<>>)
Volumes(args) == [Job("c", args) EXCEPT !.tblkmax = 8, !.capacity = 8]
Full(call, n) == [call EXCEPT !.capacity = n]
Odd(call) == [call EXCEPT !.tblksz = 3]
MCJobs ==
  {<<Volumes(args), [Restore EXCEPT !.mine = m]>> : args \in {All, <<C, <<"d">>>>, <<A, C, B>>}, m \in {DOMAIN MCFiles, {C}, {A}}}
  \cup {<<Job("c", All), Job(op, args), Restore>> : op \in {"r", "u"}, args \in {All, <<A>>, <<C, B>>}}
  \cup {<<Job("c", All), Job("c", <<A>>), Restore>>, <<Odd(Job("c", All)), Odd(Job("u", All)), [Odd(Restore) EXCEPT !.s = TRUE]>>,
        <<Job("c", All), [Job("r", <<A>>) EXCEPT !.tblkmax = 8]>>, <<Volumes(All), [Job("x", <<A>>) EXCEPT !.tblkmax = 8]>>,
        <<Volumes(All), Job("t", <<>>)>>, <<[Volumes(All) EXCEPT !.tblkmax = 6, !.capacity = 6], Restore>>}
  \cup {<<Full(Job("c", All), n), Restore>> : n \in {4, 7, 10, 12}} \cup {<<Job("c", All), Full(Job("u", All), n), Restore>> : n \in {14, 16}}
=============================================================================

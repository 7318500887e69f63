----------------------------- MODULE MCFileTree -----------------------------
(* One small tree:                                                           *)
(*   /a /b files, /v a device, /e an empty directory,                        *)
(*   /d with the file x and the directory s, which holds another file x.     *)
EXTENDS FileTree

MCInodes == 1..14
MCNames == {".", "..", "a", "b", "c", "d", "e", "s", "x", "v", "n"}
Entries == {<<1, ".", 1>>, <<1, "..", 1>>, <<1, "a", 2>>, <<1, "b", 3>>, <<1, "d", 4>>, <<1, "e", 7>>, <<1, "v", 9>>,
            <<4, ".", 4>>, <<4, "..", 1>>, <<4, "x", 5>>, <<4, "s", 6>>,
            <<6, ".", 6>>, <<6, "..", 4>>, <<6, "x", 8>>, <<7, ".", 7>>, <<7, "..", 1>>}
MCTree == [i \in MCInodes \cup {0} |-> [n \in MCNames |->
             IF \E j \in MCInodes : <<i, n, j>> \in Entries
             THEN CHOOSE j \in MCInodes : <<i, n, j>> \in Entries ELSE 0]]
MCKind == [i \in MCInodes |-> IF i \in {1, 4, 6, 7} THEN "dir" ELSE IF i = 9 THEN "dev"
                              ELSE IF i \in {2, 3, 5, 8} THEN "file" ELSE "free"]
MCData == [i \in MCInodes |-> IF i = 2 THEN <<"A", "A">> ELSE IF i = 3 THEN <<"B">>
                              ELSE IF i = 5 THEN <<"X">> ELSE IF i = 8 THEN <<"Y">> ELSE <<>>]

None == [cmd |-> "none", srcs |-> <<>>, dst |-> <<>>, flags |-> {}]
J(cmd, srcs, dst, flags) == [cmd |-> cmd, srcs |-> srcs, dst |-> dst, flags |-> flags]
A == <<"/", "a">>   B == <<"/", "b">>   C == <<"/", "c">>   D == <<"/", "d">>   E == <<"/", "e">>
V == <<"/", "v">>   DS == <<"/", "d", "s">>   DX == <<"/", "d", "x">>

Scen(j, k, f, s, cwd, prot) == [jobs |-> ("p" :> j) @@ ("q" :> k), faults |-> f, kills |-> s, cwd |-> cwd, prot |-> prot]
Alone(j) == Scen(j, None, 2, 0, 1, {})
Struck(j) == Scen(j, None, 0, 1, 1, {})
Both(j, k, f, s) == Scen(j, k, f, s, 1, {})

Moves == {J("mv", <<A>>, B, {}), J("mv", <<A>>, C, {}), J("mv", <<A>>, A, {}), J("mv", <<A, B>>, D, {}),
          J("mv", <<A, D>>, E, {}), J("mv", <<A, B>>, C, {}), J("mv", <<C>>, A, {}),
          J("mv", <<D>>, C, {}), J("mv", <<D>>, E, {}), J("mv", <<DS>>, E, {}), J("mv", <<DS>>, C, {}),
          J("mv", <<D>>, <<"/", "d", "s", "n">>, {}), J("mv", <<<<"d", "s">>>>, <<"c">>, {}),
          J("mv", <<<<"d", "..", "d">>>>, <<"e", "n">>, {})}
Removals == {J("rm", <<A, V>>, <<>>, {}), J("rm", <<D>>, <<>>, {}), J("rm", <<D, B>>, <<>>, {"r"}),
             J("rm", <<DS>>, <<>>, {"r", "i"}), J("rm", <<A, C>>, <<>>, {"f"}),
             J("rmdir", <<E, C>>, <<>>, {}), J("rmdir", <<D>>, <<>>, {}),
             J("mkdir", <<C, A>>, <<>>, {}), J("mkdir", <<<<"c">>, <<"c", "n">>>>, <<>>, {})}
Copies == {J("cp_main", <<A>>, B, {}), J("cp_main", <<A, B>>, D, {}), J("cp_main", <<A>>, C, {}),
           J("cp_main", <<A, B>>, C, {}), J("cp_main", <<A>>, A, {}),
           J("ln", <<A>>, C, {}), J("ln", <<DX>>, <<>>, {}), J("ln", <<A>>, E, {}), J("ln", <<D>>, C, {}),
           J("copy", <<A>>, B, {}), J("copy", <<A>>, B, {"l"}), J("copy", <<A>>, C, {"l"}), J("copy", <<A>>, B, {"n"}),
           J("copy", <<A>>, B, {"u"}), J("copy", <<A, B>>, C, {}), J("copy", <<A, B>>, DX, {}),
           J("copy", <<V>>, C, {}), J("copy", <<V>>, E, {}), J("copy", <<V>>, B, {})}
Trees == {J("copy", <<D>>, E, {"r"}), J("copy", <<D>>, E, {"r", "t"}), J("copy", <<D>>, DS, {"r"}),
          J("copy", <<D>>, E, {}), J("copy", <<D>>, E, {"r", "ad"}), J("copy", <<DS>>, C, {"r", "a"})}
\* two commands, one call failing and a kill; two commands that move directories
Pairs == {<<J("mv", <<A>>, D, {}), J("mv", <<B>>, D, {})>>,
          <<J("mv", <<A>>, B, {}), J("cp_main", <<DX>>, C, {})>>,
          <<J("mkdir", <<C>>, <<>>, {}), J("mkdir", <<C>>, <<>>, {})>>,
          <<J("mkdir", <<<<"/", "e", "n">>>>, <<>>, {}), J("mv", <<A>>, E, {})>>,
          <<J("rm", <<A>>, <<>>, {}), J("ln", <<A>>, E, {})>>,
          <<J("mv", <<B>>, D, {}), J("ln", <<B>>, C, {})>>,
          <<J("copy", <<D>>, E, {"r"}), J("mv", <<A>>, D, {})>>,
          <<J("copy", <<A>>, C, {}), J("rm", <<A>>, <<>>, {})>>}
DirPairs == {<<J("rm", <<D>>, <<>>, {"r"}), J("rm", <<D>>, <<>>, {"r"})>>,
             <<J("mv", <<D>>, C, {}), J("mv", <<A>>, D, {})>>,
             <<J("mv", <<D>>, C, {}), J("mv", <<E>>, C, {})>>,
             <<J("mv", <<DS>>, E, {}), J("mv", <<D>>, C, {})>>}

MCScenarios ==
  {Alone(j) : j \in Moves \cup Removals \cup Copies \cup Trees}
  \cup {Struck(j) : j \in Moves \cup Removals \cup Copies}
  \cup {Both(jk[1], jk[2], 1, 1) : jk \in Pairs} \cup {Both(jk[1], jk[2], 0, 0) : jk \in DirPairs}
  \cup {Scen(J("unlink", <<>>, <<>>, {}), None, 1, 0, 6, {}),
        Scen(J("rm", <<A, D>>, <<>>, {"r"}), None, 0, 0, 1, {2, 6}),
        Scen(J("mv", <<A>>, B, {}), None, 1, 0, 1, {3}),
        Scen(J("rmdir", <<DS, E>>, <<>>, {}), None, 0, 0, 7, {}),
        Scen(J("copy", <<D>>, C, {"r"}), None, 0, 0, 1, {})}
=============================================================================

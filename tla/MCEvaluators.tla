---------------------------- MODULE MCEvaluators ----------------------------
(* Small expressions, argument lists, patterns and directories.              *)
EXTENDS Evaluators, TLC

MCBits == 5
Num(n, text) == [op |-> "num", n |-> n, text |-> text]
Nums == {Num(0, <<"0">>), Num(2, <<"2">>), Num(13, <<"0", "x", "d">>)}
Ops2(A, B, ops) == {[op |-> o, l |-> a, r |-> b] : o \in ops, a \in A, b \in B}
Neg(A) == {[op |-> o, l |-> a] : o \in {"neg", "~"}, a \in A}
Arith == {"|", "&", "<", "=", "+", "-", "*", "/"}
Flat == Nums \cup Ops2({Num(2, <<"2">>), Num(7, <<" ", "0", "7">>)}, {Num(0, <<"0">>), Num(13, <<"1", "3">>)}, Arith)
             \cup Neg(Nums) \cup Ops2(Nums, {Num(1, <<"1">>)}, {"<<"})
Deep == Flat \cup Ops2(Flat, Nums, Arith) \cup Ops2(Nums, Flat, Arith) \cup Neg(Flat)
        \cup Ops2({f \in Flat : f.op \in {"+", "-", "neg", "~"}}, {f \in Flat : f.op \in {"*", "/", "&", "neg"}}, Arith)
ExprInputs == {[tool |-> "expr", meant |-> e] : e \in Deep}
TextInputs == {[tool |-> "text", text |-> t] : t \in UNION {[1..n -> {"1", "+", "=", "(", ")", "|"}] : n \in 1..5}}

MCWords == [w \in {"", "a", "1", "2", "f", "d", "(", ")", "!", "-a", "-o", "-n", "-z", "-l", "-r", "-w", "-d", "-f", "-s", "=", "!=", "-eq", "-lt", "-ge", "-gt"} |->
              [num |-> CASE w = "1" -> 1 [] w = "2" -> 2 [] OTHER -> -1, len |-> CASE w = "" -> 0 [] w \in {"a", "1", "2", "f", "d"} -> 1 [] OTHER -> 2]]
MCFileIs == [w \in DOMAIN MCWords |-> CASE w = "f" -> "file" [] w = "d" -> "dir" [] w = "2" -> "locked" [] OTHER -> "none"]
TestIs(args, v) == [op |-> "is", args |-> args, v |-> v]
Atoms == {TestIs(<<"-n", "">>, FALSE), TestIs(<<"-z", "">>, TRUE), TestIs(<<"a", "=", "a">>, TRUE), TestIs(<<"a", "!=", "a">>, FALSE),
          TestIs(<<"2", "-ge", "1">>, TRUE), TestIs(<<"2", "-lt", "1">>, FALSE), TestIs(<<"-l", "a", "-eq", "1">>, TRUE),
          TestIs(<<"-r", "f">>, TRUE), TestIs(<<"-w", "d">>, FALSE), TestIs(<<"-d", "d">>, TRUE), TestIs(<<"-f", "d">>, FALSE), TestIs(<<"-s", "2">>, TRUE)}
Two == {TestIs(<<"-l", "a", "-gt", "2">>, FALSE), TestIs(<<"-f", "f">>, TRUE)}
Nots(A) == {[op |-> "!", l |-> a] : a \in A}
TestFlat == Atoms \cup Nots(Atoms) \cup Ops2(Atoms, Atoms, {"-a", "-o"})
TestSmall == Two \cup Nots(Two) \cup Ops2(Two, Two, {"-a", "-o"})
TestInputs == {[tool |-> "test", meant |-> e] : e \in TestFlat \cup Nots(TestFlat) \cup Ops2(TestFlat, Two, {"-a", "-o"})
                                                  \cup Ops2(TestSmall, TestSmall, {"-a", "-o"})}

\* patterns; ** at the end is not among them
Strings(A, n) == UNION {[1..k -> A] : k \in 0..n}
MatchInputs == {[tool |-> "match", name |-> s, mask |-> m] : s \in Strings({"a", "b"}, 3),
                m \in {x \in Strings({"a", "b", "*", "?"}, 4) : \A i \in 1..(Len(x) - 1) : <<x[i], x[i + 1]>> # <<"*", "*">>}}

\* find
Tok(s, n, cs) == [s |-> s, n |-> n, cs |-> cs]
MCTokens == [t \in {"a", "b", "*", "?", ""} |-> Tok(t, CASE t = "a" -> 97 [] t = "b" -> 98 [] OTHER -> 1, <<t>>)]
  @@ ("aa" :> Tok("a", 0, <<"a", "a">>)) @@ ("a*" :> Tok("a", 0, <<"a", "*">>)) @@ ("+1" :> Tok("+", 1, <<>>)) @@ ("-1" :> Tok("-", -1, <<>>))
  @@ ("1" :> Tok("1", 1, {1})) @@ ("-2" :> Tok("-", -2, {1})) @@ ("d" :> Tok("d", 0, <<>>)) @@ ("new" :> Tok("n", 0, <<>>))
  @@ [t \in {"-print", "-a", "-o", "-name", "-mtime", "-size", "-perm", "-type", "-group", "-newer", "-exec", "-ok"} |-> Tok("-", 0, <<>>)]
  @@ [t \in {"(", ")", "!", ";", "true", "false"} |-> Tok(t, 0, <<>>)]
MCNewest == 1
Of(days, size, bits) == ("-mtime" :> days) @@ ("-size" :> size) @@ ("-perm" :> bits) @@ ("-group" :> size) @@ ("-newer" :> days)
File(name, of) == [name |-> name, dir |-> FALSE, kids |-> <<>>, fault |-> "none", of |-> of]
Dir(name, kids) == [name |-> name, dir |-> TRUE, kids |-> kids, fault |-> "none", of |-> Of(2, 1, {1, 2})]
Sub == Dir("b", <<File("a", Of(0, 2, {1})), Dir("aa", <<>>), File("b", Of(1, 0, {1}))>>)
Tree == Dir("a", <<File("a", Of(1, 1, {1})), Sub, File("aa", Of(2, 0, {1, 3}))>>)
\* a directory that can be entered and not read leaves find in it: one that is followed
\* by names of its parent's parent is left out
Faulty(f) == [Tree EXCEPT !.kids[2].fault = f[1], !.kids[1].fault = f[2], !.kids[2].kids[1].fault = f[3]]
Act(c) == [op |-> "is", args |-> IF c = "print" THEN <<"-print">> ELSE <<"-exec", c, ";">>, cmp |-> "act", what |-> c]
Has(args, cmp, what, n) == [op |-> "is", args |-> args, cmp |-> cmp, what |-> what, n |-> n]
Named(w, mask) == [op |-> "is", args |-> <<"-name", w>>, cmp |-> "named", mask |-> mask]
Mode(w, cmp) == [op |-> "is", args |-> <<"-perm", w>>, cmp |-> cmp, bits |-> {1}]
Tests == {Has(<<"-mtime", "+1">>, ">", "-mtime", 1), Has(<<"-mtime", "-1">>, "<", "-mtime", 1), Has(<<"-size", "1">>, "=", "-size", 1),
          Has(<<"-type", "d">>, "dir", "", 0), Named("a*", <<"a", "*">>), Named("?", <<"?">>),
          Mode("-2", "has"), Mode("1", "is"), Has(<<"-group", "+1">>, "=", "-group", 1),
          Has(<<"-newer", "new">>, ">", "-newer", 1)}
Shows == {Act("print")}
Acts == Shows \cup {Act("true"), Act("false")}
Pairs == Ops2(Tests \cup Nots(Tests), Acts, {"", "-a", "-o"})
Trees == Acts \cup Pairs \cup Ops2(Pairs, Acts, {"", "-o"}) \cup Ops2(Acts, Pairs, {"", "-o"}) \cup Ops2(Nots(Pairs), Shows, {"-a", "-o"})
FindInputs ==
  {[tool |-> "find", whole |-> TRUE, root |-> Dir("/", <<Tree>>), top |-> Tree, meant |-> e] : e \in Trees}
  \cup {[tool |-> "find", whole |-> FALSE, root |-> Dir("/", <<Faulty(f), File("aa", Of(0, 0, {}))>>), top |-> Tree, meant |-> e] :
          f \in {"shut", "unread", "gone", "none"} \X {"gone", "none"} \X {"gone", "none"}, e \in Acts \cup Pairs}

\* dd: reads of three or four bytes, the last shorter
From(first, n) == [k \in 1..n |-> first + k]
Full(bytes) == [err |-> FALSE, bytes |-> bytes]
Reads(s, n) == [k \in 1..((Len(s) + n - 1) \div n) |-> Full(SubSeq(s, (k - 1) * n + 1, IF k * n < Len(s) THEN k * n ELSE Len(s)))]
DdCall(args, reads) == [tool |-> "dd", args |-> args, reads |-> reads, old |-> <<1, 2, 3, 4, 5, 6, 7, 8>>, room |-> 100]
One(name, digit) == <<name, <<digit>>>>
Conv(c) == <<"conv", c>>
Error == [err |-> TRUE, bytes |-> <<>>]
Mixed == {Reads(From(0, 11), 4), <<Full(From(0, 4)), Full(From(4, 2)), Full(From(6, 4))>>, <<>>,
          <<Full(From(0, 3)), Full(<<>>), Full(From(3, 4)), Full(<<>>), Full(From(7, 1))>>,
          <<Full(From(0, 4)), Error, Full(From(4, 4))>>, <<Error, Full(From(0, 1))>>}
Blocks4 == {<<One("bs", "4")>>, <<One("ibs", "4"), One("obs", "3")>>, <<One("obs", "2"), One("bs", "4"), Conv({"ucase"})>>, <<One("ibs", "0")>>}
Also == {<<>>, <<One("skip", "1")>>, <<One("seek", "1")>>, <<One("count", "2")>>, <<One("files", "2")>>, <<One("count", "1"), One("skip", "1")>>,
          <<Conv({"sync"})>>, <<Conv({"noerror"})>>, <<Conv({"noerror", "sync"})>>}
TextArgs(c) == {<<One("ibs", "3"), One("obs", "2"), Conv(c)>>, <<One("ibs", "3"), One("obs", "5"), One("cbs", "2"), Conv(c)>>, <<One("bs", "4"), One("cbs", "3"), Conv(c)>>}
DdInputs ==
  {DdCall(b \o x, r) : b \in Blocks4, x \in Also, r \in Mixed}
  \cup {[DdCall(b, Reads(From(0, 11), 4)) EXCEPT !.room = n] : b \in Blocks4, n \in {0, 4, 7, 10, 11}}
  \cup {DdCall(<<One("ibs", "4"), One("obs", "3"), Conv({"swab"})>>, Reads(From(0, n), 4)) : n \in {4, 8, 12}}
  \cup {DdCall(a, Reads(s, 3)) : a \in TextArgs({"ebcdic"}) \cup TextArgs({"ibm", "ucase"}), s \in Strings({97, 32, 10}, 4) \cup {<<97, 98, 99, 10, 97, 10, 98, 98, 98, 98>>, <<10, 10, 33>>}}
  \cup {DdCall(a, Reads(s, 3)) : a \in TextArgs({"ascii"}) \cup TextArgs({"ascii", "lcase", "ucase"}), s \in Strings({129, 193, 64}, 4) \cup {<<64, 64, 64, 64, 129, 64, 129>>}}
  \cup {DdCall(<<One("ibs", "4"), Conv(c)>>, Reads(From(-1, 256), 4)) : c \in SUBSET {"ascii", "ebcdic", "ibm", "ucase"}}
NumberInputs == {[tool |-> "number", text |-> x[1], n |-> x[2]] : x \in
  {<<<<"0">>, 0>>, <<<<"1", "2">>, 12>>, <<<<"2", "k">>, 2048>>, <<<<"1", "b", "k">>, 524288>>, <<<<"2", "x", "3">>, 6>>,
   <<<<"2", "*", "3", "k", "x", "1", "0">>, 61440>>, <<<<"4", "x", "5", "x", "6">>, 120>>, <<<<"3", "2", "7", "6", "7", "0">>, 327670>>,
   <<<<"3", "2", "7", "6", "7", "1">>, 327671>>, <<<<"4", "0", "0", "k", "x", "1">>, 409600>>, <<<<"1", "x", "4", "0", "0", "k">>, 409600>>, <<<<"1", "0", "b", "x", "7", "0">>, 358400>>}}

MCInputs == ExprInputs \cup TextInputs \cup TestInputs \cup MatchInputs \cup FindInputs \cup DdInputs \cup NumberInputs
=============================================================================

--------------------------- MODULE ShellWaitProofs ---------------------------
(***************************************************************************)
(* The shell and its children, for any number of children and signals: the *)
(* types, the list of children and the status that waitfor returns, and    *)
(* that SIGINT leaves no command behind.                                   *)
(***************************************************************************)
EXTENDS ShellWait, TLAPS

-----------------------------------------------------------------------------
(* What a step does to the stack *)

Becomes(f) ==
    /\ stack # <<>> /\ Len(stack') = Len(stack) /\ stack'[Len(stack)] = f
    /\ \A k \in 1..(Len(stack) - 1) : stack'[k] = stack[k]
Pushes(g, f) ==
    /\ stack # <<>> /\ Len(stack') = Len(stack) + 1
    /\ stack'[Len(stack)] = g /\ stack'[Len(stack) + 1] = f
    /\ \A k \in 1..(Len(stack) - 1) : stack'[k] = stack[k]
Returns(g) ==
    /\ Len(stack) \in Nat \ {0, 1} /\ Len(stack') = Len(stack) - 1 /\ stack'[Len(stack) - 1] = g
    /\ \A k \in 1..(Len(stack) - 2) : stack'[k] = stack[k]

Stacks == stack \in Seq(Frame)

LEMMA BecomeIs ==
  ASSUME Stacks, stack # <<>>, NEW f \in Frame, Become(f)
  PROVE  Becomes(f) /\ Stacks'
<1>1. Len(stack) \in Nat \ {0} /\ Len(stack) \in DOMAIN stack
  BY DEF Stacks
<1>2. stack' \in Seq(Frame) /\ Len(stack') = Len(stack)
  BY <1>1 DEF Stacks, Become
<1>3. stack'[Len(stack)] = f /\ \A k \in 1..(Len(stack) - 1) : stack'[k] = stack[k]
  BY <1>1 DEF Stacks, Become
<1> QED
  BY <1>2, <1>3 DEF Becomes, Stacks

LEMMA PushIs ==
  ASSUME Stacks, stack # <<>>, NEW g \in Frame, NEW f \in Frame, Push(g, f)
  PROVE  Pushes(g, f) /\ Stacks'
<1> DEFINE s == [stack EXCEPT ![Len(stack)] = g]
<1>1. Len(stack) \in Nat \ {0} /\ Len(stack) \in DOMAIN stack
  BY DEF Stacks
<1>2. s \in Seq(Frame) /\ Len(s) = Len(stack)
  BY <1>1 DEF Stacks
<1>3. s[Len(stack)] = g /\ \A k \in 1..(Len(stack) - 1) : s[k] = stack[k]
  BY <1>1 DEF Stacks
<1>4. stack' = Append(s, f)
  BY DEF Push
<1> HIDE DEF s
<1>5. /\ stack' \in Seq(Frame) /\ Len(stack') = Len(stack) + 1 /\ stack'[Len(stack) + 1] = f
      /\ \A k \in 1..Len(stack) : stack'[k] = s[k]
  BY <1>1, <1>2, <1>4
<1> QED
  BY <1>1, <1>3, <1>5 DEF Pushes, Stacks

LEMMA BelowIs ==
  ASSUME Stacks, Len(stack) \in Nat \ {0, 1}
  PROVE  /\ Below \in Seq(Frame) /\ Len(Below) = Len(stack) - 1
         /\ \A k \in 1..(Len(stack) - 1) : Below[k] = stack[k]
<1>1. PICK n \in Nat : n = Len(stack) - 1
  OBVIOUS
<1>2. Below = SubSeq(stack, 1, n) /\ n <= Len(stack)
  BY <1>1 DEF Below
<1>3. Below \in Seq(Frame) /\ Len(Below) = n
  BY <1>2 DEF Stacks
<1>4. \A k \in 1..n : Below[k] = stack[k]
  BY <1>2 DEF Stacks
<1> QED
  BY <1>1, <1>3, <1>4

LEMMA ReturnIs ==
  ASSUME Stacks, Len(stack) \in Nat \ {0, 1}, NEW g \in Frame, stack' = [Below EXCEPT ![Len(Below)] = g]
  PROVE  Returns(g) /\ Stacks'
<1>1. PICK n \in Nat \ {0} : n = Len(stack) - 1
  OBVIOUS
<1>2. Below \in Seq(Frame) /\ Len(Below) = n /\ \A k \in 1..n : Below[k] = stack[k]
  BY <1>1, BelowIs
<1>3. stack' \in Seq(Frame) /\ Len(stack') = n
  BY <1>1, <1>2
<1>4. stack'[n] = g /\ \A k \in 1..(n - 1) : stack'[k] = Below[k]
  BY <1>1, <1>2
<1>5. \A k \in 1..(n - 1) : stack'[k] = stack[k]
  BY <1>2, <1>4
<1>6. Len(stack) - 2 = n - 1
  BY <1>1
<1> QED
  BY <1>1, <1>3, <1>4, <1>5, <1>6 DEF Returns, Stacks

LEMMA PopIs ==
  ASSUME Stacks, Len(stack) \in Nat \ {0, 1}, stack' = Below
  PROVE  Returns(stack[Len(stack) - 1]) /\ Stacks'
  BY BelowIs DEF Returns, Stacks

LEMMA TopIs ==
  ASSUME Stacks, stack # <<>>
  PROVE  Len(stack) \in Nat \ {0} /\ Len(stack) \in DOMAIN stack /\ Top = stack[Len(stack)] /\ Top \in Frame
  BY DEF Stacks, Top

LEMMA OneIs == ASSUME NEW f \in Frame PROVE <<f>> \in Seq(Frame) /\ Len(<<f>>) = 1 /\ <<f>>[1] = f
<1> DEFINE s == <<f>>
<1>1. s \in Seq(Frame)
  OBVIOUS
<1>2. Len(s) = 1 /\ s[1] = f
  OBVIOUS
<1> QED
  BY <1>1, <1>2

\* What is left of an activation after a command.
LEMMA AfterIs ==
  ASSUME NEW f \in Frame
  PROVE  /\ After(f) \in Frame /\ After(f).fn = f.fn
         /\ After(f).at = IF f.fn = "top" THEN "ready" ELSE "done"
<1> DEFINE a == IF f.fn = "top" THEN "ready" ELSE "done"
<1>1. a \in Ats /\ "none" \in Kinds \cup {"none", "wait"} /\ None \in Pids \cup {-1, None}
  BY DEF Ats
<1>2. After(f) = [f EXCEPT !.at = a, !.what = "none", !.id = None]
  BY DEF After
<1> HIDE DEF a
<1>3. After(f) \in Frame /\ After(f).fn = f.fn /\ After(f).at = a
  BY <1>1, <1>2 DEF Frame
<1> QED
  BY <1>3 DEF a

LEMMA NewWaitIs ==
  ASSUME NEW fn \in {"waitfor", "itrpt"}, NEW q \in Pids \cup {-1}, NEW ign \in BOOLEAN
  PROVE  NewWait(fn, q, ign) \in Frame /\ NewWait(fn, q, ign).fn = fn
<1>1. fn \in Fns /\ "while" \in Ats /\ "none" \in Kinds \cup {"none", "wait"} /\ q \in Pids \cup {-1, None}
  BY DEF Fns, Ats
<1>2. None \in Pids \cup {-1, None} /\ 0 \in Pids \cup {0}
  OBVIOUS
<1> QED
  BY <1>1, <1>2 DEF Frame, NewWait

LEMMA NewListIs ==
  ASSUME NEW fn \in {"top", "eval", "trap"}, NEW b \in BOOLEAN
  PROVE  NewList(fn, b) \in Frame /\ NewList(fn, b).fn = fn /\ NewList(fn, b).at = "ready"
<1>1. fn \in Fns /\ "ready" \in Ats /\ "none" \in Kinds \cup {"none", "wait"}
  BY DEF Fns, Ats
<1>2. None \in Pids \cup {-1, None} /\ 0 \in Pids \cup {0}
  OBVIOUS
<1> QED
  BY <1>1, <1>2 DEF Frame, NewList

-----------------------------------------------------------------------------
(* The shape of the stack *)

Lists == {"top", "eval", "trap"}
Waits == {"waitfor", "itrpt"}
Woken == {"woke", "test", "clear", "after"}

\* The command level is at the bottom, eval only above it; on an activation
\* that waits for one it has called is that one, and on any other a handler.
Shape(k) ==
  LET f == stack[k] IN
    /\ f.fn = "top" <=> k = 1
    /\ f.fn = "eval" => k = 2
    /\ f.fn \in Lists => f.at \in {"ready", "reader", "forked", "listen", "waiting", "done", "enter"}
    /\ f.at = "done" => f.fn # "top"
    /\ f.at = "enter" => f.fn = "trap"
    /\ f.fn \in Waits => f.at \in {"while", "wait", "ret"} \cup Woken
    /\ f.fn = "itrpt" => f.id = -1 /\ f.ign
    /\ f.fn = "waitfor" /\ f.ign => f.id \in Pids
    /\ f.at = "forked" => f.id \in Pids /\ f.what \in Foreground /\ (f.what = "eval" => f.fn = "top")
    /\ f.at \in Woken => f.i \in Pids \cup {-1}
    /\ f.at = "waiting" <=> (k < Len(stack) /\ stack[k + 1].fn \in {"waitfor", "eval"})

\* A SIGINT came, and what is below is never gone back to.
GivenUp(k) == k < Len(stack) /\ stack[k + 1].fn = "itrpt"

\* Between fork and putwait the child is not lost, but where the list below
\* is given up or a trap has run.
ForkedTrue(k) ==
  LET f == stack[k] IN f.at = "forked" =>
    \/ f.id \in trapped
    \/ /\ f.fn # "trap"
       /\ \/ GivenUp(k)
          \/ k = Len(stack) /\ Unreaped(f.id) /\ child[f.id].kind = f.what

WokeTrue(k) == stack[k].at = "woke" => stack[k].i = -1 \/ Reaped(stack[k].i)

\* itrpt does not end before the list is empty.
ItrptDone(k) == stack[k].fn = "itrpt" /\ stack[k].at = "ret" => waitlist \subseteq trapped

\* waitfor has its child, or the child is on the list and waitfor goes on;
\* what wait returns for a signal is not taken for the end of the children.
Has(f) == /\ Reaped(f.id)
          /\ \/ f.at \in Woken /\ f.i = f.id
             \/ f.at = "ret" /\ f.res = f.id
Expects(f) ==
    /\ Unreaped(f.id) /\ child[f.id].kind # "back" /\ f.id \in waitlist
    /\ f.at # "ret"
    /\ f.at \in Woken => f.i # f.id
    /\ f.at \in {"woke", "test"} /\ f.i = -1 => ~waiting
    /\ f.at \in {"clear", "after"} => f.i # -1
Served(k) ==
  LET f == stack[k] IN f.fn = "waitfor" /\ f.ign =>
    f.id \in trapped \/ GivenUp(k) \/ Has(f) \/ (k = Len(stack) /\ Expects(f))

\* And the list is emptied only when nobody is left but those a trap has seen.
AllTrapped == \A q \in Pids : Unreaped(q) /\ child[q].kind # "back" => q \in trapped
NoneLeft(k) ==
  LET f == stack[k] IN f.at \in Woken /\ f.i = -1 =>
    AllTrapped \/ GivenUp(k) \/ (k = Len(stack) /\ ~waiting /\ f.at \in {"woke", "test"})

Sound(k) == Shape(k) /\ ForkedTrue(k) /\ WokeTrue(k) /\ ItrptDone(k) /\ Served(k) /\ NoneLeft(k)
Frames == \A k \in 1..Len(stack) : Sound(k)

\* The child that an activation has from wait, or from fork.
InHand(q) == \E k \in 1..Len(stack) : stack[k].at = "woke" /\ stack[k].i = q
Begun(q) == \E k \in 1..Len(stack) : stack[k].at = "forked" /\ stack[k].id = q

\* A child to wait for is on the list, or will be put on it.
Listed ==
  \A q \in Pids : Live(q) /\ child[q].kind \in Foreground =>
    q \in waitlist \cup trapped \cup unlisted \/ Begun(q)

Inv == TypeOK /\ Frames /\ WaitlistTrue /\ Listed

-----------------------------------------------------------------------------
(* What is not on top stays as it is *)

Stable == trapped \subseteq trapped' /\ \A q \in Pids : Reaped(q) => Reaped(q)'
Keeps(k) == stack[k].fn \in Waits =>
              /\ AllTrapped => AllTrapped'
              /\ waitlist \subseteq trapped => waitlist' \subseteq trapped'

LEMMA DeepKept ==
  ASSUME NEW k \in Nat, k < Len(stack), k < Len(stack'), Sound(k), Stable, Keeps(k),
         stack[k].fn \in Fns, stack'[k] = stack[k], stack'[k + 1].fn = stack[k + 1].fn
  PROVE  Sound(k)'
<1> DEFINE f == stack[k]
<1>1. Shape(k)' /\ (GivenUp(k)' <=> GivenUp(k))
  BY DEF Sound, Shape, GivenUp
<1>2. ForkedTrue(k)'
  BY <1>1 DEF Sound, ForkedTrue, Stable
<1>3. WokeTrue(k)'
  BY DEF Sound, WokeTrue, Shape, Stable, Woken
<1>4. ItrptDone(k)'
  BY DEF Sound, ItrptDone, Keeps, Waits
<1>5. Served(k)'
  <2>1. ASSUME f.fn = "waitfor", f.ign, Has(f) PROVE Has(f)'
    BY <2>1 DEF Sound, Shape, Stable, Has
  <2> QED
    BY <1>1, <2>1 DEF Sound, Served, Stable
<1>6. NoneLeft(k)'
  <2>1. f.at \in Woken => f.fn \in Waits
    BY DEF Sound, Shape, Lists, Waits, Woken, Fns
  <2> QED
    BY <1>1, <2>1 DEF Sound, NoneLeft, Keeps
<1> QED
  BY <1>1, <1>2, <1>3, <1>4, <1>5, <1>6 DEF Sound

LEMMA FramesFn == ASSUME Stacks PROVE \A k \in 1..Len(stack) : stack[k].fn \in Fns
<1> SUFFICES ASSUME Stacks, NEW k \in 1..Len(stack) PROVE stack[k].fn \in Fns
  OBVIOUS
<1>1. stack[k] \in Frame
  BY DEF Stacks
<1> QED
  BY <1>1 DEF Frame

LEMMA FramesBecome ==
  ASSUME Stacks, Frames, Stable, NEW f, Becomes(f), f.fn = Top.fn,
         \A k \in 1..(Len(stack) - 1) : Keeps(k),
         NEW n, n = Len(stack), Sound(n)'
  PROVE  Frames'
<1>1. Len(stack) \in Nat \ {0} /\ stack'[n].fn = stack[n].fn /\ Len(stack') = n
  BY DEF Becomes, Stacks, Top
<1>2. ASSUME NEW k \in 1..(n - 1) PROVE Sound(k)'
  <2>0. k \in 1..(Len(stack) - 1) /\ (k + 1 = n \/ k + 1 \in 1..(Len(stack) - 1))
    BY <1>1
  <2>1. stack'[k] = stack[k] /\ stack'[k + 1].fn = stack[k + 1].fn
    <3>1. \A j \in 1..(Len(stack) - 1) : stack'[j] = stack[j]
      BY DEF Becomes
    <3> QED
      BY <2>0, <3>1, <1>1
  <2>2. k \in Nat /\ k < Len(stack) /\ k < Len(stack') /\ k \in 1..Len(stack)
    BY <1>1
  <2> QED
    BY <2>1, <2>2, DeepKept, FramesFn DEF Frames
<1> QED
  BY <1>1, <1>2 DEF Frames

LEMMA FramesPush ==
  ASSUME Stacks, Frames, Stable, NEW f, NEW g, Pushes(g, f), g.fn = Top.fn,
         \A k \in 1..(Len(stack) - 1) : Keeps(k),
         NEW n, n = Len(stack), Sound(n)', Sound(n + 1)'
  PROVE  Frames'
<1>1. Len(stack) \in Nat \ {0} /\ stack'[n].fn = stack[n].fn /\ Len(stack') = n + 1
  BY DEF Pushes, Stacks, Top
<1>2. ASSUME NEW k \in 1..(n - 1) PROVE Sound(k)'
  <2>0. k \in 1..(Len(stack) - 1) /\ (k + 1 = n \/ k + 1 \in 1..(Len(stack) - 1))
    BY <1>1
  <2>1. stack'[k] = stack[k] /\ stack'[k + 1].fn = stack[k + 1].fn
    <3>1. \A j \in 1..(Len(stack) - 1) : stack'[j] = stack[j]
      BY DEF Pushes
    <3> QED
      BY <2>0, <3>1, <1>1
  <2>2. k \in Nat /\ k < Len(stack) /\ k < Len(stack') /\ k \in 1..Len(stack)
    BY <1>1
  <2> QED
    BY <2>1, <2>2, DeepKept, FramesFn DEF Frames
<1> QED
  BY <1>1, <1>2 DEF Frames

LEMMA FramesReturn ==
  ASSUME Stacks, Frames, Stable, NEW n, n = Len(stack) - 1, NEW g, Returns(g), g.fn = stack[n].fn,
         \A k \in 1..(Len(stack) - 1) : Keeps(k),
         Sound(n)'
  PROVE  Frames'
<1>1. n \in Nat \ {0} /\ Len(stack) = n + 1 /\ Len(stack') = n /\ stack'[n].fn = stack[n].fn /\ n - 1 = Len(stack) - 2
  BY DEF Returns
<1>2. ASSUME NEW k \in 1..(n - 1) PROVE Sound(k)'
  <2>0. k \in 1..(Len(stack) - 2) /\ (k + 1 = n \/ k + 1 \in 1..(Len(stack) - 2))
    BY <1>1
  <2>1. stack'[k] = stack[k] /\ stack'[k + 1].fn = stack[k + 1].fn
    <3>1. \A j \in 1..(Len(stack) - 2) : stack'[j] = stack[j]
      BY DEF Returns
    <3> QED
      BY <2>0, <3>1, <1>1
  <2>2. k \in Nat /\ k < Len(stack) /\ k < Len(stack') /\ k \in 1..Len(stack)
    BY <1>1
  <2>3. Sound(k) /\ Keeps(k) /\ stack[k].fn \in Fns
    BY <1>1, <2>2, FramesFn DEF Frames
  <2> QED
    BY <2>1, <2>2, <2>3, DeepKept
<1> QED
  BY <1>1, <1>2 DEF Frames

\* An activation on top that is a list of commands and has nothing in hand.
Calm(k, f) ==
    /\ f.fn \in Lists /\ f.at \in {"ready", "reader", "listen", "done", "enter"}
    /\ f.fn = "top" <=> k = 1
    /\ f.fn = "eval" => k = 2
    /\ f.at = "done" => f.fn # "top"
    /\ f.at = "enter" => f.fn = "trap"

LEMMA CalmSound ==
  ASSUME NEW k \in Nat, NEW f, Calm(k, f), stack'[k] = f, Len(stack') = k
  PROVE  Sound(k)'
<1>1. f.at \notin Woken \cup {"forked", "waiting", "ret"} /\ f.fn \notin Waits
  BY DEF Calm, Lists, Woken, Waits
<1>2. Shape(k)'
  BY <1>1 DEF Shape, Calm, Lists, Waits, Woken
<1>3. ForkedTrue(k)' /\ WokeTrue(k)' /\ ItrptDone(k)'
  BY <1>1 DEF ForkedTrue, WokeTrue, ItrptDone, Woken
<1>4. Served(k)' /\ NoneLeft(k)'
  BY <1>1 DEF Served, NoneLeft, Waits
<1> QED
  BY <1>2, <1>3, <1>4 DEF Sound

\* A list of commands that waits for what it has called.
LEMMA CallerSound ==
  ASSUME NEW k \in Nat, NEW f, stack'[k] = f, Len(stack') = k + 1, stack'[k + 1].fn \in {"waitfor", "eval"},
         f.at = "waiting", f.fn \in Lists, f.fn = "top" <=> k = 1, f.fn = "eval" => k = 2
  PROVE  Sound(k)'
<1>1. f.at \notin Woken \cup {"forked", "ret", "done", "enter"} /\ f.fn \notin Waits
  BY DEF Lists, Woken, Waits
<1>2. Shape(k)'
  BY <1>1 DEF Shape, Lists, Waits, Woken
<1>3. ForkedTrue(k)' /\ WokeTrue(k)' /\ ItrptDone(k)'
  BY <1>1 DEF ForkedTrue, WokeTrue, ItrptDone, Woken
<1>4. Served(k)' /\ NoneLeft(k)'
  BY <1>1 DEF Served, NoneLeft, Waits
<1> QED
  BY <1>2, <1>3, <1>4 DEF Sound

\* What an activation has in hand stays there while it does something else.
Busy(f) == f.at \in {"woke", "forked"}
LEMMA HandsKept ==
  ASSUME Stacks, stack # <<>>, NEW f, NEW g,
         \/ Becomes(f) /\ ~Busy(Top)
         \/ Pushes(g, f) /\ (~Busy(Top) \/ g = Top)
         \/ Returns(g) /\ ~Busy(Top) /\ (~Busy(stack[Len(stack) - 1]) \/ g = stack[Len(stack) - 1])
  PROVE  \A q : (InHand(q) => InHand(q)') /\ (Begun(q) => Begun(q)')
<1>1. PICK n \in Nat \ {0} : n = Len(stack) /\ Top = stack[n]
  BY TopIs
<1>2. ASSUME NEW k \in 1..n, Busy(stack[k]) PROVE k \in 1..Len(stack') /\ stack'[k] = stack[k]
  <2>1. CASE Becomes(f) /\ ~Busy(Top)
    BY <1>1, <1>2, <2>1 DEF Becomes
  <2>2. CASE Pushes(g, f) /\ (~Busy(Top) \/ g = Top)
    BY <1>1, <1>2, <2>2 DEF Pushes
  <2>3. CASE Returns(g) /\ ~Busy(Top) /\ (~Busy(stack[Len(stack) - 1]) \/ g = stack[Len(stack) - 1])
    <3>1. n - 1 \in Nat /\ Len(stack') = n - 1 /\ k # n
      BY <1>1, <1>2, <2>3 DEF Returns
    <3>2. CASE k = n - 1
      BY <1>1, <1>2, <2>3, <3>1, <3>2 DEF Returns
    <3>3. CASE k # n - 1
      <4>1. k \in 1..(n - 2)
        BY <3>1, <3>3
      <4> QED
        BY <1>1, <2>3, <3>1, <4>1 DEF Returns
    <3> QED
      BY <3>2, <3>3
  <2> QED
    BY <2>1, <2>2, <2>3
<1>3. ASSUME NEW q, InHand(q) PROVE InHand(q)'
  <2>1. PICK k \in 1..n : stack[k].at = "woke" /\ stack[k].i = q
    BY <1>1, <1>3 DEF InHand
  <2> QED
    BY <1>2, <2>1 DEF InHand, Busy
<1>4. ASSUME NEW q, Begun(q) PROVE Begun(q)'
  <2>1. PICK k \in 1..n : stack[k].at = "forked" /\ stack[k].id = q
    BY <1>1, <1>4 DEF Begun
  <2> QED
    BY <1>2, <2>1 DEF Begun, Busy
<1> QED
  BY <1>3, <1>4

\* A step that leaves the children alone and shortens no list.
LEMMA ListsKept ==
  ASSUME Stacks, Stacks', WaitlistTrue, Listed, child' = child, waitlist' = waitlist,
         trapped \subseteq trapped', unlisted \subseteq unlisted',
         \A q : (InHand(q) => InHand(q)') /\ (Begun(q) => Begun(q)')
  PROVE  WaitlistTrue' /\ Listed'
<1>1. DOMAIN stack = 1..Len(stack) /\ DOMAIN stack' = 1..Len(stack')
  BY DEF Stacks
<1>2. WaitlistTrue'
  <2>1. ASSUME NEW q \in waitlist' PROVE Unreaped(q)' \/ q \in trapped' \/ InHand(q)'
    <3>1. Unreaped(q) \/ q \in trapped \/ InHand(q)
      BY <1>1, <2>1 DEF WaitlistTrue, InHand
    <3> QED
      BY <3>1 DEF Unreaped, Live, Zombie
  <2> QED
    BY <1>1, <2>1 DEF WaitlistTrue, InHand
<1>3. Listed'
  BY DEF Listed, Live
<1> QED
  BY <1>2, <1>3

\* Only a trap works above an activation of waitfor or itrpt.
LEMMA TrapAbove ==
  ASSUME Stacks, Frames, stack # <<>>, Top.fn \in Lists, NEW k \in 1..(Len(stack) - 1), stack[k].fn \in Waits
  PROVE  Top.fn = "trap"
<1>1. PICK n \in Nat \ {0} : n = Len(stack) /\ Top = stack[n]
  BY TopIs
<1>2. Shape(n) /\ Shape(k) /\ k < n
  BY <1>1 DEF Frames, Sound
<1>3. stack[k].fn # "top"
  BY DEF Waits
<1>4. n # 1 /\ n # 2
  BY <1>1, <1>2, <1>3 DEF Shape
<1> QED
  BY <1>1, <1>2, <1>4 DEF Shape, Lists

LEMMA SameKeeps ==
  ASSUME child' = child, waitlist' \subseteq waitlist, trapped \subseteq trapped'
  PROVE  Stable /\ \A k : Keeps(k)
  BY DEF Stable, Keeps, AllTrapped, Unreaped, Live, Zombie, Reaped

-----------------------------------------------------------------------------
(* Commands *)

LEMMA Init0 == \A f \in Frame : f.fn \in Fns /\ f.at \in Ats /\ f.what \in Kinds \cup {"none", "wait"}
                              /\ f.id \in Pids \cup {-1, None} /\ f.i \in Pids \cup {-1, None}
  BY DEF Frame

LEMMA TopShape ==
  ASSUME TypeOK, Frames, stack # <<>>
  PROVE  \E n \in Nat \ {0} : /\ n = Len(stack) /\ Top = stack[n] /\ Top \in Frame /\ Stacks
                              /\ Sound(n)
                              /\ Top.at # "waiting" /\ (Top.fn \in Waits <=> Top.fn \notin Lists)
<1>0. Stacks
  BY DEF TypeOK, Stacks
<1>1. PICK n \in Nat \ {0} : n = Len(stack) /\ Top = stack[n] /\ Top \in Frame
  BY <1>0, TopIs
<1>2. Sound(n)
  BY <1>1 DEF Frames
<1>3. Top.fn \in Fns
  BY <1>1, Init0
<1> QED
  BY <1>0, <1>1, <1>2, <1>3 DEF Sound, Shape, Lists, Waits, Fns

\* A command that makes no process, or none any more.
LEMMA CalmStep ==
  ASSUME Inv, stack # <<>>, Top.at \in {"ready", "reader", "listen", "enter"}, Become(After(Top)),
         UNCHANGED <<waitlist, waiting, interactive, child, hist>>
  PROVE  Inv'
<1>1. PICK n \in Nat \ {0} : n = Len(stack) /\ Top = stack[n] /\ Top \in Frame /\ Stacks /\ Sound(n)
  BY TopShape DEF Inv
<1>2. PICK f \in Frame : f = After(Top) /\ f.fn = Top.fn /\ f.at = IF Top.fn = "top" THEN "ready" ELSE "done"
  BY <1>1, AfterIs
<1>3. Becomes(f) /\ Stacks'
  BY <1>1, <1>2, BecomeIs
<1>4. Calm(n, f)
  BY <1>1, <1>2, Init0 DEF Calm, Sound, Shape, Lists, Waits, Woken, Fns
<1>5. Sound(n)'
  BY <1>1, <1>3, <1>4, CalmSound DEF Becomes
<1>6. Stable /\ \A k : Keeps(k)
  BY SameKeeps DEF hist
<1>7. Frames'
  BY <1>1, <1>2, <1>3, <1>5, <1>6, FramesBecome DEF Inv
<1>8. WaitlistTrue' /\ Listed'
  BY <1>1, <1>3, HandsKept, ListsKept DEF Inv, Busy, hist
<1> QED
  BY <1>3, <1>7, <1>8 DEF Inv, TypeOK, Stacks, hist

LEMMA NewWaitSound ==
  ASSUME NEW k \in Nat, NEW fn, NEW id, NEW ign, stack'[k] = NewWait(fn, id, ign), Len(stack') = k, k > 1,
         fn \in Waits, fn = "itrpt" => id = -1 /\ ign,
         fn = "waitfor" /\ ign => /\ id \in Pids
                                  /\ id \in trapped' \/ (Unreaped(id)' /\ child'[id].kind # "back" /\ id \in waitlist')
  PROVE  Sound(k)'
<1>1. PICK f : f = stack'[k] /\ f.fn = fn /\ f.at = "while" /\ f.id = id /\ f.ign = ign
  BY DEF NewWait
<1>2. Shape(k)'
  BY <1>1 DEF Shape, Lists, Waits, Woken
<1>3. ForkedTrue(k)' /\ WokeTrue(k)' /\ ItrptDone(k)'
  BY <1>1 DEF ForkedTrue, WokeTrue, ItrptDone
<1>4. NoneLeft(k)'
  BY <1>1 DEF NoneLeft, Woken
<1>5. ASSUME fn = "waitfor", ign, id \notin trapped' PROVE Expects(f)'
  BY <1>1, <1>5 DEF Expects, Woken
<1>6. Served(k)'
  BY <1>1, <1>5 DEF Served
<1> QED
  BY <1>2, <1>3, <1>4, <1>6 DEF Sound

LEMMA WaitCommandStep ==
  ASSUME Inv, NEW id \in Pids \cup {-1}, WaitCommand(id)
  PROVE  Inv'
<1>1. PICK n \in Nat \ {0} : n = Len(stack) /\ Top = stack[n] /\ Top \in Frame /\ Stacks /\ Sound(n)
  BY TopShape DEF Inv, WaitCommand, At
<1>2. PICK g \in Frame : g = [Top EXCEPT !.at = "waiting", !.what = "wait"] /\ g.at = "waiting" /\ g.fn = Top.fn
  <2>1. "waiting" \in Ats /\ "wait" \in Kinds \cup {"none", "wait"}
    BY DEF Ats
  <2>2. PICK g : g = [Top EXCEPT !.at = "waiting", !.what = "wait"]
    OBVIOUS
  <2>3. g \in Frame
    BY <1>1, <2>1, <2>2 DEF Frame
  <2>4. g.at = "waiting" /\ g.fn = Top.fn
    BY <1>1, <2>2 DEF Frame
  <2> QED
    BY <2>2, <2>3, <2>4
<1>3. PICK f \in Frame : f = NewWait("waitfor", id, FALSE) /\ f.fn = "waitfor"
  BY NewWaitIs
<1>4. Pushes(g, f) /\ Stacks'
  BY <1>1, <1>2, <1>3, PushIs DEF WaitCommand, At
<1>5. Top.fn = "top" /\ n = 1 /\ Top.at = "ready"
  BY <1>1 DEF WaitCommand, At, Sound, Shape
<1>a. stack'[n] = g /\ stack'[n + 1] = f /\ Len(stack') = n + 1
  BY <1>1, <1>4 DEF Pushes
<1>6. Sound(n)'
  BY <1>2, <1>3, <1>5, <1>a, CallerSound DEF Lists
<1>7. Sound(n + 1)'
  <2>1. n + 1 \in Nat /\ n + 1 > 1
    OBVIOUS
  <2> QED
    BY <1>3, <1>a, <2>1, NewWaitSound DEF Waits
<1>8. Stable /\ \A k : Keeps(k)
  BY SameKeeps DEF WaitCommand, hist
<1>9. Frames'
  BY <1>1, <1>2, <1>4, <1>6, <1>7, <1>8, FramesPush DEF Inv
<1>10. WaitlistTrue' /\ Listed'
  BY <1>1, <1>4, <1>5, HandsKept, ListsKept DEF Inv, Busy, WaitCommand, hist, At
<1> QED
  BY <1>4, <1>9, <1>10 DEF Inv, TypeOK, Stacks, WaitCommand, hist

LEMMA SpawnStep ==
  ASSUME Inv, NEW kind \in Kinds, Spawn(kind)
  PROVE  Inv'
<1>1. PICK n \in Nat \ {0} : n = Len(stack) /\ Top = stack[n] /\ Top \in Frame /\ Stacks /\ Sound(n)
  BY TopShape DEF Inv, Spawn, CanSpawn, At
<1>2. /\ stack # <<>> /\ Top.at \in {"ready", "reader", "enter"} /\ Top.fn \in Lists
      /\ kind = "eval" => Top.fn = "top"
  <2>1. stack # <<>> /\ Top.at \in {"ready", "reader", "enter"}
    BY DEF Spawn, CanSpawn, At
  <2>2. Top.fn \in Fns
    BY <1>1, Init0
  <2> QED
    BY <1>1, <2>1, <2>2 DEF Spawn, CanSpawn, At, Sound, Shape, Waits, Lists, Woken, Fns
<1>3. PICK q \in Pids :
        /\ NextPid(q)
        /\ child' = [child EXCEPT ![q].kind = kind, ![q].state = "live"]
        /\ Become(IF kind = "back" THEN After(Top) ELSE [Top EXCEPT !.at = "forked", !.what = kind, !.id = q])
        /\ trapped' = IF InTrap THEN trapped \cup {q} ELSE trapped
  BY DEF Spawn
<1>4. /\ child' \in [Pids -> Child] /\ child'[q] = [kind |-> kind, state |-> "live"] /\ child[q].state = "none"
      /\ \A r \in Pids \ {q} : child'[r] = child[r]
  <2>1. child[q].state = "none"
    BY <1>3 DEF NextPid, Made
  <2> QED
    BY <1>3, <2>1 DEF Inv, TypeOK, Child
<1>5. waitlist' = waitlist /\ trapped \subseteq trapped' /\ unlisted' = unlisted
  BY <1>3 DEF Spawn
<1>6. Stable
  BY <1>4, <1>5 DEF Stable, Reaped
<1>7. Top.fn = "trap" => q \in trapped'
  BY <1>1, <1>2, <1>3, TopIs DEF InTrap
<1>8. \A k \in 1..(Len(stack) - 1) : Keeps(k)
  <2> SUFFICES ASSUME NEW k \in 1..(Len(stack) - 1), stack[k].fn \in Waits PROVE Keeps(k)
    BY DEF Keeps
  <2>1. q \in trapped'
    BY <1>1, <1>2, <1>7, TrapAbove DEF Inv
  <2>2. AllTrapped => AllTrapped'
    BY <1>4, <1>5, <2>1 DEF AllTrapped, Unreaped, Live, Zombie
  <2> QED
    BY <1>5, <2>2 DEF Keeps
<1>9. PICK f \in Frame : f = (IF kind = "back" THEN After(Top) ELSE [Top EXCEPT !.at = "forked", !.what = kind, !.id = q])
                         /\ f.fn = Top.fn /\ (kind = "back" => f.at = IF Top.fn = "top" THEN "ready" ELSE "done")
                         /\ (kind # "back" => f.at = "forked" /\ f.id = q /\ f.what = kind)
  <2>1. "forked" \in Ats /\ kind \in Kinds \cup {"none", "wait"} /\ q \in Pids \cup {-1, None}
    BY DEF Ats
  <2>2. CASE kind = "back"
    BY <1>1, <2>2, AfterIs
  <2>3. CASE kind # "back"
    <3>1. PICK g : g = [Top EXCEPT !.at = "forked", !.what = kind, !.id = q]
      OBVIOUS
    <3>2. g \in Frame /\ g.fn = Top.fn /\ g.at = "forked" /\ g.id = q /\ g.what = kind
      BY <1>1, <2>1, <3>1 DEF Frame
    <3> QED
      BY <2>3, <3>1, <3>2
  <2> QED
    BY <2>2, <2>3
<1>10. Becomes(f) /\ Stacks'
  BY <1>1, <1>2, <1>3, <1>9, BecomeIs
<1>11. stack'[n] = f /\ Len(stack') = n
  BY <1>1, <1>10 DEF Becomes
<1>12. Sound(n)'
  <2>1. CASE kind = "back"
    <3>1. Calm(n, f)
      BY <1>1, <1>2, <1>9, <2>1 DEF Calm, Sound, Shape, Lists
    <3> QED
      BY <1>11, <3>1, CalmSound
  <2>2. CASE kind # "back"
    <3>1. Shape(n)'
      BY <1>1, <1>2, <1>9, <1>11, <2>2 DEF Sound, Shape, Lists, Waits, Woken, Foreground
    <3>2. ForkedTrue(n)'
      BY <1>4, <1>7, <1>9, <1>11, <2>2 DEF ForkedTrue, Unreaped, Live
    <3>3. WokeTrue(n)' /\ ItrptDone(n)' /\ NoneLeft(n)'
      BY <1>9, <1>11, <2>2 DEF WokeTrue, ItrptDone, NoneLeft, Woken
    <3>4. Served(n)'
      BY <1>2, <1>9, <1>11, <2>2 DEF Served, Lists
    <3> QED
      BY <3>1, <3>2, <3>3, <3>4 DEF Sound
  <2> QED
    BY <2>1, <2>2
<1>13. Frames'
  BY <1>1, <1>6, <1>8, <1>9, <1>10, <1>12, FramesBecome DEF Inv
<1>14. \A r : (InHand(r) => InHand(r)') /\ (Begun(r) => Begun(r)')
  BY <1>1, <1>2, <1>10, HandsKept DEF Busy
<1>15. DOMAIN stack = 1..Len(stack) /\ DOMAIN stack' = 1..Len(stack')
  BY <1>1, <1>10 DEF Stacks
<1>16. WaitlistTrue'
  <2>1. ASSUME NEW r \in waitlist PROVE Unreaped(r)' \/ r \in trapped' \/ InHand(r)'
    <3>1. Unreaped(r) \/ r \in trapped \/ InHand(r)
      BY <1>15 DEF Inv, WaitlistTrue, InHand
    <3>2. Unreaped(r) => Unreaped(r)'
      BY <1>4 DEF Inv, TypeOK, Unreaped, Live, Zombie
    <3> QED
      BY <1>5, <1>14, <3>1, <3>2
  <2> QED
    BY <1>5, <1>15, <2>1 DEF WaitlistTrue, InHand
<1>17. Listed'
  <2>1. ASSUME NEW r \in Pids, Live(r)', child'[r].kind \in Foreground
        PROVE  r \in waitlist' \cup trapped' \cup unlisted' \/ Begun(r)'
    <3>1. CASE r = q
      <4>1. kind # "back"
        BY <1>4, <2>1, <3>1 DEF Foreground
      <4>2. n \in 1..Len(stack') /\ stack'[n].at = "forked" /\ stack'[n].id = r
        BY <1>9, <1>11, <3>1, <4>1
      <4> QED
        BY <4>2 DEF Begun
    <3>2. CASE r # q
      BY <1>4, <1>5, <1>14, <2>1, <3>2 DEF Inv, Listed, Live
    <3> QED
      BY <3>1, <3>2
  <2> QED
    BY <2>1 DEF Listed
<1>18. TypeOK'
  BY <1>3, <1>4, <1>10 DEF Spawn, Inv, TypeOK, Stacks
<1> QED
  BY <1>13, <1>16, <1>17, <1>18 DEF Inv

\* Everything but what was on top is still in hand.
LEMMA HandsBelow ==
  ASSUME Stacks, stack # <<>>, NEW f, NEW g, Becomes(f) \/ Pushes(g, f)
  PROVE  \A q : /\ InHand(q) => InHand(q)' \/ (Top.at = "woke" /\ Top.i = q)
                /\ Begun(q) => Begun(q)' \/ (Top.at = "forked" /\ Top.id = q)
<1>1. PICK n \in Nat \ {0} : n = Len(stack) /\ Top = stack[n]
  BY TopIs
<1>2. ASSUME NEW k \in 1..(n - 1) PROVE k \in 1..Len(stack') /\ stack'[k] = stack[k]
  BY <1>1 DEF Becomes, Pushes
<1>3. ASSUME NEW q, InHand(q), ~(Top.at = "woke" /\ Top.i = q) PROVE InHand(q)'
  <2>1. PICK k \in 1..n : stack[k].at = "woke" /\ stack[k].i = q
    BY <1>1, <1>3 DEF InHand
  <2>2. k \in 1..(n - 1)
    BY <1>1, <1>3, <2>1
  <2> QED
    BY <1>2, <2>1, <2>2 DEF InHand
<1>4. ASSUME NEW q, Begun(q), ~(Top.at = "forked" /\ Top.id = q) PROVE Begun(q)'
  <2>1. PICK k \in 1..n : stack[k].at = "forked" /\ stack[k].id = q
    BY <1>1, <1>4 DEF Begun
  <2>2. k \in 1..(n - 1)
    BY <1>1, <1>4, <2>1
  <2> QED
    BY <1>2, <2>1, <2>2 DEF Begun
<1> QED
  BY <1>3, <1>4

LEMMA PutwaitStep == ASSUME Inv, Putwait PROVE Inv'
<1>1. PICK n \in Nat \ {0} : n = Len(stack) /\ Top = stack[n] /\ Top \in Frame /\ Stacks /\ Sound(n)
  BY TopShape DEF Inv, Putwait, At
<1>2. PICK q \in Pids : Top.id = q
  BY <1>1 DEF Sound, Shape, Putwait, At
<1>3. stack # <<>> /\ Top.at = "forked" /\ Top.fn \in Lists /\ Top.what \in Foreground
  <2>1. Top.fn \in Fns
    BY <1>1, Init0
  <2> QED
    BY <1>1, <2>1 DEF Putwait, At, Sound, Shape, Waits, Lists, Woken, Fns
<1>4. /\ waitlist' = waitlist \cup {q} /\ UNCHANGED <<waiting, child, signals, trapped, unlisted, pending, dropped>>
      /\ interactive' \in BOOLEAN
  BY <1>2 DEF Putwait, hist, Inv, TypeOK
<1>5. /\ q \in trapped \/ (Unreaped(q) /\ child[q].kind = Top.what)
      /\ Top.fn = "trap" => q \in trapped
  <2>1. ~GivenUp(n)
    BY <1>1 DEF GivenUp
  <2> QED
    BY <1>1, <1>2, <1>3, <2>1 DEF Sound, ForkedTrue
<1>6. Stable /\ \A k \in 1..(Len(stack) - 1) : Keeps(k)
  <2>1. Stable
    BY <1>4 DEF Stable, Reaped
  <2>2. AllTrapped => AllTrapped'
    BY <1>4 DEF AllTrapped, Unreaped, Live, Zombie
  <2>3. ASSUME NEW k \in 1..(Len(stack) - 1), stack[k].fn \in Waits PROVE Keeps(k)
    <3>1. q \in trapped
      BY <1>3, <1>5, <2>3, <1>1, TrapAbove DEF Inv
    <3> QED
      BY <1>4, <2>2, <3>1 DEF Keeps
  <2> QED
    BY <2>1, <2>3 DEF Keeps
<1>7. PICK w \in Frame : w = [Top EXCEPT !.at = "waiting"] /\ w.at = "waiting" /\ w.fn = Top.fn
  <2>1. "waiting" \in Ats
    BY DEF Ats
  <2>2. PICK w : w = [Top EXCEPT !.at = "waiting"]
    OBVIOUS
  <2>3. w \in Frame /\ w.at = "waiting" /\ w.fn = Top.fn
    BY <1>1, <2>1, <2>2 DEF Frame
  <2> QED
    BY <2>2, <2>3
<1>8. Frames' /\ Stacks' /\ \A r : (InHand(r) => InHand(r)') /\ (Begun(r) => Begun(r)' \/ r = q)
  <2>1. ASSUME NEW f \in Frame, Become(f), Calm(n, f), f.fn = Top.fn
        PROVE  Frames' /\ Stacks' /\ \A r : (InHand(r) => InHand(r)') /\ (Begun(r) => Begun(r)' \/ r = q)
    <3>1. Becomes(f) /\ Stacks'
      BY <1>1, <1>3, <2>1, BecomeIs
    <3>2. Sound(n)'
      BY <1>1, <2>1, <3>1, CalmSound DEF Becomes
    <3>3. Frames'
      BY <1>1, <1>6, <2>1, <3>1, <3>2, FramesBecome DEF Inv
    <3> QED
      BY <1>1, <1>2, <1>3, <3>1, <3>3, HandsBelow
  <2>2. ASSUME NEW f \in Frame, Push(w, f), f.fn \in {"waitfor", "eval"}, Pushes(w, f) => Sound(n + 1)'
        PROVE  Frames' /\ Stacks' /\ \A r : (InHand(r) => InHand(r)') /\ (Begun(r) => Begun(r)' \/ r = q)
    <3>1. Pushes(w, f) /\ Stacks'
      BY <1>1, <1>3, <1>7, <2>2, PushIs
    <3>2. stack'[n] = w /\ stack'[n + 1] = f /\ Len(stack') = n + 1
      BY <1>1, <3>1 DEF Pushes
    <3>a. (w.fn = "top" <=> n = 1) /\ (w.fn = "eval" => n = 2) /\ w.fn \in Lists
      BY <1>1, <1>3, <1>7 DEF Sound, Shape
    <3>3. Sound(n)'
      BY <1>7, <2>2, <3>2, <3>a, CallerSound
    <3>4. Frames'
      BY <1>1, <1>6, <1>7, <2>2, <3>1, <3>3, FramesPush DEF Inv
    <3> QED
      BY <1>1, <1>2, <1>3, <3>1, <3>4, HandsBelow
  <2>3. CASE Top.what = "command"
    <3>1. PICK f \in Frame : f = NewWait("waitfor", q, TRUE) /\ f.fn = "waitfor"
      BY NewWaitIs
    <3>2. Push(w, f)
      BY <1>2, <1>7, <2>3, <3>1 DEF Putwait, Listening
    <3>3. ASSUME Pushes(w, f) PROVE Sound(n + 1)'
      <4>1. stack'[n + 1] = f /\ Len(stack') = n + 1 /\ n + 1 \in Nat /\ n + 1 > 1
        BY <1>1, <3>3 DEF Pushes
      <4>2. q \in trapped' \/ (Unreaped(q)' /\ child'[q].kind # "back" /\ q \in waitlist')
        BY <1>4, <1>5, <2>3 DEF Unreaped, Live, Zombie
      <4> QED
        BY <3>1, <4>1, <4>2, NewWaitSound DEF Waits
    <3> QED
      BY <2>2, <3>1, <3>2, <3>3
  <2>4. CASE Top.what = "eval"
    <3>1. PICK f \in Frame : f = NewList("eval", interactive) /\ f.fn = "eval" /\ f.at = "ready"
      BY NewListIs DEF Inv, TypeOK
    <3>2. Push(w, f)
      BY <1>7, <2>4, <3>1 DEF Putwait, Listening
    <3>3. ASSUME Pushes(w, f) PROVE Sound(n + 1)'
      <4>1. stack'[n + 1] = f /\ Len(stack') = n + 1 /\ n + 1 \in Nat
        BY <1>1, <3>3 DEF Pushes
      <4>2. n = 1
        BY <1>1, <1>3, <2>4 DEF Sound, Shape
      <4>3. Calm(n + 1, f)
        BY <3>1, <4>2 DEF Calm, Lists
      <4> QED
        BY <4>1, <4>3, CalmSound
    <3> QED
      BY <2>2, <3>1, <3>2, <3>3
  <2>5. CASE Top.what \in {"pipe", "trap"} \cup Listening
    <3>1. PICK f : f = (CASE Top.what = "pipe" -> [Top EXCEPT !.at = "reader", !.id = None]
                          [] Top.what \in Listening -> [Top EXCEPT !.at = "listen"]
                          [] Top.what = "trap" -> [Top EXCEPT !.at = "ready", !.what = "none", !.id = None])
      OBVIOUS
    <3>2. Become(f)
      BY <2>5, <3>1 DEF Putwait, Goto, Listening
    <3>3. f \in Frame /\ f.fn = Top.fn /\ f.at \in {"reader", "listen", "ready"}
      <4>1. {"reader", "listen", "ready"} \subseteq Ats /\ "none" \in Kinds \cup {"none", "wait"} /\ None \in Pids \cup {-1, None}
        BY DEF Ats
      <4>2. CASE Top.what = "pipe"
        <5>1. f = [Top EXCEPT !.at = "reader", !.id = None]
          BY <3>1, <4>2 DEF Listening
        <5> QED
          BY <1>1, <4>1, <5>1 DEF Frame
      <4>3. CASE Top.what \in Listening
        <5>1. f = [Top EXCEPT !.at = "listen"]
          BY <3>1, <4>3 DEF Listening
        <5> QED
          BY <1>1, <4>1, <5>1 DEF Frame
      <4>4. CASE Top.what = "trap"
        <5>1. f = [Top EXCEPT !.at = "ready", !.what = "none", !.id = None]
          BY <3>1, <4>4 DEF Listening
        <5> QED
          BY <1>1, <4>1, <5>1 DEF Frame
      <4> QED
        BY <2>5, <4>2, <4>3, <4>4
    <3>4. Calm(n, f)
      BY <1>1, <1>3, <3>3 DEF Calm, Sound, Shape
    <3> QED
      BY <2>1, <3>2, <3>3, <3>4
  <2> QED
    BY <1>3, <2>3, <2>4, <2>5 DEF Foreground, Kinds, Listening
<1>9. DOMAIN stack = 1..Len(stack) /\ DOMAIN stack' = 1..Len(stack')
  BY <1>1, <1>8 DEF Stacks
<1>10. WaitlistTrue'
  <2>1. ASSUME NEW r \in waitlist' PROVE Unreaped(r)' \/ r \in trapped' \/ InHand(r)'
    <3>1. CASE r = q
      BY <1>4, <1>5, <3>1 DEF Unreaped, Live, Zombie
    <3>2. CASE r \in waitlist
      <4>1. Unreaped(r) \/ r \in trapped \/ InHand(r)
        BY <1>9, <3>2 DEF Inv, WaitlistTrue, InHand
      <4> QED
        BY <1>4, <1>8, <4>1 DEF Unreaped, Live, Zombie
    <3> QED
      BY <1>4, <2>1, <3>1, <3>2
  <2> QED
    BY <1>9, <2>1 DEF WaitlistTrue, InHand
<1>11. Listed'
  BY <1>4, <1>8 DEF Inv, Listed, Live
<1>12. TypeOK'
  BY <1>4, <1>8 DEF Inv, TypeOK, Stacks
<1> QED
  BY <1>8, <1>10, <1>11, <1>12 DEF Inv

\* The end of what an activation waits for.
LEMMA ReturnStep ==
  ASSUME Inv, NEW n, n = Len(stack) - 1, n \in Nat \ {0}, stack[n].at = "waiting", ~Busy(Top),
         stack' = [Below EXCEPT ![Len(Below)] = After(@)],
         UNCHANGED <<waitlist, waiting, child, hist>>, interactive' \in BOOLEAN
  PROVE  Inv'
<1>1. Stacks /\ stack # <<>> /\ Len(stack) = n + 1 /\ n \in 1..Len(stack) /\ Len(stack) \in Nat \ {0, 1}
  BY DEF Inv, TypeOK, Stacks
<1>2. stack[n] \in Frame /\ Sound(n)
  BY <1>1 DEF Stacks, Inv, Frames
<1>3. PICK f \in Frame : f = After(stack[n]) /\ f.fn = stack[n].fn /\ f.at = IF f.fn = "top" THEN "ready" ELSE "done"
  BY <1>2, AfterIs
<1>4. Returns(f) /\ Stacks'
  <2>1. Len(Below) = n /\ Below[n] = stack[n]
    BY <1>1, BelowIs
  <2>2. stack' = [Below EXCEPT ![Len(Below)] = f]
    BY <1>3, <2>1
  <2> QED
    BY <1>1, <2>2, ReturnIs
<1>5. Calm(n, f)
  <2>1. stack[n].fn \in Lists
    <3>1. stack[n].fn \in Fns
      BY <1>2, Init0
    <3> QED
      BY <1>2, <3>1 DEF Sound, Shape, Lists, Waits, Woken, Fns
  <2> QED
    BY <1>2, <1>3, <2>1 DEF Calm, Sound, Shape
<1>6. Sound(n)'
  BY <1>1, <1>4, <1>5, CalmSound DEF Returns
<1>7. Stable /\ \A k : Keeps(k)
  BY SameKeeps DEF hist
<1>8. Frames'
  BY <1>1, <1>3, <1>4, <1>6, <1>7, FramesReturn DEF Inv
<1>9. WaitlistTrue' /\ Listed'
  <2>1. ~Busy(stack[Len(stack) - 1])
    BY DEF Busy
  <2> QED
    BY <1>1, <1>4, <2>1, HandsKept, ListsKept DEF Inv, hist
<1> QED
  BY <1>4, <1>8, <1>9 DEF Inv, TypeOK, Stacks, hist

LEMMA ParsexEndsStep == ASSUME Inv, ParsexEnds PROVE Inv'
<1>1. PICK m \in Nat \ {0} : m = Len(stack) /\ Top = stack[m] /\ Top \in Frame /\ Stacks /\ Sound(m)
  BY TopShape DEF Inv, ParsexEnds, At
<1>2. Top.at = "done" /\ stack # <<>> /\ Top.fn \in {"eval", "trap"} /\ m # 1
  <2>1. Top.fn \in Fns
    BY <1>1, Init0
  <2> QED
    BY <1>1, <2>1 DEF ParsexEnds, At, Sound, Shape, Waits, Woken, Fns
<1>3. PICK n \in Nat \ {0} : n = Len(stack) - 1
  BY <1>1, <1>2
<1>4. interactive' \in BOOLEAN /\ UNCHANGED <<waitlist, waiting, child, hist>> /\ ~Busy(Top)
  <2>1. Top.save \in BOOLEAN
    BY <1>1 DEF Frame
  <2> QED
    BY <1>2, <2>1 DEF ParsexEnds, Busy
<1>5. m = n + 1 /\ n \in 1..Len(stack) /\ Sound(n) /\ stack[n] \in Frame
  BY <1>1, <1>3 DEF Inv, Frames, Stacks
<1>6. CASE Top.fn = "eval"
  <2>1. stack[n].at = "waiting"
    BY <1>1, <1>5, <1>6 DEF Sound, Shape
  <2> QED
    BY <1>3, <1>4, <1>6, <2>1, ReturnStep DEF ParsexEnds
<1>7. CASE Top.fn = "trap"
  <2>1. stack' = Below
    BY <1>7 DEF ParsexEnds
  <2>2. Returns(stack[n]) /\ Stacks'
    BY <1>1, <1>3, <1>5, <2>1, PopIs
  <2>3. stack'[n] = stack[n] /\ Len(stack') = n
    BY <1>3, <2>2 DEF Returns
  <2>4. ~GivenUp(n) /\ n < Len(stack)
    BY <1>1, <1>5, <1>7 DEF GivenUp
  <2>5. Sound(n)'
    <3>1. Shape(n)'
      BY <1>1, <1>5, <1>7, <2>3 DEF Sound, Shape
    <3>2. ForkedTrue(n)' /\ WokeTrue(n)' /\ ItrptDone(n)'
      BY <1>4, <1>5, <2>3, <2>4 DEF Sound, ForkedTrue, WokeTrue, ItrptDone, Reaped, hist
    <3>3. Served(n)'
      BY <1>4, <1>5, <2>3, <2>4 DEF Sound, Served, Has, Reaped, hist
    <3>4. NoneLeft(n)'
      BY <1>4, <1>5, <2>3, <2>4 DEF Sound, NoneLeft, AllTrapped, Unreaped, Live, Zombie, hist
    <3> QED
      BY <3>1, <3>2, <3>3, <3>4 DEF Sound
  <2>6. Stable /\ \A k : Keeps(k)
    BY <1>4, SameKeeps DEF hist
  <2>7. Frames'
    BY <1>1, <1>3, <2>2, <2>5, <2>6, FramesReturn DEF Inv
  <2>8. WaitlistTrue' /\ Listed'
    BY <1>1, <1>2, <1>3, <1>4, <2>2, HandsKept, ListsKept DEF Inv, hist
  <2> QED
    BY <1>4, <2>2, <2>7, <2>8 DEF Inv, TypeOK, Stacks, hist
<1> QED
  BY <1>2, <1>6, <1>7

LEMMA WaitforReturnsStep == ASSUME Inv, WaitforReturns PROVE Inv'
<1>1. PICK m \in Nat \ {0} : m = Len(stack) /\ Top = stack[m] /\ Top \in Frame /\ Stacks /\ Sound(m)
  BY TopShape DEF Inv, WaitforReturns, At
<1>2. Top.at = "ret" /\ Top.fn = "waitfor" /\ m # 1
  BY <1>1 DEF WaitforReturns, At, Sound, Shape
<1>3. PICK n \in Nat \ {0} : n = Len(stack) - 1
  BY <1>1, <1>2
<1>4. m = n + 1 /\ n \in 1..Len(stack) /\ Sound(n)
  BY <1>1, <1>3 DEF Inv, Frames
<1>5. stack[n].at = "waiting"
  BY <1>1, <1>2, <1>4 DEF Sound, Shape
<1>6. interactive' \in BOOLEAN
  BY DEF WaitforReturns, Inv, TypeOK
<1> QED
  BY <1>2, <1>3, <1>5, <1>6, ReturnStep DEF WaitforReturns, Busy

LEMMA QuitStep == ASSUME Inv, Quit PROVE Inv'
<1>1. PICK n \in Nat \ {0} : n = Len(stack) /\ Top = stack[n] /\ Top \in Frame /\ Stacks /\ Sound(n)
  BY TopShape DEF Inv, Quit, At
<1>2. n = 1 /\ Top.at = "ready"
  BY <1>1 DEF Quit, At, Sound, Shape
<1>3. stack' = <<>> /\ Stacks' /\ Len(stack') = 0
  <2>1. <<>> \in Seq(Frame)
    OBVIOUS
  <2>2. Len(<<>>) = 0
    OBVIOUS
  <2> QED
    BY <2>1, <2>2 DEF Quit, Stacks
<1>4. Frames'
  BY <1>3 DEF Frames
<1>5. \A r : ~InHand(r) /\ ~Begun(r)
  BY <1>1, <1>2 DEF InHand, Begun
<1>6. WaitlistTrue' /\ Listed'
  BY <1>1, <1>3, <1>5, ListsKept DEF Quit, Inv
<1> QED
  BY <1>3, <1>4, <1>6 DEF Quit, Inv, TypeOK, Stacks

-----------------------------------------------------------------------------
(* waitfor *)

\* The activation on top goes on in the loop around wait.
Same(f, g) == f.fn = g.fn /\ f.id = g.id /\ f.ign = g.ign
LoopAts == {"while", "wait", "ret"} \cup Woken

LEMMA LoopSound ==
  ASSUME NEW n \in Nat, Sound(n), stack[n].fn \in Waits, NEW f, stack'[n] = f, Len(stack') = n,
         Same(f, stack[n]), f.at \in LoopAts,
         f.at \in Woken => f.i \in Pids \cup {-1},
         f.at = "woke" => f.i = -1 \/ Reaped(f.i)',
         f.fn = "itrpt" /\ f.at = "ret" => waitlist' \subseteq trapped',
         f.fn = "waitfor" /\ f.ign => f.id \in trapped' \/ Has(f)' \/ Expects(f)',
         f.at \in Woken /\ f.i = -1 => AllTrapped' \/ (~waiting' /\ f.at \in {"woke", "test"})
  PROVE  Sound(n)'
<1>1. f.fn \in Waits /\ f.fn \notin Lists /\ f.at \notin {"ready", "reader", "forked", "listen", "waiting", "done", "enter"}
  BY DEF Same, Waits, Lists, LoopAts, Woken
<1>2. Shape(n)'
  BY <1>1 DEF Sound, Shape, Same, LoopAts, Lists, Waits
<1>3. ForkedTrue(n)' /\ WokeTrue(n)' /\ ItrptDone(n)'
  BY <1>1 DEF ForkedTrue, WokeTrue, ItrptDone
<1>4. Served(n)' /\ NoneLeft(n)'
  BY DEF Served, NoneLeft
<1> QED
  BY <1>2, <1>3, <1>4 DEF Sound

LEMMA TopLoop ==
  ASSUME Inv, stack # <<>>, Top.at \in LoopAts
  PROVE  \E n \in Nat \ {0} :
           /\ n = Len(stack) /\ Top = stack[n] /\ Top \in Frame /\ Stacks /\ Sound(n) /\ Top.fn \in Waits
           /\ Top.fn = "waitfor" /\ Top.ign =>
                Top.id \in Pids /\ (Top.id \in trapped \/ Has(Top) \/ Expects(Top))
           /\ Top.fn = "itrpt" => Top.id = -1 /\ Top.ign
           /\ Top.at \in Woken => Top.i \in Pids \cup {-1}
           /\ Top.at \in Woken /\ Top.i = -1 => AllTrapped \/ (~waiting /\ Top.at \in {"woke", "test"})
           /\ Top.at = "woke" => Top.i = -1 \/ Reaped(Top.i)
<1>1. PICK n \in Nat \ {0} : n = Len(stack) /\ Top = stack[n] /\ Top \in Frame /\ Stacks /\ Sound(n)
  BY TopShape DEF Inv
<1>2. ~GivenUp(n)
  BY <1>1 DEF GivenUp
<1>3. Top.fn \in Waits
  <2>1. Top.fn \in Fns
    BY <1>1, Init0
  <2> QED
    BY <1>1, <2>1 DEF Sound, Shape, LoopAts, Lists, Waits, Woken, Fns
<1>4. /\ Top.fn = "waitfor" /\ Top.ign => Top.id \in Pids /\ (Top.id \in trapped \/ Has(Top) \/ Expects(Top))
      /\ Top.at \in Woken /\ Top.i = -1 => AllTrapped \/ (~waiting /\ Top.at \in {"woke", "test"})
  BY <1>1, <1>2 DEF Sound, Shape, Served, NoneLeft
<1> QED
  BY <1>1, <1>3, <1>4 DEF Sound, Shape, WokeTrue

LEMMA LoopFrame ==
  ASSUME NEW t \in Frame, NEW l \in Ats, NEW f, f = [t EXCEPT !.at = l]
  PROVE  f \in Frame /\ Same(f, t) /\ f.at = l /\ f.i = t.i /\ f.res = t.res
  BY DEF Frame, Same

\* What is left to show of such a step, when no child changes.
LEMMA LoopStep ==
  ASSUME Inv, stack # <<>>, Top.at \in LoopAts \ {"woke"}, NEW n, n = Len(stack), NEW f \in Frame, Become(f), Same(f, Top),
         Stacks /\ Becomes(f) => Sound(n)',
         UNCHANGED <<waitlist, interactive, child, signals, trapped, unlisted, pending>>,
         waiting' \in BOOLEAN, dropped' \in BOOLEAN
  PROVE  Inv'
<1>1. Stacks /\ Becomes(f) /\ Stacks'
  BY BecomeIs DEF Inv, TypeOK, Stacks
<1>2. Stable /\ \A k : Keeps(k)
  BY SameKeeps
<1>3. Frames'
  BY <1>1, <1>2, FramesBecome DEF Inv, Same
<1>4. ~Busy(Top)
  BY DEF Busy, LoopAts, Woken
<1>5. WaitlistTrue' /\ Listed'
  BY <1>1, <1>4, HandsKept, ListsKept DEF Inv
<1> QED
  BY <1>1, <1>3, <1>5 DEF Inv, TypeOK, Stacks

LEMMA WhileTestStep == ASSUME Inv, WhileTest PROVE Inv'
<1>1. PICK n \in Nat \ {0} :
           /\ n = Len(stack) /\ Top = stack[n] /\ Top \in Frame /\ Stacks /\ Sound(n) /\ Top.fn \in Waits
           /\ Top.fn = "waitfor" /\ Top.ign => Top.id \in Pids /\ (Top.id \in trapped \/ Has(Top) \/ Expects(Top))
  BY TopLoop DEF WhileTest, At, LoopAts
<1>2. /\ stack # <<>> /\ Top.at = "while"
      /\ UNCHANGED <<waitlist, interactive, child, signals, trapped, unlisted, pending, dropped>>
      /\ waiting' \in BOOLEAN /\ dropped' \in BOOLEAN
  BY DEF WhileTest, At, hist, Inv, TypeOK
<1>3. ~Has(Top)
  BY <1>2 DEF Has, Woken
<1>4. CASE Top.ign /\ waitlist = {}
  <2>1. PICK r \in Pids \cup {0} : Become([Top EXCEPT !.at = "ret", !.res = r])
    BY <1>4 DEF WhileTest
  <2>2. PICK f : f = [Top EXCEPT !.at = "ret", !.res = r]
    OBVIOUS
  <2>3. f \in Frame /\ Same(f, Top) /\ f.at = "ret"
    <3>1. "ret" \in Ats
      BY DEF Ats
    <3>2. f \in Frame
      BY <1>1, <2>2, <3>1 DEF Frame
    <3> QED
      BY <1>1, <2>2, <3>2 DEF Frame, Same
  <2>4. ASSUME Becomes(f) PROVE Sound(n)'
    <3>1. stack'[n] = f /\ Len(stack') = n
      BY <1>1, <2>4 DEF Becomes
    <3>2. f.fn = "waitfor" /\ f.ign => f.id \in trapped'
      BY <1>1, <1>2, <1>3, <1>4, <2>3 DEF Same, Expects
    <3>3. waitlist' \subseteq trapped'
      BY <1>2, <1>4
    <3> QED
      BY <1>1, <2>3, <3>1, <3>2, <3>3, LoopSound DEF LoopAts, Woken
  <2> QED
    BY <1>1, <1>2, <2>1, <2>2, <2>3, <2>4, LoopStep DEF LoopAts, Woken
<1>5. CASE ~(Top.ign /\ waitlist = {})
  <2>1. PICK f : f = [Top EXCEPT !.at = "wait"]
    OBVIOUS
  <2>2. f \in Frame /\ Same(f, Top) /\ f.at = "wait"
    <3>1. "wait" \in Ats
      BY DEF Ats
    <3> QED
      BY <1>1, <2>1, <3>1, LoopFrame
  <2>3. ASSUME Becomes(f) PROVE Sound(n)'
    <3>1. stack'[n] = f /\ Len(stack') = n
      BY <1>1, <2>3 DEF Becomes
    <3>2. Expects(Top) => Expects(f)'
      BY <1>2, <2>2 DEF Expects, Same, Woken, Unreaped, Live, Zombie
    <3>3. f.fn = "waitfor" /\ f.ign => f.id \in trapped' \/ Has(f)' \/ Expects(f)'
      BY <1>1, <1>2, <1>3, <2>2, <3>2 DEF Same
    <3> QED
      BY <1>1, <2>2, <3>1, <3>3, LoopSound DEF LoopAts, Woken
  <2>4. Become(f)
    BY <1>5, <2>1 DEF WhileTest, Goto
  <2> QED
    BY <1>1, <1>2, <2>2, <2>3, <2>4, LoopStep DEF LoopAts, Woken
<1> QED
  BY <1>4, <1>5

LEMMA CallWaitStep == ASSUME Inv, CallWait PROVE Inv'
<1>1. PICK n \in Nat \ {0} :
           /\ n = Len(stack) /\ Top = stack[n] /\ Top \in Frame /\ Stacks /\ Sound(n) /\ Top.fn \in Waits
           /\ Top.fn = "waitfor" /\ Top.ign => Top.id \in Pids /\ (Top.id \in trapped \/ Has(Top) \/ Expects(Top))
  BY TopLoop DEF CallWait, At, LoopAts
<1>2. stack # <<>> /\ Top.at = "wait" /\ UNCHANGED <<waitlist, waiting, interactive, signals, trapped, unlisted, pending, dropped>>
  BY DEF CallWait, At, hist
<1>3. PICK q \in Pids \cup {-1} :
        /\ Become([Top EXCEPT !.at = "woke", !.i = q])
        /\ \/ q \in Pids /\ Zombie(q) /\ child' = [child EXCEPT ![q] = Gone]
           \/ q = -1 /\ (\A r \in Pids : ~Unreaped(r)) /\ child' = child
  <2>1. -1 \in Pids \cup {-1} /\ Pids \subseteq Pids \cup {-1}
    OBVIOUS
  <2>2. CASE \E r \in Pids : Zombie(r) /\ child' = [child EXCEPT ![r] = Gone] /\ Become([Top EXCEPT !.at = "woke", !.i = r])
    BY <2>1, <2>2
  <2>3. CASE (\A r \in Pids : ~Unreaped(r)) /\ Become([Top EXCEPT !.at = "woke", !.i = -1]) /\ child' = child
    BY <2>1, <2>3
  <2> QED
    BY <2>2, <2>3 DEF CallWait
<1>4. PICK f : f = [Top EXCEPT !.at = "woke", !.i = q]
  OBVIOUS
<1>5. f \in Frame /\ Same(f, Top) /\ f.at = "woke" /\ f.i = q
  <2>1. "woke" \in Ats /\ q \in Pids \cup {-1, None}
    BY DEF Ats
  <2>2. f \in Frame
    BY <1>1, <1>4, <2>1 DEF Frame
  <2> QED
    BY <1>1, <1>4, <2>1, <2>2 DEF Frame, Same
<1>6. Becomes(f) /\ Stacks'
  BY <1>1, <1>2, <1>3, <1>4, <1>5, BecomeIs
<1>7. stack'[n] = f /\ Len(stack') = n
  BY <1>1, <1>6 DEF Becomes
<1>8. /\ child' \in [Pids -> Child]
      /\ q \in Pids => Zombie(q) /\ Reaped(q)'
      /\ \A r \in Pids \ {q} : child'[r] = child[r]
  <2>1. Gone \in Child /\ Gone.state = "gone"
    BY DEF Gone, Child, Kinds
  <2>2. child \in [Pids -> Child]
    BY DEF Inv, TypeOK
  <2>3. q \in Pids => Zombie(q) /\ child' = [child EXCEPT ![q] = Gone]
    BY <1>3 DEF Pids
  <2>4. q \notin Pids => child' = child
    BY <1>3
  <2>5. ASSUME q \in Pids PROVE child' \in [Pids -> Child] /\ child'[q] = Gone /\ \A r \in Pids \ {q} : child'[r] = child[r]
    BY <2>1, <2>2, <2>3, <2>5
  <2> QED
    BY <2>1, <2>2, <2>3, <2>4, <2>5 DEF Reaped
<1>9. Stable /\ \A k : Keeps(k)
  <2>1. \A r : Reaped(r) => Reaped(r)'
    <3> SUFFICES ASSUME NEW r, Reaped(r) PROVE Reaped(r)'
      OBVIOUS
    <3>1. CASE q = -1
      <4>1. q \notin Pids
        BY <3>1 DEF Pids
      <4> QED
        BY <1>3, <4>1 DEF Reaped
    <3>2. CASE q \in Pids
      <4>1. child' = [child EXCEPT ![q] = Gone]
        <5>1. q # -1
          BY <3>2 DEF Pids
        <5> QED
          BY <1>3, <5>1
      <4>2. CASE r = q
        BY <1>8, <3>2, <4>2
      <4>3. CASE r # q
        BY <4>1, <4>3 DEF Reaped
      <4> QED
        BY <4>2, <4>3
    <3> QED
      BY <3>1, <3>2
  <2>2. AllTrapped => AllTrapped'
    <3> SUFFICES ASSUME AllTrapped, NEW r \in Pids, Unreaped(r)', child'[r].kind # "back" PROVE r \in trapped'
      BY DEF AllTrapped
    <3>1. r # q
      BY <1>8 DEF Unreaped, Live, Zombie, Reaped
    <3> QED
      BY <1>2, <1>8, <3>1 DEF AllTrapped, Unreaped, Live, Zombie
  <2> QED
    BY <1>2, <2>1, <2>2 DEF Stable, Keeps
<1>10. Sound(n)'
  <2>1. f.fn = "waitfor" /\ f.ign => f.id \in trapped' \/ Has(f)' \/ Expects(f)'
    <3> SUFFICES ASSUME f.fn = "waitfor", f.ign, f.id \notin trapped PROVE Has(f)' \/ Expects(f)'
      BY <1>2
    <3>1. f.id = Top.id /\ Top.id \in Pids /\ Expects(Top)
      BY <1>1, <1>2, <1>5 DEF Same, Has, Woken
    <3>2. CASE q = f.id
      BY <1>5, <1>8, <3>1, <3>2 DEF Has, Woken
    <3>3. CASE q # f.id
      <4>1. child'[f.id] = child[f.id]
        BY <1>8, <3>1, <3>3
      <4>2. Unreaped(Top.id)
        BY <3>1 DEF Expects
      <4>3. q # -1
        <5>1. -1 \notin Pids
          BY DEF Pids
        <5> QED
          BY <1>3, <3>1, <4>2, <5>1
      <4> QED
        BY <1>2, <1>5, <3>1, <3>3, <4>1, <4>3 DEF Expects, Unreaped, Live, Zombie
    <3> QED
      BY <3>2, <3>3
  <2>2. q = -1 => AllTrapped'
    <3>1. -1 \notin Pids
      BY DEF Pids
    <3> QED
      BY <1>3, <3>1 DEF AllTrapped, Unreaped, Live, Zombie
  <2>3. f.i = -1 \/ Reaped(f.i)'
    BY <1>5, <1>8
  <2> QED
    BY <1>1, <1>5, <1>7, <2>1, <2>2, <2>3, LoopSound DEF LoopAts, Woken
<1>11. Frames'
  BY <1>1, <1>5, <1>6, <1>9, <1>10, FramesBecome DEF Inv, Same
<1>12. \A r : (InHand(r) => InHand(r)') /\ (Begun(r) => Begun(r)')
  BY <1>1, <1>2, <1>6, HandsKept DEF Busy
<1>13. DOMAIN stack = 1..Len(stack) /\ DOMAIN stack' = 1..Len(stack')
  BY <1>1, <1>6 DEF Stacks
<1>14. WaitlistTrue'
  <2>1. ASSUME NEW r \in waitlist PROVE Unreaped(r)' \/ r \in trapped' \/ InHand(r)'
    <3>1. CASE r = q
      <4>1. n \in 1..Len(stack') /\ stack'[n].at = "woke" /\ stack'[n].i = r
        BY <1>5, <1>7, <3>1
      <4> QED
        BY <4>1 DEF InHand
    <3>2. CASE r # q
      <4>1. Unreaped(r) \/ r \in trapped \/ InHand(r)
        BY <1>13 DEF Inv, WaitlistTrue, InHand
      <4>2. r \in Pids
        BY DEF Inv, TypeOK
      <4> QED
        BY <1>2, <1>8, <1>12, <3>2, <4>1, <4>2 DEF Unreaped, Live, Zombie
    <3> QED
      BY <3>1, <3>2
  <2> QED
    BY <1>2, <1>13, <2>1 DEF WaitlistTrue, InHand
<1>15. Listed'
  <2> SUFFICES ASSUME NEW r \in Pids, Live(r)', child'[r].kind \in Foreground
               PROVE  r \in waitlist' \cup trapped' \cup unlisted' \/ Begun(r)'
    BY DEF Listed
  <2>1. r # q
    BY <1>8 DEF Live, Reaped
  <2> QED
    BY <1>2, <1>8, <1>12, <2>1 DEF Inv, Listed, Live
<1> QED
  BY <1>2, <1>6, <1>8, <1>11, <1>14, <1>15 DEF Inv, TypeOK, Stacks

LEMMA RemwaitStep == ASSUME Inv, Remwait PROVE Inv'
<1>1. PICK n \in Nat \ {0} :
           /\ n = Len(stack) /\ Top = stack[n] /\ Top \in Frame /\ Stacks /\ Sound(n) /\ Top.fn \in Waits
           /\ Top.fn = "waitfor" /\ Top.ign => Top.id \in Pids /\ (Top.id \in trapped \/ Has(Top) \/ Expects(Top))
           /\ Top.i \in Pids \cup {-1}
           /\ Top.i = -1 => AllTrapped \/ ~waiting
           /\ Top.i = -1 \/ Reaped(Top.i)
  BY TopLoop DEF Remwait, At, LoopAts, Woken
<1>2. /\ stack # <<>> /\ Top.at = "woke" /\ waitlist' = waitlist \ {Top.i}
      /\ UNCHANGED <<waiting, interactive, child, signals, trapped, unlisted, pending, dropped>>
  BY DEF Remwait, At, hist
<1>3. PICK f : f = [Top EXCEPT !.at = "test"]
  OBVIOUS
<1>4. f \in Frame /\ Same(f, Top) /\ f.at = "test" /\ f.i = Top.i
  <2>1. "test" \in Ats
    BY DEF Ats
  <2> QED
    BY <1>1, <1>3, <2>1, LoopFrame
<1>5. Becomes(f) /\ Stacks'
  BY <1>1, <1>2, <1>3, <1>4, BecomeIs DEF Remwait, Goto
<1>6. stack'[n] = f /\ Len(stack') = n
  BY <1>1, <1>5 DEF Becomes
<1>7. Stable /\ \A k : Keeps(k)
  BY <1>2, SameKeeps
<1>8. Sound(n)'
  <2>1. f.fn = "waitfor" /\ f.ign => f.id \in trapped' \/ Has(f)' \/ Expects(f)'
    <3>1. Has(Top) => Has(f)'
      BY <1>2, <1>4 DEF Has, Same, Woken, Reaped
    <3>2. Expects(Top) => Expects(f)'
      BY <1>2, <1>4 DEF Expects, Same, Woken, Unreaped, Live, Zombie
    <3> QED
      BY <1>1, <1>2, <1>4, <3>1, <3>2 DEF Same
  <2>2. f.i = -1 => AllTrapped' \/ ~waiting'
    BY <1>1, <1>2, <1>4 DEF AllTrapped, Unreaped, Live, Zombie
  <2> QED
    BY <1>1, <1>4, <1>6, <2>1, <2>2, LoopSound DEF LoopAts, Woken
<1>9. Frames'
  BY <1>1, <1>4, <1>5, <1>7, <1>8, FramesBecome DEF Inv, Same
<1>10. \A r : (InHand(r) => InHand(r)' \/ Top.i = r) /\ (Begun(r) => Begun(r)')
  BY <1>1, <1>2, <1>5, HandsBelow
<1>11. DOMAIN stack = 1..Len(stack) /\ DOMAIN stack' = 1..Len(stack')
  BY <1>1, <1>5 DEF Stacks
<1>12. WaitlistTrue'
  <2>1. ASSUME NEW r \in waitlist' PROVE Unreaped(r)' \/ r \in trapped' \/ InHand(r)'
    <3>1. r \in waitlist /\ r # Top.i
      BY <1>2, <2>1
    <3>2. Unreaped(r) \/ r \in trapped \/ InHand(r)
      BY <1>11, <3>1 DEF Inv, WaitlistTrue, InHand
    <3> QED
      BY <1>2, <1>10, <3>1, <3>2 DEF Unreaped, Live, Zombie
  <2> QED
    BY <1>11, <2>1 DEF WaitlistTrue, InHand
<1>13. Listed'
  <2> SUFFICES ASSUME NEW r \in Pids, Live(r), child[r].kind \in Foreground
               PROVE  r \in waitlist' \cup trapped' \cup unlisted' \/ Begun(r)'
    BY <1>2 DEF Listed, Live
  <2>1. r # Top.i
    <3>1. r # -1
      BY DEF Pids
    <3>2. ~Reaped(r)
      BY DEF Live, Reaped
    <3> QED
      BY <1>1, <3>1, <3>2
  <2> QED
    BY <1>2, <1>10, <2>1 DEF Inv, Listed
<1> QED
  BY <1>2, <1>5, <1>9, <1>12, <1>13 DEF Inv, TypeOK, Stacks

LEMMA ClearWaitingStep == ASSUME Inv, ClearWaiting PROVE Inv'
<1>1. PICK n \in Nat \ {0} :
           /\ n = Len(stack) /\ Top = stack[n] /\ Top \in Frame /\ Stacks /\ Sound(n) /\ Top.fn \in Waits
           /\ Top.fn = "waitfor" /\ Top.ign => Top.id \in Pids /\ (Top.id \in trapped \/ Has(Top) \/ Expects(Top))
           /\ Top.i \in Pids \cup {-1}
           /\ Top.i = -1 => AllTrapped
  BY TopLoop DEF ClearWaiting, At, LoopAts, Woken
<1>2. /\ stack # <<>> /\ Top.at = "clear"
      /\ UNCHANGED <<waitlist, interactive, child, signals, trapped, unlisted, pending>>
      /\ waiting' \in BOOLEAN /\ dropped' \in BOOLEAN
  BY DEF ClearWaiting, At, Inv, TypeOK
<1>3. PICK f : f = [Top EXCEPT !.at = "after"]
  OBVIOUS
<1>4. f \in Frame /\ Same(f, Top) /\ f.at = "after" /\ f.i = Top.i
  <2>1. "after" \in Ats
    BY DEF Ats
  <2> QED
    BY <1>1, <1>3, <2>1, LoopFrame
<1>5. ASSUME Becomes(f) PROVE Sound(n)'
  <2>1. stack'[n] = f /\ Len(stack') = n
    BY <1>1, <1>5 DEF Becomes
  <2>2. f.fn = "waitfor" /\ f.ign => f.id \in trapped' \/ Has(f)' \/ Expects(f)'
    <3>1. Has(Top) => Has(f)'
      BY <1>2, <1>4 DEF Has, Same, Woken, Reaped
    <3>2. Expects(Top) => Expects(f)'
      BY <1>2, <1>4 DEF Expects, Same, Woken, Unreaped, Live, Zombie
    <3> QED
      BY <1>1, <1>2, <1>4, <3>1, <3>2 DEF Same
  <2>3. f.i = -1 => AllTrapped'
    BY <1>1, <1>2, <1>4 DEF AllTrapped, Unreaped, Live, Zombie
  <2> QED
    BY <1>1, <1>4, <2>1, <2>2, <2>3, LoopSound DEF LoopAts, Woken
<1>6. Become(f)
  BY <1>3 DEF ClearWaiting, Goto
<1> QED
  BY <1>1, <1>2, <1>4, <1>5, <1>6, LoopStep DEF LoopAts, Woken

LEMMA AfterWaitStep == ASSUME Inv, AfterWait PROVE Inv'
<1>1. PICK n \in Nat \ {0} :
           /\ n = Len(stack) /\ Top = stack[n] /\ Top \in Frame /\ Stacks /\ Sound(n) /\ Top.fn \in Waits
           /\ Top.fn = "waitfor" /\ Top.ign => Top.id \in Pids /\ (Top.id \in trapped \/ Has(Top) \/ Expects(Top))
           /\ Top.fn = "itrpt" => Top.id = -1
           /\ Top.i \in Pids \cup {-1}
           /\ Top.i = -1 => AllTrapped
  BY TopLoop DEF AfterWait, At, LoopAts, Woken
<1>2. /\ stack # <<>> /\ Top.at = "after" /\ UNCHANGED <<waiting, interactive, child, signals, trapped, unlisted, pending, dropped>>
      /\ waiting' \in BOOLEAN /\ dropped' \in BOOLEAN
  BY DEF AfterWait, At, hist, Inv, TypeOK
<1>3. -1 \notin Pids
  BY DEF Pids
<1>4. /\ Has(Top) => Top.i = Top.id /\ Reaped(Top.id)
      /\ Expects(Top) => Top.i # Top.id /\ Top.i # -1
  BY <1>2 DEF Has, Expects, Woken
<1>5. CASE Top.i = -1
  <2>1. waitlist' = {} /\ Become([Top EXCEPT !.at = "ret", !.res = 0])
    BY <1>5 DEF AfterWait
  <2>2. PICK f : f = [Top EXCEPT !.at = "ret", !.res = 0]
    OBVIOUS
  <2>3. f \in Frame /\ Same(f, Top) /\ f.at = "ret"
    <3>1. "ret" \in Ats /\ 0 \in Pids \cup {0}
      BY DEF Ats
    <3>2. f \in Frame
      BY <1>1, <2>2, <3>1 DEF Frame
    <3> QED
      BY <1>1, <2>2, <3>2 DEF Frame, Same
  <2>4. Becomes(f) /\ Stacks'
    BY <1>1, <1>2, <2>1, <2>2, <2>3, BecomeIs
  <2>5. stack'[n] = f /\ Len(stack') = n
    BY <1>1, <2>4 DEF Becomes
  <2>6. AllTrapped /\ Stable /\ \A k : Keeps(k)
    BY <1>1, <1>2, <1>5, <2>1, SameKeeps
  <2>7. Sound(n)'
    <3>1. f.fn = "waitfor" /\ f.ign => f.id \in trapped'
      BY <1>1, <1>2, <1>3, <1>4, <1>5, <2>3 DEF Same
    <3>2. waitlist' \subseteq trapped'
      BY <2>1
    <3> QED
      BY <1>1, <2>3, <2>5, <3>1, <3>2, LoopSound DEF LoopAts, Woken
  <2>8. Frames'
    BY <1>1, <2>3, <2>4, <2>6, <2>7, FramesBecome DEF Inv, Same
  <2>9. WaitlistTrue'
    BY <2>1 DEF WaitlistTrue
  <2>10. Listed'
    BY <1>2, <2>6 DEF Listed, AllTrapped, Unreaped, Live, Foreground
  <2> QED
    BY <1>2, <2>1, <2>4, <2>8, <2>9, <2>10 DEF Inv, TypeOK, Stacks
<1>6. CASE Top.i = Top.id /\ Top.i # -1
  <2>1. waitlist' = waitlist /\ Become([Top EXCEPT !.at = "ret", !.res = Top.i])
    BY <1>6 DEF AfterWait
  <2>2. PICK f : f = [Top EXCEPT !.at = "ret", !.res = Top.i]
    OBVIOUS
  <2>3. f \in Frame /\ Same(f, Top) /\ f.at = "ret" /\ f.res = Top.i
    <3>1. "ret" \in Ats /\ Top.i \in Pids \cup {0}
      BY <1>1, <1>6 DEF Ats
    <3>2. f \in Frame
      BY <1>1, <2>2, <3>1 DEF Frame
    <3> QED
      BY <1>1, <2>2, <3>2 DEF Frame, Same
  <2>4. ASSUME Becomes(f) PROVE Sound(n)'
    <3>1. stack'[n] = f /\ Len(stack') = n
      BY <1>1, <2>4 DEF Becomes
    <3>2. Has(Top) => Has(f)'
      BY <1>2, <1>4, <2>3 DEF Has, Same, Reaped
    <3>3. f.fn = "waitfor" /\ f.ign => f.id \in trapped' \/ Has(f)'
      BY <1>1, <1>2, <1>4, <1>6, <2>3, <3>2 DEF Same
    <3>4. f.fn # "itrpt"
      BY <1>1, <1>6, <2>3 DEF Same
    <3> QED
      BY <1>1, <2>3, <3>1, <3>3, <3>4, LoopSound DEF LoopAts, Woken
  <2> QED
    BY <1>1, <1>2, <2>1, <2>2, <2>3, <2>4, LoopStep DEF LoopAts, Woken
<1>7. CASE Top.i # -1 /\ Top.i # Top.id
  <2>1. waitlist' = waitlist /\ Become([Top EXCEPT !.at = "while"])
    BY <1>7 DEF AfterWait, Goto
  <2>2. PICK f : f = [Top EXCEPT !.at = "while"]
    OBVIOUS
  <2>3. f \in Frame /\ Same(f, Top) /\ f.at = "while"
    <3>1. "while" \in Ats
      BY DEF Ats
    <3> QED
      BY <1>1, <2>2, <3>1, LoopFrame
  <2>4. ASSUME Becomes(f) PROVE Sound(n)'
    <3>1. stack'[n] = f /\ Len(stack') = n
      BY <1>1, <2>4 DEF Becomes
    <3>2. Expects(Top) => Expects(f)'
      BY <1>2, <2>1, <2>3 DEF Expects, Same, Woken, Unreaped, Live, Zombie
    <3>3. f.fn = "waitfor" /\ f.ign => f.id \in trapped' \/ Expects(f)'
      BY <1>1, <1>2, <1>4, <1>7, <2>3, <3>2 DEF Same
    <3> QED
      BY <1>1, <2>3, <3>1, <3>3, LoopSound DEF LoopAts, Woken
  <2> QED
    BY <1>1, <1>2, <2>1, <2>2, <2>3, <2>4, LoopStep DEF LoopAts, Woken
<1> QED
  BY <1>5, <1>6, <1>7

-----------------------------------------------------------------------------
(* Handlers *)

\* What a handler is put upon.
Woke(f) == Same(f, Top) /\ f.what = Top.what /\ f.at = "woke" /\ f.i = -1 /\ Top.at = "wait"

\* Under itrpt nothing is gone back to; under a trap every child is trapped.
LEMMA PushedSound ==
  ASSUME Inv, NEW n \in Nat \ {0}, n = Len(stack), NEW f, f = Top \/ Woke(f),
         stack'[n] = f, Len(stack') = n + 1, stack'[n + 1].fn = "itrpt" \/ (stack'[n + 1].fn = "trap" /\ AllTrapped'),
         UNCHANGED <<waitlist, child>>, trapped \subseteq trapped'
  PROVE  Sound(n)'
<1>1. Top = stack[n] /\ Sound(n) /\ Top.at # "waiting" /\ ~GivenUp(n) /\ stack # <<>>
  <2>1. stack # <<>> /\ ~GivenUp(n)
    <3>1. Len(<<>>) = 0
      OBVIOUS
    <3> QED
      BY <3>1 DEF GivenUp
  <2> QED
    BY <2>1, TopShape DEF Inv
<1>2. Woke(f) => f.fn \in Waits /\ f.fn \notin Lists
  <2> SUFFICES ASSUME Woke(f) PROVE f.fn \in Waits /\ f.fn \notin Lists
    OBVIOUS
  <2>1. Top.at \in LoopAts
    BY DEF Woke, LoopAts
  <2>2. Top.fn \in Waits
    BY <1>1, <2>1, TopLoop
  <2> QED
    BY <2>2 DEF Woke, Same, Waits, Lists
<1>3. Shape(n)'
  <2>1. CASE f = Top
    BY <1>1, <2>1 DEF Sound, Shape
  <2>2. CASE Woke(f)
    <3>1. f.at = "woke" /\ f.fn = Top.fn /\ f.id = Top.id /\ f.ign = Top.ign /\ f.i = -1
      BY <2>2 DEF Woke, Same
    <3>2. /\ f.fn = "top" <=> n = 1
          /\ f.fn = "eval" => n = 2
          /\ f.fn = "itrpt" => f.id = -1 /\ f.ign
          /\ f.fn = "waitfor" /\ f.ign => f.id \in Pids
      BY <1>1, <3>1 DEF Sound, Shape
    <3> QED
      BY <1>2, <2>2, <3>1, <3>2 DEF Shape, Woken, Lists
  <2> QED
    BY <2>1, <2>2
<1>4. GivenUp(n)' \/ AllTrapped'
  BY DEF GivenUp
<1>5. ForkedTrue(n)'
  <2>1. f.at = "forked" => f = Top /\ f.id \in Pids /\ f.what # "back"
    BY <1>1 DEF Sound, Shape, Woke, Foreground
  <2>2. f.at = "forked" => f.id \in trapped' \/ (f.fn # "trap" /\ Unreaped(f.id)' /\ child'[f.id].kind # "back")
    BY <1>1, <2>1 DEF Sound, ForkedTrue, Unreaped, Live, Zombie
  <2> QED
    BY <1>4, <2>1, <2>2 DEF ForkedTrue, AllTrapped
<1>6. WokeTrue(n)'
  BY <1>1 DEF Sound, WokeTrue, Woke, Reaped
<1>7. ItrptDone(n)'
  BY <1>1 DEF Sound, ItrptDone, Woke
<1>8. Served(n)'
  <2> SUFFICES ASSUME f.fn = "waitfor", f.ign, f.id \notin trapped', AllTrapped' PROVE Has(f)'
    BY <1>4 DEF Served
  <2>1. Top.fn = "waitfor" /\ Top.ign /\ Top.id = f.id /\ f.id \in Pids
    BY <1>1 DEF Sound, Shape, Woke, Same
  <2>2. Has(Top) \/ Expects(Top)
    BY <1>1, <2>1 DEF Sound, Served
  <2>3. ~Expects(Top)
    BY <2>1 DEF Expects, AllTrapped, Unreaped, Live, Zombie
  <2>4. ~Woke(f)
    BY <2>2, <2>3 DEF Has, Woke, Woken
  <2> QED
    BY <2>2, <2>3, <2>4 DEF Has, Reaped
<1>9. NoneLeft(n)'
  BY <1>4 DEF NoneLeft
<1> QED
  BY <1>3, <1>5, <1>6, <1>7, <1>8, <1>9 DEF Sound

LEMMA InterruptedIs ==
  ASSUME Stacks, stack # <<>>, NEW f \in Interrupted
  PROVE  f \in Frame /\ f.fn = Top.fn /\ (f = Top \/ (Woke(f) /\ Asleep)) /\ (Busy(Top) => f = Top)
<1>1. Top \in Frame
  BY TopIs
<1>2. CASE f = Top
  BY <1>1, <1>2
<1>3. CASE Asleep /\ f = [Top EXCEPT !.at = "woke", !.i = -1]
  <2>1. "woke" \in Ats /\ -1 \in Pids \cup {-1, None}
    BY DEF Ats
  <2>2. f \in Frame
    BY <1>1, <1>3, <2>1 DEF Frame
  <2>3. Same(f, Top) /\ f.what = Top.what /\ f.at = "woke" /\ f.i = -1
    BY <1>1, <1>3, <2>2 DEF Frame, Same
  <2>4. Top.at = "wait" /\ ~Busy(Top)
    BY <1>3 DEF Asleep, Busy
  <2> QED
    BY <1>3, <2>2, <2>3, <2>4 DEF Woke, Same
<1> QED
  BY <1>2, <1>3 DEF Interrupted

\* A handler begins.
LEMMA HandlerStep ==
  ASSUME Inv, stack # <<>>, NEW g, g = Top \/ Woke(g), g \in Frame, Busy(Top) => g = Top, NEW f \in Frame, Push(g, f),
         f.fn = "itrpt" \/ (f.fn = "trap" /\ AllTrapped'),
         UNCHANGED <<waitlist, waiting, interactive, child, unlisted>>, trapped \subseteq trapped',
         trapped' \subseteq Pids, signals' \in 0..MaxSignals, pending' \in BOOLEAN, dropped' \in BOOLEAN,
         NEW m, m = Len(stack) + 1, Pushes(g, f) => Sound(m)'
  PROVE  Inv'
<1>1. PICK n \in Nat \ {0} : n = Len(stack) /\ Top = stack[n] /\ Top \in Frame /\ Stacks
  BY TopShape DEF Inv
<1>2. Pushes(g, f) /\ Stacks'
  BY <1>1, PushIs
<1>3. stack'[n] = g /\ stack'[n + 1] = f /\ Len(stack') = n + 1
  BY <1>1, <1>2 DEF Pushes
<1>4. Sound(n)'
  BY <1>1, <1>3, PushedSound
<1>5. Stable /\ \A k : Keeps(k)
  BY SameKeeps
<1>6. g.fn = Top.fn
  BY DEF Woke, Same
<1>7. Frames'
  BY <1>1, <1>2, <1>4, <1>5, <1>6, FramesPush DEF Inv
<1>8. WaitlistTrue' /\ Listed'
  BY <1>1, <1>2, HandsKept, ListsKept DEF Inv
<1> QED
  BY <1>2, <1>7, <1>8 DEF Inv, TypeOK, Stacks

LEMMA TestWaitingStep == ASSUME Inv, TestWaiting PROVE Inv'
<1>1. PICK n \in Nat \ {0} :
           /\ n = Len(stack) /\ Top = stack[n] /\ Top \in Frame /\ Stacks /\ Sound(n) /\ Top.fn \in Waits
           /\ Top.fn = "waitfor" /\ Top.ign => Top.id \in Pids /\ (Top.id \in trapped \/ Has(Top) \/ Expects(Top))
           /\ Top.i \in Pids \cup {-1}
           /\ Top.i = -1 => AllTrapped \/ ~waiting
  BY TopLoop DEF TestWaiting, At, LoopAts, Woken
<1>2. /\ stack # <<>> /\ Top.at = "test"
      /\ UNCHANGED <<waitlist, waiting, interactive, child, signals, trapped, unlisted, pending, dropped>>
      /\ waiting' \in BOOLEAN /\ dropped' \in BOOLEAN
  BY DEF TestWaiting, At, hist, Inv, TypeOK
<1>3. CASE waiting
  <2>1. PICK f : f = [Top EXCEPT !.at = "clear"]
    OBVIOUS
  <2>2. f \in Frame /\ Same(f, Top) /\ f.at = "clear" /\ f.i = Top.i
    <3>1. "clear" \in Ats
      BY DEF Ats
    <3> QED
      BY <1>1, <2>1, <3>1, LoopFrame
  <2>3. ASSUME Becomes(f) PROVE Sound(n)'
    <3>1. stack'[n] = f /\ Len(stack') = n
      BY <1>1, <2>3 DEF Becomes
    <3>2. f.fn = "waitfor" /\ f.ign => f.id \in trapped' \/ Has(f)' \/ Expects(f)'
      <4>1. Has(Top) => Has(f)'
        BY <1>2, <2>2 DEF Has, Same, Woken, Reaped
      <4>2. Expects(Top) => Expects(f)'
        BY <1>2, <1>3, <2>2 DEF Expects, Same, Woken, Unreaped, Live, Zombie
      <4> QED
        BY <1>1, <1>2, <2>2, <4>1, <4>2 DEF Same
    <3>3. f.i = -1 => AllTrapped'
      BY <1>1, <1>2, <1>3, <2>2 DEF AllTrapped, Unreaped, Live, Zombie
    <3> QED
      BY <1>1, <2>2, <3>1, <3>2, <3>3, LoopSound DEF LoopAts, Woken
  <2>4. Become(f)
    BY <1>3, <2>1 DEF TestWaiting, Goto
  <2> QED
    BY <1>1, <1>2, <2>2, <2>3, <2>4, LoopStep DEF LoopAts, Woken
<1>4. CASE ~waiting
  <2>1. PICK f \in Frame : f = NewWait("itrpt", -1, TRUE) /\ f.fn = "itrpt"
    BY NewWaitIs
  <2>2. Push(Top, f)
    BY <1>4, <2>1 DEF TestWaiting
  <2>3. ASSUME Pushes(Top, f) PROVE Sound(n + 1)'
    <3>1. stack'[n + 1] = f /\ Len(stack') = n + 1 /\ n + 1 \in Nat /\ n + 1 > 1
      BY <1>1, <2>3 DEF Pushes
    <3> QED
      BY <2>1, <3>1, NewWaitSound DEF Waits
  <2>4. signals' \in 0..MaxSignals /\ pending' \in BOOLEAN /\ trapped' \subseteq Pids
    BY <1>2 DEF Inv, TypeOK
  <2> QED
    BY <1>1, <1>2, <2>1, <2>2, <2>3, <2>4, HandlerStep
<1> QED
  BY <1>3, <1>4

\* The activation on top when a child ends, or a SIGINT is left to waitfor.
LEMMA TopKept ==
  ASSUME NEW n \in Nat, n = Len(stack), n = Len(stack'), Sound(n), stack'[n] = stack[n],
         UNCHANGED <<waitlist, trapped>>, waiting' => waiting,
         \A q : (Unreaped(q)' <=> Unreaped(q)) /\ (Reaped(q) => Reaped(q)') /\ child'[q].kind = child[q].kind
  PROVE  Sound(n)'
<1>1. Shape(n)'
  BY DEF Sound, Shape
<1>2. ForkedTrue(n)' /\ WokeTrue(n)' /\ ItrptDone(n)'
  BY DEF Sound, ForkedTrue, GivenUp, WokeTrue, ItrptDone
<1>3. Served(n)'
  <2>1. Has(stack[n]) => Has(stack[n])'
    BY DEF Has
  <2>2. Expects(stack[n]) => Expects(stack[n])'
    BY DEF Expects
  <2> QED
    BY <2>1, <2>2 DEF Sound, Served, GivenUp
<1>4. NoneLeft(n)'
  BY DEF Sound, NoneLeft, GivenUp, AllTrapped
<1> QED
  BY <1>1, <1>2, <1>3, <1>4 DEF Sound

LEMMA ItrptStep == ASSUME Inv, Itrpt PROVE Inv'
<1>1. PICK n \in Nat \ {0} : n = Len(stack) /\ Top = stack[n] /\ Top \in Frame /\ Stacks /\ Sound(n)
  BY TopShape DEF Inv, Itrpt, SendSignal
<1>2. /\ stack # <<>> /\ UNCHANGED <<waitlist, interactive, child, trapped, unlisted, dropped>>
      /\ signals' \in 0..MaxSignals /\ pending' \in BOOLEAN /\ dropped' \in BOOLEAN /\ trapped' \subseteq Pids
  BY ShellWaitAssumption DEF Itrpt, SendSignal, Inv, TypeOK
<1>3. PICK f \in Interrupted : IF waiting THEN waiting' = FALSE /\ Become(f)
                               ELSE Push(f, NewWait("itrpt", -1, TRUE)) /\ UNCHANGED waiting
  BY DEF Itrpt
<1>4. f \in Frame /\ f.fn = Top.fn /\ (f = Top \/ (Woke(f) /\ Asleep)) /\ (Busy(Top) => f = Top)
  BY <1>1, <1>2, InterruptedIs
<1>5. CASE waiting
  <2>1. waiting' = FALSE /\ Becomes(f) /\ Stacks'
    BY <1>1, <1>2, <1>3, <1>4, <1>5, BecomeIs
  <2>2. stack'[n] = f /\ Len(stack') = n
    BY <1>1, <2>1 DEF Becomes
  <2>3. Sound(n)'
    <3>1. CASE f = Top
      <4>1. \A q : (Unreaped(q)' <=> Unreaped(q)) /\ (Reaped(q) => Reaped(q)') /\ child'[q].kind = child[q].kind
        BY <1>2 DEF Unreaped, Live, Zombie, Reaped
      <4> QED
        BY <1>1, <1>2, <2>1, <2>2, <3>1, <4>1, TopKept
    <3>2. CASE Woke(f)
      <4>1. Top.at = "wait" /\ Same(f, Top) /\ f.at = "woke" /\ f.i = -1
        BY <3>2 DEF Woke
      <4>2. /\ Top.fn \in Waits
            /\ Top.fn = "waitfor" /\ Top.ign => Top.id \in Pids /\ (Top.id \in trapped \/ Has(Top) \/ Expects(Top))
        BY <1>2, <4>1, TopLoop DEF LoopAts
      <4>3. f.fn = "waitfor" /\ f.ign => f.id \in trapped' \/ Expects(f)'
        <5>1. ~Has(Top)
          BY <4>1 DEF Has, Woken
        <5>2. f.id \in Pids /\ Expects(Top) => Expects(f)'
          <6>1. f.id \in Pids => f.id # -1
            BY DEF Pids
          <6> QED
            BY <1>2, <2>1, <4>1, <6>1 DEF Expects, Same, Woken, Unreaped, Live, Zombie
        <5> QED
          BY <1>2, <4>1, <4>2, <5>1, <5>2 DEF Same
      <4> QED
        BY <1>1, <2>1, <2>2, <4>1, <4>2, <4>3, LoopSound DEF LoopAts, Woken
    <3> QED
      BY <1>4, <3>1, <3>2
  <2>4. Stable /\ \A k : Keeps(k)
    BY <1>2, SameKeeps
  <2>5. Frames'
    BY <1>1, <1>4, <2>1, <2>3, <2>4, FramesBecome DEF Inv
  <2>6. \A r : (InHand(r) => InHand(r)') /\ (Begun(r) => Begun(r)')
    <3>1. CASE Busy(Top)
      <4>1. \A k \in 1..n : stack'[k] = stack[k]
        BY <1>1, <1>4, <2>1, <2>2, <3>1 DEF Becomes
      <4> QED
        BY <1>1, <2>2, <4>1 DEF InHand, Begun
    <3>2. CASE ~Busy(Top)
      BY <1>1, <1>2, <2>1, <3>2, HandsKept
    <3> QED
      BY <3>1, <3>2
  <2>7. WaitlistTrue' /\ Listed'
    BY <1>1, <1>2, <2>1, <2>6, ListsKept DEF Inv
  <2> QED
    BY <1>2, <2>1, <2>5, <2>7 DEF Inv, TypeOK, Stacks
<1>6. CASE ~waiting
  <2>1. PICK g \in Frame : g = NewWait("itrpt", -1, TRUE) /\ g.fn = "itrpt"
    BY NewWaitIs
  <2>2. Push(f, g) /\ waiting' = waiting
    BY <1>3, <1>6, <2>1
  <2>3. ASSUME Pushes(f, g) PROVE Sound(n + 1)'
    <3>1. stack'[n + 1] = g /\ Len(stack') = n + 1 /\ n + 1 \in Nat /\ n + 1 > 1
      BY <1>1, <2>3 DEF Pushes
    <3> QED
      BY <2>1, <3>1, NewWaitSound DEF Waits
  <2> QED
    BY <1>1, <1>2, <1>4, <2>1, <2>2, <2>3, HandlerStep
<1> QED
  BY <1>5, <1>6

LEMMA TrapStep == ASSUME Inv, Trap PROVE Inv'
<1>1. PICK n \in Nat \ {0} : n = Len(stack) /\ Top = stack[n] /\ Top \in Frame /\ Stacks /\ Sound(n)
  BY TopShape DEF Inv, Trap, SendSignal
<1>2. /\ stack # <<>> /\ UNCHANGED <<waitlist, waiting, interactive, child, unlisted, pending, dropped>>
      /\ signals' \in 0..MaxSignals /\ pending' \in BOOLEAN /\ dropped' \in BOOLEAN
      /\ trapped' = trapped \cup {q \in Pids : Unreaped(q) /\ child[q].kind # "back"}
  BY ShellWaitAssumption DEF Trap, SendSignal, Inv, TypeOK
<1>3. trapped \subseteq trapped' /\ trapped' \subseteq Pids /\ AllTrapped'
  BY <1>2 DEF AllTrapped, Inv, TypeOK, Unreaped, Live, Zombie
<1>4. PICK g \in Interrupted : Push(g, [NewList("trap", interactive) EXCEPT !.at = "enter"])
  BY DEF Trap
<1>5. g \in Frame /\ g.fn = Top.fn /\ (g = Top \/ Woke(g)) /\ (Busy(Top) => g = Top)
  BY <1>1, <1>2, InterruptedIs
<1>6. PICK f : f = [NewList("trap", interactive) EXCEPT !.at = "enter"]
  OBVIOUS
<1>7. f \in Frame /\ f.fn = "trap" /\ f.at = "enter"
  <2>1. PICK t \in Frame : t = NewList("trap", interactive) /\ t.fn = "trap"
    BY NewListIs DEF Inv, TypeOK
  <2>2. "enter" \in Ats /\ f = [t EXCEPT !.at = "enter"]
    BY <1>6, <2>1 DEF Ats
  <2> QED
    BY <2>1, <2>2, LoopFrame DEF Same
<1>8. ASSUME Pushes(g, f) PROVE Sound(n + 1)'
  <2>1. stack'[n + 1] = f /\ Len(stack') = n + 1 /\ n + 1 \in Nat /\ n + 1 # 1
    BY <1>1, <1>8 DEF Pushes
  <2>2. Calm(n + 1, f)
    BY <1>7, <2>1 DEF Calm, Lists
  <2> QED
    BY <2>1, <2>2, CalmSound
<1> QED
  BY <1>1, <1>2, <1>3, <1>4, <1>5, <1>6, <1>7, <1>8, HandlerStep

LEMMA ExitStep == ASSUME Inv, NEW q \in Pids, Exit(q) PROVE Inv'
<1>1. /\ Live(q) /\ child' = [child EXCEPT ![q].state = "zombie"]
      /\ UNCHANGED <<stack, waitlist, waiting, interactive, signals, trapped, unlisted, pending, dropped>>
  BY DEF Exit, hist
<1>2. /\ child' \in [Pids -> Child] /\ child'[q].state = "zombie" /\ child'[q].kind = child[q].kind
      /\ \A r : r # q => child'[r] = child[r]
  BY <1>1 DEF Inv, TypeOK, Child
<1>3. \A r : (Unreaped(r)' <=> Unreaped(r)) /\ (Reaped(r) => Reaped(r)') /\ child'[r].kind = child[r].kind
             /\ (Live(r)' => Live(r))
  BY <1>1, <1>2 DEF Unreaped, Live, Zombie, Reaped
<1>4. Stacks /\ Stacks' /\ TypeOK'
  BY <1>1, <1>2 DEF Inv, TypeOK, Stacks
<1>5. Stable /\ \A k : Keeps(k)
  BY <1>1, <1>3 DEF Stable, Keeps, AllTrapped
<1>6. Frames'
  <2> SUFFICES ASSUME NEW k \in 1..Len(stack) PROVE Sound(k)'
    BY <1>1 DEF Frames
  <2>1. Sound(k) /\ stack[k].fn \in Fns /\ k \in Nat
    BY <1>4, FramesFn DEF Inv, Frames
  <2>2. CASE k = Len(stack)
    BY <1>1, <1>3, <2>1, <2>2, TopKept
  <2>3. CASE k < Len(stack)
    <3>1. stack'[k] = stack[k] /\ stack'[k + 1].fn = stack[k + 1].fn /\ k < Len(stack')
      BY <1>1, <2>3
    <3> QED
      BY <1>5, <2>1, <2>3, <3>1, DeepKept
  <2> QED
    BY <1>4, <2>2, <2>3 DEF Stacks
<1>7. WaitlistTrue'
  BY <1>1, <1>3 DEF Inv, WaitlistTrue
<1>8. Listed'
  BY <1>1, <1>3 DEF Inv, Listed, Begun
<1> QED
  BY <1>4, <1>6, <1>7, <1>8 DEF Inv

LEMMA ItrptEndsStep ==
  ASSUME Inv, ItrptEnds
  PROVE  Inv' /\ \A q \in Pids : Live(q) /\ child[q].kind \in Foreground => q \in unlisted' \cup trapped
<1>1. PICK n \in Nat \ {0} : n = Len(stack) /\ Top = stack[n] /\ Top \in Frame /\ Stacks /\ Sound(n)
  BY TopShape DEF Inv, ItrptEnds, At
<1>2. /\ stack' = (IF interactive THEN <<NewList("top", FALSE)>> ELSE <<>>)
      /\ unlisted' = unlisted \cup {stack[k].id : k \in {j \in DOMAIN stack : stack[j].at = "forked"}}
      /\ pending' = FALSE
      /\ UNCHANGED <<waitlist, waiting, interactive, child, signals, trapped, dropped>>
  BY DEF ItrptEnds
<1>3. waitlist \subseteq trapped
  BY <1>1 DEF Sound, ItrptDone, ItrptEnds, At
<1>4. DOMAIN stack = 1..Len(stack)
  BY <1>1 DEF Stacks
<1>5. unlisted \subseteq unlisted' /\ unlisted' \subseteq Pids /\ \A q : Begun(q) => q \in unlisted'
  <2>1. \A k \in DOMAIN stack : stack[k].at = "forked" => stack[k].id \in Pids
    BY <1>4 DEF Inv, Frames, Sound, Shape
  <2> QED
    BY <1>2, <1>4, <2>1 DEF Inv, TypeOK, Begun
<1>6. \A q \in Pids : Live(q) /\ child[q].kind \in Foreground => q \in unlisted' \cup trapped
  BY <1>3, <1>5 DEF Inv, Listed
<1>7. PICK f \in Frame : f = NewList("top", FALSE) /\ f.fn = "top" /\ f.at = "ready"
  BY NewListIs
<1>8. stack' \in Seq(Frame) /\ (stack' = <<f>> \/ stack' = <<>>)
  <2>1. <<>> \in Seq(Frame)
    OBVIOUS
  <2>2. <<f>> \in Seq(Frame)
    BY OneIs
  <2> QED
    BY <1>2, <1>7, <2>1, <2>2
<1>9. Frames'
  <2>1. CASE stack' = <<f>>
    <3>1. Len(stack') = 1 /\ stack'[1] = f
      BY <2>1, OneIs
    <3>2. Calm(1, f)
      BY <1>7 DEF Calm, Lists
    <3>3. Sound(1)'
      BY <3>1, <3>2, CalmSound
    <3>4. \A k \in 1..1 : k = 1
      OBVIOUS
    <3> QED
      BY <3>1, <3>3, <3>4 DEF Frames
  <2>2. CASE stack' = <<>>
    <3>1. Len(stack') = 0
      BY <2>2
    <3> QED
      BY <3>1 DEF Frames
  <2> QED
    BY <1>8, <2>1, <2>2
<1>10. WaitlistTrue' /\ Listed'
  BY <1>2, <1>3, <1>6 DEF WaitlistTrue, Listed, Live
<1>11. TypeOK'
  BY <1>2, <1>5, <1>8 DEF Inv, TypeOK
<1> QED
  BY <1>6, <1>9, <1>10, <1>11 DEF Inv

-----------------------------------------------------------------------------
(* The theorems *)

LEMMA Initially == ASSUME Init PROVE Inv
<1>1. PICK f \in Frame : f = NewList("top", FALSE) /\ f.fn = "top" /\ f.at = "ready"
  BY NewListIs
<1>2. stack = <<f>> /\ Stacks /\ Len(stack) = 1 /\ stack[1] = f
  <2>1. stack = <<f>>
    BY <1>1 DEF Init
  <2> QED
    BY <2>1, OneIs DEF Stacks
<1>3. TypeOK
  <2>1. "command" \in Kinds
    BY DEF Kinds
  <2>2. child \in [Pids -> Child]
    BY <2>1 DEF Init, Child
  <2>3. signals \in 0..MaxSignals
    BY ShellWaitAssumption DEF Init
  <2> QED
    BY <1>2, <2>2, <2>3 DEF Init, TypeOK, Stacks
<1>4. Sound(1)
  <2>1. f.at \notin Woken /\ f.fn \in Lists /\ f.fn \notin Waits
    BY <1>1 DEF Woken, Lists, Waits
  <2>3. ~(1 < Len(stack))
    BY <1>2
  <2>2. Shape(1)
    BY <1>1, <1>2, <2>1, <2>3 DEF Shape
  <2> QED
    BY <1>1, <1>2, <2>1, <2>2 DEF Sound, ForkedTrue, WokeTrue, ItrptDone, Served, NoneLeft
<1>5. Frames
  <2>1. \A k \in 1..1 : k = 1
    OBVIOUS
  <2> QED
    BY <1>2, <1>4, <2>1 DEF Frames
<1>6. WaitlistTrue /\ Listed
  <2>1. \A q \in Pids : ~Live(q)
    BY DEF Init, Live
  <2> QED
    BY <2>1 DEF Init, WaitlistTrue, Listed
<1> QED
  BY <1>3, <1>5, <1>6 DEF Inv

LEMMA NextKeeps == ASSUME Inv, [Next]_vars PROVE Inv'
<1>1. CASE UNCHANGED vars
  <2>1. UNCHANGED <<stack, waitlist, waiting, interactive, child, signals, trapped, unlisted, pending, dropped>>
    BY <1>1 DEF vars, hist
  <2>2. TypeOK'
    BY <2>1 DEF Inv, TypeOK
  <2>3. WaitlistTrue'
    BY <2>1 DEF Inv, WaitlistTrue, Unreaped, Live, Zombie
  <2>4. Listed'
    BY <2>1 DEF Inv, Listed, Live, Begun
  <2>5. Stacks
    BY DEF Inv, TypeOK, Stacks
  <2>6. \A q : (Unreaped(q)' <=> Unreaped(q)) /\ (Reaped(q) => Reaped(q)') /\ child'[q].kind = child[q].kind
    BY <2>1 DEF Unreaped, Live, Zombie, Reaped
  <2>7. Stable /\ \A k : Keeps(k)
    BY <2>1, SameKeeps
  <2>8. Frames'
    <3> SUFFICES ASSUME NEW k \in 1..Len(stack) PROVE Sound(k)'
      BY <2>1 DEF Frames
    <3>1. Sound(k) /\ stack[k].fn \in Fns /\ k \in Nat
      BY <2>5, FramesFn DEF Inv, Frames
    <3>2. CASE k = Len(stack)
      BY <2>1, <2>6, <3>1, <3>2, TopKept
    <3>3. CASE k < Len(stack)
      <4>1. stack'[k] = stack[k] /\ stack'[k + 1].fn = stack[k + 1].fn /\ k < Len(stack')
        BY <2>1, <3>3
      <4> QED
        BY <2>7, <3>1, <3>3, <4>1, DeepKept
    <3> QED
      BY <2>5, <3>2, <3>3 DEF Stacks
  <2> QED
    BY <2>2, <2>3, <2>4, <2>8 DEF Inv
<1>2. CASE \E k \in Kinds : SpawnFails(k)
  <2>1. PICK k \in Kinds : SpawnFails(k)
    BY <1>2
  <2> QED
    BY <2>1, CalmStep DEF SpawnFails, CanSpawn, At
<1>3. CASE BuiltIn
  BY <1>3, CalmStep DEF BuiltIn, At
<1>4. CASE ListenEnds
  BY <1>4, CalmStep DEF ListenEnds, At
<1>5. CASE ShellStep
  BY <1>2, <1>3, <1>4, <1>5, SpawnStep, PutwaitStep, ParsexEndsStep, WhileTestStep, CallWaitStep, RemwaitStep,
     TestWaitingStep, ClearWaitingStep, AfterWaitStep, WaitforReturnsStep, ItrptEndsStep DEF ShellStep
<1> QED
  BY <1>1, <1>5, WaitCommandStep, QuitStep, ItrptStep, TrapStep, ExitStep DEF Next

LEMMA Invariance == Spec => []Inv
<1>1. Init => Inv
  BY Initially
<1>2. Inv /\ [Next]_vars => Inv'
  BY NextKeeps
<1> QED
  BY <1>1, <1>2, PTL DEF Spec

\* The shell's variables keep their types: in particular no activation is ever
\* in a place its routine does not have, whatever handlers run on top of it.
THEOREM ShellWaitTypeTheorem == Spec => []TypeOK
<1>1. Inv => TypeOK
  BY DEF Inv
<1> QED
  BY <1>1, Invariance, PTL

\* waitlist names only children that are still to be reaped, and waitfor gives a
\* command its own status, however many children end in whatever order and
\* whatever signals come; but for the children a trap command has seen.
THEOREM WaitSoundTheorem == Spec => []WaitSound
<1>1. ASSUME Inv PROVE WaitSound
  <2>1. OwnStatus
    <3> SUFFICES ASSUME At("ret"), Top.fn = "waitfor", Top.ign, Top.id \notin trapped
                 PROVE  Reaped(Top.id) /\ Top.res = Top.id
      BY DEF OwnStatus
    <3>1. Has(Top) \/ Expects(Top)
      BY <1>1, TopLoop DEF At, LoopAts
    <3> QED
      BY <3>1 DEF Has, Expects, At, Woken
  <2> QED
    BY <1>1, <2>1 DEF WaitSound, Inv
<1> QED
  BY <1>1, Invariance, PTL

\* When itrpt has ended, after any history of children and signals, every child
\* that was made in the foreground is dead; but for those a trap command has
\* seen, and the one between fork and putwait when the SIGINT came.
THEOREM InterruptWaitsTheorem == Spec => InterruptWaits
<1>1. ASSUME Inv, ItrptEnds
      PROVE  \A q \in Pids : Live(q) /\ child[q].kind \in Foreground => q \in unlisted' \cup trapped
  BY <1>1, ItrptEndsStep
<1>2. Inv => (ItrptEnds => \A q \in Pids : Live(q) /\ child[q].kind \in Foreground => q \in unlisted' \cup trapped)
  BY <1>1
<1> QED
  BY <1>2, Invariance, PTL DEF InterruptWaits
=============================================================================

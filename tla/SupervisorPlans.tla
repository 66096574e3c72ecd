-------------------------- MODULE SupervisorPlans --------------------------
(***************************************************************************)
(* Every plan a supervisor makes for a restart, and the plan of            *)
(* Runtime.stop(), is in order, whatever the tree and the strategies.      *)
(***************************************************************************)
EXTENDS SupervisorInvariant, WellFoundedInduction, TLAPS

\* A leaf is proved by Zenon unless it names another prover.
USE Zenon

-----------------------------------------------------------------------------
(* Sequences.                                                              *)

\* Every non-empty set of natural numbers has a least element.
LEMMA LeastElement ==
    ASSUME NEW N \in SUBSET Nat, N # {}
    PROVE  \E m \in N : \A k \in N : m <= k
<1>1. \A x, y \in Nat : <<x, y>> \in OpToRel(<, Nat) <=> x < y
  BY DEF OpToRel
<1>2. PICK m \in N : \A k \in N : ~(<<k, m>> \in OpToRel(<, Nat))
  BY NatLessThanWellFounded, WFMin
<1>3. \A k \in N : ~(k < m)
  BY <1>1, <1>2
<1> QED
  BY <1>3, SMT

\* The function by which Joined is defined exists.
LEMMA SomeSums ==
    ASSUME NEW ss, NEW n \in Nat
    PROVE  \E f : f = [i \in 0..n |-> IF i = 0 THEN << >> ELSE f[i - 1] \o ss[i]]
<1> DEFINE Step(f, i) == IF i = 0 THEN << >> ELSE f[i - 1] \o ss[i]
           Good(f, m) == f = [i \in 0..m |-> Step(f, i)]
           N == {m \in Nat : ~\E f : Good(f, m)}
<1>1. ASSUME N # {} PROVE FALSE
  <2> HIDE DEF N
  <2>2. PICK m \in N : \A k \in N : m <= k
    BY <1>1, LeastElement DEF N
  <2> HIDE DEF Good
  <2>3. m \in Nat /\ ~\E f : Good(f, m)
    BY <2>2 DEF N
  <2>4. m # 0
    <3>1. 0..0 = {0}
      BY SMT
    <3> DEFINE f == [i \in 0..0 |-> << >>]
    <3>2. f = [i \in 0..0 |-> Step(f, i)]
      BY <3>1
    <3> QED
      BY <2>3, <3>2 DEF Good
  <2>5. m - 1 \in Nat /\ ~(m <= m - 1)
    BY <2>3, <2>4, SMT
  <2>6. PICK f : Good(f, m - 1)
    BY <2>2, <2>5 DEF N
  <2> DEFINE g == [i \in 0..m |-> IF i = m THEN Step(f, m) ELSE f[i]]
  <2>7. ASSUME NEW i \in 0..m PROVE g[i] = Step(g, i)
    <3>1. i = 0 \/ (i - 1 \in 0..m /\ i - 1 # m)
      BY <2>3, <2>7, SMT
    <3>2. Step(g, i) = Step(f, i)
      BY <3>1
    <3>3. g[i] = IF i = m THEN Step(f, m) ELSE f[i]
      BY <2>7
    <3>4. CASE i = m
      <4> HIDE DEF Step, g
      <4> QED
        BY <3>2, <3>3, <3>4
    <3>5. CASE i # m
      <4>1. i \in 0..(m - 1)
        BY <2>3, <2>7, <3>5, SMT
      <4>2. f[i] = Step(f, i)
        BY <2>6, <4>1 DEF Good
      <4> QED
        BY <3>2, <3>3, <3>5, <4>2
    <3> QED
      BY <3>4, <3>5
  <2>8. Good(g, m)
    BY <2>7 DEF Good
  <2> QED
    BY <2>3, <2>8
<1> QED
  BY <1>1

\* Joined puts its sequences together one by one.
LEMMA JoinedIs ==
    ASSUME NEW ss, NEW n \in Nat, n = Len(ss)
    PROVE  \E f : /\ f[0] = << >> /\ \A i \in 1..n : f[i] = f[i - 1] \o ss[i]
                  /\ Joined(ss) = f[n]
<1> DEFINE F(f) == f = [i \in 0..n |-> IF i = 0 THEN << >> ELSE f[i - 1] \o ss[i]]
           f == CHOOSE g : F(g)
<1>1. F(f)
  BY SomeSums
<1>2. Joined(ss) = f[n]
  BY DEF Joined
<1> HIDE DEF f
<1>3. 0 \in 0..n /\ \A i \in 1..n : i \in 0..n /\ i # 0
  BY SMT
<1>4. f[0] = << >>
  BY <1>1, <1>3
<1>5. \A i \in 1..n : f[i] = f[i - 1] \o ss[i]
  BY <1>1, <1>3
<1> QED
  BY <1>2, <1>4, <1>5

\* What is closed under concatenation holds of Joined if it holds of its parts.
LEMMA JoinedIn ==
    ASSUME NEW ss, Len(ss) \in Nat, NEW T, << >> \in T, \A a, b \in T : a \o b \in T,
           \A i \in 1..Len(ss) : ss[i] \in T
    PROVE  Joined(ss) \in T
<1>1. PICK n \in Nat : n = Len(ss)
  OBVIOUS
<1>2. PICK f : /\ f[0] = << >> /\ \A i \in 1..n : f[i] = f[i - 1] \o ss[i]
               /\ Joined(ss) = f[n]
  BY <1>1, JoinedIs
<1> DEFINE N == {i \in 0..n : f[i] \notin T}
<1>3. ASSUME N # {} PROVE FALSE
  <2>1. N \subseteq Nat
    BY <1>1, SMT
  <2> HIDE DEF N
  <2>2. PICK m \in N : \A k \in N : m <= k
    BY <1>3, <2>1, LeastElement
  <2>3. m \in 0..n /\ f[m] \notin T
    BY <2>2 DEF N
  <2>4. m # 0
    BY <1>2, <2>3
  <2>5. m \in 1..n /\ m - 1 \in 0..n /\ ~(m <= m - 1)
    BY <1>1, <2>3, <2>4, SMT
  <2>6. f[m - 1] \in T
    BY <2>2, <2>5 DEF N
  <2> QED
    BY <1>1, <1>2, <2>3, <2>5, <2>6
<1>4. n \in 0..n
  BY <1>1, SMT
<1> QED
  BY <1>2, <1>3, <1>4

\* Where the elements of a concatenation come from.
LEMMA ConcatIs ==
    ASSUME NEW S, NEW a \in Seq(S), NEW b \in Seq(S)
    PROVE  /\ a \o b \in Seq(S) /\ Len(a \o b) = Len(a) + Len(b)
           /\ \A i \in DOMAIN a : i \in DOMAIN (a \o b) /\ (a \o b)[i] = a[i]
           /\ \A i \in DOMAIN b : Len(a) + i \in DOMAIN (a \o b) /\ (a \o b)[Len(a) + i] = b[i]
           /\ \A i \in DOMAIN (a \o b) : i \in DOMAIN a \/ (i > Len(a) /\ i - Len(a) \in DOMAIN b
                                                          /\ i = Len(a) + (i - Len(a)))
BY SMT

\* What a concatenation holds.
LEMMA ConcatRange ==
    ASSUME NEW S, NEW a \in Seq(S), NEW b \in Seq(S)
    PROVE  \A x : x \in Range(a \o b) <=> x \in Range(a) \/ x \in Range(b)
<1>1. PICK c : c = a \o b
  OBVIOUS
<1>2. /\ \A i \in DOMAIN a : i \in DOMAIN c /\ c[i] = a[i]
      /\ \A i \in DOMAIN b : Len(a) + i \in DOMAIN c /\ c[Len(a) + i] = b[i]
      /\ \A i \in DOMAIN c : i \in DOMAIN a \/ (i - Len(a) \in DOMAIN b /\ i = Len(a) + (i - Len(a)))
  BY <1>1, ConcatIs, SMT
<1>3. ASSUME NEW x \in Range(c) PROVE x \in Range(a) \/ x \in Range(b)
  <2>1. PICK i \in DOMAIN c : x = c[i]
    BY <1>3 DEF Range
  <2>2. CASE i \in DOMAIN a
    BY <1>2, <2>1, <2>2 DEF Range
  <2>3. ASSUME NEW j \in DOMAIN b, i = Len(a) + j PROVE x \in Range(b)
    BY <1>2, <2>1, <2>3 DEF Range
  <2> QED
    BY <1>2, <2>2, <2>3
<1>4. ASSUME NEW x \in Range(a) PROVE x \in Range(c)
  BY <1>2, <1>4 DEF Range
<1>5. ASSUME NEW x \in Range(b) PROVE x \in Range(c)
  BY <1>2, <1>5 DEF Range
<1> QED
  BY <1>1, <1>3, <1>4, <1>5

\* Joined has what its parts have.
LEMMA JoinedHas ==
    ASSUME NEW ss, Len(ss) \in Nat, NEW S, \A i \in 1..Len(ss) : ss[i] \in Seq(S)
    PROVE  /\ Joined(ss) \in Seq(S)
           /\ \A x : x \in Range(Joined(ss)) <=> \E i \in 1..Len(ss) : x \in Range(ss[i])
<1>1. PICK n \in Nat : n = Len(ss)
  OBVIOUS
<1>2. PICK f : /\ f[0] = << >> /\ \A i \in 1..n : f[i] = f[i - 1] \o ss[i]
               /\ Joined(ss) = f[n]
  BY <1>1, JoinedIs
<1> DEFINE P(m) == /\ f[m] \in Seq(S)
                   /\ \A x : x \in Range(f[m]) <=> \E i \in 1..m : x \in Range(ss[i])
           N == {i \in 0..n : ~P(i)}
<1>3. ASSUME N # {} PROVE FALSE
  <2>1. N \subseteq Nat
    BY <1>1, SMT
  <2> HIDE DEF N
  <2>2. PICK m \in N : \A k \in N : m <= k
    BY <1>3, <2>1, LeastElement
  <2> HIDE DEF P
  <2>3. m \in 0..n /\ ~P(m)
    BY <2>2 DEF N
  <2>4. m # 0
    <3>1. P(0)
      <4>1. 1..0 = {} /\ << >> \in Seq(S) /\ DOMAIN << >> = {}
        BY SMT
      <4> QED
        BY <1>2, <4>1 DEF P, Range
    <3> QED
      BY <2>3, <3>1
  <2>5. m \in 1..n /\ m - 1 \in 0..n /\ ~(m <= m - 1)
    BY <1>1, <2>3, <2>4, SMT
  <2>6. P(m - 1)
    BY <2>2, <2>5 DEF N
  <2>7. \A i : i \in 1..m <=> i \in 1..(m - 1) \/ i = m
    BY <1>1, <2>5, SMT
  <2>8. f[m] = f[m - 1] \o ss[m] /\ ss[m] \in Seq(S) /\ f[m - 1] \in Seq(S)
    BY <1>1, <1>2, <2>5, <2>6 DEF P
  <2>9. f[m] \in Seq(S)
    BY <2>8, ConcatIs, SMT
  <2>10. \A x : x \in Range(f[m]) <=> x \in Range(f[m - 1]) \/ x \in Range(ss[m])
    BY <2>8, ConcatRange
  <2> QED
    BY <2>3, <2>6, <2>7, <2>9, <2>10 DEF P
<1>4. n \in 0..n
  BY <1>1, SMT
<1>5. P(n)
  BY <1>3, <1>4
<1> QED
  BY <1>1, <1>2, <1>5

\* What comes later in a concatenation.
LEMMA ConcatAfter ==
    ASSUME NEW S, NEW a \in Seq(S), NEW b \in Seq(S)
    PROVE  /\ \A i \in DOMAIN a : \A o : After(a, i, o) => After(a \o b, i, o)
           /\ \A i \in DOMAIN b : \A o : After(b, i, o) => After(a \o b, Len(a) + i, o)
           /\ \A i \in DOMAIN a : \A o \in Range(b) : After(a \o b, i, o)
<1>1. PICK c : c = a \o b
  OBVIOUS
<1>2. /\ \A i \in DOMAIN a : i \in DOMAIN c /\ c[i] = a[i]
      /\ \A i \in DOMAIN b : Len(a) + i \in DOMAIN c /\ c[Len(a) + i] = b[i]
  BY <1>1, ConcatIs, SMT
<1>3. /\ \A i, j \in DOMAIN b : j > i => Len(a) + j > Len(a) + i
      /\ \A i \in DOMAIN a, j \in DOMAIN b : Len(a) + j > i
  BY SMT
<1>4. \A i \in DOMAIN a : \A o : After(a, i, o) => After(c, i, o)
  BY <1>2 DEF After
<1>5. ASSUME NEW i \in DOMAIN b, NEW o, After(b, i, o) PROVE After(c, Len(a) + i, o)
  <2>1. PICK j \in DOMAIN b : j > i /\ b[j] = o
    BY <1>5 DEF After
  <2>2. Len(a) + j > Len(a) + i
    BY <1>3, <2>1
  <2> QED
    BY <1>2, <2>1, <2>2 DEF After
<1>6. ASSUME NEW i \in DOMAIN a, NEW o \in Range(b) PROVE After(c, i, o)
  <2>1. PICK j \in DOMAIN b : b[j] = o
    BY <1>6 DEF Range
  <2>2. Len(a) + j > i
    BY <1>3, <2>1
  <2> QED
    BY <1>2, <2>1, <2>2 DEF After
<1> QED
  BY <1>1, <1>4, <1>5, <1>6

-----------------------------------------------------------------------------
(* The plans.                                                              *)

\* The elements of a sequence over S are in S.
LEMMA SeqRange ==
    ASSUME NEW S, NEW q \in Seq(S)
    PROVE  /\ Len(q) \in Nat /\ DOMAIN q = 1..Len(q)
           /\ \A i \in 1..Len(q) : q[i] \in S
           /\ Range(q) \subseteq S
<1>1. Len(q) \in Nat /\ DOMAIN q = 1..Len(q) /\ \A i \in 1..Len(q) : q[i] \in S
  BY SMT
<1> QED
  BY <1>1 DEF Range

\* reversed() keeps the elements.
LEMMA BackwardsIs ==
    ASSUME NEW S, NEW q \in Seq(S)
    PROVE  /\ Backwards(q) \in Seq(S) /\ Len(Backwards(q)) = Len(q)
           /\ Range(Backwards(q)) = Range(q)
<1>1. /\ Backwards(q) \in Seq(S) /\ Len(Backwards(q)) = Len(q)
      /\ DOMAIN Backwards(q) = 1..Len(q) /\ DOMAIN q = 1..Len(q)
  BY SMT DEF Backwards
<1>2. \A i \in 1..Len(q) : (Len(q) - i) + 1 \in 1..Len(q) /\ Backwards(q)[i] = q[(Len(q) - i) + 1]
  BY SMT DEF Backwards
<1>3. \A i \in 1..Len(q) : Backwards(q)[(Len(q) - i) + 1] = q[i]
  BY <1>2, SMT
<1>4. ASSUME NEW x \in Range(Backwards(q)) PROVE x \in Range(q)
  BY <1>1, <1>2, <1>4 DEF Range
<1>5. ASSUME NEW i \in 1..Len(q) PROVE q[i] \in Range(Backwards(q))
  <2>1. PICK j \in 1..Len(q) : j = (Len(q) - i) + 1
    BY <1>2, <1>5
  <2> QED
    BY <1>1, <1>3, <1>5, <2>1 DEF Range
<1>6. ASSUME NEW x \in Range(q) PROVE x \in Range(Backwards(q))
  BY <1>1, <1>5, <1>6 DEF Range
<1> QED
  BY <1>1, <1>4, <1>6

\* A sequence with an element put before it.
LEMMA LedIs ==
    ASSUME NEW S, NEW h \in S, NEW q \in Seq(S)
    PROVE  /\ <<h>> \o q \in Seq(S) /\ <<h>> \o q # << >>
           /\ 1 \in DOMAIN (<<h>> \o q) /\ (<<h>> \o q)[1] = h /\ Head(<<h>> \o q) = h
           /\ \A i \in DOMAIN (<<h>> \o q) :
                 i = 1 \/ (i > 1 /\ i - 1 \in DOMAIN q /\ (<<h>> \o q)[i] = q[i - 1])
           /\ \A x : x \in Range(<<h>> \o q) <=> x = h \/ x \in Range(q)
           /\ \A o \in Range(q) : After(<<h>> \o q, 1, o)
<1>1. <<h>> \in Seq(S) /\ DOMAIN <<h>> = {1} /\ <<h>>[1] = h /\ Len(<<h>>) = 1
  BY SMT
<1>2. /\ <<h>> \o q \in Seq(S) /\ <<h>> \o q # << >>
      /\ 1 \in DOMAIN (<<h>> \o q) /\ (<<h>> \o q)[1] = h /\ Head(<<h>> \o q) = h
      /\ \A i \in DOMAIN (<<h>> \o q) :
                 i = 1 \/ (i > 1 /\ i - 1 \in DOMAIN q /\ (<<h>> \o q)[i] = q[i - 1])
  BY SMT
<1>3. \A x : x \in Range(<<h>>) <=> x = h
  BY <1>1 DEF Range
<1>4. \A x : x \in Range(<<h>> \o q) <=> x \in Range(<<h>>) \/ x \in Range(q)
  BY <1>1, ConcatRange
<1>5. \A i \in DOMAIN <<h>> : \A o \in Range(q) : After(<<h>> \o q, i, o)
  BY <1>1, ConcatAfter
<1>6. \A o \in Range(q) : After(<<h>> \o q, 1, o)
  BY <1>1, <1>5
<1>7. \A x : x \in Range(<<h>> \o q) <=> x = h \/ x \in Range(q)
  BY <1>3, <1>4
<1> QED
  BY <1>2, <1>6, <1>7

\* One operation for each agent of a list.
LEMMA OpsOfIs ==
    ASSUME NEW o \in {"stop_agent", "start_agent"}, NEW q \in Seq(Agents)
    PROVE  LET m == [i \in 1..Len(q) |-> Op(o, q[i])]
           IN  /\ m \in Seq(Ops)
               /\ \A x : x \in Range(m) <=> \E a \in Range(q) : x = Op(o, a)
<1> DEFINE m == [i \in 1..Len(q) |-> Op(o, q[i])]
<1>1. Len(q) \in Nat /\ DOMAIN q = 1..Len(q) /\ \A i \in 1..Len(q) : q[i] \in Agents
  BY SMT
<1>2. \A a \in Agents : Op(o, a) \in Ops
  BY SMT DEF Op, Ops
<1>3. m \in [1..Len(q) -> Ops]
  BY <1>1, <1>2
<1>4. m \in Seq(Ops)
  BY <1>1, <1>3, SMT
<1>5. \A x : x \in Range(m) <=> \E a \in Range(q) : x = Op(o, a)
  BY <1>1 DEF Range
<1> QED
  BY <1>4, <1>5

StopOf(p) == Op(IF p \in Sups THEN "stop_loop" ELSE "stop_agent", p)

\* The children of the supervisor come only after its loop, and all of them do.
Leads(q, s) ==
    \A i \in DOMAIN q :
        /\ q[i].who \in Range(Kids[s]) => \E j \in DOMAIN q : j < i /\ q[j] = Op("stop_loop", s)
        /\ q[i] = Op("stop_loop", s) => \A a \in Range(Kids[s]) : After(q, i, Op("stop_agent", a))

\* The tree has two levels: below a child supervisor there are agents only.
LEMMA KidsAreAgents ==
    ASSUME Tree, NEW p \in Sups, p # Root
    PROVE  Kids[p] \in Seq(Agents)
<1>1. Kids[p] \in Seq(KidsOf(Kids)) /\ Range(Kids[p]) \subseteq Agents
  BY DEF Tree
<1>2. ASSUME NEW S, NEW q \in Seq(S), NEW T, \A i \in DOMAIN q : q[i] \in T PROVE q \in Seq(T)
  BY <1>2, SMT
<1> QED
  BY <1>1, <1>2 DEF Range

\* Starting a child supervisor starts its children after it.
LEMMA StartOpsIs ==
    ASSUME Tree, NEW p \in KidsOf(Kids)
    PROVE  /\ StartOps(p) \in Seq(Ops) /\ Fills(StartOps(p))
           /\ \A x : x \in Range(StartOps(p)) <=>
                 x = StartOf(p) \/ (p \in Sups /\ \E a \in Range(Kids[p]) : x = Op("start_agent", a))
<1> DEFINE h == StartOf(p)
           m == IF p \in Sups THEN [i \in 1..Len(Kids[p]) |-> Op("start_agent", Kids[p][i])]
                ELSE << >>
<1>1. p \in Sups <=> p \notin Agents
  BY DEF Tree
<1>2. h \in Ops
  BY <1>1, SMT DEF StartOf, Op, Ops
<1>3. p \in Sups => Kids[p] \in Seq(Agents)
  BY KidsAreAgents DEF Tree
<1>4. /\ m \in Seq(Ops)
      /\ \A x : x \in Range(m) <=> p \in Sups /\ \E a \in Range(Kids[p]) : x = Op("start_agent", a)
  <2>1. CASE p \in Sups
    <3>1. PICK q \in Seq(Agents) : q = Kids[p]
      BY <1>3, <2>1
    <3> DEFINE k == [i \in 1..Len(q) |-> Op("start_agent", q[i])]
    <3>2. "start_agent" \in {"stop_agent", "start_agent"}
      BY SMT
    <3>3. k \in Seq(Ops) /\ \A x : x \in Range(k) <=> \E a \in Range(q) : x = Op("start_agent", a)
      BY <3>1, <3>2, OpsOfIs
    <3>4. m = k
      BY <2>1, <3>1
    <3> QED
      BY <2>1, <3>1, <3>3, <3>4
  <2>2. CASE p \notin Sups
    <3>1. << >> \in Seq(Ops) /\ DOMAIN << >> = {}
      BY SMT
    <3> QED
      BY <2>2, <3>1 DEF Range
  <2> QED
    BY <2>1, <2>2
<1>5. StartOps(p) = <<h>> \o m
  <2>1. CASE p \in Sups
    BY <1>1, <2>1 DEF StartOps, StartOf
  <2>2. CASE p \notin Sups
    <3>1. \A x : <<x>> = <<x>> \o << >>
      BY SMT
    <3> QED
      BY <1>1, <2>2, <3>1 DEF StartOps, StartOf
  <2> QED
    BY <2>1, <2>2
<1> HIDE DEF m, h
<1>6. PICK q : q = StartOps(p)
  OBVIOUS
<1>7. /\ q \in Seq(Ops) /\ q[1] = h
      /\ \A i \in DOMAIN q : i = 1 \/ (i - 1 \in DOMAIN m /\ q[i] = m[i - 1])
      /\ \A x : x \in Range(q) <=> x = h \/ x \in Range(m)
      /\ \A o \in Range(m) : After(q, 1, o)
  <2>1. m \in Seq(Ops) /\ q = <<h>> \o m
    BY <1>4, <1>5, <1>6
  <2> QED
    BY <1>2, <2>1, LedIs, SMT
<1>8. ASSUME NEW i \in DOMAIN q, q[i].op = "start_loop", NEW a \in Range(Kids[q[i].who])
      PROVE  After(q, i, Op("start_agent", a))
  <2>1. i = 1
    <3> SUFFICES ASSUME i # 1 PROVE FALSE
      OBVIOUS
    <3>1. q[i] \in Range(m)
      BY <1>7 DEF Range
    <3>2. PICK b : q[i] = Op("start_agent", b)
      BY <1>4, <3>1
    <3> QED
      BY <1>8, <3>2, SMT DEF Op
  <2>2. p \in Sups /\ q[i].who = p
    <3>1. q[i] = StartOf(p)
      BY <1>7, <2>1 DEF h
    <3> QED
      BY <1>8, <3>1, SMT DEF StartOf, Op
  <2>3. Op("start_agent", a) \in Range(m)
    BY <1>4, <1>8, <2>2
  <2> QED
    BY <1>7, <2>1, <2>3
<1>9. Fills(q)
  BY <1>8 DEF Fills
<1> QED
  BY <1>4, <1>6, <1>7, <1>9 DEF h

\* Stopping a child supervisor stops its loop first and then its children.
LEMMA StopOpsIs ==
    ASSUME Tree, NEW p \in KidsOf(Kids)
    PROVE  /\ StopOps(p) \in Seq(Ops)
           /\ \A x : x \in Range(StopOps(p)) <=>
                 x = StopOf(p) \/ (p \in Sups /\ \E a \in Range(Kids[p]) : x = Op("stop_agent", a))
           /\ p \in Range(Kids[Root]) => \A s \in Sups : s # Root => Leads(StopOps(p), s)
<1> DEFINE h == StopOf(p)
           m == IF p \in Sups
                THEN [i \in 1..Len(Kids[p]) |-> Op("stop_agent", Backwards(Kids[p])[i])]
                ELSE << >>
<1>1. p \in Sups <=> p \notin Agents
  BY DEF Tree
<1>2. h \in Ops
  BY <1>1, SMT DEF StopOf, Op, Ops
<1>3. p \in Sups => Kids[p] \in Seq(Agents)
  BY KidsAreAgents DEF Tree
<1>4. /\ m \in Seq(Ops)
      /\ \A x : x \in Range(m) <=> p \in Sups /\ \E a \in Range(Kids[p]) : x = Op("stop_agent", a)
  <2>1. CASE p \in Sups
    <3>1. PICK q : q = Backwards(Kids[p])
      OBVIOUS
    <3>2. q \in Seq(Agents) /\ Len(q) = Len(Kids[p]) /\ Range(q) = Range(Kids[p])
      BY <1>3, <2>1, <3>1, BackwardsIs
    <3> DEFINE k == [i \in 1..Len(q) |-> Op("stop_agent", q[i])]
    <3>3. "stop_agent" \in {"stop_agent", "start_agent"}
      BY SMT
    <3>4. k \in Seq(Ops) /\ \A x : x \in Range(k) <=> \E a \in Range(q) : x = Op("stop_agent", a)
      BY <3>2, <3>3, OpsOfIs
    <3>5. m = k
      BY <2>1, <3>1, <3>2
    <3> QED
      BY <2>1, <3>2, <3>4, <3>5
  <2>2. CASE p \notin Sups
    <3>1. << >> \in Seq(Ops) /\ DOMAIN << >> = {}
      BY SMT
    <3> QED
      BY <2>2, <3>1 DEF Range
  <2> QED
    BY <2>1, <2>2
<1>5. StopOps(p) = <<h>> \o m
  <2>1. CASE p \in Sups
    BY <1>1, <2>1 DEF StopOps, StopOf
  <2>2. CASE p \notin Sups
    <3>1. \A x : <<x>> = <<x>> \o << >>
      BY SMT
    <3> QED
      BY <1>1, <2>2, <3>1 DEF StopOps, StopOf
  <2> QED
    BY <2>1, <2>2
<1> HIDE DEF m, h
<1>6. PICK q : q = StopOps(p)
  OBVIOUS
<1>7. /\ q \in Seq(Ops) /\ 1 \in DOMAIN q /\ q[1] = h
      /\ \A i \in DOMAIN q : i = 1 \/ (1 < i /\ i - 1 \in DOMAIN m /\ q[i] = m[i - 1])
      /\ \A x : x \in Range(q) <=> x = h \/ x \in Range(m)
      /\ \A o \in Range(m) : After(q, 1, o)
  <2>1. m \in Seq(Ops) /\ q = <<h>> \o m
    BY <1>4, <1>5, <1>6
  <2> QED
    BY <1>2, <2>1, LedIs, SMT
<1>8. ASSUME p \in Range(Kids[Root]), NEW s \in Sups, s # Root, NEW i \in DOMAIN q
      PROVE  /\ q[i].who \in Range(Kids[s]) => \E j \in DOMAIN q : j < i /\ q[j] = Op("stop_loop", s)
             /\ q[i] = Op("stop_loop", s) => \A a \in Range(Kids[s]) : After(q, i, Op("stop_agent", a))
  <2>1. CASE i = 1
    <3>1. q[i] = StopOf(p)
      BY <1>7, <2>1 DEF h
    <3>2. q[i].who = p /\ (q[i] = Op("stop_loop", s) => p \in Sups /\ p = s)
      BY <3>1, SMT DEF StopOf, Op
    <3>3. p \notin Range(Kids[s])
      BY <1>8 DEF Tree
    <3>4. ASSUME q[i] = Op("stop_loop", s), NEW a \in Range(Kids[s]) PROVE After(q, i, Op("stop_agent", a))
      BY <1>4, <1>7, <2>1, <3>2, <3>4
    <3> QED
      BY <3>2, <3>3, <3>4
  <2>2. CASE i # 1
    <3>1. q[i] \in Range(m) /\ 1 < i
      BY <1>7, <2>2 DEF Range
    <3>2. PICK b \in Range(Kids[p]) : p \in Sups /\ q[i] = Op("stop_agent", b)
      BY <1>4, <3>1
    <3>3. q[i].who = b /\ q[i] # Op("stop_loop", s)
      BY <3>2, SMT DEF Op
    <3>4. b \in Range(Kids[s]) => q[1] = Op("stop_loop", s)
      BY <1>7, <1>8, <3>2 DEF Tree, StopOf, h
    <3> QED
      BY <1>7, <3>1, <3>3, <3>4
  <2> QED
    BY <2>1, <2>2
<1> QED
  BY <1>4, <1>6, <1>7, <1>8 DEF h, Leads

\* Two parts that start whole supervisors do so together.
LEMMA FillsConcat ==
    ASSUME NEW a \in Seq(Ops), NEW b \in Seq(Ops), Fills(a), Fills(b)
    PROVE  Fills(a \o b)
<1>1. PICK c : c = a \o b
  OBVIOUS
<1>2. /\ \A i \in DOMAIN a : c[i] = a[i]
      /\ \A i \in DOMAIN b : c[Len(a) + i] = b[i]
      /\ \A i \in DOMAIN c : i \in DOMAIN a \/ (i - Len(a) \in DOMAIN b /\ i = Len(a) + (i - Len(a)))
  BY <1>1, ConcatIs, SMT
<1>3. /\ \A i \in DOMAIN a : \A o : After(a, i, o) => After(c, i, o)
      /\ \A i \in DOMAIN b : \A o : After(b, i, o) => After(c, Len(a) + i, o)
  BY <1>1, ConcatAfter
<1>4. ASSUME NEW i \in DOMAIN c, c[i].op = "start_loop", NEW k \in Range(Kids[c[i].who])
      PROVE  After(c, i, Op("start_agent", k))
  <2>1. CASE i \in DOMAIN a
    BY <1>2, <1>3, <1>4, <2>1 DEF Fills
  <2>2. ASSUME NEW j \in DOMAIN b, i = Len(a) + j PROVE After(c, i, Op("start_agent", k))
    BY <1>2, <1>3, <1>4, <2>2 DEF Fills
  <2> QED
    BY <1>2, <2>1, <2>2
<1> QED
  BY <1>1, <1>4 DEF Fills

\* Two parts that stop loops before children do so together.
LEMMA LeadsConcat ==
    ASSUME NEW s, NEW a \in Seq(Ops), NEW b \in Seq(Ops), Leads(a, s), Leads(b, s)
    PROVE  Leads(a \o b, s)
<1>1. PICK c : c = a \o b
  OBVIOUS
<1>2. /\ \A i \in DOMAIN a : i \in DOMAIN c /\ c[i] = a[i]
      /\ \A i \in DOMAIN b : Len(a) + i \in DOMAIN c /\ c[Len(a) + i] = b[i]
      /\ \A i \in DOMAIN c : i \in DOMAIN a \/ (i - Len(a) \in DOMAIN b /\ i = Len(a) + (i - Len(a)))
  BY <1>1, ConcatIs, SMT
<1>3. /\ \A i \in DOMAIN a : \A o : After(a, i, o) => After(c, i, o)
      /\ \A i \in DOMAIN b : \A o : After(b, i, o) => After(c, Len(a) + i, o)
  BY <1>1, ConcatAfter
<1>4. \A i, j \in DOMAIN b : j < i => Len(a) + j < Len(a) + i
  BY SMT
<1> DEFINE Fine(i) ==
      /\ c[i].who \in Range(Kids[s]) => \E j \in DOMAIN c : j < i /\ c[j] = Op("stop_loop", s)
      /\ c[i] = Op("stop_loop", s) => \A k \in Range(Kids[s]) : After(c, i, Op("stop_agent", k))
<1>5. ASSUME NEW i \in DOMAIN a PROVE Fine(i)
  <2>1. /\ a[i].who \in Range(Kids[s]) => \E j \in DOMAIN a : j < i /\ a[j] = Op("stop_loop", s)
        /\ a[i] = Op("stop_loop", s) => \A k \in Range(Kids[s]) : After(a, i, Op("stop_agent", k))
    BY <1>5 DEF Leads
  <2> QED
    BY <1>2, <1>3, <1>5, <2>1
<1>6. ASSUME NEW i \in DOMAIN b PROVE Fine(Len(a) + i)
  <2>1. /\ b[i].who \in Range(Kids[s]) => \E j \in DOMAIN b : j < i /\ b[j] = Op("stop_loop", s)
        /\ b[i] = Op("stop_loop", s) => \A k \in Range(Kids[s]) : After(b, i, Op("stop_agent", k))
    BY <1>6 DEF Leads
  <2>2. c[Len(a) + i] = b[i]
    BY <1>2, <1>6
  <2>3. ASSUME b[i].who \in Range(Kids[s])
        PROVE  \E j \in DOMAIN c : j < Len(a) + i /\ c[j] = Op("stop_loop", s)
    <3>1. PICK j \in DOMAIN b : j < i /\ b[j] = Op("stop_loop", s)
      BY <2>1, <2>3
    <3> QED
      BY <1>2, <1>4, <1>6, <3>1
  <2> QED
    BY <1>3, <1>6, <2>1, <2>2, <2>3
<1>7. \A i \in DOMAIN c : Fine(i)
  <2> HIDE DEF Fine
  <2> QED
    BY <1>2, <1>5, <1>6
<1> QED
  BY <1>1, <1>7 DEF Leads

\* Starting a list of children.
LEMMA StartAllIs ==
    ASSUME Tree, NEW ps \in Seq(KidsOf(Kids))
    PROVE  /\ StartAll(ps) \in Seq(Ops) /\ Fills(StartAll(ps))
           /\ \A x : x \in Range(StartAll(ps)) <=> \E p \in Range(ps) :
                 x = StartOf(p) \/ (p \in Sups /\ \E a \in Range(Kids[p]) : x = Op("start_agent", a))
<1> DEFINE ss == [i \in 1..Len(ps) |-> StartOps(ps[i])]
           T == {q \in Seq(Ops) : Fills(q)}
<1>1. Len(ps) \in Nat /\ DOMAIN ps = 1..Len(ps) /\ \A i \in 1..Len(ps) : ps[i] \in KidsOf(Kids)
  BY SeqRange
<1>2. Len(ss) = Len(ps)
  BY <1>1, SMT
<1>3. \A i \in 1..Len(ps) : ss[i] = StartOps(ps[i]) /\ ss[i] \in T
  BY <1>1, StartOpsIs
<1>4. << >> \in T
  <2>1. << >> \in Seq(Ops) /\ DOMAIN << >> = {}
    BY SMT
  <2> QED
    BY <2>1 DEF Fills
<1>5. ASSUME NEW a \in T, NEW b \in T PROVE a \o b \in T
  <2>1. a \o b \in Seq(Ops)
    BY <1>5, ConcatIs, SMT
  <2> QED
    BY <1>5, <2>1, FillsConcat
<1>6. StartAll(ps) = Joined(ss)
  BY DEF StartAll
<1> HIDE DEF ss
<1>7. Joined(ss) \in T
  <2> HIDE DEF T
  <2> QED
    BY <1>1, <1>2, <1>3, <1>4, <1>5, JoinedIn
<1>8. \A x : x \in Range(Joined(ss)) <=> \E i \in 1..Len(ps) : x \in Range(ss[i])
  BY <1>1, <1>2, <1>3, JoinedHas
<1> DEFINE In(x, p) == x = StartOf(p) \/ (p \in Sups /\ \E a \in Range(Kids[p]) : x = Op("start_agent", a))
<1>9. \A x : \A i \in 1..Len(ps) : x \in Range(ss[i]) <=> In(x, ps[i])
  BY <1>1, <1>3, StartOpsIs
<1>10. \A x : x \in Range(Joined(ss)) <=> \E p \in Range(ps) : In(x, p)
  <2> HIDE DEF In
  <2>1. \A p : p \in Range(ps) <=> \E i \in 1..Len(ps) : p = ps[i]
    BY <1>1 DEF Range
  <2>2. ASSUME NEW x \in Range(Joined(ss)) PROVE \E p \in Range(ps) : In(x, p)
    <3>1. PICK i \in 1..Len(ps) : x \in Range(ss[i])
      BY <1>8, <2>2
    <3>2. In(x, ps[i]) /\ ps[i] \in Range(ps)
      BY <1>9, <2>1, <3>1
    <3> QED
      BY <3>2
  <2>3. ASSUME NEW x, NEW p \in Range(ps), In(x, p) PROVE x \in Range(Joined(ss))
    <3>1. PICK i \in 1..Len(ps) : p = ps[i]
      BY <2>1
    <3>2. x \in Range(ss[i])
      BY <1>9, <2>3, <3>1
    <3> QED
      BY <1>8, <3>2
  <2> QED
    BY <2>2, <2>3
<1> QED
  BY <1>6, <1>7, <1>10

\* Stopping a list of children.
LEMMA StopAllIs ==
    ASSUME Tree, NEW ps \in Seq(KidsOf(Kids))
    PROVE  /\ StopAll(ps) \in Seq(Ops)
           /\ \A x : x \in Range(StopAll(ps)) <=> \E p \in Range(ps) :
                 x = StopOf(p) \/ (p \in Sups /\ \E a \in Range(Kids[p]) : x = Op("stop_agent", a))
           /\ Range(ps) \subseteq Range(Kids[Root]) =>
                 \A s \in Sups : s # Root => Leads(StopAll(ps), s)
<1> DEFINE ss == [i \in 1..Len(ps) |-> StopOps(ps[i])]
<1>1. Len(ps) \in Nat /\ DOMAIN ps = 1..Len(ps) /\ \A i \in 1..Len(ps) : ps[i] \in KidsOf(Kids)
  BY SeqRange
<1>2. Len(ss) = Len(ps)
  BY <1>1, SMT
<1>3. \A i \in 1..Len(ps) : ss[i] = StopOps(ps[i]) /\ ss[i] \in Seq(Ops)
  BY <1>1, StopOpsIs
<1>4. StopAll(ps) = Joined(ss)
  BY DEF StopAll
<1> HIDE DEF ss
<1>5. /\ Joined(ss) \in Seq(Ops)
      /\ \A x : x \in Range(Joined(ss)) <=> \E i \in 1..Len(ps) : x \in Range(ss[i])
  BY <1>1, <1>2, <1>3, JoinedHas
<1> DEFINE In(x, p) == x = StopOf(p) \/ (p \in Sups /\ \E a \in Range(Kids[p]) : x = Op("stop_agent", a))
<1>6. \A x : \A i \in 1..Len(ps) : x \in Range(ss[i]) <=> In(x, ps[i])
  BY <1>1, <1>3, StopOpsIs
<1>7. \A x : x \in Range(Joined(ss)) <=> \E p \in Range(ps) : In(x, p)
  <2> HIDE DEF In
  <2>1. \A p : p \in Range(ps) <=> \E i \in 1..Len(ps) : p = ps[i]
    BY <1>1 DEF Range
  <2>2. ASSUME NEW x \in Range(Joined(ss)) PROVE \E p \in Range(ps) : In(x, p)
    <3>1. PICK i \in 1..Len(ps) : x \in Range(ss[i])
      BY <1>5, <2>2
    <3>2. In(x, ps[i]) /\ ps[i] \in Range(ps)
      BY <1>6, <2>1, <3>1
    <3> QED
      BY <3>2
  <2>3. ASSUME NEW x, NEW p \in Range(ps), In(x, p) PROVE x \in Range(Joined(ss))
    <3>1. PICK i \in 1..Len(ps) : p = ps[i]
      BY <2>1
    <3>2. x \in Range(ss[i])
      BY <1>6, <2>3, <3>1
    <3> QED
      BY <1>5, <3>2
  <2> QED
    BY <2>2, <2>3
<1>8. ASSUME Range(ps) \subseteq Range(Kids[Root]), NEW s \in Sups, s # Root
      PROVE  Leads(Joined(ss), s)
  <2> DEFINE T == {q \in Seq(Ops) : Leads(q, s)}
  <2>1. \A i \in 1..Len(ps) : ss[i] \in T
    <3>1. \A i \in 1..Len(ps) : ps[i] \in Range(Kids[Root])
      BY <1>1, <1>8 DEF Range
    <3> QED
      BY <1>1, <1>3, <1>8, <3>1, StopOpsIs
  <2>2. << >> \in T
    <3>1. << >> \in Seq(Ops) /\ DOMAIN << >> = {}
      BY SMT
    <3> QED
      BY <3>1 DEF Leads
  <2>3. ASSUME NEW a \in T, NEW b \in T PROVE a \o b \in T
    <3>1. a \o b \in Seq(Ops)
      BY <2>3, ConcatIs, SMT
    <3> QED
      BY <2>3, <3>1, LeadsConcat
  <2>4. Joined(ss) \in T
    <3> HIDE DEF T
    <3> QED
      BY <1>1, <1>2, <2>1, <2>2, <2>3, JoinedIn
  <2> QED
    BY <2>4
<1> QED
  BY <1>4, <1>5, <1>7, <1>8

\* The first and the second part of a restart of the children P.
StopItem(x, P) ==
    \E c \in P : x = StopOf(c) \/ (c \in Sups /\ \E k \in Range(Kids[c]) : x = Op("stop_agent", k))
StartItem(x, P) ==
    \E c \in P : x = StartOf(c) \/ (c \in Sups /\ \E k \in Range(Kids[c]) : x = Op("start_agent", k))
StopPart(q, P)  == q \in Seq(Ops) /\ \A x \in Range(q) : StopItem(x, P)
StartPart(q, P) == q \in Seq(Ops) /\ Fills(q) /\ \A x : x \in Range(q) <=> StartItem(x, P)

\* REST_FOR_ONE concerns the child that crashed and siblings after it.
LEMMA FromIs ==
    ASSUME Tree, NEW s \in Sups, NEW p \in Range(Kids[s])
    PROVE  /\ From(s, p) \in Seq(KidsOf(Kids)) /\ p \in Range(From(s, p))
           /\ Range(From(s, p)) \subseteq Range(Kids[s])
<1>1. PICK q \in Seq(KidsOf(Kids)) : q = Kids[s]
  BY DEF Tree
<1>2. Len(q) \in Nat /\ DOMAIN q = 1..Len(q)
  BY SMT
<1> DEFINE i == CHOOSE j \in 1..Len(q) : q[j] = p
<1>3. i \in 1..Len(q) /\ q[i] = p
  <2>1. \E j \in 1..Len(q) : q[j] = p
    BY <1>1, <1>2 DEF Range
  <2> QED
    BY <2>1
<1>4. From(s, p) = SubSeq(q, i, Len(q))
  BY <1>1 DEF From
<1> HIDE DEF i
<1>5. PICK f : f = SubSeq(q, i, Len(q))
  OBVIOUS
<1>6. /\ f \in Seq(KidsOf(Kids)) /\ 1 \in DOMAIN f /\ f[1] = q[i]
      /\ \A j \in DOMAIN f : (i + j) - 1 \in 1..Len(q) /\ f[j] = q[(i + j) - 1]
  BY <1>2, <1>3, <1>5, SMT
<1>7. p \in Range(f)
  BY <1>3, <1>6 DEF Range
<1>8. Range(f) \subseteq Range(q)
  <2>1. ASSUME NEW j \in DOMAIN f PROVE f[j] \in Range(q)
    <3>1. PICK k \in DOMAIN q : f[j] = q[k]
      BY <1>2, <1>6, <2>1
    <3> QED
      BY <3>1 DEF Range
  <2> QED
    BY <2>1 DEF Range
<1> QED
  BY <1>1, <1>4, <1>5, <1>6, <1>7, <1>8

\* Every strategy stops a set of children and then starts all of them.
LEMMA RestartIs ==
    ASSUME Tree, NEW s \in Sups, NEW p \in Range(Kids[s]),
           setting.strategy[s] \in {"ONE_FOR_ONE", "ONE_FOR_ALL", "REST_FOR_ONE"}
    PROVE  \E a, b, P : /\ P \subseteq Range(Kids[s]) /\ p \in P
                       /\ StopPart(a, P) /\ StartPart(b, P)
                       /\ RestartOps(s, p) = a \o b
<1>1. p \in KidsOf(Kids)
  BY DEF Tree
<1>2. StartPart(StartOps(p), {p})
  BY <1>1, StartOpsIs DEF StartPart, StartItem
<1>3. StopPart(StopOps(p), {p})
  BY <1>1, StopOpsIs DEF StopPart, StopItem
<1>4. ASSUME NEW ps \in Seq(KidsOf(Kids)) PROVE StartPart(StartAll(ps), Range(ps))
  BY StartAllIs DEF StartPart, StartItem
<1>5. ASSUME NEW ps \in Seq(KidsOf(Kids)) PROVE StopPart(StopAll(ps), Range(ps))
  BY StopAllIs DEF StopPart, StopItem
<1>6. "ONE_FOR_ONE" # "ONE_FOR_ALL" /\ "ONE_FOR_ONE" # "REST_FOR_ONE" /\ "ONE_FOR_ALL" # "REST_FOR_ONE"
  BY SMT
<1>7. CASE setting.strategy[s] = "ONE_FOR_ONE" /\ p \in Agents
  <2>1. RestartOps(s, p) = StartOps(p)
    BY <1>6, <1>7, SMT DEF RestartOps
  <2>2. StartOps(p) = << >> \o StartOps(p)
    BY <1>1, StartOpsIs, SMT
  <2>3. StopPart(<< >>, {p})
    <3>1. << >> \in Seq(Ops) /\ DOMAIN << >> = {}
      BY SMT
    <3> QED
      BY <3>1 DEF StopPart, Range
  <2> QED
    BY <1>2, <2>1, <2>2, <2>3
<1>8. CASE setting.strategy[s] = "ONE_FOR_ONE" /\ p \notin Agents
  <2>1. RestartOps(s, p) = StopOps(p) \o StartOps(p)
    BY <1>6, <1>8, SMT DEF RestartOps
  <2> QED
    BY <1>2, <1>3, <2>1
<1>9. CASE setting.strategy[s] = "ONE_FOR_ALL"
  <2>1. RestartOps(s, p) = StopAll(Kids[s]) \o StartAll(Kids[s])
    BY <1>6, <1>9, SMT DEF RestartOps
  <2>2. Kids[s] \in Seq(KidsOf(Kids))
    BY DEF Tree
  <2> QED
    BY <1>4, <1>5, <2>1, <2>2
<1>10. CASE setting.strategy[s] = "REST_FOR_ONE"
  <2>1. RestartOps(s, p) = StopAll(Backwards(From(s, p))) \o StartAll(From(s, p))
    BY <1>6, <1>10, SMT DEF RestartOps
  <2>2. PICK f : f = From(s, p)
    OBVIOUS
  <2>3. f \in Seq(KidsOf(Kids)) /\ p \in Range(f) /\ Range(f) \subseteq Range(Kids[s])
    BY <2>2, FromIs
  <2>4. Backwards(f) \in Seq(KidsOf(Kids)) /\ Range(Backwards(f)) = Range(f)
    BY <2>3, BackwardsIs
  <2>5. StartPart(StartAll(f), Range(f)) /\ StopPart(StopAll(Backwards(f)), Range(f))
    BY <1>4, <1>5, <2>3, <2>4
  <2> QED
    BY <2>1, <2>2, <2>3, <2>5
<1> QED
  BY <1>7, <1>8, <1>9, <1>10

\* The plan of a restart, whichever the strategy.
LEMMA RestartInOrder ==
    ASSUME Tree, NEW s \in Sups, NEW p \in Range(Kids[s]),
           setting.strategy[s] \in {"ONE_FOR_ONE", "ONE_FOR_ALL", "REST_FOR_ONE"}
    PROVE  LET q == <<Op("backoff", p)>> \o RestartOps(s, p)
           IN  /\ q \in Seq(Ops) /\ q # << >> /\ Head(q) = Op("backoff", p)
               /\ PlanOk(s, q) /\ StartOf(p) \in Range(q)
               /\ \A t \in Sups : \A k \in Range(Kids[t]) :
                     t # s /\ Op("start_agent", k) \in Range(q) => Op("start_loop", t) \in Range(q)
<1>1. PICK a, b, P : /\ P \subseteq Range(Kids[s]) /\ p \in P
                     /\ StopPart(a, P) /\ StartPart(b, P)
                     /\ RestartOps(s, p) = a \o b
  BY RestartIs
<1> DEFINE h == Op("backoff", p)
<1>2. PICK c : c = a \o b
  OBVIOUS
<1>3. PICK q : q = <<h>> \o c
  OBVIOUS
<1>4. a \in Seq(Ops) /\ b \in Seq(Ops) /\ c \in Seq(Ops)
  <2>1. a \in Seq(Ops) /\ b \in Seq(Ops)
    BY <1>1 DEF StopPart, StartPart
  <2> QED
    BY <1>2, <2>1, ConcatIs, SMT
<1>5. \A x : x \in Range(c) <=> x \in Range(a) \/ x \in Range(b)
  BY <1>2, <1>4, ConcatRange
<1>6. \A k \in P : k \in KidsOf(Kids) /\ k \in Reach(s) /\ (k \in Agents \/ k \in Sups)
  BY <1>1 DEF Tree, Reach
<1>7. \A k \in P : k \in Sups => k # Root /\ s = Root /\ Range(Kids[k]) \subseteq Agents
  BY <1>1, <1>6 DEF Tree
<1>8. h \in Ops /\ h.op = "backoff" /\ h.who = p
  BY <1>1, <1>6, SMT DEF Op, Ops
<1> HIDE DEF h
<1>9. /\ q \in Seq(Ops) /\ q # << >> /\ 1 \in DOMAIN q /\ q[1] = h /\ Head(q) = h
      /\ \A i \in DOMAIN q : i = 1 \/ (i > 1 /\ i - 1 \in DOMAIN c /\ q[i] = c[i - 1])
      /\ \A x : x \in Range(q) <=> x = h \/ x \in Range(c)
  BY <1>3, <1>4, <1>8, LedIs, SMT
<1>10. ASSUME NEW x \in Range(a)
       PROVE  x.op \in Stops /\ Proper(x) /\ x.who \in Reach(s) /\ StartOf(x.who) \in Range(b)
  <2>1. PICK k \in P : x = StopOf(k) \/ (k \in Sups /\ \E j \in Range(Kids[k]) : x = Op("stop_agent", j))
    BY <1>1, <1>10 DEF StopPart, StopItem
  <2>2. CASE x = StopOf(k)
    <3>1. x.who = k /\ x.op = IF k \in Sups THEN "stop_loop" ELSE "stop_agent"
      BY <2>2, SMT DEF StopOf, Op
    <3>2. x.op \in Stops /\ Proper(x)
      BY <1>6, <3>1, SMT DEF Proper, Stops
    <3>3. StartOf(k) \in Range(b)
      BY <1>1 DEF StartPart, StartItem
    <3> QED
      BY <1>6, <3>1, <3>2, <3>3
  <2>3. ASSUME k \in Sups, NEW j \in Range(Kids[k]), x = Op("stop_agent", j)
        PROVE  x.op \in Stops /\ Proper(x) /\ x.who \in Reach(s) /\ StartOf(x.who) \in Range(b)
    <3>1. x.who = j /\ x.op = "stop_agent"
      BY <2>3, SMT DEF Op
    <3>2. j \in Agents /\ j \notin Sups /\ j \in Reach(s)
      BY <1>7, <2>3 DEF Tree, Reach
    <3>3. x.op \in Stops /\ Proper(x)
      BY <3>1, <3>2, SMT DEF Proper, Stops
    <3>4. Op("start_agent", j) \in Range(b)
      BY <1>1, <2>3 DEF StartPart, StartItem
    <3> QED
      BY <3>1, <3>2, <3>3, <3>4 DEF StartOf
  <2> QED
    BY <2>1, <2>2, <2>3
<1>11. ASSUME NEW x \in Range(b)
       PROVE  /\ x.op \notin Stops /\ Proper(x) /\ x.who \in Reach(s)
              /\ \A t \in Sups : \A k \in Range(Kids[t]) :
                    t # s /\ x = Op("start_agent", k) => Op("start_loop", t) \in Range(b)
  <2>1. PICK k \in P : x = StartOf(k) \/ (k \in Sups /\ \E j \in Range(Kids[k]) : x = Op("start_agent", j))
    BY <1>1, <1>11 DEF StartPart, StartItem
  <2>2. CASE x = StartOf(k)
    <3>1. x.who = k /\ x.op = IF k \in Sups THEN "start_loop" ELSE "start_agent"
      BY <2>2, SMT DEF StartOf, Op
    <3>2. x.op \notin Stops /\ Proper(x)
      BY <1>6, <3>1, SMT DEF Proper, Stops
    <3>3. \A t \in Sups : \A j \in Range(Kids[t]) : t # s => x # Op("start_agent", j)
      <4>1. \A j : x = Op("start_agent", j) => j = k
        BY <3>1, SMT DEF Op
      <4> QED
        BY <1>1, <4>1 DEF Tree
    <3> QED
      BY <1>6, <3>1, <3>2, <3>3
  <2>3. ASSUME k \in Sups, NEW j \in Range(Kids[k]), x = Op("start_agent", j)
        PROVE  /\ x.op \notin Stops /\ Proper(x) /\ x.who \in Reach(s)
               /\ \A t \in Sups : \A l \in Range(Kids[t]) :
                    t # s /\ x = Op("start_agent", l) => Op("start_loop", t) \in Range(b)
    <3>1. x.who = j /\ x.op = "start_agent"
      BY <2>3, SMT DEF Op
    <3>2. j \in Agents /\ j \in Reach(s)
      BY <1>7, <2>3 DEF Tree, Reach
    <3>3. x.op \notin Stops /\ Proper(x)
      BY <3>1, <3>2, SMT DEF Proper, Stops
    <3>4. Op("start_loop", k) \in Range(b)
      BY <1>1, <2>3 DEF StartPart, StartItem, StartOf
    <3>5. \A l : x = Op("start_agent", l) => l = j
      BY <2>3, SMT DEF Op
    <3>6. \A t \in Sups : j \in Range(Kids[t]) => t = k
      BY <2>3 DEF Tree
    <3> QED
      BY <3>1, <3>2, <3>3, <3>4, <3>5, <3>6
  <2> QED
    BY <2>1, <2>2, <2>3
<1>12. \A i \in DOMAIN q : Proper(q[i]) /\ q[i].who \in Reach(s)
  <2>1. Proper(h) /\ h.who \in Reach(s)
    BY <1>1, <1>6, <1>8, SMT DEF Proper
  <2>2. \A i \in DOMAIN q : q[i] \in Range(q)
    BY DEF Range
  <2> QED
    BY <1>5, <1>9, <1>10, <1>11, <2>1, <2>2
<1>13. Fills(q)
  <2>1. Fills(a)
    <3>1. \A i \in DOMAIN a : a[i].op \in Stops
      BY <1>10 DEF Range
    <3>2. "start_loop" \notin Stops
      BY SMT DEF Stops
    <3> QED
      BY <3>1, <3>2 DEF Fills
  <2>2. Fills(b)
    BY <1>1 DEF StartPart
  <2>3. Fills(<<h>>)
    <3>1. DOMAIN <<h>> = {1} /\ <<h>>[1].op # "start_loop"
      BY <1>8, SMT
    <3> QED
      BY <3>1 DEF Fills
  <2>4. Fills(c)
    BY <1>2, <1>4, <2>1, <2>2, FillsConcat
  <2>5. <<h>> \in Seq(Ops)
    BY <1>8, SMT
  <2> QED
    BY <1>3, <1>4, <2>3, <2>4, <2>5, FillsConcat
<1>14. ASSUME NEW i \in DOMAIN q, q[i].op \in Stops PROVE After(q, i, StartOf(q[i].who))
  <2>1. i # 1
    BY <1>8, <1>9, <1>14, SMT DEF Stops
  <2>2. i - 1 \in DOMAIN c /\ q[i] = c[i - 1] /\ i = 1 + (i - 1)
    BY <1>9, <2>1, SMT
  <2>3. PICK j \in DOMAIN c : q[i] = c[j] /\ i = 1 + j
    BY <2>2
  <2>4. PICK x : x = q[i]
    OBVIOUS
  <2>5. j \in DOMAIN a \/ (j - Len(a) \in DOMAIN b /\ c[j] = b[j - Len(a)])
    BY <1>2, <1>4, <2>3, SMT
  <2>6. j \in DOMAIN a
    BY <1>11, <1>14, <2>3, <2>4, <2>5 DEF Range
  <2>7. x \in Range(a)
    <3>1. c[j] = a[j]
      BY <1>2, <1>4, <2>6, SMT
    <3> QED
      BY <2>3, <2>4, <2>6, <3>1 DEF Range
  <2>8. After(c, j, StartOf(x.who))
    BY <1>2, <1>4, <1>10, <2>6, <2>7, ConcatAfter
  <2>9. After(q, Len(<<h>>) + j, StartOf(x.who))
    <3>1. <<h>> \in Seq(Ops)
      BY <1>8, SMT
    <3> QED
      BY <1>3, <1>4, <2>3, <2>8, <3>1, ConcatAfter
  <2>10. Len(<<h>>) = 1
    BY SMT
  <2> QED
    BY <2>3, <2>4, <2>9, <2>10
<1>15. StartOf(p) \in Range(b)
  BY <1>1 DEF StartPart, StartItem
<1>16. ASSUME NEW t \in Sups, NEW k \in Range(Kids[t]), t # s, Op("start_agent", k) \in Range(q)
       PROVE  Op("start_loop", t) \in Range(b)
  <2>1. PICK x : x = Op("start_agent", k)
    OBVIOUS
  <2>2. x # h /\ x.op \notin Stops
    BY <1>8, <2>1, SMT DEF Op, Stops
  <2>3. x \in Range(b)
    BY <1>5, <1>9, <1>10, <1>16, <2>1, <2>2
  <2> QED
    BY <1>11, <1>16, <2>1, <2>3
<1>17. PlanOk(s, q)
  BY <1>12, <1>13, <1>14 DEF PlanOk, Restores
<1>18. q = <<Op("backoff", p)>> \o RestartOps(s, p)
  BY <1>1, <1>2, <1>3 DEF h
<1> QED
  BY <1>5, <1>9, <1>15, <1>16, <1>17, <1>18 DEF h

\* Runtime.stop() stops every agent, and each loop before the children of it.
LEMMA StopTreeInOrder ==
    ASSUME Tree
    PROVE  /\ StopTree \in Seq(Ops) /\ StopTree # << >> /\ Head(StopTree) = Op("stop_loop", Root)
           /\ \A i \in DOMAIN StopTree : Proper(StopTree[i]) /\ StopTree[i].op \in Stops
           /\ \A a \in Agents : Op("stop_agent", a) \in Range(StopTree)
           /\ \A s \in Sups : s # Root => Ahead(StopTree, s)
<1> DEFINE h == Op("stop_loop", Root)
<1>1. PICK ps : ps = Backwards(Kids[Root])
  OBVIOUS
<1>2. ps \in Seq(KidsOf(Kids)) /\ Range(ps) = Range(Kids[Root])
  BY <1>1, BackwardsIs DEF Tree
<1>3. PICK c : c = StopAll(ps)
  OBVIOUS
<1>4. /\ c \in Seq(Ops)
      /\ \A x : x \in Range(c) <=> \E p \in Range(ps) :
                 x = StopOf(p) \/ (p \in Sups /\ \E a \in Range(Kids[p]) : x = Op("stop_agent", a))
      /\ \A s \in Sups : s # Root => Leads(c, s)
  BY <1>2, <1>3, StopAllIs
<1>5. PICK q : q = StopTree
  OBVIOUS
<1>6. h \in Ops /\ h.op = "stop_loop" /\ h.who = Root
  BY SMT DEF Op, Ops, Tree
<1>7. q = <<h>> \o c
  BY <1>1, <1>3, <1>5 DEF StopTree
<1> HIDE DEF h
<1>8. /\ q \in Seq(Ops) /\ q # << >> /\ 1 \in DOMAIN q /\ q[1] = h /\ Head(q) = h
      /\ \A x : x \in Range(q) <=> x = h \/ x \in Range(c)
  BY <1>4, <1>6, <1>7, LedIs, SMT
<1>9. \A p \in Range(ps) : p \in KidsOf(Kids) /\ (p \in Agents \/ p \in Sups) /\ p # Root
  BY <1>2, ZenonT(30) DEF Tree
<1>10. ASSUME NEW x \in Range(q) PROVE Proper(x) /\ x.op \in Stops
  <2>1. CASE x = h
    BY <1>6, <2>1, SMT DEF Proper, Stops, Tree
  <2>2. ASSUME NEW p \in Range(ps), x = StopOf(p) PROVE Proper(x) /\ x.op \in Stops
    BY <1>9, <2>2, SMT DEF Proper, Stops, StopOf, Op
  <2>3. ASSUME NEW p \in Range(ps), p \in Sups, NEW a \in Range(Kids[p]), x = Op("stop_agent", a)
        PROVE  Proper(x) /\ x.op \in Stops
    <3>1. a \in Agents
      BY <1>9, <2>3 DEF Tree
    <3> QED
      BY <2>3, <3>1, SMT DEF Proper, Stops, Op
  <2> QED
    BY <1>4, <1>8, <1>10, <2>1, <2>2, <2>3
<1>11. ASSUME NEW a \in Agents PROVE Op("stop_agent", a) \in Range(q)
  <2>1. a \notin Sups /\ ParentOf(a) \in Sups /\ a \in Range(Kids[ParentOf(a)])
    BY DEF Tree
  <2>2. CASE ParentOf(a) = Root
    BY <1>2, <1>4, <1>8, <2>1, <2>2 DEF StopOf
  <2>3. CASE ParentOf(a) # Root
    <3>1. ParentOf(a) \in Range(ps)
      BY <1>2, <2>1, <2>3 DEF Tree
    <3> QED
      BY <1>4, <1>8, <2>1, <3>1
  <2> QED
    BY <2>2, <2>3
<1>12. ASSUME NEW s \in Sups, s # Root PROVE Ahead(q, s)
  <2>1. <<h>> \in Seq(Ops) /\ DOMAIN <<h>> = {1} /\ <<h>>[1] = h
    BY <1>6, SMT
  <2>2. h # Op("stop_loop", s) /\ h.who \notin Range(Kids[s])
    <3>1. h # Op("stop_loop", s)
      BY <1>6, <1>12, SMT DEF Op
    <3> QED
      BY <1>6, <1>12, <3>1 DEF Tree
  <2>3. Leads(<<h>>, s)
    BY <2>1, <2>2 DEF Leads
  <2>4. Leads(q, s)
    BY <1>4, <1>7, <1>12, <2>1, <2>3, LeadsConcat
  <2> DEFINE N == {i \in DOMAIN q : q[i] = Op("stop_loop", s)}
  <2>5. DOMAIN q \subseteq Nat
    BY <1>8, SMT
  <2>6. N # {}
    <3>1. s \in Range(ps)
      BY <1>2, <1>12 DEF Tree
    <3>2. Op("stop_loop", s) \in Range(q)
      BY <1>4, <1>8, <3>1 DEF StopOf
    <3> QED
      BY <3>2 DEF Range
  <2> HIDE DEF N
  <2>7. PICK i \in N : \A k \in N : i <= k
    BY <2>5, <2>6, LeastElement DEF N
  <2>8. i \in DOMAIN q /\ q[i] = Op("stop_loop", s)
    BY <2>7 DEF N
  <2>9. ASSUME NEW j \in 1..(i - 1), q[j].who \in Range(Kids[s]) PROVE FALSE
    <3>1. j \in DOMAIN q /\ \A k \in DOMAIN q : k < j => ~(i <= k)
      BY <1>8, <2>8, <2>9, SMT
    <3>2. PICK k \in DOMAIN q : k < j /\ q[k] = Op("stop_loop", s)
      BY <2>4, <2>9, <3>1 DEF Leads
    <3> QED
      BY <2>7, <3>1, <3>2 DEF N
  <2>10. \A a \in Range(Kids[s]) : After(q, i, Op("stop_agent", a))
    BY <2>4, <2>8 DEF Leads
  <2> QED
    BY <2>8, <2>9, <2>10 DEF Ahead
<1>13. \A i \in DOMAIN q : q[i] \in Range(q)
  BY DEF Range
<1> QED
  BY <1>5, <1>8, <1>10, <1>11, <1>12, <1>13 DEF h

\* The conclusion of this module.
LEMMA PlansInOrder ==
    ASSUME Tree, \A s \in Sups : setting.strategy[s] \in {"ONE_FOR_ONE", "ONE_FOR_ALL", "REST_FOR_ONE"}
    PROVE  Planned
BY RestartInOrder, StopTreeInOrder DEF Planned, RestartsFit, StopTreeFits
=============================================================================

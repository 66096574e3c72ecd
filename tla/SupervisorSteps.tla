-------------------------- MODULE SupervisorSteps --------------------------
(***************************************************************************)
(* Every step of the supervision tree preserves its invariant.             *)
(***************************************************************************)
EXTENDS SupervisorInvariant, TLAPS

\* A leaf is proved by Zenon unless it names another prover.
USE Zenon

\* What taking off the head leaves.
LEMMA TailIs ==
    ASSUME NEW S, NEW q \in Seq(S), q # << >>
    PROVE  /\ Tail(q) \in Seq(S) /\ 1 \in DOMAIN q /\ Head(q) = q[1] /\ q[1] \in S
           /\ \A i \in DOMAIN Tail(q) : i + 1 \in DOMAIN q /\ i + 1 # 1 /\ Tail(q)[i] = q[i + 1]
           /\ \A i \in DOMAIN q : i # 1 => /\ i - 1 \in DOMAIN Tail(q) /\ Tail(q)[i - 1] = q[i]
                                           /\ (i - 1) + 1 = i
BY SMT

\* The positions of a sequence that has grown by one.
LEMMA AppendIs ==
    ASSUME NEW S, NEW q \in Seq(S), NEW e \in S
    PROVE  /\ Append(q, e) \in Seq(S)
           /\ \A i \in DOMAIN q : i \in DOMAIN Append(q, e) /\ Append(q, e)[i] = q[i]
           /\ Len(q) + 1 \in DOMAIN Append(q, e) /\ Append(q, e)[Len(q) + 1] = e
           /\ \A i \in DOMAIN Append(q, e) : i \in DOMAIN q \/ i = Len(q) + 1
BY SMT

\* What comes later still does when the head is gone.
LEMMA TailAfter ==
    ASSUME NEW S, NEW q \in Seq(S), q # << >>
    PROVE  \A i \in DOMAIN Tail(q) : \A o : After(q, i + 1, o) => After(Tail(q), i, o)
<1> SUFFICES ASSUME NEW i \in DOMAIN Tail(q), NEW o, After(q, i + 1, o)
             PROVE  After(Tail(q), i, o)
  OBVIOUS
<1>1. PICK j \in DOMAIN q : j > i + 1 /\ q[j] = o
  BY DEF After
<1>2. j - 1 \in DOMAIN Tail(q) /\ Tail(q)[j - 1] = q[j] /\ j - 1 > i
  BY <1>1, TailIs, SMT
<1> QED
  BY <1>1, <1>2 DEF After

\* SupervisorAssumption at hand.
LEMMA TreeIs ==
    ASSUME setting \in Settings, Agents = KidsOf(Kids) \ Sups
    PROVE  /\ Tree
           /\ \A s \in Sups : setting.strategy[s] \in {"ONE_FOR_ONE", "ONE_FOR_ALL", "REST_FOR_ONE"}
<1>1. /\ Root \in Sups \ KidsOf(Kids) /\ Runtime \notin Sups \cup KidsOf(Kids)
      /\ Kids \in [Sups -> Seq(KidsOf(Kids))]
      /\ \A s \in Sups \ {Root} : s \in Range(Kids[Root]) /\ Range(Kids[s]) \cap Sups = {}
      /\ \A s, t \in Sups : s # t => Range(Kids[s]) \cap Range(Kids[t]) = {}
      /\ setting.strategy \in [Sups -> {"ONE_FOR_ONE", "ONE_FOR_ALL", "REST_FOR_ONE"}]
  BY SupervisorAssumption DEF Kids, Sups
<1>2. \A p : p \in KidsOf(Kids) <=> \E s \in Sups : p \in Range(Kids[s])
  BY DEF KidsOf, Sups
<1> HIDE DEF Sups
<1>3. \A p \in KidsOf(Kids) : ParentOf(p) \in Sups /\ p \in Range(Kids[ParentOf(p)])
  BY <1>2 DEF ParentOf
<1>4. \A p : p \in KidsOf(Kids) <=> p \in Agents \/ (p \in Sups /\ p # Root)
  BY <1>1, <1>2
<1>5. \A s \in Sups : s # Root => s \in Range(Kids[Root]) /\ Range(Kids[s]) \subseteq Agents
  BY <1>1, <1>2
<1>6. \A s, t \in Sups : \A p \in Range(Kids[s]) : p \in Range(Kids[t]) => s = t
  BY <1>1
<1>7. \A s \in Sups : Kids[s] \in Seq(KidsOf(Kids)) /\ Range(Kids[s]) \subseteq KidsOf(Kids)
  BY <1>1, <1>2
<1>8. Agents \cap Sups = {}
  OBVIOUS
<1> QED
  BY <1>1, <1>3, <1>4, <1>5, <1>6, <1>7, <1>8 DEF Tree

\* The parent of a child, and what a supervisor's plan may reach.
LEMMA ParentIs ==
    ASSUME Tree
    PROVE  /\ \A s \in Sups : \A p \in Range(Kids[s]) : ParentOf(p) = s
           /\ \A s \in Sups : s \notin Reach(s) /\ (s # Root => Reach(s) \subseteq Agents)
           /\ \A s \in Sups : Range(Kids[s]) \subseteq Reach(s) /\ Reach(s) \subseteq KidsOf(Kids)
           /\ \A a \in Agents : ParentOf(a) \in Sups /\ a \in Range(Kids[ParentOf(a)])
           /\ \A s \in Sups : s # Root => ParentOf(s) = Root
<1> USE DEF Tree
<1>1. \A s \in Sups : \A p \in Range(Kids[s]) : ParentOf(p) = s
  OBVIOUS
<1>2. \A s \in Sups : s \notin Reach(s) /\ (s # Root => Reach(s) \subseteq Agents)
  BY DEF Reach
<1>3. \A s \in Sups : Range(Kids[s]) \subseteq Reach(s) /\ Reach(s) \subseteq KidsOf(Kids)
  BY DEF Reach
<1> QED
  BY <1>1, <1>2, <1>3

\* The parts of an operation.
LEMMA OpIs ==
    /\ \A o, p : Op(o, p).op = o /\ Op(o, p).who = p
    /\ \A o, p, r, t : Op(o, p) = Op(r, t) <=> o = r /\ p = t
    /\ \A e \in Ops : e = Op(e.op, e.who) /\ e.who \in Parties
BY SMT DEF Op, Ops, Parties

\* A stop that is not the head of the plan is still ahead in the rest.
LEMMA AheadTail ==
    ASSUME NEW s, NEW q \in Seq(Ops), q # << >>, Ahead(q, s), Head(q) # Op("stop_loop", s)
    PROVE  Ahead(Tail(q), s)
<1>1. PICK i \in DOMAIN q : /\ q[i] = Op("stop_loop", s)
                           /\ \A j \in 1..(i - 1) : q[j].who \notin Range(Kids[s])
                           /\ \A a \in Range(Kids[s]) : After(q, i, Op("stop_agent", a))
  BY DEF Ahead
<1>2. PICK t : t = Tail(q)
  OBVIOUS
<1>3. /\ Head(q) = q[1]
      /\ \A k \in DOMAIN q : k # 1 => k - 1 \in DOMAIN t /\ t[k - 1] = q[k] /\ (k - 1) + 1 = k
      /\ \A k \in DOMAIN t : k + 1 \in DOMAIN q /\ t[k] = q[k + 1]
  BY <1>2, TailIs, SMT
<1>4. i # 1
  BY <1>1, <1>3
<1>5. i - 1 \in DOMAIN t /\ t[i - 1] = q[i] /\ (i - 1) + 1 = i
  BY <1>3, <1>4
<1>6. \A a \in Range(Kids[s]) : After(t, i - 1, Op("stop_agent", a))
  <2>1. \A k \in DOMAIN t : \A o : After(q, k + 1, o) => After(t, k, o)
    BY <1>2, TailAfter
  <2>2. PICK k \in DOMAIN t : k = i - 1 /\ k + 1 = i
    BY <1>5
  <2>3. \A a \in Range(Kids[s]) : After(q, k + 1, Op("stop_agent", a))
    BY <1>1, <2>2, SMT
  <2>4. \A a \in Range(Kids[s]) : After(t, k, Op("stop_agent", a))
    BY <2>1, <2>3
  <2> QED
    BY <2>2, <2>4
<1>7. \A j \in 1..((i - 1) - 1) : t[j].who \notin Range(Kids[s])
  <2>1. \A j \in 1..((i - 1) - 1) : j + 1 \in 1..(i - 1) /\ t[j] = q[j + 1]
    BY <1>2, <1>1, <1>4, SMT
  <2> QED
    BY <1>1, <2>1
<1> QED
  BY <1>1, <1>2, <1>5, <1>6, <1>7 DEF Ahead

-----------------------------------------------------------------------------
(* Steps: the tree stays what it is, and the variables keep their types.   *)

\* What a step leaves alone, it leaves alone in everything defined from it.
LEMMA Same ==
    ASSUME setting' = setting, DOMAIN st' = DOMAIN st
    PROVE  /\ Kids' = Kids /\ Sups' = Sups /\ Agents' = Agents /\ Actors' = Actors
           /\ Ops' = Ops /\ Events' = Events /\ StopTree' = StopTree
           /\ \A p : ParentOf(p)' = ParentOf(p)
           /\ \A o : Proper(o)' <=> Proper(o)
           /\ \A s, q : PlanOk(s, q)' <=> PlanOk(s, q)
           /\ \A s, q : MailOk(s, q)' <=> MailOk(s, q)
           /\ \A s, q : Ahead(q, s)' <=> Ahead(q, s)
<1>1. Kids' = Kids
  BY DEF Kids
<1>2. Sups' = Sups /\ Agents' = Agents
  BY <1>1 DEF Sups, Agents
<1>3. Actors' = Actors
  BY <1>2 DEF Actors
<1>4. Ops' = Ops /\ Events' = Events
  BY <1>2 DEF Ops, Events
<1>5. StopTree' = StopTree
  BY <1>1, <1>2 DEF StopTree, StopAll, StopOps
<1>6. \A p : ParentOf(p)' = ParentOf(p)
  BY <1>1, <1>2 DEF ParentOf
<1>7. \A o : Proper(o)' <=> Proper(o)
  BY <1>2 DEF Proper
<1>8. \A s, q : PlanOk(s, q)' <=> PlanOk(s, q)
  <2>1. \A s : Reach(s)' = Reach(s)
    BY <1>1 DEF Reach
  <2>2. \A q : Restores(q)' <=> Restores(q)
    BY <1>2 DEF Restores, StartOf
  <2>3. \A q : Fills(q)' <=> Fills(q)
    BY <1>1 DEF Fills
  <2> QED
    BY <1>7, <2>1, <2>2, <2>3 DEF PlanOk
<1>9. \A s, q : MailOk(s, q)' <=> MailOk(s, q)
  BY <1>1, <1>2 DEF MailOk
<1>10. \A s, q : Ahead(q, s)' <=> Ahead(q, s)
  BY <1>1 DEF Ahead
<1> QED
  BY <1>1, <1>2, <1>3, <1>4, <1>5, <1>6, <1>7, <1>8, <1>9, <1>10

\* The tree in every reachable state.
LEMMA TreeHere ==
    ASSUME TypeOK, Orderly
    PROVE  Tree /\ \A s \in Sups : setting.strategy[s] \in {"ONE_FOR_ONE", "ONE_FOR_ALL", "REST_FOR_ONE"}
<1>1. setting \in Settings /\ Agents = KidsOf(Kids) \ Sups
  BY DEF TypeOK, Orderly
<1> QED
  BY <1>1, TreeIs

\* The operation an actor is at.
LEMMA HeadIs ==
    ASSUME TypeOK, Orderly, NEW x \in Actors, plan[x] # << >>
    PROVE  /\ 1 \in DOMAIN plan[x] /\ Head(plan[x]) = plan[x][1] /\ Head(plan[x]) \in Ops
           /\ Head(plan[x]) = Op(Head(plan[x]).op, Target(x)) /\ Tail(plan[x]) \in Seq(Ops)
           /\ Acts(x, "stop_agent") \/ Acts(x, "start_agent") => Target(x) \in Agents
           /\ Acts(x, "stop_loop") \/ Acts(x, "start_loop") => Target(x) \in Sups
           /\ x # Runtime => /\ x \in Sups /\ Target(x) \in Reach(x) /\ Target(x) # x
                             /\ Target(x) \in Sups => x = Root /\ Target(x) # Root
           /\ x = Runtime => stopping /\ Head(plan[x]).op \in Stops
<1>1. plan[x] \in Seq(Ops)
  BY DEF TypeOK
<1>2. 1 \in DOMAIN plan[x] /\ Head(plan[x]) = plan[x][1] /\ plan[x][1] \in Ops /\ Tail(plan[x]) \in Seq(Ops)
  BY <1>1, TailIs, SMT
<1>3. Head(plan[x]) = Op(Head(plan[x]).op, Target(x))
  BY <1>2, OpIs DEF Target
<1>4. Tree
  BY TreeHere
<1>5. Proper(Head(plan[x]))
  BY <1>2 DEF Orderly, PlanOk, Actors
<1>6. /\ Acts(x, "stop_agent") \/ Acts(x, "start_agent") => Target(x) \in Agents
      /\ Acts(x, "stop_loop") \/ Acts(x, "start_loop") => Target(x) \in Sups
  BY <1>5, SMT DEF Proper, Acts, Target
<1>7. ASSUME x # Runtime PROVE x \in Sups /\ Target(x) \in Reach(x)
  BY <1>2, <1>7 DEF Orderly, PlanOk, Actors, Target
<1>8. ASSUME x # Runtime
      PROVE  Target(x) # x /\ (Target(x) \in Sups => x = Root /\ Target(x) # Root)
  <2>1. Target(x) # x /\ (x # Root => Target(x) \in Agents) /\ Target(x) \in KidsOf(Kids)
    BY <1>4, <1>7, <1>8, ParentIs
  <2> QED
    BY <1>4, <2>1 DEF Tree
<1>9. x = Runtime => stopping /\ Head(plan[x]).op \in Stops
  BY <1>2 DEF Orderly
<1> QED
  BY <1>2, <1>3, <1>6, <1>7, <1>8, <1>9

\* The operation an actor is at.
LEMMA AtIs ==
    ASSUME TypeOK, Orderly, NEW x \in Actors, NEW o, Acts(x, o)
    PROVE  plan[x] # << >> /\ At(x, o, Target(x)) /\ \A r, p : At(x, r, p) => r = o /\ p = Target(x)
<1>1. plan[x] # << >> /\ Head(plan[x]).op = o
  BY DEF Acts
<1>2. Head(plan[x]) = Op(o, Target(x))
  BY <1>1, HeadIs
<1>3. ASSUME NEW r, NEW p PROVE At(x, r, p) <=> r = o /\ p = Target(x)
  BY <1>1, <1>2, SMT DEF At, Op
<1> QED
  BY <1>1, <1>3

\* The tree is not changed, a stop is not withdrawn and a stray message stays one.
LEMMA Frozen ==
    ASSUME TypeOK, Next
    PROVE  /\ setting' = setting /\ DOMAIN st' = DOMAIN st
           /\ (stopping => stopping') /\ (stray => stray')
<1>1. ASSUME NEW x, NEW v PROVE DOMAIN [st EXCEPT ![x] = v] = DOMAIN st
  OBVIOUS
<1>2. ASSUME NEW a \in Agents, AgentStep(a)
      PROVE  setting' = setting /\ DOMAIN st' = DOMAIN st /\ stopping' = stopping /\ stray' = stray
  BY <1>1, <1>2 DEF AgentStep, AgentReady, AgentStartFails, AgentObeys, AgentEnds, envVars
<1>3. ASSUME NEW s \in Sups, LoopStep(s) \/ BackoffOver(s) \/ AgeOut(s)
      PROVE  setting' = setting /\ st' = st /\ stopping' = stopping /\ stray' = stray
  BY <1>3 DEF LoopStep, LoopEnds, SkipEvent, BeginRestart, Exhausted, BackoffOver, AgeOut,
                    agentVars, envVars
<1>4. ASSUME NEW x \in Actors, PlanStep(x)
      PROVE  setting' = setting /\ DOMAIN st' = DOMAIN st /\ stopping' = stopping /\ (stray => stray')
  <2>1. CASE StopAgentDown(x)
    BY <2>1 DEF StopAgentDown
  <2>2. CASE StopAgentSend(x)
    BY <2>2 DEF StopAgentSend, agentVars, envVars
  <2>3. CASE StopAgentWaited(x)
    BY <2>3 DEF StopAgentWaited, agentVars, envVars
  <2>4. CASE StopLoopSend(x)
    BY <2>4 DEF StopLoopSend, agentVars, envVars
  <2>5. CASE StopLoopWaited(x)
    BY <2>5 DEF StopLoopWaited, agentVars, envVars
  <2>6. CASE StartLoop(x)
    BY <2>6 DEF StartLoop, agentVars, envVars
  <2>7. CASE StartAgentBegin(x)
    BY <1>1, <2>7 DEF StartAgentBegin, agentVars, envVars
  <2>8. CASE StartAgentWaited(x)
    BY <2>8 DEF StartAgentWaited, agentVars, envVars
  <2> QED
    BY <1>4, <2>1, <2>2, <2>3, <2>4, <2>5, <2>6, <2>7, <2>8 DEF PlanStep
<1>5. CASE StopRuntime
  BY <1>5 DEF StopRuntime, agentVars
<1>6. ASSUME NEW a \in Agents, AgentCrash(a) \/ AgentLeaves(a)
      PROVE  setting' = setting /\ DOMAIN st' = DOMAIN st /\ stopping' = stopping /\ stray' = stray
  BY <1>1, <1>6 DEF AgentCrash, AgentLeaves, envVars
<1>7. ASSUME NEW x \in Actors, StopAgentTimeout(x) \/ StopLoopTimeout(x) \/ StopLoopTimeoutSwallowed(x)
      PROVE  setting' = setting /\ DOMAIN st' = DOMAIN st /\ stopping' = stopping /\ stray' = TRUE
  BY <1>1, <1>7 DEF StopAgentTimeout, StopLoopTimeout, StopLoopTimeoutSwallowed, agentVars
<1> QED
  BY <1>2, <1>3, <1>4, <1>5, <1>6, <1>7 DEF Next, Fault

\* A function changed at one place.
LEMMA ExceptIs ==
    ASSUME NEW A, NEW B, NEW f \in [A -> B], NEW a \in A, NEW v \in B
    PROVE  /\ [f EXCEPT ![a] = v] \in [A -> B] /\ [f EXCEPT ![a] = v][a] = v
           /\ \A b \in A : b # a => [f EXCEPT ![a] = v][b] = f[b]
OBVIOUS

\* A function changed at two places.
LEMMA ExceptTwo ==
    ASSUME NEW A, NEW B, NEW f \in [A -> B], NEW a \in A, NEW v \in B, NEW b \in A, NEW w \in B,
           NEW g, g = [f EXCEPT ![a] = v, ![b] = w]
    PROVE  /\ g \in [A -> B] /\ g[b] = w /\ (a # b => g[a] = v)
           /\ \A c \in A : c # a /\ c # b => g[c] = f[c]
<1>1. PICK h \in [A -> B] : h = [f EXCEPT ![a] = v]
  BY ExceptIs
<1>2. h[a] = v /\ \A c \in A : c # a => h[c] = f[c]
  BY <1>1, ExceptIs
<1>3. g = [h EXCEPT ![b] = w]
  BY <1>1, SMT
<1>4. g \in [A -> B] /\ g[b] = w /\ \A c \in A : c # b => g[c] = h[c]
  <2>1. ASSUME NEW k, k = [h EXCEPT ![b] = w]
        PROVE  k \in [A -> B] /\ k[b] = w /\ \A c \in A : c # b => k[c] = h[c]
    BY <2>1, ExceptIs
  <2> QED
    BY <1>3, <2>1
<1> QED
  BY <1>2, <1>4

\* The parts of an event.
LEMMA EventsAre ==
    ASSUME TypeOK, Tree
    PROVE  /\ \A p \in Parties : \A i, g \in Nat :
                 /\ Crashed(p, i, g) \in Events /\ Crashed(p, i, g).kind = "child_crashed"
                 /\ Crashed(p, i, g).who = p /\ Crashed(p, i, g).inc = i
           /\ Shutdown \in Events /\ Shutdown.kind = "shutdown"
<1>1. Root \in Sups
  BY DEF Tree
<1> QED
  BY <1>1, SMT DEF Events, Crashed, Shutdown, Parties

\* The done-callback posts at most the crash of the agent to its supervisor.
LEMMA DoneIs ==
    ASSUME TypeOK, Tree, NEW a \in Agents, OnChildDone(a)
    PROVE  /\ mail' \in [Sups -> Seq(Events)]
           /\ \A t \in Sups : t # ParentOf(a) => mail'[t] = mail[t]
           /\ tracked[a] = inc[a] => mail'[ParentOf(a)] = Append(mail[ParentOf(a)], Crashed(a, inc[a], 0))
           /\ tracked[a] # inc[a] => mail' = mail
<1>1. mail \in [Sups -> Seq(Events)] /\ inc[a] \in Nat /\ 0 \in Nat
  BY SMT DEF TypeOK
<1>2. Crashed(a, inc[a], 0) \in Events
  BY <1>1, EventsAre DEF Parties
<1>3. PICK t \in Sups : t = ParentOf(a)
  BY ParentIs
<1>4. Append(mail[t], Crashed(a, inc[a], 0)) \in Seq(Events)
  BY <1>1, <1>2, AppendIs, SMT
<1>5. CASE tracked[a] = inc[a]
  <2>1. mail' = [mail EXCEPT ![t] = Append(mail[t], Crashed(a, inc[a], 0))]
    BY <1>3, <1>5 DEF OnChildDone
  <2>2. PICK q \in Seq(Events) : q = Append(mail[t], Crashed(a, inc[a], 0))
    BY <1>4
  <2>3. mail' = [mail EXCEPT ![t] = q]
    BY <2>1, <2>2
  <2>4. mail' \in [Sups -> Seq(Events)] /\ mail'[t] = q /\ \A b \in Sups : b # t => mail'[b] = mail[b]
    BY <1>1, <2>3, ExceptIs
  <2> QED
    BY <1>3, <1>5, <2>2, <2>4
<1>6. CASE tracked[a] # inc[a]
  BY <1>1, <1>6 DEF OnChildDone
<1> QED
  BY <1>5, <1>6

\* A failure is reported at the root or posted to it.
LEMMA EscalateIs ==
    ASSUME TypeOK, Tree, NEW s \in Sups, NEW p, Escalate(s, p), Idle(s) => mail[s] # << >>
    PROVE  /\ mail' \in [Sups -> Seq(Events)]
           /\ \A t \in Sups : t # s /\ t # Root => mail'[t] = mail[t]
           /\ s # Root \/ ~Idle(s) => mail'[s] = IF Idle(s) THEN Tail(mail[s]) ELSE mail[s]
           /\ s = Root => /\ gaveUp' = gaveUp \cup {p}
                          /\ mail'[s] = IF Idle(s) THEN Tail(mail[s]) ELSE mail[s]
           /\ s # Root => /\ gaveUp' = gaveUp
                          /\ mail'[Root] = Append(mail[Root], Crashed(s, 0, gen[s]))
<1>1. mail \in [Sups -> Seq(Events)] /\ gen[s] \in Nat /\ 0 \in Nat /\ Root \in Sups
  BY SMT DEF TypeOK, Tree
<1>2. Crashed(s, 0, gen[s]) \in Events
  BY <1>1, EventsAre DEF Parties
<1>3. PICK q : q = IF Idle(s) THEN Tail(mail[s]) ELSE mail[s]
  OBVIOUS
<1>4. q \in Seq(Events)
  <2>1. CASE Idle(s)
    <3>1. mail[s] # << >> /\ mail[s] \in Seq(Events)
      BY <1>1, <2>1
    <3>2. Tail(mail[s]) \in Seq(Events)
      BY <3>1, TailIs, SMT
    <3> QED
      BY <1>3, <2>1, <3>2
  <2>2. CASE ~Idle(s)
    BY <1>1, <1>3, <2>2
  <2> QED
    BY <2>1, <2>2
<1>5. CASE s = Root
  <2>1. mail' = [mail EXCEPT ![s] = q] /\ gaveUp' = gaveUp \cup {p}
    BY <1>3, <1>5 DEF Escalate
  <2> QED
    BY <1>1, <1>3, <1>4, <1>5, <2>1, ExceptIs
<1>6. CASE s # Root
  <2> DEFINE e == Crashed(s, 0, gen[s])
  <2>1. mail' = [mail EXCEPT ![s] = q, ![Root] = Append(@, e)] /\ gaveUp' = gaveUp
    BY <1>3, <1>6 DEF Escalate
  <2>2. Append(mail[Root], e) \in Seq(Events)
    BY <1>1, <1>2, AppendIs, SMT
  <2> HIDE DEF e
  <2>3. mail' = [[mail EXCEPT ![s] = q] EXCEPT ![Root] = Append(mail[Root], e)]
    BY <1>1, <1>6, <2>1, SMT
  <2>4. /\ [mail EXCEPT ![s] = q] \in [Sups -> Seq(Events)] /\ [mail EXCEPT ![s] = q][s] = q
        /\ \A b \in Sups : b # s => [mail EXCEPT ![s] = q][b] = mail[b]
    BY <1>1, <1>4, ExceptIs
  <2>5. PICK m \in [Sups -> Seq(Events)] : m = [mail EXCEPT ![s] = q]
    BY <2>4
  <2>6. /\ mail' \in [Sups -> Seq(Events)] /\ mail'[Root] = Append(mail[Root], e)
        /\ \A b \in Sups : b # Root => mail'[b] = m[b]
    BY <1>1, <2>2, <2>3, <2>5, ExceptIs
  <2> QED
    BY <1>3, <1>6, <2>1, <2>4, <2>5, <2>6 DEF e
<1> QED
  BY <1>5, <1>6

Waits == {"no", "yes", "cancelled"}

\* An operation that is over is taken off the plan.
LEMMA ProceedIs ==
    ASSUME TypeOK, NEW x \in Actors, plan[x] # << >>, Proceed(x)
    PROVE  /\ plan' \in [Actors -> Seq(Ops)] /\ waiting' \in [Actors -> Waits] /\ cause' = cause
           /\ plan'[x] = Tail(plan[x]) /\ waiting'[x] = "no"
           /\ \A y \in Actors : y # x => plan'[y] = plan[y] /\ waiting'[y] = waiting[y]
<1>1. plan \in [Actors -> Seq(Ops)] /\ waiting \in [Actors -> Waits]
  BY DEF TypeOK, Waits
<1>2. Tail(plan[x]) \in Seq(Ops) /\ "no" \in Waits
  BY <1>1, TailIs, SMT DEF Waits
<1> QED
  BY <1>1, <1>2, ExceptIs DEF Proceed

\* An operation that fails ends the plan; the starts still planned are dropped.
LEMMA AbortIs ==
    ASSUME TypeOK, Tree, NEW x \in Actors, plan[x] # << >>, Abort(x)
    PROVE  /\ plan' \in [Actors -> Seq(Ops)] /\ waiting' \in [Actors -> Waits] /\ cause' = cause
           /\ plan'[x] = << >> /\ waiting'[x] = "no"
           /\ \A y \in Actors : y # x => plan'[y] = plan[y] /\ waiting'[y] = waiting[y]
           /\ dropped' \subseteq Parties /\ dropped \subseteq dropped'
           /\ \A p : Op("start_agent", p) \in Range(plan[x]) \/ Op("start_loop", p) \in Range(plan[x])
                       => p \in dropped'
           /\ gaveUp' \subseteq Parties /\ gaveUp \subseteq gaveUp'
           /\ mail' \in [Sups -> Seq(Events)]
           /\ \A t \in Sups : t # Root => mail'[t] = mail[t]
           /\ \/ mail'[Root] = mail[Root]
              \/ x \in Sups \ {Root} /\ mail'[Root] = Append(mail[Root], Crashed(x, 0, gen[x]))
<1>1. /\ plan \in [Actors -> Seq(Ops)] /\ waiting \in [Actors -> Waits] /\ mail \in [Sups -> Seq(Events)]
      /\ (x \in Sups => cause[x] \in Parties) /\ gaveUp \subseteq Parties /\ dropped \subseteq Parties
  BY DEF TypeOK, Waits, Actors, Parties
<1>2. << >> \in Seq(Ops) /\ "no" \in Waits
  BY SMT DEF Waits
<1>3. Root \in Sups /\ IF x = Runtime THEN UNCHANGED <<mail, gaveUp>>
                       ELSE x \in Sups /\ ~Idle(x) /\ Escalate(x, cause[x])
  BY DEF Abort, Idle, Tree, Actors
<1>4. /\ mail' \in [Sups -> Seq(Events)]
      /\ \A t \in Sups : t # Root => mail'[t] = mail[t]
      /\ mail'[Root] = mail[Root] \/ (x \in Sups \ {Root} /\ mail'[Root] = Append(mail[Root], Crashed(x, 0, gen[x])))
      /\ gaveUp' \subseteq Parties /\ gaveUp \subseteq gaveUp'
  <2>0. CASE x = Runtime
    BY <1>1, <1>3, <2>0
  <2> SUFFICES ASSUME x # Runtime
               PROVE  /\ mail' \in [Sups -> Seq(Events)]
                      /\ \A t \in Sups : t # Root => mail'[t] = mail[t]
                      /\ \/ mail'[Root] = mail[Root]
                         \/ x \in Sups \ {Root} /\ mail'[Root] = Append(mail[Root], Crashed(x, 0, gen[x]))
                      /\ gaveUp' \subseteq Parties /\ gaveUp \subseteq gaveUp'
    BY <2>0
  <2>1. PICK p \in Parties : Escalate(x, p) /\ x \in Sups /\ ~Idle(x)
    BY <1>1, <1>3
  <2>2. /\ mail' \in [Sups -> Seq(Events)]
        /\ \A t \in Sups : t # x /\ t # Root => mail'[t] = mail[t]
        /\ mail'[x] = mail[x]
        /\ x = Root => gaveUp' = gaveUp \cup {p}
        /\ x # Root => gaveUp' = gaveUp /\ mail'[Root] = Append(mail[Root], Crashed(x, 0, gen[x]))
    BY <2>1, EscalateIs, SMT
  <2>3. CASE x = Root
    BY <1>1, <2>1, <2>2, <2>3
  <2>4. CASE x # Root
    BY <1>1, <2>1, <2>2, <2>4
  <2> QED
    BY <2>3, <2>4
<1>5. /\ plan' \in [Actors -> Seq(Ops)] /\ waiting' \in [Actors -> Waits] /\ cause' = cause
      /\ plan'[x] = << >> /\ waiting'[x] = "no"
      /\ \A y \in Actors : y # x => plan'[y] = plan[y] /\ waiting'[y] = waiting[y]
  BY <1>1, <1>2, ExceptIs DEF Abort
<1>6. dropped' = dropped \cup {o.who : o \in {p \in Range(plan[x]) : p.op \in {"start_agent", "start_loop"}}}
  BY DEF Abort
<1>7. Range(plan[x]) \subseteq Ops
  <2>1. \A i \in DOMAIN plan[x] : plan[x][i] \in Ops
    BY <1>1, SMT
  <2> QED
    BY <2>1 DEF Range
<1>8. dropped' \subseteq Parties
  <2>1. \A o \in Ops : o.who \in Parties
    BY OpIs
  <2> QED
    BY <1>1, <1>6, <1>7, <2>1, SMT
<1>9. \A p : Op("start_agent", p) \in Range(plan[x]) \/ Op("start_loop", p) \in Range(plan[x]) => p \in dropped'
  <2>1. ASSUME NEW p, NEW o \in Range(plan[x]), o = Op("start_agent", p) \/ o = Op("start_loop", p)
        PROVE  p \in dropped'
    <3>1. o.op \in {"start_agent", "start_loop"} /\ o.who = p
      BY <2>1, SMT DEF Op
    <3> QED
      BY <1>6, <2>1, <3>1, SMT
  <2> QED
    BY <2>1
<1> QED
  BY <1>4, <1>5, <1>6, <1>8, <1>9

\* TypeOK after a step, over the sets before it.
TypesNext ==
    /\ st' \in [Agents -> AgentStates] /\ inc' \in [Agents -> Nat] /\ tracked' \in [Agents -> Nat]
    /\ shutting' \in [Agents -> BOOLEAN]
    /\ loop' \in [Sups -> BOOLEAN] /\ running' \in [Sups -> BOOLEAN]
    /\ mail' \in [Sups -> Seq(Events)]
    /\ window' \in [Sups -> Nat] /\ gen' \in [Sups -> Nat]
    /\ plan' \in [Actors -> Seq(Ops)]
    /\ cause' \in [Sups -> Parties] /\ waiting' \in [Actors -> Waits]
    /\ gaveUp' \subseteq Parties /\ dropped' \subseteq Parties /\ left' \subseteq Agents
    /\ setting' \in Settings /\ stopping' \in BOOLEAN /\ stray' \in BOOLEAN
    /\ crashes' \in 0..setting.maxCrashes

\* TypeOK' from the new values, the tree being the same.
LEMMA TypesThen ==
    ASSUME TypesNext, setting' = setting, DOMAIN st' = DOMAIN st
    PROVE  TypeOK'
<1>1. Sups' = Sups /\ Agents' = Agents /\ Actors' = Actors /\ Ops' = Ops /\ Events' = Events
  BY Same
<1>2. AgentStates' = AgentStates
  BY DEF AgentStates
<1> QED
  BY <1>1, <1>2 DEF TypesNext, TypeOK, Parties, Waits

\* TypeOK, conjunct by conjunct.
LEMMA TypesNow ==
    ASSUME TypeOK
    PROVE  /\ st \in [Agents -> AgentStates] /\ inc \in [Agents -> Nat] /\ tracked \in [Agents -> Nat]
           /\ shutting \in [Agents -> BOOLEAN]
           /\ loop \in [Sups -> BOOLEAN] /\ running \in [Sups -> BOOLEAN]
           /\ mail \in [Sups -> Seq(Events)]
           /\ window \in [Sups -> Nat] /\ gen \in [Sups -> Nat]
           /\ plan \in [Actors -> Seq(Ops)]
           /\ cause \in [Sups -> Parties] /\ waiting \in [Actors -> Waits]
           /\ gaveUp \subseteq Parties /\ dropped \subseteq Parties /\ left \subseteq Agents
           /\ setting \in Settings /\ stopping \in BOOLEAN /\ stray \in BOOLEAN
           /\ crashes \in 0..setting.maxCrashes
BY DEF TypeOK, Parties, Waits

\* The steps of an agent keep the types.
LEMMA AgentTypes ==
    ASSUME TypeOK, Orderly, NEW a \in Agents,
           AgentStep(a) \/ AgentCrash(a) \/ AgentLeaves(a), setting' = setting
    PROVE  TypesNext
<1> USE TypesNow
<1>1. ASSUME NEW e \in AgentStates PROVE [st EXCEPT ![a] = e] \in [Agents -> AgentStates]
  BY ExceptIs
<1>2. /\ {"live", "dying", "leaving", "crashed", "stopped", "failed", "stuck"} \subseteq AgentStates
      /\ setting.startFailures \subseteq AgentStates
  BY SupervisorAssumption, SMT DEF AgentStates
<1>3. Tree
  BY TreeHere
<1>4. OnChildDone(a) => mail' \in [Sups -> Seq(Events)]
  BY <1>3, DoneIs
<1>5. CASE AgentReady(a)
  BY <1>1, <1>2, <1>5 DEF AgentReady, TypesNext, supVars, planVars, reports, envVars
<1>6. CASE AgentStartFails(a)
  BY <1>1, <1>2, <1>6 DEF AgentStartFails, TypesNext, supVars, planVars, reports, envVars
<1>7. CASE AgentObeys(a)
  <2>1. shutting' \in [Agents -> BOOLEAN] /\ st' \in [Agents -> AgentStates]
    BY <1>1, <1>2, <1>7, ExceptIs DEF AgentObeys
  <2> QED
    BY <1>7, <2>1 DEF AgentObeys, TypesNext, supVars, planVars, reports, envVars
<1>8. CASE AgentEnds(a)
  <2>1. mail' \in [Sups -> Seq(Events)] /\ st' \in [Agents -> AgentStates]
    BY <1>1, <1>2, <1>4, <1>8 DEF AgentEnds
  <2> QED
    BY <1>8, <2>1 DEF AgentEnds, TypesNext, planVars, reports, envVars
<1>9. ASSUME crashes < setting.maxCrashes, crashes' = crashes + 1 PROVE crashes' \in 0..setting.maxCrashes
  <2>1. setting.maxCrashes \in Nat
    BY SupervisorAssumption, SMT
  <2> QED
    BY <1>9, <2>1, SMT
<1>10. CASE AgentCrash(a)
  <2>1. mail' \in [Sups -> Seq(Events)] /\ st' \in [Agents -> AgentStates]
    BY <1>1, <1>2, <1>4, <1>10 DEF AgentCrash
  <2>2. crashes' \in 0..setting.maxCrashes
    BY <1>9, <1>10 DEF AgentCrash
  <2> QED
    BY <1>10, <2>1, <2>2 DEF AgentCrash, TypesNext, planVars, reports, envVars
<1>11. CASE AgentLeaves(a)
  <2>1. st' \in [Agents -> AgentStates]
    BY <1>1, <1>2, <1>11, SMT DEF AgentLeaves
  <2>2. crashes' \in 0..setting.maxCrashes
    BY <1>9, <1>11 DEF AgentLeaves
  <2>3. left' \subseteq Agents
    BY <1>11 DEF AgentLeaves
  <2> QED
    BY <1>11, <2>1, <2>2, <2>3 DEF AgentLeaves, TypesNext, supVars, planVars, reports, envVars
<1> QED
  BY <1>5, <1>6, <1>7, <1>8, <1>10, <1>11 DEF AgentStep

\* The message a supervisor takes.
LEMMA EventIs ==
    ASSUME TypeOK, Orderly, NEW s \in Sups, mail[s] # << >>
    PROVE  /\ 1 \in DOMAIN mail[s] /\ Head(mail[s]) = mail[s][1]
           /\ Head(mail[s]) \in Events /\ Tail(mail[s]) \in Seq(Events)
           /\ Head(mail[s]).kind = "child_crashed" =>
                 /\ Head(mail[s]).who \in Range(Kids[s])
                 /\ Head(mail[s]).who \in Sups => Head(mail[s]).inc = 0
<1>1. mail[s] \in Seq(Events)
  BY TypesNow
<1>2. /\ 1 \in DOMAIN mail[s] /\ Head(mail[s]) = mail[s][1]
      /\ mail[s][1] \in Events /\ Tail(mail[s]) \in Seq(Events)
  BY <1>1, TailIs, SMT
<1>3. MailOk(s, mail[s])
  BY DEF Orderly
<1> QED
  BY <1>2, <1>3 DEF MailOk

\* What _handle_crash() sets out to do.
LEMMA BeginIs ==
    ASSUME TypeOK, Orderly, Planned, NEW s \in Sups, BeginRestart(s)
    PROVE  LET p == Head(mail[s]).who IN
           /\ p \in Range(Kids[s]) /\ mail[s] # << >> /\ Head(mail[s]).kind = "child_crashed"
           /\ plan' \in [Actors -> Seq(Ops)] /\ cause' \in [Sups -> Parties]
           /\ plan'[s] # << >> /\ Head(plan'[s]) = Op("backoff", p)
           /\ PlanOk(s, plan'[s]) /\ StartOf(p) \in Range(plan'[s])
           /\ \A t \in Sups : \A k \in Range(Kids[t]) :
                     t # s /\ Op("start_agent", k) \in Range(plan'[s]) =>
                        Op("start_loop", t) \in Range(plan'[s])
           /\ \A y \in Actors : y # s => plan'[y] = plan[y]
<1>1. PICK p : p = Head(mail[s]).who
  OBVIOUS
<1>2. p \in Range(Kids[s]) /\ mail[s] # << >> /\ Head(mail[s]).kind = "child_crashed"
  BY <1>1, EventIs DEF BeginRestart
<1>3. PICK q : q = <<Op("backoff", p)>> \o RestartOps(s, p)
  OBVIOUS
<1>4. /\ q \in Seq(Ops) /\ q # << >> /\ Head(q) = Op("backoff", p)
      /\ PlanOk(s, q) /\ StartOf(p) \in Range(q)
      /\ \A t \in Sups : \A k \in Range(Kids[t]) :
            t # s /\ Op("start_agent", k) \in Range(q) => Op("start_loop", t) \in Range(q)
  BY <1>2, <1>3 DEF Planned, RestartsFit
<1>5. plan' = [plan EXCEPT ![s] = q] /\ cause' = [cause EXCEPT ![s] = p]
  BY <1>1, <1>3 DEF BeginRestart
<1>6. plan \in [Actors -> Seq(Ops)] /\ s \in Actors /\ cause \in [Sups -> Parties] /\ p \in Parties
  BY <1>2, TypesNow, TreeHere DEF Actors, Parties, Tree
<1>7. plan' \in [Actors -> Seq(Ops)] /\ plan'[s] = q /\ \A y \in Actors : y # s => plan'[y] = plan[y]
  BY <1>4, <1>5, <1>6, ExceptIs
<1>8. cause' \in [Sups -> Parties]
  BY <1>5, <1>6, ExceptIs
<1> QED
  BY <1>1, <1>2, <1>4, <1>7, <1>8

\* The steps of a supervisor's loop keep the types.
LEMMA LoopTypes ==
    ASSUME TypeOK, Orderly, Planned, NEW s \in Sups, LoopStep(s) \/ BackoffOver(s) \/ AgeOut(s), setting' = setting
    PROVE  TypesNext
<1> USE TypesNow
<1>1. Tree /\ s \in Actors
  BY TreeHere DEF Actors
<1>2. mail[s] # << >> => [mail EXCEPT ![s] = Tail(@)] \in [Sups -> Seq(Events)]
  BY EventIs, ExceptIs
<1>3. CASE LoopEnds(s)
  <2>1. mail' \in [Sups -> Seq(Events)] /\ loop' \in [Sups -> BOOLEAN]
    BY <1>2, <1>3, ExceptIs DEF LoopEnds
  <2> QED
    BY <1>3, <2>1 DEF LoopEnds, TypesNext, agentVars, planVars, reports, envVars
<1>4. CASE SkipEvent(s)
  <2>1. mail' \in [Sups -> Seq(Events)]
    BY <1>2, <1>4 DEF SkipEvent
  <2> QED
    BY <1>4, <2>1 DEF SkipEvent, TypesNext, agentVars, planVars, reports, envVars
<1>5. [window EXCEPT ![s] = @ + 1] \in [Sups -> Nat] /\ [window EXCEPT ![s] = 0] \in [Sups -> Nat]
  BY SMT
<1>6. CASE BeginRestart(s)
  <2>1. mail' \in [Sups -> Seq(Events)] /\ window' \in [Sups -> Nat]
    BY <1>2, <1>5, <1>6 DEF BeginRestart
  <2>2. plan' \in [Actors -> Seq(Ops)] /\ cause' \in [Sups -> Parties]
    BY <1>6, BeginIs
  <2> QED
    BY <1>6, <2>1, <2>2 DEF BeginRestart, TypesNext, agentVars, reports, envVars
<1>7. CASE Exhausted(s)
  <2>1. PICK p : Escalate(s, p) /\ mail[s] # << >> /\ p \in Range(Kids[s])
    BY <1>7, EventIs DEF Exhausted
  <2>2. p \in Parties
    BY <1>1, <2>1 DEF Tree, Parties
  <2>3. /\ mail' \in [Sups -> Seq(Events)]
        /\ s = Root => gaveUp' = gaveUp \cup {p}
        /\ s # Root => gaveUp' = gaveUp
    BY <1>1, <2>1, EscalateIs, SMT
  <2>4. gaveUp' \subseteq Parties
    BY <2>2, <2>3
  <2>5. window' \in [Sups -> Nat]
    BY <1>5, <1>7 DEF Exhausted
  <2> QED
    BY <1>7, <2>3, <2>4, <2>5 DEF Exhausted, TypesNext, agentVars, planVars, envVars
<1>8. CASE BackoffOver(s)
  <2>1. plan' \in [Actors -> Seq(Ops)] /\ waiting' \in [Actors -> Waits] /\ cause' = cause
    BY <1>1, <1>8, ProceedIs DEF BackoffOver, Acts
  <2> QED
    BY <1>8, <2>1 DEF BackoffOver, TypesNext, agentVars, supVars, reports, envVars
<1>9. CASE AgeOut(s)
  <2>1. window' \in [Sups -> Nat]
    BY <1>5, <1>9 DEF AgeOut
  <2> QED
    BY <1>9, <2>1 DEF AgeOut, TypesNext, agentVars, planVars, reports, envVars
<1> QED
  BY <1>3, <1>4, <1>6, <1>7, <1>8, <1>9 DEF LoopStep

\* The steps of a plan keep the types.
LEMMA PlanTypes ==
    ASSUME TypeOK, Orderly, NEW x \in Actors, PlanStep(x) \/ StopAgentTimeout(x), setting' = setting
    PROVE  TypesNext
<1> USE TypesNow
<1>1. Tree
  BY TreeHere
<1>2. plan[x] # << >> /\ Proceed(x) =>
        plan' \in [Actors -> Seq(Ops)] /\ waiting' \in [Actors -> Waits] /\ cause' = cause
  BY ProceedIs
<1>3. plan[x] # << >> /\ Abort(x) =>
        /\ plan' \in [Actors -> Seq(Ops)] /\ waiting' \in [Actors -> Waits] /\ cause' = cause
        /\ dropped' \subseteq Parties /\ gaveUp' \subseteq Parties
        /\ mail' \in [Sups -> Seq(Events)]
  BY <1>1, AbortIs
<1>4. Acts(x, "stop_agent") \/ Acts(x, "start_agent") => plan[x] # << >> /\ Target(x) \in Agents
  BY HeadIs DEF Acts
<1>5. Acts(x, "stop_loop") \/ Acts(x, "start_loop") => plan[x] # << >> /\ Target(x) \in Sups
  BY HeadIs DEF Acts
<1>6. [waiting EXCEPT ![x] = "yes"] \in [Actors -> Waits]
  <2>1. "yes" \in Waits
    BY SMT DEF Waits
  <2> QED
    BY <2>1, ExceptIs
<1>7. CASE StopAgentDown(x)
  <2>1. shutting' \in [Agents -> BOOLEAN] /\ stray' \in BOOLEAN
    BY <1>4, <1>7, ExceptIs DEF StopAgentDown
  <2> QED
    BY <1>2, <1>4, <1>7, <2>1 DEF StopAgentDown, TypesNext, supVars, reports
<1>8. CASE StopAgentSend(x)
  <2>1. shutting' \in [Agents -> BOOLEAN] /\ waiting' \in [Actors -> Waits]
    BY <1>4, <1>6, <1>8, ExceptIs DEF StopAgentSend
  <2> QED
    BY <1>8, <2>1 DEF StopAgentSend, TypesNext, supVars, reports, envVars
<1>9. CASE StopAgentWaited(x)
  <2>1. /\ plan' \in [Actors -> Seq(Ops)] /\ waiting' \in [Actors -> Waits] /\ cause' = cause
        /\ dropped' \subseteq Parties /\ gaveUp' \subseteq Parties
        /\ mail' \in [Sups -> Seq(Events)]
    BY <1>2, <1>3, <1>4, <1>9 DEF StopAgentWaited, reports
  <2> QED
    BY <1>9, <2>1 DEF StopAgentWaited, TypesNext, agentVars, envVars
<1>10. CASE StopAgentTimeout(x)
  <2>1. "stopped" \in AgentStates
    BY SMT DEF AgentStates
  <2>2. st' \in [Agents -> AgentStates] /\ stray' \in BOOLEAN
    BY <1>4, <1>10, <2>1, ExceptIs DEF StopAgentTimeout
  <2> QED
    BY <1>2, <1>4, <1>10, <2>2 DEF StopAgentTimeout, TypesNext, supVars, reports
<1>11. CASE StopLoopSend(x)
  <2>1. PICK t \in Sups : t = Target(x)
    BY <1>5, <1>11 DEF StopLoopSend
  <2>2. running' = [running EXCEPT ![t] = FALSE] /\ waiting' = [waiting EXCEPT ![x] = "yes"]
    BY <1>11, <2>1 DEF StopLoopSend
  <2>3. running' \in [Sups -> BOOLEAN] /\ waiting' \in [Actors -> Waits]
    BY <1>6, <2>2, ExceptIs
  <2>4. mail' \in [Sups -> Seq(Events)]
    <3>1. Append(mail[t], Shutdown) \in Seq(Events)
      <4>1. Shutdown \in Events /\ mail[t] \in Seq(Events)
        BY <1>1, EventsAre
      <4> QED
        BY <4>1, AppendIs, SMT
    <3> QED
      BY <1>11, <2>1, <3>1, ExceptIs DEF StopLoopSend
  <2> QED
    BY <1>11, <2>3, <2>4 DEF StopLoopSend, TypesNext, agentVars, reports, envVars
<1>12. CASE StopLoopWaited(x)
  BY <1>2, <1>5, <1>12 DEF StopLoopWaited, TypesNext, agentVars, supVars, reports, envVars
<1>13. CASE StartLoop(x)
  <2>1. PICK t \in Sups : t = Target(x)
    BY <1>5, <1>13 DEF StartLoop
  <2>2. /\ loop' = [loop EXCEPT ![t] = TRUE] /\ running' = [running EXCEPT ![t] = TRUE]
        /\ window' = [window EXCEPT ![t] = 0] /\ dropped' = dropped \ {t}
        /\ gen' = [gen EXCEPT ![t] = @ + 1]
    BY <1>13, <2>1 DEF StartLoop
  <2>3. loop' \in [Sups -> BOOLEAN] /\ running' \in [Sups -> BOOLEAN] /\ dropped' \subseteq Parties
    BY <2>2, ExceptIs
  <2>4. window' \in [Sups -> Nat] /\ gen' \in [Sups -> Nat]
    BY <2>2, SMT
  <2> QED
    BY <1>2, <1>5, <1>13, <2>3, <2>4 DEF StartLoop, TypesNext, agentVars, envVars
<1>14. CASE StartAgentBegin(x)
  <2>1. PICK a \in Agents : a = Target(x)
    BY <1>4, <1>14 DEF StartAgentBegin
  <2>2. /\ st' = [st EXCEPT ![a] = "starting"] /\ inc' = [inc EXCEPT ![a] = @ + 1]
        /\ left' = left \ {a} /\ dropped' = dropped \ {a}
        /\ IF st[a] = "dying" THEN OnChildDone(a) ELSE UNCHANGED mail
        /\ waiting' = [waiting EXCEPT ![x] = "yes"]
    BY <1>14, <2>1 DEF StartAgentBegin
  <2>3. inc' \in [Agents -> Nat] /\ "starting" \in AgentStates
    BY <2>2, SMT DEF AgentStates
  <2>4. st' \in [Agents -> AgentStates] /\ waiting' \in [Actors -> Waits]
    BY <1>6, <2>2, <2>3, ExceptIs
  <2>5. mail' \in [Sups -> Seq(Events)]
    BY <1>1, <2>2, DoneIs
  <2>6. left' \subseteq Agents /\ dropped' \subseteq Parties
    BY <2>2
  <2> QED
    BY <1>14, <2>3, <2>4, <2>5, <2>6 DEF StartAgentBegin, TypesNext, envVars
<1>15. CASE StartAgentWaited(x)
  <2>1. PICK a \in Agents : a = Target(x)
    BY <1>4, <1>15 DEF StartAgentWaited
  <2>2. CASE Abort(x) /\ UNCHANGED tracked
    BY <1>3, <1>4, <1>15, <2>2 DEF StartAgentWaited, TypesNext, envVars
  <2>3. CASE /\ tracked' = [tracked EXCEPT ![a] = inc[a]]
             /\ mail' = IF st[a] = "crashed"
                        THEN [mail EXCEPT ![ParentOf(a)] = Append(@, Crashed(a, inc[a], 0))]
                        ELSE mail
             /\ Proceed(x)
             /\ UNCHANGED reports
    <3>1. tracked' \in [Agents -> Nat]
      <4>1. inc[a] \in Nat
        OBVIOUS
      <4> QED
        BY <2>3, <4>1, ExceptIs
    <3>2. mail' \in [Sups -> Seq(Events)]
      <4>1. Crashed(a, inc[a], 0) \in Events /\ ParentOf(a) \in Sups
        <5>1. inc[a] \in Nat /\ 0 \in Nat
          BY SMT
        <5> QED
          BY <1>1, <5>1, EventsAre, ParentIs DEF Parties
      <4>2. mail[ParentOf(a)] \in Seq(Events)
        BY <4>1
      <4>3. Append(mail[ParentOf(a)], Crashed(a, inc[a], 0)) \in Seq(Events)
        BY <4>1, <4>2, AppendIs, SMT
      <4> QED
        BY <2>3, <4>1, <4>3, ExceptIs
    <3> QED
      BY <1>2, <1>4, <1>15, <2>3, <3>1, <3>2 DEF StartAgentWaited, TypesNext, envVars, reports
  <2> QED
    BY <1>15, <2>1, <2>2, <2>3 DEF StartAgentWaited
<1> QED
  BY <1>7, <1>8, <1>9, <1>10, <1>11, <1>12, <1>13, <1>14, <1>15 DEF PlanStep

\* Two plans changed at once.
LEMMA PlanTwo ==
    ASSUME TypeOK, NEW a \in Actors, NEW v \in Seq(Ops), NEW b \in Actors, NEW w \in Seq(Ops), a # b,
           plan' = [plan EXCEPT ![a] = v, ![b] = w]
    PROVE  /\ plan' \in [Actors -> Seq(Ops)] /\ plan'[b] = w /\ plan'[a] = v
           /\ \A c \in Actors : c # a /\ c # b => plan'[c] = plan[c]
<1>1. plan \in [Actors -> Seq(Ops)]
  BY TypesNow
<1>2. PICK g : g = plan'
  OBVIOUS
<1>3. g = [plan EXCEPT ![a] = v, ![b] = w]
  BY <1>2
<1>4. /\ g \in [Actors -> Seq(Ops)] /\ g[b] = w /\ (a # b => g[a] = v)
      /\ \A c \in Actors : c # a /\ c # b => g[c] = plan[c]
  BY <1>1, <1>3, ExceptTwo
<1> QED
  BY <1>2, <1>4

\* Two waits changed at once.
LEMMA WaitTwo ==
    ASSUME TypeOK, NEW a \in Actors, NEW v \in Waits, NEW b \in Actors, NEW w \in Waits,
           waiting' = [waiting EXCEPT ![a] = v, ![b] = w]
    PROVE  /\ waiting' \in [Actors -> Waits] /\ waiting'[b] = w
           /\ \A c \in Actors : c # a /\ c # b => waiting'[c] = waiting[c]
<1>1. waiting \in [Actors -> Waits]
  BY TypesNow
<1>2. PICK g : g = waiting'
  OBVIOUS
<1>3. g = [waiting EXCEPT ![a] = v, ![b] = w]
  BY <1>2
<1>4. /\ g \in [Actors -> Waits] /\ g[b] = w
      /\ \A c \in Actors : c # a /\ c # b => g[c] = waiting[c]
  BY <1>1, <1>3, ExceptTwo
<1> QED
  BY <1>2, <1>4

\* A supervisor cancelled by the one that stops it.
LEMMA TimeoutIs ==
    ASSUME TypeOK, Orderly, NEW x \in Actors, StopLoopTimeout(x)
    PROVE  /\ plan[x] # << >> /\ Target(x) \in Sups /\ Target(x) # x /\ Acts(x, "stop_loop")
           /\ loop' \in [Sups -> BOOLEAN] /\ loop'[Target(x)] = FALSE
           /\ \A s \in Sups : s # Target(x) => loop'[s] = loop[s]
           /\ plan' \in [Actors -> Seq(Ops)] /\ waiting' \in [Actors -> Waits]
           /\ plan'[Target(x)] = << >> /\ plan'[x] = Tail(plan[x]) /\ waiting'[x] = "no"
           /\ \A y \in Actors : y # x /\ y # Target(x) => plan'[y] = plan[y] /\ waiting'[y] = waiting[y]
<1>0. /\ st \in [Agents -> AgentStates] /\ loop \in [Sups -> BOOLEAN]
      /\ plan \in [Actors -> Seq(Ops)] /\ waiting \in [Actors -> Waits]
  BY TypesNow
<1>1. PICK t : t = Target(x)
  OBVIOUS
<1>2. plan[x] # << >> /\ Acts(x, "stop_loop")
  BY DEF StopLoopTimeout, Acts
<1>3. t \in Sups /\ t # x /\ t \in Actors /\ Tail(plan[x]) \in Seq(Ops)
  <2>1. t \in Sups /\ (x # Runtime => t # x) /\ Tail(plan[x]) \in Seq(Ops)
    BY <1>1, <1>2, HeadIs
  <2>2. Runtime \notin Sups
    BY TreeHere DEF Tree
  <2> QED
    BY <2>1, <2>2 DEF Actors
<1>4. /\ loop' = [loop EXCEPT ![t] = FALSE]
      /\ plan' = [plan EXCEPT ![t] = << >>, ![x] = Tail(@)]
      /\ waiting' = [waiting EXCEPT ![t] = "no", ![x] = "no"]
  BY <1>1 DEF StopLoopTimeout
<1>5. << >> \in Seq(Ops) /\ "no" \in Waits
  BY SMT DEF Waits
<1>6. PICK q \in Seq(Ops) : q = Tail(plan[x])
  BY <1>3
<1>7. plan' = [plan EXCEPT ![t] = << >>, ![x] = q]
  BY <1>0, <1>3, <1>4, <1>6, SMT
<1>8. /\ loop' \in [Sups -> BOOLEAN] /\ loop'[t] = FALSE
      /\ \A s \in Sups : s # t => loop'[s] = loop[s]
  BY <1>0, <1>3, <1>4, ExceptIs
<1>9. /\ plan' \in [Actors -> Seq(Ops)] /\ plan'[t] = << >> /\ plan'[x] = q
      /\ \A y \in Actors : y # x /\ y # t => plan'[y] = plan[y]
  BY <1>3, <1>5, <1>7, PlanTwo
<1>10. /\ waiting' \in [Actors -> Waits] /\ waiting'[x] = "no"
       /\ \A y \in Actors : y # x /\ y # t => waiting'[y] = waiting[y]
  BY <1>3, <1>4, <1>5, WaitTwo
<1> QED
  BY <1>1, <1>2, <1>3, <1>6, <1>8, <1>9, <1>10

\* A cancellation that ends only the wait the supervisor is in.
LEMMA SwallowedIs ==
    ASSUME TypeOK, Orderly, NEW x \in Actors, StopLoopTimeoutSwallowed(x)
    PROVE  /\ st' \in [Agents -> AgentStates] /\ \A a \in Agents : st'[a] = st[a] \/ st'[a] = "stopped"
           /\ loop' \in [Sups -> BOOLEAN]
           /\ plan' \in [Actors -> Seq(Ops)] /\ waiting' \in [Actors -> Waits]
           /\ plan'[Runtime] = plan[Runtime]
           /\ waiting'[Runtime] = waiting[Runtime] \/ waiting'[Runtime] = "cancelled"
           /\ \A s \in Sups : \/ plan'[s] = plan[s] \/ plan'[s] = << >>
                              \/ plan[s] # << >> /\ plan'[s] = Tail(plan[s])
           /\ \A s \in Sups : loop'[s] = loop[s] \/ (loop'[s] = FALSE /\ plan'[s] = << >>)
<1>0. /\ st \in [Agents -> AgentStates] /\ loop \in [Sups -> BOOLEAN]
      /\ plan \in [Actors -> Seq(Ops)] /\ waiting \in [Actors -> Waits]
  BY TypesNow
<1>1. PICK t, c, e : t = Target(x) /\ c = Target(t) /\ e = Target(c)
  OBVIOUS
<1>2. plan[x] # << >> /\ Acts(x, "stop_loop") /\ plan[t] # << >>
  BY <1>1 DEF StopLoopTimeoutSwallowed, Acts, InStop
<1>3. t \in Sups /\ t \in Actors /\ Runtime \notin Sups
  <2>1. t \in Sups
    BY <1>1, <1>2, HeadIs
  <2> QED
    BY <2>1, TreeHere DEF Actors, Tree
<1>4. c # t /\ Tail(plan[t]) \in Seq(Ops)
  BY <1>1, <1>2, <1>3, HeadIs
<1>5. << >> \in Seq(Ops) /\ "no" \in Waits /\ "cancelled" \in Waits /\ "stopped" \in AgentStates
  BY SMT DEF Waits, AgentStates
<1>6. PICK q \in Seq(Ops) : q = Tail(plan[t])
  BY <1>4
<1>7. Runtime \in Actors /\ Sups \subseteq Actors
  BY DEF Actors
<1>8. ASSUME NEW b PROVE /\ [st EXCEPT ![b] = "stopped"] \in [Agents -> AgentStates]
                         /\ \A a \in Agents : \/ [st EXCEPT ![b] = "stopped"][a] = st[a]
                                              \/ [st EXCEPT ![b] = "stopped"][a] = "stopped"
  BY <1>0, <1>5
<1>9. CASE /\ st' = [st EXCEPT ![c] = "stopped"] /\ UNCHANGED loop
           /\ plan' = [plan EXCEPT ![t] = Tail(@)]
           /\ waiting' = [waiting EXCEPT ![t] = "no", ![x] = "cancelled"]
  <2>1. st' \in [Agents -> AgentStates] /\ \A a \in Agents : st'[a] = st[a] \/ st'[a] = "stopped"
    BY <1>8, <1>9
  <2>2. /\ plan' \in [Actors -> Seq(Ops)] /\ plan'[t] = Tail(plan[t])
        /\ \A y \in Actors : y # t => plan'[y] = plan[y]
    BY <1>0, <1>3, <1>4, <1>9, ExceptIs
  <2>3. /\ waiting' \in [Actors -> Waits]
        /\ waiting'[Runtime] = waiting[Runtime] \/ waiting'[Runtime] = "cancelled"
    <3>1. /\ waiting' \in [Actors -> Waits] /\ waiting'[x] = "cancelled"
          /\ \A y \in Actors : y # t /\ y # x => waiting'[y] = waiting[y]
      BY <1>3, <1>5, <1>9, WaitTwo
    <3> QED
      BY <1>3, <1>7, <3>1
  <2>4. ASSUME NEW s \in Sups PROVE plan'[s] = plan[s] \/ (plan[s] # << >> /\ plan'[s] = Tail(plan[s]))
    BY <1>2, <1>7, <2>2
  <2>5. plan'[Runtime] = plan[Runtime]
    BY <1>3, <1>7, <2>2
  <2>6. loop' \in [Sups -> BOOLEAN] /\ \A s \in Sups : loop'[s] = loop[s]
    BY <1>0, <1>9
  <2> QED
    BY <2>1, <2>2, <2>3, <2>4, <2>5, <2>6
<1>10. CASE /\ c \in Sups /\ loop' = [loop EXCEPT ![c] = FALSE] /\ UNCHANGED st
            /\ plan' = [plan EXCEPT ![c] = << >>, ![t] = Tail(@)]
            /\ waiting' = [waiting EXCEPT ![c] = "no", ![t] = "no", ![x] = "cancelled"]
  <2>1. plan' = [plan EXCEPT ![c] = << >>, ![t] = q]
    BY <1>0, <1>3, <1>4, <1>6, <1>7, <1>10, SMT
  <2>2. /\ plan' \in [Actors -> Seq(Ops)] /\ plan'[t] = q /\ plan'[c] = << >>
        /\ \A y \in Actors : y # t /\ y # c => plan'[y] = plan[y]
    BY <1>3, <1>4, <1>5, <1>7, <1>10, <2>1, PlanTwo, ZenonT(30)
  <2>3. loop' \in [Sups -> BOOLEAN] /\ loop'[c] = FALSE /\ \A s \in Sups : s # c => loop'[s] = loop[s]
    BY <1>0, <1>10, ExceptIs
  <2>4. /\ waiting' \in [Actors -> Waits]
        /\ waiting'[Runtime] = waiting[Runtime] \/ waiting'[Runtime] = "cancelled"
    <3>1. PICK w : w = [waiting EXCEPT ![c] = "no", ![t] = "no"]
      OBVIOUS
    <3>2. w \in [Actors -> Waits] /\ w[Runtime] = waiting[Runtime]
      <4>1. w \in [Actors -> Waits] /\ \A y \in Actors : y # c /\ y # t => w[y] = waiting[y]
        <5>1. c \in Actors /\ t \in Actors /\ "no" \in Waits
          BY <1>3, <1>5, <1>7, <1>10
        <5> QED
          BY <1>0, <3>1, <5>1, ExceptTwo
      <4> QED
        BY <1>3, <1>7, <1>10, <4>1
    <3>3. waiting' = [w EXCEPT ![x] = "cancelled"]
      BY <1>10, <3>1, SMT
    <3>4. /\ waiting' \in [Actors -> Waits] /\ waiting'[x] = "cancelled"
          /\ \A y \in Actors : y # x => waiting'[y] = w[y]
      BY <1>5, <3>2, <3>3, ExceptIs
    <3> QED
      BY <1>7, <3>2, <3>4
  <2>5. ASSUME NEW s \in Sups PROVE \/ plan'[s] = plan[s] \/ plan'[s] = << >>
                                    \/ plan[s] # << >> /\ plan'[s] = Tail(plan[s])
    BY <1>2, <1>6, <1>7, <2>2
  <2>6. plan'[Runtime] = plan[Runtime]
    BY <1>3, <1>7, <1>10, <2>2
  <2>7. ASSUME NEW s \in Sups PROVE loop'[s] = loop[s] \/ (loop'[s] = FALSE /\ plan'[s] = << >>)
    BY <2>2, <2>3
  <2>8. st' \in [Agents -> AgentStates] /\ \A a \in Agents : st'[a] = st[a]
    BY <1>0, <1>10
  <2> QED
    BY <2>2, <2>3, <2>4, <2>5, <2>6, <2>7, <2>8
<1>11. CASE /\ c \in Sups /\ InStop(c) /\ st' = [st EXCEPT ![e] = "stopped"] /\ UNCHANGED loop
            /\ plan' = [plan EXCEPT ![c] = Tail(@)]
            /\ waiting' = [waiting EXCEPT ![c] = "no", ![x] = "cancelled"]
  <2>1. st' \in [Agents -> AgentStates] /\ \A a \in Agents : st'[a] = st[a] \/ st'[a] = "stopped"
    BY <1>8, <1>11
  <2>2. plan[c] # << >> /\ Tail(plan[c]) \in Seq(Ops)
    BY <1>7, <1>11, HeadIs DEF InStop
  <2>3. /\ plan' \in [Actors -> Seq(Ops)] /\ plan'[c] = Tail(plan[c])
        /\ \A y \in Actors : y # c => plan'[y] = plan[y]
    <3>1. PICK r \in Seq(Ops) : r = Tail(plan[c])
      BY <2>2
    <3>2. plan' = [plan EXCEPT ![c] = r] /\ c \in Actors
      BY <1>7, <1>11, <3>1
    <3>3. /\ plan' \in [Actors -> Seq(Ops)] /\ plan'[c] = r
          /\ \A y \in Actors : y # c => plan'[y] = plan[y]
      BY <1>0, <3>2, ExceptIs
    <3> QED
      BY <3>1, <3>3
  <2>4. /\ waiting' \in [Actors -> Waits]
        /\ waiting'[Runtime] = waiting[Runtime] \/ waiting'[Runtime] = "cancelled"
    <3>1. /\ waiting' \in [Actors -> Waits] /\ waiting'[x] = "cancelled"
          /\ \A y \in Actors : y # c /\ y # x => waiting'[y] = waiting[y]
      BY <1>5, <1>7, <1>11, WaitTwo
    <3> QED
      BY <1>3, <1>7, <1>11, <3>1
  <2>5. ASSUME NEW s \in Sups PROVE plan'[s] = plan[s] \/ (plan[s] # << >> /\ plan'[s] = Tail(plan[s]))
    BY <1>7, <2>2, <2>3
  <2>6. plan'[Runtime] = plan[Runtime]
    BY <1>3, <1>7, <1>11, <2>3
  <2>7. loop' \in [Sups -> BOOLEAN] /\ \A s \in Sups : loop'[s] = loop[s]
    BY <1>0, <1>11
  <2> QED
    BY <2>1, <2>3, <2>4, <2>5, <2>6, <2>7
<1> QED
  BY <1>1, <1>9, <1>10, <1>11 DEF StopLoopTimeoutSwallowed

\* Every step keeps the types.
LEMMA TypesStep ==
    ASSUME TypeOK, Orderly, Planned, Next
    PROVE  TypeOK'
<1>1. setting' = setting /\ DOMAIN st' = DOMAIN st
  BY Frozen
<1>2. ASSUME StopRuntime PROVE TypesNext
  <2>1. StopTree \in Seq(Ops)
    BY TreeHere DEF Planned, StopTreeFits
  <2>2. plan' \in [Actors -> Seq(Ops)]
    BY <1>2, <2>1, TypesNow DEF StopRuntime
  <2> QED
    BY <1>2, <2>2, TypesNow DEF StopRuntime, TypesNext, agentVars, supVars, reports
<1>3. ASSUME NEW x \in Actors, StopLoopTimeout(x) PROVE TypesNext
  <2>1. /\ loop' \in [Sups -> BOOLEAN]
        /\ plan' \in [Actors -> Seq(Ops)] /\ waiting' \in [Actors -> Waits]
    BY <1>3, TimeoutIs
  <2> QED
    BY <1>3, <2>1, TypesNow DEF StopLoopTimeout, TypesNext, agentVars, reports
<1>4. ASSUME NEW x \in Actors, StopLoopTimeoutSwallowed(x) PROVE TypesNext
  <2>1. /\ loop' \in [Sups -> BOOLEAN] /\ st' \in [Agents -> AgentStates]
        /\ plan' \in [Actors -> Seq(Ops)] /\ waiting' \in [Actors -> Waits]
    BY <1>4, SwallowedIs
  <2> QED
    BY <1>4, <2>1, TypesNow DEF StopLoopTimeoutSwallowed, TypesNext, reports
<1>5. ASSUME NEW a \in Agents, AgentStep(a) \/ AgentCrash(a) \/ AgentLeaves(a) PROVE TypesNext
  BY <1>1, <1>5, AgentTypes
<1>6. ASSUME NEW s \in Sups, LoopStep(s) \/ BackoffOver(s) \/ AgeOut(s) PROVE TypesNext
  BY <1>1, <1>6, LoopTypes
<1>7. ASSUME NEW x \in Actors, PlanStep(x) \/ StopAgentTimeout(x) PROVE TypesNext
  BY <1>1, <1>7, PlanTypes
<1>8. TypesNext
  BY <1>2, <1>3, <1>4, <1>5, <1>6, <1>7 DEF Next, Fault
<1> QED
  BY <1>1, <1>8, TypesThen

-----------------------------------------------------------------------------
(* Steps: plans and mailboxes keep their order.                            *)

PlansNext ==
    /\ \A s \in Sups : PlanOk(s, plan'[s]) /\ (~loop'[s] => plan'[s] = << >>)
    /\ \A i \in DOMAIN plan'[Runtime] : Proper(plan'[Runtime][i]) /\ plan'[Runtime][i].op \in Stops
    /\ ~stopping' => plan'[Runtime] = << >>
MailsNext == \A s \in Sups : MailOk(s, mail'[s])

\* Orderly' from the new plans and mailboxes, the tree being the same.
LEMMA OrderlyThen ==
    ASSUME Orderly, PlansNext, MailsNext, setting' = setting, DOMAIN st' = DOMAIN st
    PROVE  Orderly'
<1>1. /\ Kids' = Kids /\ Sups' = Sups /\ Agents' = Agents
      /\ \A o : Proper(o)' <=> Proper(o)
      /\ \A s, q : PlanOk(s, q)' <=> PlanOk(s, q)
      /\ \A s, q : MailOk(s, q)' <=> MailOk(s, q)
  BY Same
<1>2. \A s \in Sups : PlanOk(s, plan[s])' /\ MailOk(s, mail[s])' /\ (~loop'[s] => plan'[s] = << >>)
  BY <1>1 DEF PlansNext, MailsNext
<1>3. Agents' = KidsOf(Kids)' \ Sups'
  BY <1>1 DEF Orderly, KidsOf
<1>4. \A i \in DOMAIN plan'[Runtime] : Proper(plan[Runtime][i])' /\ plan'[Runtime][i].op \in Stops
  BY <1>1 DEF PlansNext
<1> QED
  BY <1>1, <1>2, <1>3, <1>4 DEF Orderly, PlansNext, Stops

\* What is left of an orderly plan is orderly.
LEMMA PlanOkTail ==
    ASSUME NEW s, NEW q \in Seq(Ops), q # << >>, PlanOk(s, q)
    PROVE  PlanOk(s, Tail(q))
<1>1. PICK t : t = Tail(q)
  OBVIOUS
<1>2. \A i \in DOMAIN t : i + 1 \in DOMAIN q /\ t[i] = q[i + 1]
  BY <1>1, TailIs, SMT
<1>3. \A i \in DOMAIN t : \A o : After(q, i + 1, o) => After(t, i, o)
  BY <1>1, TailAfter
<1>4. \A i \in DOMAIN t : Proper(t[i]) /\ t[i].who \in Reach(s)
  BY <1>2 DEF PlanOk
<1>5. Restores(t)
  BY <1>2, <1>3 DEF PlanOk, Restores
<1>6. Fills(t)
  BY <1>2, <1>3 DEF PlanOk, Fills
<1> QED
  BY <1>1, <1>4, <1>5, <1>6 DEF PlanOk

\* Nothing to do is in order.
LEMMA PlanOkNone ==
    ASSUME NEW s
    PROVE  PlanOk(s, << >>)
<1>1. DOMAIN << >> = {}
  BY SMT
<1> QED
  BY <1>1 DEF PlanOk, Restores, Fills

\* What a step does to a plan: nothing, or the plan is worked off or dropped.
Worked(y) == \/ plan'[y] = plan[y] \/ plan'[y] = << >>
             \/ plan[y] # << >> /\ plan'[y] = Tail(plan[y])

\* Plans that are only worked off stay in order.
LEMMA PlansWorkedOff ==
    ASSUME TypeOK, Orderly, stopping' = stopping, \A y \in Actors : Worked(y),
           \A s \in Sups : loop[s] => loop'[s] \/ plan'[s] = << >>
    PROVE  PlansNext
<1> USE DEF Worked
<1>1. \A y \in Actors : plan[y] \in Seq(Ops)
  BY TypesNow
<1>2. Sups \subseteq Actors /\ Runtime \in Actors
  BY DEF Actors
<1>3. ASSUME NEW s \in Sups PROVE PlanOk(s, plan'[s])
  <2>1. PlanOk(s, plan[s]) /\ plan[s] \in Seq(Ops)
    BY <1>1, <1>2 DEF Orderly
  <2>2. CASE plan'[s] = plan[s]
    BY <2>1, <2>2
  <2>3. CASE plan'[s] = << >>
    BY <2>3, PlanOkNone
  <2>4. CASE plan[s] # << >> /\ plan'[s] = Tail(plan[s])
    BY <2>1, <2>4, PlanOkTail
  <2> QED
    BY <1>2, <2>2, <2>3, <2>4
<1>4. ASSUME NEW s \in Sups, ~loop'[s] PROVE plan'[s] = << >>
  BY <1>2, <1>4 DEF Orderly
<1>5. ASSUME NEW i \in DOMAIN plan'[Runtime]
      PROVE  Proper(plan'[Runtime][i]) /\ plan'[Runtime][i].op \in Stops
  <2>1. CASE plan'[Runtime] = plan[Runtime]
    BY <1>5, <2>1 DEF Orderly
  <2>2. CASE plan'[Runtime] = << >>
    BY <1>5, <2>2, SMT
  <2>3. CASE plan[Runtime] # << >> /\ plan'[Runtime] = Tail(plan[Runtime])
    <3>1. PICK j \in DOMAIN plan[Runtime] : plan'[Runtime][i] = plan[Runtime][j]
      BY <1>1, <1>2, <1>5, <2>3, TailIs, SMT
    <3> QED
      BY <3>1 DEF Orderly
  <2> QED
    BY <1>2, <2>1, <2>2, <2>3
<1>6. ASSUME ~stopping' PROVE plan'[Runtime] = << >>
  BY <1>2, <1>6 DEF Orderly
<1> QED
  BY <1>3, <1>4, <1>5, <1>6 DEF PlansNext

\* What may be posted to a supervisor.
Fits(s, e) ==
    e.kind = "child_crashed" => e.who \in Range(Kids[s]) /\ (e.who \in Sups => e.inc = 0)

\* What a step does to a mailbox.
Delivered(s) ==
    \/ mail'[s] = mail[s]
    \/ mail[s] # << >> /\ mail'[s] = Tail(mail[s])
    \/ \E e \in Events : Fits(s, e) /\ mail'[s] = Append(mail[s], e)

\* Mailboxes that are only appended to or read stay in order.
LEMMA MailsKept ==
    ASSUME TypeOK, Orderly, \A s \in Sups : Delivered(s)
    PROVE  MailsNext
<1> SUFFICES ASSUME NEW s \in Sups PROVE MailOk(s, mail'[s])
  BY DEF MailsNext
<1>1. mail[s] \in Seq(Events) /\ \A i \in DOMAIN mail[s] : Fits(s, mail[s][i])
  BY TypesNow DEF Orderly, MailOk, Fits
<1> SUFFICES ASSUME NEW i \in DOMAIN mail'[s] PROVE Fits(s, mail'[s][i])
  BY DEF MailOk, Fits
<1>2. CASE mail'[s] = mail[s]
  BY <1>1, <1>2
<1>3. CASE mail[s] # << >> /\ mail'[s] = Tail(mail[s])
  <2>1. PICK j \in DOMAIN mail[s] : mail'[s][i] = mail[s][j]
    BY <1>1, <1>3, TailIs, SMT
  <2> QED
    BY <1>1, <2>1
<1>4. ASSUME NEW e \in Events, Fits(s, e), mail'[s] = Append(mail[s], e) PROVE Fits(s, mail'[s][i])
  <2>1. mail'[s][i] = e \/ \E j \in DOMAIN mail[s] : mail'[s][i] = mail[s][j]
    BY <1>1, <1>4, AppendIs, SMT
  <2> QED
    BY <1>1, <1>4, <2>1
<1> QED
  BY <1>2, <1>3, <1>4 DEF Delivered

\* The events that are sent fit their receivers.
LEMMA CrashFits ==
    ASSUME TypeOK, Tree
    PROVE  /\ \A a \in Agents : /\ Crashed(a, inc[a], 0) \in Events
                               /\ Fits(ParentOf(a), Crashed(a, inc[a], 0))
           /\ \A s \in Sups \ {Root} : /\ Crashed(s, 0, gen[s]) \in Events
                                       /\ Fits(Root, Crashed(s, 0, gen[s]))
           /\ Shutdown \in Events /\ \A s : Fits(s, Shutdown)
<1>1. 0 \in Nat /\ (\A a \in Agents : inc[a] \in Nat) /\ (\A s \in Sups : gen[s] \in Nat)
  BY TypesNow, SMT
<1>2. ASSUME NEW a \in Agents
      PROVE  Crashed(a, inc[a], 0) \in Events /\ Fits(ParentOf(a), Crashed(a, inc[a], 0))
  <2>0. a \in Parties /\ inc[a] \in Nat /\ 0 \in Nat
    BY <1>1 DEF Parties
  <2>1. Crashed(a, inc[a], 0) \in Events /\ Crashed(a, inc[a], 0).who = a
    BY <2>0, EventsAre, SMT
  <2>2. a \in Range(Kids[ParentOf(a)]) /\ a \notin Sups
    BY ParentIs DEF Tree
  <2> QED
    BY <2>1, <2>2 DEF Fits
<1>3. ASSUME NEW s \in Sups \ {Root}
      PROVE  Crashed(s, 0, gen[s]) \in Events /\ Fits(Root, Crashed(s, 0, gen[s]))
  <2>0. s \in Parties /\ gen[s] \in Nat /\ 0 \in Nat
    BY <1>1 DEF Parties
  <2>1. Crashed(s, 0, gen[s]) \in Events /\ Crashed(s, 0, gen[s]).who = s /\ Crashed(s, 0, gen[s]).inc = 0
    BY <2>0, EventsAre, SMT
  <2>2. s \in Range(Kids[Root])
    BY DEF Tree
  <2> QED
    BY <2>1, <2>2 DEF Fits
<1>4. Shutdown \in Events /\ \A s : Fits(s, Shutdown)
  <2>1. Shutdown \in Events /\ Shutdown.kind = "shutdown" /\ "shutdown" # "child_crashed"
    BY EventsAre, SMT
  <2> QED
    BY <2>1 DEF Fits
<1> QED
  BY <1>2, <1>3, <1>4

\* _on_child_done() delivers to the parent.
LEMMA AgentDelivers ==
    ASSUME TypeOK, Tree, NEW a \in Agents, OnChildDone(a)
    PROVE  \A s \in Sups : Delivered(s)
<1>1. /\ \A t \in Sups : t # ParentOf(a) => mail'[t] = mail[t]
      /\ tracked[a] = inc[a] => mail'[ParentOf(a)] = Append(mail[ParentOf(a)], Crashed(a, inc[a], 0))
      /\ tracked[a] # inc[a] => mail' = mail
  BY DoneIs
<1>2. Crashed(a, inc[a], 0) \in Events /\ Fits(ParentOf(a), Crashed(a, inc[a], 0))
  BY CrashFits
<1> QED
  BY <1>1, <1>2 DEF Delivered

\* A restart that fails delivers to the root and drops the plan.
LEMMA AbortDelivers ==
    ASSUME TypeOK, Tree, NEW x \in Actors, plan[x] # << >>, Abort(x)
    PROVE  (\A s \in Sups : Delivered(s)) /\ \A y \in Actors : Worked(y)
<1>1. /\ plan'[x] = << >>
      /\ \A y \in Actors : y # x => plan'[y] = plan[y]
      /\ \A t \in Sups : t # Root => mail'[t] = mail[t]
      /\ \/ mail'[Root] = mail[Root]
         \/ x \in Sups \ {Root} /\ mail'[Root] = Append(mail[Root], Crashed(x, 0, gen[x]))
  BY AbortIs
<1>2. x \in Sups \ {Root} => Crashed(x, 0, gen[x]) \in Events /\ Fits(Root, Crashed(x, 0, gen[x]))
  BY CrashFits
<1>3. \A s \in Sups : Delivered(s)
  BY <1>1, <1>2 DEF Delivered
<1>4. \A y \in Actors : Worked(y)
  BY <1>1 DEF Worked
<1> QED
  BY <1>3, <1>4

\* An operation done leaves the rest of the plan.
LEMMA ProceedWorks ==
    ASSUME TypeOK, NEW x \in Actors, plan[x] # << >>, Proceed(x)
    PROVE  \A y \in Actors : Worked(y)
<1>1. plan'[x] = Tail(plan[x]) /\ \A y \in Actors : y # x => plan'[y] = plan[y]
  BY ProceedIs
<1> QED
  BY <1>1 DEF Worked

\* A loop that only changes to running keeps the plans its own.
LEMMA LoopsRun ==
    ASSUME TypeOK, NEW t \in Sups, loop' = [loop EXCEPT ![t] = TRUE]
    PROVE  \A s \in Sups : loop[s] => loop'[s]
<1>1. loop \in [Sups -> BOOLEAN]
  BY TypesNow
<1> QED
  BY <1>1

\* The steps of an agent keep plans and mailboxes in order.
LEMMA AgentOrderly ==
    ASSUME TypeOK, Orderly, NEW a \in Agents, AgentStep(a) \/ AgentCrash(a) \/ AgentLeaves(a)
    PROVE  PlansNext /\ MailsNext
<1>1. Tree
  BY TreeHere
<1>2. /\ plan' = plan /\ loop' = loop /\ stopping' = stopping
      /\ mail' = mail \/ OnChildDone(a)
  BY DEF AgentStep, AgentReady, AgentStartFails, AgentObeys, AgentEnds, AgentCrash, AgentLeaves,
               supVars, planVars, envVars
<1>3. \A s \in Sups : Delivered(s)
  <2>1. mail' = mail => \A s \in Sups : Delivered(s)
    BY DEF Delivered
  <2> QED
    BY <1>1, <1>2, <2>1, AgentDelivers
<1>4. MailsNext
  BY <1>3, MailsKept
<1>5. \A y \in Actors : Worked(y)
  BY <1>2 DEF Worked
<1>6. PlansNext
  BY <1>2, <1>5, PlansWorkedOff
<1> QED
  BY <1>4, <1>6

\* The mailbox a supervisor takes a message from.
LEMMA TailDelivers ==
    ASSUME TypeOK, NEW s \in Sups, mail[s] # << >>, mail' = [mail EXCEPT ![s] = Tail(@)]
    PROVE  /\ mail'[s] = Tail(mail[s]) /\ \A t \in Sups : t # s => mail'[t] = mail[t]
           /\ \A t \in Sups : Delivered(t)
<1>1. mail \in [Sups -> Seq(Events)]
  BY TypesNow
<1>2. mail'[s] = Tail(mail[s]) /\ \A t \in Sups : t # s => mail'[t] = mail[t]
  BY <1>1
<1> QED
  BY <1>2 DEF Delivered

\* So do those of a supervisor's loop,
LEMMA LoopOrderly ==
    ASSUME TypeOK, Orderly, Planned, NEW s \in Sups, LoopStep(s) \/ BackoffOver(s) \/ AgeOut(s)
    PROVE  PlansNext /\ MailsNext
<1>0. Tree /\ s \in Actors
  BY TreeHere DEF Actors
<1>t. loop \in [Sups -> BOOLEAN] /\ mail \in [Sups -> Seq(Events)] /\ plan \in [Actors -> Seq(Ops)]
  BY TypesNow
<1>p. ASSUME plan' = plan PROVE \A y \in Actors : Worked(y)
  BY <1>p DEF Worked
<1>m. ASSUME mail' = mail PROVE \A t \in Sups : Delivered(t)
  BY <1>m DEF Delivered
<1>1. CASE LoopEnds(s)
  <2>1. /\ plan' = plan /\ stopping' = stopping /\ mail[s] # << >> /\ plan[s] = << >>
        /\ mail' = [mail EXCEPT ![s] = Tail(@)] /\ loop' = [loop EXCEPT ![s] = FALSE]
    BY <1>1 DEF LoopEnds, Idle, planVars, envVars
  <2>2. \A t \in Sups : loop[t] => loop'[t] \/ plan'[t] = << >>
    BY <1>t, <2>1
  <2>3. \A t \in Sups : Delivered(t)
    BY <2>1, TailDelivers
  <2>4. \A y \in Actors : Worked(y)
    BY <1>p, <2>1
  <2> QED
    BY <2>1, <2>2, <2>3, <2>4, PlansWorkedOff, MailsKept
<1>2. CASE SkipEvent(s)
  <2>1. /\ plan' = plan /\ stopping' = stopping /\ loop' = loop /\ mail[s] # << >>
        /\ mail' = [mail EXCEPT ![s] = Tail(@)]
    BY <1>2 DEF SkipEvent, planVars, envVars
  <2>2. \A t \in Sups : Delivered(t)
    BY <2>1, TailDelivers
  <2>3. \A y \in Actors : Worked(y)
    BY <1>p, <2>1
  <2> QED
    BY <2>1, <2>2, <2>3, PlansWorkedOff, MailsKept
<1>3. CASE BeginRestart(s)
  <2>1. /\ stopping' = stopping /\ loop' = loop /\ mail[s] # << >> /\ loop[s]
        /\ mail' = [mail EXCEPT ![s] = Tail(@)]
    BY <1>3 DEF BeginRestart, Idle, envVars
  <2>2. \A t \in Sups : Delivered(t)
    BY <2>1, TailDelivers
  <2>3. MailsNext
    BY <2>2, MailsKept
  <2>4. PlanOk(s, plan'[s]) /\ \A y \in Actors : y # s => plan'[y] = plan[y]
    BY <1>3, BeginIs
  <2>5. Runtime \in Actors /\ Runtime # s /\ Sups \subseteq Actors
    BY <1>0 DEF Tree, Actors
  <2>6. plan'[Runtime] = plan[Runtime]
    BY <2>4, <2>5
  <2>7. PlansNext
    BY <2>1, <2>4, <2>5, <2>6 DEF PlansNext, Orderly
  <2> QED
    BY <2>3, <2>7
<1>4. CASE Exhausted(s)
  <2>1. /\ plan' = plan /\ stopping' = stopping /\ loop' = loop /\ mail[s] # << >> /\ Idle(s)
        /\ Escalate(s, Head(mail[s]).who)
    BY <1>4 DEF Exhausted, planVars, envVars
  <2>2. /\ \A t \in Sups : t # s /\ t # Root => mail'[t] = mail[t]
        /\ mail'[s] = Tail(mail[s])
        /\ s # Root => mail'[Root] = Append(mail[Root], Crashed(s, 0, gen[s]))
    BY <1>0, <2>1, EscalateIs
  <2>3. s # Root => Crashed(s, 0, gen[s]) \in Events /\ Fits(Root, Crashed(s, 0, gen[s]))
    BY <1>0, CrashFits
  <2>4. \A t \in Sups : Delivered(t)
    BY <2>1, <2>2, <2>3 DEF Delivered
  <2>5. \A y \in Actors : Worked(y)
    BY <1>p, <2>1
  <2> QED
    BY <2>1, <2>4, <2>5, PlansWorkedOff, MailsKept
<1>5. CASE BackoffOver(s)
  <2>1. mail' = mail /\ stopping' = stopping /\ loop' = loop /\ plan[s] # << >> /\ Proceed(s)
    BY <1>5 DEF BackoffOver, Acts, supVars, envVars
  <2>2. \A y \in Actors : Worked(y)
    BY <1>0, <2>1, ProceedWorks
  <2>3. \A t \in Sups : Delivered(t)
    BY <1>m, <2>1
  <2> QED
    BY <2>1, <2>2, <2>3, PlansWorkedOff, MailsKept
<1>6. CASE AgeOut(s)
  <2>1. mail' = mail /\ stopping' = stopping /\ loop' = loop /\ plan' = plan
    BY <1>6 DEF AgeOut, planVars, envVars
  <2>2. (\A y \in Actors : Worked(y)) /\ \A t \in Sups : Delivered(t)
    BY <1>m, <1>p, <2>1
  <2> QED
    BY <2>1, <2>2, PlansWorkedOff, MailsKept
<1> QED
  BY <1>1, <1>2, <1>3, <1>4, <1>5, <1>6 DEF LoopStep

\* those of a plan,
LEMMA PlanOrderly ==
    ASSUME TypeOK, Orderly, NEW x \in Actors, PlanStep(x)
    PROVE  PlansNext /\ MailsNext
<1>0. Tree
  BY TreeHere
<1>t. loop \in [Sups -> BOOLEAN] /\ mail \in [Sups -> Seq(Events)] /\ plan \in [Actors -> Seq(Ops)]
  BY TypesNow
<1>p. ASSUME plan' = plan PROVE \A y \in Actors : Worked(y)
  BY <1>p DEF Worked
<1>m. ASSUME mail' = mail PROVE \A t \in Sups : Delivered(t)
  BY <1>m DEF Delivered
<1>q. ASSUME stopping' = stopping, \A s \in Sups : loop[s] => loop'[s],
             \A y \in Actors : Worked(y), \A t \in Sups : Delivered(t)
      PROVE  PlansNext /\ MailsNext
  BY <1>q, PlansWorkedOff, MailsKept
<1>c. ASSUME plan[x] # << >>, Proceed(x), mail' = mail, loop' = loop, stopping' = stopping
      PROVE  PlansNext /\ MailsNext
  <2>1. \A y \in Actors : Worked(y)
    BY <1>c, ProceedWorks
  <2> QED
    BY <1>c, <1>m, <1>q, <2>1
<1>a. ASSUME plan[x] # << >>, Abort(x), loop' = loop, stopping' = stopping
      PROVE  PlansNext /\ MailsNext
  <2>1. (\A s \in Sups : Delivered(s)) /\ \A y \in Actors : Worked(y)
    BY <1>0, <1>a, AbortDelivers
  <2> QED
    BY <1>a, <1>q, <2>1
<1>1. CASE StopAgentDown(x)
  BY <1>1, <1>c DEF StopAgentDown, Acts, supVars
<1>2. CASE StopAgentSend(x)
  <2>1. plan' = plan /\ mail' = mail /\ loop' = loop /\ stopping' = stopping
    BY <1>2 DEF StopAgentSend, supVars, envVars
  <2> QED
    BY <1>m, <1>p, <1>q, <2>1
<1>3. CASE StopAgentWaited(x)
  <2>1. /\ plan[x] # << >> /\ loop' = loop /\ stopping' = stopping
        /\ (Proceed(x) /\ mail' = mail) \/ Abort(x)
    BY <1>3 DEF StopAgentWaited, Acts, envVars
  <2> QED
    BY <1>a, <1>c, <2>1
<1>4. CASE StopLoopSend(x)
  <2>1. /\ plan' = plan /\ loop' = loop /\ stopping' = stopping /\ Acts(x, "stop_loop")
        /\ mail' = IF loop[Target(x)] THEN [mail EXCEPT ![Target(x)] = Append(@, Shutdown)] ELSE mail
    BY <1>4 DEF StopLoopSend, envVars
  <2>2. Target(x) \in Sups
    BY <2>1, HeadIs DEF Acts
  <2>3. Shutdown \in Events /\ \A s : Fits(s, Shutdown)
    BY <1>0, CrashFits
  <2>4. ASSUME NEW s \in Sups PROVE mail'[s] = mail[s] \/ mail'[s] = Append(mail[s], Shutdown)
    BY <1>t, <2>1, <2>2
  <2>5. \A s \in Sups : Delivered(s)
    BY <2>3, <2>4 DEF Delivered
  <2> QED
    BY <1>p, <1>q, <2>1, <2>5
<1>5. CASE StopLoopWaited(x)
  BY <1>5, <1>c DEF StopLoopWaited, Acts, supVars, envVars
<1>6. CASE StartLoop(x)
  <2>1. /\ plan[x] # << >> /\ Proceed(x) /\ mail' = mail /\ stopping' = stopping /\ Acts(x, "start_loop")
        /\ loop' = [loop EXCEPT ![Target(x)] = TRUE]
    BY <1>6 DEF StartLoop, Acts, envVars
  <2>2. Target(x) \in Sups
    BY <2>1, HeadIs
  <2>3. \A s \in Sups : loop[s] => loop'[s]
    BY <2>1, <2>2, LoopsRun
  <2>4. \A y \in Actors : Worked(y)
    BY <2>1, ProceedWorks
  <2> QED
    BY <1>m, <1>q, <2>1, <2>3, <2>4
<1>7. CASE StartAgentBegin(x)
  <2>1. /\ plan' = plan /\ loop' = loop /\ stopping' = stopping /\ plan[x] # << >>
        /\ Acts(x, "start_agent") /\ (mail' = mail \/ OnChildDone(Target(x)))
    BY <1>7 DEF StartAgentBegin, Acts, envVars
  <2>2. Target(x) \in Agents
    BY <2>1, HeadIs
  <2>3. \A s \in Sups : Delivered(s)
    BY <1>0, <1>m, <2>1, <2>2, AgentDelivers
  <2> QED
    BY <1>p, <1>q, <2>1, <2>3
<1>8. CASE StartAgentWaited(x)
  <2>1. /\ plan[x] # << >> /\ loop' = loop /\ stopping' = stopping /\ Acts(x, "start_agent")
        /\ \/ Abort(x)
           \/ Proceed(x) /\ \/ mail' = mail
                            \/ LET a == Target(x) IN
                               mail' = [mail EXCEPT ![ParentOf(a)] = Append(@, Crashed(a, inc[a], 0))]
    BY <1>8 DEF StartAgentWaited, Acts, envVars
  <2>2. ASSUME NEW a, a = Target(x), Proceed(x),
               mail' = [mail EXCEPT ![ParentOf(a)] = Append(@, Crashed(a, inc[a], 0))]
        PROVE  PlansNext /\ MailsNext
    <3>1. a \in Agents
      BY <2>1, <2>2, HeadIs
    <3>2. Crashed(a, inc[a], 0) \in Events /\ Fits(ParentOf(a), Crashed(a, inc[a], 0)) /\ ParentOf(a) \in Sups
      BY <1>0, <3>1, CrashFits, ParentIs
    <3>3. ASSUME NEW s \in Sups
          PROVE  mail'[s] = mail[s] \/ (s = ParentOf(a) /\ mail'[s] = Append(mail[s], Crashed(a, inc[a], 0)))
      BY <1>t, <2>2, <3>2
    <3>4. \A s \in Sups : Delivered(s)
      BY <3>2, <3>3 DEF Delivered
    <3>5. \A y \in Actors : Worked(y)
      BY <2>1, <2>2, ProceedWorks
    <3> QED
      BY <1>q, <2>1, <3>4, <3>5
  <2> QED
    BY <1>a, <1>c, <2>1, <2>2
<1> QED
  BY <1>1, <1>2, <1>3, <1>4, <1>5, <1>6, <1>7, <1>8 DEF PlanStep

\* timeouts,
LEMMA FaultOrderly ==
    ASSUME TypeOK, Orderly, NEW x \in Actors,
           StopAgentTimeout(x) \/ StopLoopTimeout(x) \/ StopLoopTimeoutSwallowed(x)
    PROVE  PlansNext /\ MailsNext
<1>0. Tree /\ Actors = Sups \cup {Runtime}
  BY TreeHere DEF Actors
<1>1. mail' = mail /\ stopping' = stopping
  BY DEF StopAgentTimeout, StopLoopTimeout, StopLoopTimeoutSwallowed, supVars
<1>2. MailsNext
  BY <1>1, MailsKept DEF Delivered
<1>3. CASE StopAgentTimeout(x)
  <2>1. loop' = loop /\ plan[x] # << >> /\ Proceed(x)
    BY <1>3 DEF StopAgentTimeout, Acts, supVars
  <2>2. \A y \in Actors : Worked(y)
    BY <2>1, ProceedWorks
  <2> QED
    BY <1>1, <1>2, <2>1, <2>2, PlansWorkedOff
<1>4. CASE StopLoopTimeout(x)
  <2>1. /\ plan[x] # << >> /\ plan'[Target(x)] = << >> /\ plan'[x] = Tail(plan[x])
        /\ \A y \in Actors : y # x /\ y # Target(x) => plan'[y] = plan[y]
        /\ \A s \in Sups : s # Target(x) => loop'[s] = loop[s]
    BY <1>4, TimeoutIs
  <2>2. \A y \in Actors : Worked(y)
    BY <2>1 DEF Worked
  <2>3. \A s \in Sups : loop[s] => loop'[s] \/ plan'[s] = << >>
    BY <2>1
  <2> QED
    BY <1>1, <1>2, <2>2, <2>3, PlansWorkedOff
<1>5. CASE StopLoopTimeoutSwallowed(x)
  <2>1. /\ plan'[Runtime] = plan[Runtime]
        /\ \A s \in Sups : \/ plan'[s] = plan[s] \/ plan'[s] = << >>
                           \/ plan[s] # << >> /\ plan'[s] = Tail(plan[s])
        /\ \A s \in Sups : loop'[s] = loop[s] \/ (loop'[s] = FALSE /\ plan'[s] = << >>)
    BY <1>5, SwallowedIs
  <2>2. \A y \in Actors : Worked(y)
    BY <1>0, <2>1 DEF Worked
  <2>3. \A s \in Sups : loop[s] => loop'[s] \/ plan'[s] = << >>
    BY <2>1
  <2> QED
    BY <1>1, <1>2, <2>2, <2>3, PlansWorkedOff
<1> QED
  BY <1>3, <1>4, <1>5

\* and Runtime.stop().
LEMMA StopOrderly ==
    ASSUME TypeOK, Orderly, Planned, StopRuntime
    PROVE  /\ PlansNext /\ MailsNext /\ plan'[Runtime] = StopTree
           /\ \A s \in Sups : plan'[s] = plan[s]
<1>0. Tree /\ Actors = Sups \cup {Runtime}
  BY TreeHere DEF Actors
<1>1. plan \in [Actors -> Seq(Ops)]
  BY TypesNow
<1>2. mail' = mail /\ loop' = loop /\ stopping' = TRUE /\ plan' = [plan EXCEPT ![Runtime] = StopTree]
  BY DEF StopRuntime, supVars
<1>3. plan'[Runtime] = StopTree /\ \A s \in Sups : plan'[s] = plan[s]
  BY <1>0, <1>1, <1>2 DEF Tree
<1>4. MailsNext
  BY <1>2, MailsKept DEF Delivered
<1>5. \A i \in DOMAIN StopTree : Proper(StopTree[i]) /\ StopTree[i].op \in Stops
  BY <1>0 DEF Planned, StopTreeFits
<1>6. PlansNext
  BY <1>2, <1>3, <1>5 DEF PlansNext, Orderly
<1> QED
  BY <1>3, <1>4, <1>6

\* Every step keeps plans and mailboxes in order.
LEMMA OrderlyStep ==
    ASSUME TypeOK, Orderly, Planned, Next
    PROVE  Orderly'
<1>1. setting' = setting /\ DOMAIN st' = DOMAIN st
  BY Frozen
<1>2. PlansNext /\ MailsNext
  BY AgentOrderly, LoopOrderly, PlanOrderly, FaultOrderly, StopOrderly DEF Next, Fault
<1> QED
  BY <1>1, <1>2, OrderlyThen

-----------------------------------------------------------------------------
(* Runtime.stop().                                                         *)

\* StopAhead' from the new values, the tree being the same.
LEMMA AheadThen ==
    ASSUME setting' = setting, DOMAIN st' = DOMAIN st, loop'[Root] => plan'[Runtime] = StopTree,
           \A s \in Sups : s # Root /\ loop'[s] => Ahead(plan'[Runtime], s),
           \A a \in Agents : Live(a)' => Op("stop_agent", a) \in Range(plan'[Runtime]),
           \A a \in Agents : At(Runtime, "stop_agent", a)' /\ waiting'[Runtime] = "yes" =>
               (Live(a)' /\ shutting'[a]) \/ st'[a] \in {"leaving", "stopped"}
    PROVE  StopAhead'
<1>1. Kids' = Kids /\ Sups' = Sups /\ Agents' = Agents /\ StopTree' = StopTree
  BY Same
<1>2. ASSUME NEW s \in Sups \ {Root}, loop'[s] PROVE Ahead(plan[Runtime], s)'
  BY <1>1, <1>2 DEF Ahead, After
<1> QED
  BY <1>1, <1>2 DEF StopAhead

\* What a step leaves of StopAhead when the runtime stands still.
LEMMA AheadFrame ==
    ASSUME Tree, StopAhead, stopping, setting' = setting, DOMAIN st' = DOMAIN st,
           plan'[Runtime] = plan[Runtime], waiting'[Runtime] = "yes" => waiting[Runtime] = "yes",
           \A s \in Sups : loop'[s] => \/ loop[s]
                                       \/ s # Root /\ Ahead(plan[Runtime], s),
           \A a \in Agents : Live(a)' => Live(a) \/ Op("stop_agent", a) \in Range(plan[Runtime]),
           \A a \in Agents : At(Runtime, "stop_agent", a) /\ waiting[Runtime] = "yes"
                               /\ ((Live(a) /\ shutting[a]) \/ st[a] \in {"leaving", "stopped"})
                               => (Live(a)' /\ shutting'[a]) \/ st'[a] \in {"leaving", "stopped"}
    PROVE  StopAhead'
<1>1. loop'[Root] => plan'[Runtime] = StopTree
  BY DEF StopAhead, Tree
<1>2. \A s \in Sups : s # Root /\ loop'[s] => Ahead(plan'[Runtime], s)
  BY DEF StopAhead
<1>3. \A a \in Agents : Live(a)' => Op("stop_agent", a) \in Range(plan'[Runtime])
  BY DEF StopAhead
<1>4. \A a \in Agents : At(Runtime, "stop_agent", a)' <=> At(Runtime, "stop_agent", a)
  BY DEF At
<1>5. \A a \in Agents : At(Runtime, "stop_agent", a)' /\ waiting'[Runtime] = "yes" =>
          (Live(a)' /\ shutting'[a]) \/ st'[a] \in {"leaving", "stopped"}
  BY <1>4 DEF StopAhead
<1> QED
  BY <1>1, <1>2, <1>3, <1>5, AheadThen

\* An agent that ends is no longer to be stopped; one that crashes is not up.
LEMMA AgentAhead ==
    ASSUME TypeOK, Tree, StopAhead, stopping, ~setting.endInStop, NEW a \in Agents,
           AgentStep(a) \/ AgentCrash(a) \/ AgentLeaves(a), setting' = setting, DOMAIN st' = DOMAIN st
    PROVE  StopAhead'
<1>0. st \in [Agents -> AgentStates] /\ shutting \in [Agents -> BOOLEAN]
  BY TypesNow
<1>1. /\ plan' = plan /\ waiting' = waiting /\ loop' = loop
      /\ \A b \in Agents : b # a => st'[b] = st[b] /\ shutting'[b] = shutting[b]
  BY <1>0 DEF AgentStep, AgentReady, AgentStartFails, AgentObeys, AgentEnds, AgentCrash, AgentLeaves,
                     supVars, planVars
<1>2. /\ Live(a)' => Live(a)
      /\ (Live(a) /\ shutting[a]) \/ st[a] \in {"leaving", "stopped"}
           => (Live(a)' /\ shutting'[a]) \/ st'[a] \in {"leaving", "stopped"}
  <2>1. CASE AgentReady(a)
    <3>1. st[a] = "starting" /\ st'[a] = "live" /\ shutting' = shutting
      BY <1>0, <2>1 DEF AgentReady
    <3> QED
      BY <3>1, SMT DEF Live
  <2>2. CASE AgentStartFails(a)
    <3>1. st[a] = "starting" /\ st'[a] \in setting.startFailures /\ ~shutting[a]
      BY <1>0, <2>2 DEF AgentStartFails
    <3>2. setting.startFailures \subseteq {"failed", "stuck"}
      BY SupervisorAssumption, TypesNow, SMT
    <3> QED
      BY <3>1, <3>2, SMT DEF Live
  <2>3. CASE AgentObeys(a)
    <3>1. st[a] = "live" /\ st'[a] = "leaving"
      BY <1>0, <2>3 DEF AgentObeys
    <3> QED
      BY <3>1, SMT DEF Live
  <2>4. CASE AgentEnds(a)
    <3>1. \/ st[a] = "dying" /\ st'[a] = "crashed"
          \/ st[a] = "leaving" /\ st'[a] = "stopped"
      BY <1>0, <2>4 DEF AgentEnds
    <3> QED
      BY <3>1, SMT DEF Live
  <2>5. CASE AgentCrash(a)
    <3>1. st[a] = "live" /\ ~shutting[a] /\ (st'[a] = "dying" \/ st'[a] = "crashed")
      BY <1>0, <2>5 DEF AgentCrash
    <3> QED
      BY <3>1, SMT DEF Live
  <2>6. CASE AgentLeaves(a)
    <3>1. st[a] = "live" /\ (st'[a] = "stopped" \/ st'[a] = "leaving")
      <4>1. \A e : e \in {"stopped"} \cup (IF setting.slowTeardown THEN {"leaving"} ELSE {}) =>
               e = "stopped" \/ e = "leaving"
        OBVIOUS
      <4> QED
        BY <1>0, <2>6, <4>1 DEF AgentLeaves
    <3> QED
      BY <3>1, SMT DEF Live
  <2> QED
    BY <2>1, <2>2, <2>3, <2>4, <2>5, <2>6 DEF AgentStep
<1>3. \A b \in Agents : b # a => (Live(b)' <=> Live(b))
  BY <1>1 DEF Live
<1> QED
  BY <1>1, <1>2, <1>3, AheadFrame

\* A loop that ends is no longer to be stopped; none comes up by itself.
LEMMA LoopAhead ==
    ASSUME TypeOK, Orderly, Planned, StopAhead, stopping, NEW s \in Sups, LoopStep(s) \/ BackoffOver(s) \/ AgeOut(s),
           setting' = setting
    PROVE  StopAhead'
<1>0. /\ Tree /\ loop \in [Sups -> BOOLEAN] /\ plan \in [Actors -> Seq(Ops)] /\ Runtime \in Actors
      /\ waiting \in [Actors -> Waits] /\ s # Runtime /\ s \in Actors
  BY TypesNow, TreeHere DEF Actors, Tree
<1>1. /\ st' = st /\ shutting' = shutting
      /\ loop' = loop \/ loop' = [loop EXCEPT ![s] = FALSE]
  BY DEF LoopStep, LoopEnds, SkipEvent, BeginRestart, Exhausted, BackoffOver, AgeOut, agentVars, supVars
<1>2. plan'[Runtime] = plan[Runtime] /\ waiting'[Runtime] = waiting[Runtime]
  <2>1. CASE BackoffOver(s)
    <3>1. plan' = [plan EXCEPT ![s] = Tail(@)] /\ waiting' = [waiting EXCEPT ![s] = "no"]
      BY <2>1 DEF BackoffOver, Proceed
    <3> QED
      BY <1>0, <3>1
  <2>2. CASE BeginRestart(s)
    <3>1. waiting' = waiting
      BY <2>2 DEF BeginRestart
    <3> QED
      BY <1>0, <2>2, <3>1, BeginIs
  <2>3. ASSUME LoopEnds(s) \/ SkipEvent(s) \/ Exhausted(s) \/ AgeOut(s) PROVE plan' = plan /\ waiting' = waiting
    BY <2>3 DEF LoopEnds, SkipEvent, Exhausted, AgeOut, planVars
  <2> QED
    BY <2>1, <2>2, <2>3 DEF LoopStep
<1>3. \A t \in Sups : loop'[t] => loop[t]
  BY <1>0, <1>1
<1>4. \A a \in Agents : Live(a)' <=> Live(a)
  BY <1>1 DEF Live
<1> QED
  BY <1>0, <1>1, <1>2, <1>3, <1>4, AheadFrame

\* A supervisor performs its plan while the runtime stops the tree.
LEMMA SupAhead ==
    ASSUME TypeOK, Orderly, Planned, StopAhead, stopping, NEW x \in Sups,
           PlanStep(x) \/ StopAgentTimeout(x) \/ StopLoopTimeout(x),
           setting' = setting, DOMAIN st' = DOMAIN st
    PROVE  StopAhead'
<1>0. /\ Tree /\ loop \in [Sups -> BOOLEAN] /\ plan \in [Actors -> Seq(Ops)] /\ Runtime \in Actors
      /\ waiting \in [Actors -> Waits] /\ x # Runtime /\ x \in Actors
      /\ st \in [Agents -> AgentStates] /\ shutting \in [Agents -> BOOLEAN]
  BY TypesNow, TreeHere DEF Actors, Tree
<1>1. plan[x] # << >> /\ loop[x]
  <2>1. plan[x] # << >>
    BY DEF PlanStep, StopAgentDown, StopAgentSend, StopAgentWaited, StopLoopSend, StopLoopWaited, StartLoop,
                 StartAgentBegin, StartAgentWaited, StopAgentTimeout, StopLoopTimeout, Acts
  <2> QED
    BY <2>1 DEF Orderly
<1>2. ASSUME Proceed(x) PROVE plan'[Runtime] = plan[Runtime] /\ waiting'[Runtime] = waiting[Runtime]
  BY <1>0, <1>1, <1>2, ProceedIs
<1>3. ASSUME Abort(x) PROVE plan'[Runtime] = plan[Runtime] /\ waiting'[Runtime] = waiting[Runtime]
  BY <1>0, <1>1, <1>3, AbortIs
<1>4. ASSUME plan' = plan, waiting' = [waiting EXCEPT ![x] = "yes"]
      PROVE  plan'[Runtime] = plan[Runtime] /\ waiting'[Runtime] = waiting[Runtime]
  BY <1>0, <1>4
<1>5. ASSUME st' = st, loop' = loop, \A a \in Agents : shutting[a] => shutting'[a],
             plan'[Runtime] = plan[Runtime], waiting'[Runtime] = waiting[Runtime]
      PROVE  StopAhead'
  <2>1. \A a \in Agents : Live(a)' <=> Live(a)
    BY <1>5 DEF Live
  <2> QED
    BY <1>0, <1>5, <2>1, AheadFrame
<1>6. ASSUME NEW a, NEW v, shutting' = [shutting EXCEPT ![a] = v], v \in BOOLEAN, shutting[a] => v
      PROVE  \A b \in Agents : shutting[b] => shutting'[b]
  BY <1>0, <1>6
<1>7. CASE StopAgentDown(x)
  <2>1. /\ st' = st /\ loop' = loop /\ Proceed(x)
        /\ shutting' = [shutting EXCEPT ![Target(x)] = @ \/ st[Target(x)] = "stuck"]
    BY <1>7 DEF StopAgentDown, supVars
  <2>2. \A b \in Agents : shutting[b] => shutting'[b]
    BY <1>0, <2>1
  <2> QED
    BY <1>2, <1>5, <2>1, <2>2
<1>8. CASE StopAgentSend(x)
  <2>1. /\ st' = st /\ loop' = loop /\ plan' = plan /\ waiting' = [waiting EXCEPT ![x] = "yes"]
        /\ shutting' = [shutting EXCEPT ![Target(x)] = TRUE]
    BY <1>8 DEF StopAgentSend, supVars
  <2>2. \A b \in Agents : shutting[b] => shutting'[b]
    BY <1>0, <2>1
  <2> QED
    BY <1>4, <1>5, <2>1, <2>2
<1>9. CASE StopAgentWaited(x)
  <2>1. st' = st /\ loop' = loop /\ shutting' = shutting /\ (Proceed(x) \/ Abort(x))
    BY <1>9 DEF StopAgentWaited, agentVars
  <2> QED
    BY <1>2, <1>3, <1>5, <2>1
<1>10. CASE StopLoopSend(x)
  <2>1. st' = st /\ loop' = loop /\ shutting' = shutting /\ plan' = plan /\ waiting' = [waiting EXCEPT ![x] = "yes"]
    BY <1>10 DEF StopLoopSend, agentVars
  <2> QED
    BY <1>4, <1>5, <2>1
<1>11. CASE StopLoopWaited(x)
  <2>1. st' = st /\ loop' = loop /\ shutting' = shutting /\ Proceed(x)
    BY <1>11 DEF StopLoopWaited, agentVars, supVars
  <2> QED
    BY <1>2, <1>5, <2>1
<1>12. CASE StartAgentWaited(x)
  <2>1. st' = st /\ loop' = loop /\ shutting' = shutting /\ (Proceed(x) \/ Abort(x))
    BY <1>12 DEF StartAgentWaited
  <2> QED
    BY <1>2, <1>3, <1>5, <2>1
<1>13. CASE StartLoop(x)
  <2>1. /\ st' = st /\ shutting' = shutting /\ Proceed(x) /\ Acts(x, "start_loop")
        /\ loop' = [loop EXCEPT ![Target(x)] = TRUE]
    BY <1>13 DEF StartLoop, agentVars
  <2>2. Target(x) \in Sups /\ x = Root /\ Target(x) # Root
    <3>1. Target(x) \in Sups
      BY <1>0, <1>1, <2>1, HeadIs
    <3> QED
      BY <1>0, <1>1, <3>1, HeadIs
  <2>3. Ahead(plan[Runtime], Target(x))
    <3>1. plan[Runtime] = StopTree
      BY <1>1, <2>2 DEF StopAhead
    <3> QED
      BY <1>0, <2>2, <3>1 DEF Planned, StopTreeFits
  <2>4. \A s \in Sups : loop'[s] => loop[s] \/ (s # Root /\ Ahead(plan[Runtime], s))
    BY <1>0, <2>1, <2>2, <2>3
  <2>5. \A a \in Agents : Live(a)' <=> Live(a)
    BY <2>1 DEF Live
  <2> QED
    BY <1>0, <1>2, <2>1, <2>4, <2>5, AheadFrame
<1>14. CASE StartAgentBegin(x)
  <2>a. PICK a : a = Target(x)
    OBVIOUS
  <2>1. /\ loop' = loop /\ shutting' = shutting /\ plan' = plan /\ waiting' = [waiting EXCEPT ![x] = "yes"]
        /\ Acts(x, "start_agent") /\ st' = [st EXCEPT ![a] = "starting"]
    BY <1>14, <2>a DEF StartAgentBegin
  <2>2. a \in Agents /\ a \in Reach(x)
    BY <1>0, <1>1, <2>a, <2>1, HeadIs
  <2>3. Op("stop_agent", a) \in Range(plan[Runtime]) /\ ~At(Runtime, "stop_agent", a)
    <3>1. CASE x = Root
      <4>1. plan[Runtime] = StopTree
        BY <1>1, <3>1 DEF StopAhead
      <4>2. Op("stop_agent", a) \in Range(StopTree) /\ Head(StopTree) = Op("stop_loop", Root)
        BY <1>0, <2>2 DEF Planned, StopTreeFits
      <4>3. Op("stop_loop", Root) # Op("stop_agent", a)
        BY SMT DEF Op
      <4> QED
        BY <4>1, <4>2, <4>3 DEF At
    <3>2. CASE x # Root
      <4>1. a \in Range(Kids[x])
        BY <2>2, <3>2 DEF Reach
      <4>2. PICK q : q = plan[Runtime] /\ q \in Seq(Ops) /\ Ahead(q, x)
        BY <1>0, <1>1, <3>2 DEF StopAhead
      <4>3. PICK i \in DOMAIN q : /\ q[i] = Op("stop_loop", x)
                                  /\ \A j \in 1..(i - 1) : q[j].who \notin Range(Kids[x])
                                  /\ \A b \in Range(Kids[x]) : After(q, i, Op("stop_agent", b))
        BY <4>2 DEF Ahead
      <4>4. Op("stop_agent", a) \in Range(q)
        BY <4>1, <4>3 DEF After, Range
      <4>5. ~(q # << >> /\ Head(q) = Op("stop_agent", a))
        <5>1. i = 1 \/ 1 \in 1..(i - 1)
          BY <4>2, <4>3, SMT
        <5>2. Op("stop_agent", a) # Op("stop_loop", x) /\ Op("stop_agent", a).who = a
          BY SMT DEF Op
        <5>3. q # << >> => Head(q) = q[1]
          BY <4>2, TailIs, SMT
        <5> QED
          BY <4>1, <4>3, <5>1, <5>2, <5>3
      <4> QED
        BY <4>2, <4>4, <4>5 DEF At
    <3> QED
      BY <3>1, <3>2
  <2>4. \A b \in Agents : b # a => st'[b] = st[b] /\ (Live(b)' <=> Live(b))
    BY <1>0, <2>1 DEF Live
  <2> QED
    BY <1>0, <1>4, <2>1, <2>3, <2>4, AheadFrame
<1>15. CASE StopAgentTimeout(x)
  <2>1. /\ loop' = loop /\ shutting' = shutting /\ Proceed(x) /\ Acts(x, "stop_agent")
        /\ st' = [st EXCEPT ![Target(x)] = "stopped"]
    BY <1>15 DEF StopAgentTimeout, supVars
  <2>2. \A b \in Agents : st'[b] = st[b] \/ st'[b] = "stopped"
    BY <1>0, <2>1
  <2>3. ~("stopped" \in {"starting", "live"})
    BY SMT
  <2>4. \A b \in Agents : (Live(b)' => Live(b)) /\ (st'[b] = "stopped" \/ (Live(b) => Live(b)'))
    BY <2>2, <2>3 DEF Live
  <2> QED
    BY <1>0, <1>2, <2>1, <2>2, <2>4, AheadFrame
<1>16. CASE StopLoopTimeout(x)
  <2>1. /\ st' = st /\ shutting' = shutting
    BY <1>16 DEF StopLoopTimeout, agentVars
  <2>2. /\ Target(x) \in Sups /\ loop'[Target(x)] = FALSE /\ \A s \in Sups : s # Target(x) => loop'[s] = loop[s]
        /\ \A y \in Actors : y # x /\ y # Target(x) => plan'[y] = plan[y] /\ waiting'[y] = waiting[y]
    BY <1>0, <1>16, TimeoutIs
  <2>3. plan'[Runtime] = plan[Runtime] /\ waiting'[Runtime] = waiting[Runtime]
    <3>1. Runtime # Target(x)
      BY <1>0, <2>2 DEF Tree
    <3> QED
      BY <1>0, <2>2, <3>1
  <2>4. \A a \in Agents : Live(a)' <=> Live(a)
    BY <2>1 DEF Live
  <2>5. \A s \in Sups : loop'[s] => loop[s]
    BY <2>2
  <2> QED
    BY <1>0, <2>1, <2>3, <2>4, <2>5, AheadFrame
<1> QED
  BY <1>7, <1>8, <1>9, <1>10, <1>11, <1>12, <1>13, <1>14, <1>15, <1>16 DEF PlanStep

\* Runtime.stop() is done with the head of its plan.
LEMMA StopProceeds ==
    ASSUME TypeOK, Orderly, Planned, StopAhead, stopping, plan[Runtime] # << >>,
           setting' = setting, DOMAIN st' = DOMAIN st,
           plan'[Runtime] = Tail(plan[Runtime]), waiting'[Runtime] = "no",
           \A s \in Sups : loop'[s] => loop[s] /\ ~At(Runtime, "stop_loop", s),
           \A a \in Agents : Live(a)' => Live(a) /\ ~At(Runtime, "stop_agent", a)
    PROVE  StopAhead'
<1>0. Tree /\ Runtime \in Actors /\ plan \in [Actors -> Seq(Ops)]
  BY TypesNow, TreeHere DEF Actors
<1>1. PICK q \in Seq(Ops) : q = plan[Runtime] /\ q # << >>
  BY <1>0
<1>2. ~loop'[Root]
  BY <1>0 DEF Planned, StopTreeFits, StopAhead, Tree, At
<1>3. \A s \in Sups : s # Root /\ loop'[s] => Ahead(plan'[Runtime], s)
  <2>1. ASSUME NEW s \in Sups, s # Root, loop'[s] PROVE Ahead(q, s) /\ Head(q) # Op("stop_loop", s)
    BY <1>1, <2>1 DEF StopAhead, At
  <2> QED
    BY <1>1, <2>1, AheadTail
<1>4. \A a \in Agents : Live(a)' => Op("stop_agent", a) \in Range(plan'[Runtime])
  <2>1. ASSUME NEW a \in Agents, Live(a)' PROVE Op("stop_agent", a) \in Range(q) /\ Head(q) # Op("stop_agent", a)
    BY <1>1, <2>1 DEF StopAhead, At
  <2>2. ASSUME NEW o \in Range(q), o # Head(q) PROVE o \in Range(Tail(q))
    <3>1. PICK i \in DOMAIN q : q[i] = o
      BY <2>2 DEF Range
    <3>2. i # 1 /\ i - 1 \in DOMAIN Tail(q) /\ Tail(q)[i - 1] = o
      BY <1>1, <2>2, <3>1, TailIs
    <3> QED
      BY <3>2 DEF Range
  <2> QED
    BY <1>1, <2>1, <2>2
<1>5. "no" # "yes"
  BY SMT
<1> QED
  BY <1>2, <1>3, <1>4, <1>5, AheadThen

\* The steps of Runtime.stop().
LEMMA RuntimeAhead ==
    ASSUME TypeOK, Orderly, Planned, StopAhead, stopping,
           PlanStep(Runtime) \/ StopAgentTimeout(Runtime) \/ StopLoopTimeout(Runtime),
           setting' = setting, DOMAIN st' = DOMAIN st
    PROVE  StopAhead'
<1>0. /\ Tree /\ loop \in [Sups -> BOOLEAN] /\ plan \in [Actors -> Seq(Ops)] /\ Runtime \in Actors
      /\ waiting \in [Actors -> Waits] /\ st \in [Agents -> AgentStates] /\ shutting \in [Agents -> BOOLEAN]
  BY TypesNow, TreeHere DEF Actors
<1>1. plan[Runtime] # << >>
  BY DEF PlanStep, StopAgentDown, StopAgentSend, StopAgentWaited, StopLoopSend, StopLoopWaited, StartLoop,
               StartAgentBegin, StartAgentWaited, StopAgentTimeout, StopLoopTimeout, Acts
<1>2. ASSUME Proceed(Runtime) PROVE plan'[Runtime] = Tail(plan[Runtime]) /\ waiting'[Runtime] = "no"
  BY <1>0, <1>1, <1>2, ProceedIs
<1>3. ASSUME Acts(Runtime, "stop_agent")
      PROVE  \A s \in Sups : ~At(Runtime, "stop_loop", s)
  <2>1. "stop_agent" # "stop_loop"
    BY SMT
  <2> QED
    BY <1>0, <1>3, <2>1, AtIs
<1>4. ASSUME Acts(Runtime, "stop_loop")
      PROVE  \A a \in Agents : ~At(Runtime, "stop_agent", a)
  <2>1. "stop_agent" # "stop_loop"
    BY SMT
  <2> QED
    BY <1>0, <1>4, <2>1, AtIs
<1>5. CASE StopAgentDown(Runtime)
  <2>1. /\ st' = st /\ loop' = loop /\ Proceed(Runtime) /\ Acts(Runtime, "stop_agent") /\ ~Live(Target(Runtime))
    BY <1>5 DEF StopAgentDown, supVars
  <2>2. \A a \in Agents : Live(a)' => Live(a) /\ ~At(Runtime, "stop_agent", a)
    BY <1>0, <2>1, AtIs DEF Live
  <2> QED
    BY <1>1, <1>2, <1>3, <2>1, <2>2, StopProceeds
<1>6. CASE StopAgentSend(Runtime)
  <2>a. PICK a : a = Target(Runtime)
    OBVIOUS
  <2>1. /\ st' = st /\ loop' = loop /\ plan' = plan /\ Acts(Runtime, "stop_agent") /\ Live(a)
        /\ shutting' = [shutting EXCEPT ![a] = TRUE]
    BY <1>6, <2>a DEF StopAgentSend, supVars
  <2>2. \A b \in Agents : Live(b)' <=> Live(b)
    BY <2>1 DEF Live
  <2>3. a \in Agents /\ \A b \in Agents : At(Runtime, "stop_agent", b) => b = a
    BY <1>0, <1>1, <2>a, <2>1, HeadIs, AtIs
  <2>4. Live(a)' /\ shutting'[a]
    BY <1>0, <2>1, <2>2, <2>3
  <2>5. loop[Root] => plan'[Runtime] = StopTree
    BY <2>1 DEF StopAhead
  <2>6. \A s \in Sups : s # Root /\ loop'[s] => Ahead(plan'[Runtime], s)
    BY <2>1 DEF StopAhead
  <2>7. \A b \in Agents : Live(b)' => Op("stop_agent", b) \in Range(plan'[Runtime])
    BY <2>1, <2>2 DEF StopAhead
  <2>8. \A b \in Agents : At(Runtime, "stop_agent", b)' <=> At(Runtime, "stop_agent", b)
    BY <2>1 DEF At
  <2> QED
    BY <2>1, <2>3, <2>4, <2>5, <2>6, <2>7, <2>8, AheadThen
<1>7. CASE StopAgentWaited(Runtime)
  <2>1. /\ st' = st /\ loop' = loop /\ Acts(Runtime, "stop_agent") /\ ~TaskUp(Target(Runtime))
        /\ waiting[Runtime] = "yes" /\ (st[Target(Runtime)] = "stopped" => Proceed(Runtime))
    BY <1>7 DEF StopAgentWaited, agentVars
  <2>2. PICK a \in Agents : a = Target(Runtime)
    BY <1>0, <1>1, <2>1, HeadIs
  <2>3. (Live(a) /\ shutting[a]) \/ st[a] \in {"leaving", "stopped"}
    BY <1>0, <2>1, <2>2, AtIs DEF StopAhead
  <2>4. st[a] = "stopped"
    BY <2>1, <2>2, <2>3, SMT DEF Live, TaskUp
  <2>5. ~Live(a)
    BY <2>4, SMT DEF Live
  <2>6. \A b \in Agents : Live(b)' => Live(b) /\ ~At(Runtime, "stop_agent", b)
    BY <1>0, <2>1, <2>2, <2>5, AtIs DEF Live
  <2> QED
    BY <1>1, <1>2, <1>3, <2>1, <2>2, <2>4, <2>6, StopProceeds
<1>8. CASE StopAgentTimeout(Runtime)
  <2>1. /\ loop' = loop /\ Acts(Runtime, "stop_agent") /\ Proceed(Runtime)
        /\ st' = [st EXCEPT ![Target(Runtime)] = "stopped"]
    BY <1>8 DEF StopAgentTimeout, supVars
  <2>2. PICK a \in Agents : a = Target(Runtime)
    BY <1>0, <1>1, <2>1, HeadIs
  <2>3. st'[a] = "stopped" /\ \A b \in Agents : b # a => st'[b] = st[b]
    BY <1>0, <2>1, <2>2
  <2>4. ~Live(a)' /\ \A b \in Agents : b # a => (Live(b)' <=> Live(b))
    <3>1. ~Live(a)'
      BY <2>3, SMT DEF Live
    <3> QED
      BY <2>3, <3>1 DEF Live
  <2>5. \A b \in Agents : Live(b)' => Live(b) /\ ~At(Runtime, "stop_agent", b)
    BY <1>0, <2>1, <2>2, <2>4, AtIs
  <2> QED
    BY <1>1, <1>2, <1>3, <2>1, <2>5, StopProceeds
<1>9. CASE StopLoopSend(Runtime)
  <2>1. st' = st /\ loop' = loop /\ plan' = plan /\ Acts(Runtime, "stop_loop")
    BY <1>9 DEF StopLoopSend, agentVars
  <2>2. \A b \in Agents : Live(b)' <=> Live(b)
    BY <2>1 DEF Live
  <2>5. loop[Root] => plan'[Runtime] = StopTree
    BY <2>1 DEF StopAhead
  <2>6. \A s \in Sups : s # Root /\ loop'[s] => Ahead(plan'[Runtime], s)
    BY <2>1 DEF StopAhead
  <2>7. \A b \in Agents : Live(b)' => Op("stop_agent", b) \in Range(plan'[Runtime])
    BY <2>1, <2>2 DEF StopAhead
  <2>8. \A b \in Agents : ~At(Runtime, "stop_agent", b)'
    BY <1>4, <2>1 DEF At
  <2> QED
    BY <2>1, <2>5, <2>6, <2>7, <2>8, AheadThen
<1>10. CASE StopLoopWaited(Runtime)
  <2>1. st' = st /\ loop' = loop /\ Acts(Runtime, "stop_loop") /\ ~loop[Target(Runtime)] /\ Proceed(Runtime)
    BY <1>10 DEF StopLoopWaited, agentVars, supVars
  <2>2. \A s \in Sups : loop'[s] => loop[s] /\ ~At(Runtime, "stop_loop", s)
    BY <1>0, <2>1, AtIs, ZenonT(30)
  <2>3. \A a \in Agents : Live(a)' => Live(a)
    BY <2>1 DEF Live
  <2> QED
    BY <1>1, <1>2, <1>4, <2>1, <2>2, <2>3, StopProceeds
<1>11. CASE StopLoopTimeout(Runtime)
  <2>1. st' = st /\ Acts(Runtime, "stop_loop")
    BY <1>11 DEF StopLoopTimeout, agentVars
  <2>2. /\ Target(Runtime) \in Sups /\ loop'[Target(Runtime)] = FALSE
        /\ \A s \in Sups : s # Target(Runtime) => loop'[s] = loop[s]
        /\ plan'[Runtime] = Tail(plan[Runtime]) /\ waiting'[Runtime] = "no"
    BY <1>0, <1>11, TimeoutIs
  <2>3. \A s \in Sups : loop'[s] => loop[s] /\ ~At(Runtime, "stop_loop", s)
    <3>1. \A s \in Sups : At(Runtime, "stop_loop", s) => s = Target(Runtime)
      BY <1>0, <2>1, AtIs
    <3> QED
      BY <2>2, <3>1
  <2>4. \A a \in Agents : Live(a)' => Live(a)
    BY <2>1 DEF Live
  <2> QED
    BY <1>1, <1>4, <2>1, <2>2, <2>3, <2>4, StopProceeds
<1>12. ~(StartLoop(Runtime) \/ StartAgentBegin(Runtime) \/ StartAgentWaited(Runtime))
  <2>1. Head(plan[Runtime]).op \in Stops
    BY <1>0, <1>1, HeadIs
  <2>2. ~("start_loop" \in Stops) /\ ~("start_agent" \in Stops)
    BY SMT DEF Stops
  <2> QED
    BY <2>1, <2>2 DEF StartLoop, StartAgentBegin, StartAgentWaited, Acts
<1> QED
  BY <1>5, <1>6, <1>7, <1>8, <1>9, <1>10, <1>11, <1>12 DEF PlanStep

\* Every step keeps what runs ahead of Runtime.stop().
LEMMA StopAheadStep ==
    ASSUME TypeOK, Orderly, Planned, StopAhead, ~setting.endInStop, Next
    PROVE  StopAhead'
<1> SUFFICES ASSUME stopping' PROVE StopAhead'
  BY DEF StopAhead
<1>1. setting' = setting /\ DOMAIN st' = DOMAIN st /\ Tree /\ Actors = Sups \cup {Runtime}
  BY Frozen, TreeHere DEF Actors
<1>2. CASE StopRuntime
  <2>1. plan'[Runtime] = StopTree
    BY <1>2, StopOrderly
  <2>2. /\ \A s \in Sups : s # Root => Ahead(plan'[Runtime], s)
        /\ \A a \in Agents : Op("stop_agent", a) \in Range(plan'[Runtime])
        /\ Head(plan'[Runtime]) = Op("stop_loop", Root)
    BY <1>1, <2>1 DEF Planned, StopTreeFits
  <2>3. \A a : Op("stop_agent", a) # Op("stop_loop", Root)
    BY SMT DEF Op
  <2>4. \A a \in Agents : ~At(Runtime, "stop_agent", a)'
    BY <2>2, <2>3 DEF At
  <2> QED
    BY <1>1, <2>1, <2>2, <2>4, AheadThen
<1>3. CASE ~StopRuntime
  <2>1. stopping
    <3>1. ASSUME NEW a \in Agents, AgentStep(a) \/ AgentCrash(a) \/ AgentLeaves(a) PROVE stopping' = stopping
      BY <3>1 DEF AgentStep, AgentReady, AgentStartFails, AgentObeys, AgentEnds, AgentCrash, AgentLeaves,
                         envVars
    <3>2. ASSUME NEW s \in Sups, LoopStep(s) \/ BackoffOver(s) \/ AgeOut(s) PROVE stopping' = stopping
      BY <3>2 DEF LoopStep, LoopEnds, SkipEvent, BeginRestart, Exhausted, BackoffOver, AgeOut, envVars
    <3>3. ASSUME NEW x \in Actors, PlanStep(x) PROVE stopping' = stopping
      BY <3>3 DEF PlanStep, StopAgentDown, StopAgentSend, StopAgentWaited, StopLoopSend, StopLoopWaited,
                         StartLoop, StartAgentBegin, StartAgentWaited, envVars
    <3>4. ASSUME NEW x \in Actors, StopAgentTimeout(x) \/ StopLoopTimeout(x) \/ StopLoopTimeoutSwallowed(x)
          PROVE  stopping' = stopping
      BY <3>4 DEF StopAgentTimeout, StopLoopTimeout, StopLoopTimeoutSwallowed
    <3> QED
      BY <1>3, <3>1, <3>2, <3>3, <3>4 DEF Next, Fault
  <2>2. ASSUME NEW a \in Agents, AgentStep(a) \/ AgentCrash(a) \/ AgentLeaves(a) PROVE StopAhead'
    BY <1>1, <2>1, <2>2, AgentAhead
  <2>3. ASSUME NEW s \in Sups, LoopStep(s) \/ BackoffOver(s) \/ AgeOut(s) PROVE StopAhead'
    BY <1>1, <2>1, <2>3, LoopAhead
  <2>4. ASSUME NEW x \in Actors, PlanStep(x) \/ StopAgentTimeout(x) \/ StopLoopTimeout(x) PROVE StopAhead'
    BY <1>1, <2>1, <2>4, SupAhead, RuntimeAhead
  <2>5. ASSUME NEW x \in Actors, StopLoopTimeoutSwallowed(x) PROVE StopAhead'
    <3>1. /\ \A a \in Agents : st'[a] = st[a] \/ st'[a] = "stopped"
          /\ plan'[Runtime] = plan[Runtime]
          /\ waiting'[Runtime] = waiting[Runtime] \/ waiting'[Runtime] = "cancelled"
          /\ \A s \in Sups : loop'[s] => loop[s]
      BY <2>5, SwallowedIs
    <3>2. shutting' = shutting
      BY <2>5 DEF StopLoopTimeoutSwallowed
    <3>3. ~("stopped" \in {"starting", "live"}) /\ "cancelled" # "yes"
      BY SMT
    <3>4. \A b \in Agents : (Live(b)' => Live(b)) /\ (st'[b] = "stopped" \/ (Live(b) => Live(b)'))
      BY <3>1, <3>3 DEF Live
    <3>5. \A a \in Agents : (Live(a) /\ shutting[a]) \/ st[a] \in {"leaving", "stopped"}
              => (Live(a)' /\ shutting'[a]) \/ st'[a] \in {"leaving", "stopped"}
      BY <3>1, <3>2, <3>4
    <3> QED
      BY <1>1, <2>1, <3>1, <3>3, <3>4, <3>5, AheadFrame
  <2> QED
    BY <1>3, <2>2, <2>3, <2>4, <2>5 DEF Next, Fault
<1> QED
  BY <1>2, <1>3

-----------------------------------------------------------------------------
(* Nobody is forgotten.                                                    *)

\* Taking a message off a mailbox.
LEMMA MailTail ==
    ASSUME NEW q \in Seq(Events), q # << >>
    PROVE  /\ HasShutdown(Tail(q)) => HasShutdown(q)
           /\ OneShutdown(q) => /\ OneShutdown(Tail(q))
                                /\ Head(q).kind = "shutdown" => HasShutdown(q) /\ ~HasShutdown(Tail(q))
           /\ \A e \in Range(q) : e = Head(q) \/ e \in Range(Tail(q))
<1>1. 1 \in DOMAIN q /\ Head(q) = q[1]
  BY TailIs, SMT
<1>2. \A i \in DOMAIN Tail(q) : i + 1 \in DOMAIN q /\ i + 1 # 1 /\ Tail(q)[i] = q[i + 1]
  BY TailIs, SMT
<1>3. \A i \in DOMAIN q : i # 1 => i - 1 \in DOMAIN Tail(q) /\ Tail(q)[i - 1] = q[i]
  BY TailIs, SMT
<1>4. \A i, j \in DOMAIN Tail(q) : i + 1 = j + 1 => i = j
  <2>1. Tail(q) \in Seq(Events)
    BY TailIs, SMT
  <2>2. DOMAIN Tail(q) \subseteq Int
    BY <2>1, SMT
  <2> QED
    BY <2>2, SMT
<1>5. HasShutdown(Tail(q)) => HasShutdown(q)
  BY <1>2 DEF HasShutdown
<1>6. OneShutdown(q) => OneShutdown(Tail(q))
  BY <1>2, <1>4 DEF OneShutdown
<1>7. OneShutdown(q) /\ Head(q).kind = "shutdown" => HasShutdown(q) /\ ~HasShutdown(Tail(q))
  BY <1>1, <1>2 DEF OneShutdown, HasShutdown
<1>8. ASSUME NEW e \in Range(q) PROVE e = Head(q) \/ e \in Range(Tail(q))
  <2>1. PICK i \in DOMAIN q : e = q[i]
    BY <1>8 DEF Range
  <2> QED
    BY <1>1, <1>3, <2>1 DEF Range
<1> QED
  BY <1>5, <1>6, <1>7, <1>8

\* Adding one.
LEMMA MailAppend ==
    ASSUME NEW q \in Seq(Events), NEW e \in Events
    PROVE  /\ \A d \in Range(q) : d \in Range(Append(q, e))
           /\ e \in Range(Append(q, e))
           /\ e.kind = "child_crashed" =>
                 /\ HasShutdown(Append(q, e)) => HasShutdown(q)
                 /\ OneShutdown(q) => OneShutdown(Append(q, e))
           /\ ~HasShutdown(q) => OneShutdown(Append(q, e))
<1>1. PICK r : r = Append(q, e)
  OBVIOUS
<1>2. PICK n : n = Len(q) + 1
  OBVIOUS
<1>3. /\ \A i \in DOMAIN q : i \in DOMAIN r /\ r[i] = q[i]
      /\ n \in DOMAIN r /\ r[n] = e
      /\ \A i \in DOMAIN r : i \in DOMAIN q \/ i = n
  BY <1>1, <1>2, AppendIs, SMT
<1>4. "child_crashed" # "shutdown"
  BY SMT
<1>5. (\A d \in Range(q) : d \in Range(r)) /\ e \in Range(r)
  BY <1>3 DEF Range
<1>6. e.kind = "child_crashed" => /\ HasShutdown(r) => HasShutdown(q)
                                  /\ OneShutdown(q) => OneShutdown(r)
  BY <1>3, <1>4 DEF HasShutdown, OneShutdown
<1>7. ~HasShutdown(q) => OneShutdown(r)
  BY <1>3 DEF HasShutdown, OneShutdown
<1> QED
  BY <1>1, <1>5, <1>6, <1>7

\* How the steps treat the mailbox of a supervisor as far as a stop is concerned.
Quiet(s) == /\ HasShutdown(mail'[s]) => HasShutdown(mail[s])
            /\ OneShutdown(mail[s]) => OneShutdown(mail'[s])

\* What an agent keeps when nothing of its own changes.
LEMMA AccountedFrame ==
    ASSUME Tended, NEW a \in Agents, setting' = setting, DOMAIN st' = DOMAIN st,
           st'[a] = st[a], tracked'[a] = tracked[a], inc'[a] = inc[a],
           a \in left => a \in left', gaveUp \subseteq gaveUp', a \in dropped => a \in dropped',
           Begun(a) => Begun(a)' \/ a \in dropped', Due(a) => Due(a)' \/ a \in dropped',
           Queued(a) => \/ Crashed(a, inc[a], 0) \in Range(mail'[ParentOf(a)]) \/ Due(a)'
                        \/ Escalated(ParentOf(a))' \/ a \in gaveUp',
           Escalated(ParentOf(a)) => Escalated(ParentOf(a))' \/ Due(a)' \/ ParentOf(a) \in gaveUp'
    PROVE  Accounted(a)'
<1>1. ParentOf(a)' = ParentOf(a)
  BY Same
<1>2. Accounted(a)
  BY DEF Tended
<1>3. Reported(a) => Reported(a)'
  BY <1>1 DEF Reported
<1>4. Queued(a) => Queued(a)' \/ Due(a)' \/ Escalated(ParentOf(a))' \/ Reported(a)'
  BY <1>1 DEF Queued, Reported, Crashed
<1>5. Escalated(ParentOf(a)) => Escalated(ParentOf(a))' \/ Due(a)' \/ Reported(a)'
  BY <1>1 DEF Reported
<1> QED
  BY <1>1, <1>2, <1>3, <1>4, <1>5 DEF Accounted

\* An agent stays watched when who waits for it does.
LEMMA WatchedFrame ==
    ASSUME Tended, NEW a \in Agents,
           st'[a] = st[a], tracked'[a] = tracked[a], inc'[a] = inc[a], shutting'[a] = shutting[a],
           a \in left => a \in left', a \in dropped => a \in dropped',
           Begun(a) => Begun(a)', Asked(a) /\ (Live(a) \/ st[a] = "leaving") => Asked(a)'
    PROVE  Watched(a)'
<1>1. Watched(a)
  BY DEF Tended
<1> QED
  BY <1>1 DEF Watched, Live

\* Governed' from the new values.
LEMMA GovernedThen ==
    ASSUME NEW s, setting' = setting, running'[s] => loop'[s], ~running'[s] /\ loop'[s] => StopSent(s)',
           HasShutdown(mail'[s]) => loop'[s] /\ ~running'[s] /\ StopSent(s)', OneShutdown(mail'[s]),
           \/ running'[s] \/ StartDue(s)'
           \/ \A a \in Range(Kids[s]) : Op("start_agent", a) \notin Range(plan'[Root])
    PROVE  Governed(s)'
<1>1. Kids' = Kids
  BY DEF Kids
<1> QED
  BY <1>1 DEF Governed, OneShutdown, HasShutdown

\* And a supervisor.
LEMMA SupFrame ==
    ASSUME Tended, NEW s \in Sups, setting' = setting,
           running'[s] = running[s], loop'[s] = loop[s],
           StopSent(s) => StopSent(s)' \/ ~loop[s],
           StartDue(s) => StartDue(s)', Quiet(s),
           s # Root /\ ~loop[s] /\ s \in dropped /\ Range(Kids[s]) \subseteq dropped =>
               StartDue(s)' \/ (s \in dropped' /\ Range(Kids[s]) \subseteq dropped'),
           \A a \in Range(Kids[s]) : Op("start_agent", a) \in Range(plan'[Root]) /\ s # Root =>
               Op("start_agent", a) \in Range(plan[Root]) \/ StartDue(s)'
    PROVE  Kept(s)' /\ Governed(s)'
<1>1. Kept(s) /\ Governed(s)
  BY DEF Tended
<1>2. Kids' = Kids
  BY DEF Kids
<1>3. Kept(s)'
  BY <1>1, <1>2 DEF Kept
<1>4. /\ running'[s] => loop'[s]
      /\ ~running'[s] /\ loop'[s] => StopSent(s)'
      /\ HasShutdown(mail'[s]) => loop'[s] /\ ~running'[s] /\ StopSent(s)'
      /\ OneShutdown(mail'[s])
  BY <1>1 DEF Governed, Quiet
<1>5. s # Root => \A a \in Range(Kids[s]) :
          Op("start_agent", a) \in Range(plan'[Root]) => running'[s] \/ StartDue(s)'
  BY <1>1 DEF Governed
<1>6. HasShutdown(mail'[s]) <=> HasShutdown(mail[s])'
  BY DEF HasShutdown
<1> QED
  BY <1>2, <1>3, <1>4, <1>5 DEF Governed, OneShutdown, HasShutdown

\* Plans that no one touches.
LEMMA PlansSame ==
    ASSUME setting' = setting, plan' = plan, waiting' = waiting
    PROVE  /\ \A a : (Begun(a)' <=> Begun(a)) /\ (Asked(a)' <=> Asked(a)) /\ (Due(a)' <=> Due(a))
           /\ \A s : (StopSent(s)' <=> StopSent(s)) /\ (StartDue(s)' <=> StartDue(s))
<1>1. Sups' = Sups
  BY DEF Sups, Kids
<1>2. \A x, o, p : At(x, o, p)' <=> At(x, o, p)
  BY DEF At
<1>3. \A a : (Begun(a)' <=> Begun(a)) /\ (Asked(a)' <=> Asked(a))
  BY <1>1, <1>2 DEF Begun, Asked
<1>4. \A a : Due(a)' <=> Due(a)
  BY <1>1 DEF Due
<1>5. \A s : (StopSent(s)' <=> StopSent(s)) /\ (StartDue(s)' <=> StartDue(s))
  BY <1>2 DEF StopSent, StartDue
<1> QED
  BY <1>3, <1>4, <1>5

\* A supervisor that goes on to its next operation.
LEMMA ProceedKeeps ==
    ASSUME TypeOK, Tree, setting' = setting, NEW x \in Sups, plan[x] # << >>, Proceed(x)
    PROVE  /\ \A a : Begun(a) /\ ~At(x, "start_agent", a) => Begun(a)'
           /\ \A a : Asked(a) /\ ~(At(x, "stop_agent", a) /\ waiting[x] = "yes") => Asked(a)'
           /\ \A s : StopSent(s) /\ ~At(x, "stop_loop", s) => StopSent(s)'
           /\ \A s : StartDue(s) /\ ~At(x, "start_loop", s) => StartDue(s)'
           /\ \A a : Due(a) /\ ~(At(x, "start_agent", a) /\ waiting[x] = "no") => Due(a)'
           /\ \A o : o \in Range(plan'[Root]) => o \in Range(plan[Root])
<1>0. x \in Actors /\ Root \in Sups /\ Sups \subseteq Actors
  BY DEF Actors, Tree
<1>1. /\ plan'[x] = Tail(plan[x]) /\ waiting'[x] = "no"
      /\ \A y \in Actors : y # x => plan'[y] = plan[y] /\ waiting'[y] = waiting[y]
  BY <1>0, ProceedIs
<1>2. Sups' = Sups
  BY DEF Sups, Kids
<1>3. \A y \in Sups : y # x => \A o, p : At(y, o, p)' <=> At(y, o, p)
  BY <1>0, <1>1 DEF At
<1>4. plan[x] \in Seq(Ops)
  BY <1>0, TypesNow
<1>5. 1 \in DOMAIN plan[x] /\ Head(plan[x]) = plan[x][1]
  BY <1>4, TailIs, SMT
<1>6. \A i \in DOMAIN Tail(plan[x]) : i + 1 \in DOMAIN plan[x] /\ Tail(plan[x])[i] = plan[x][i + 1]
  BY <1>4, TailIs, SMT
<1>7. \A i \in DOMAIN plan[x] : i # 1 => i - 1 \in DOMAIN Tail(plan[x]) /\ Tail(plan[x])[i - 1] = plan[x][i]
  BY <1>4, TailIs, SMT
<1>8. ASSUME NEW a, Begun(a), ~At(x, "start_agent", a) PROVE Begun(a)'
  BY <1>0, <1>1, <1>2, <1>3, <1>8 DEF Begun
<1>9. ASSUME NEW a, Asked(a), ~(At(x, "stop_agent", a) /\ waiting[x] = "yes") PROVE Asked(a)'
  BY <1>0, <1>1, <1>2, <1>3, <1>9 DEF Asked
<1>10. ASSUME NEW s, StopSent(s), ~At(x, "stop_loop", s) PROVE StopSent(s)'
  BY <1>0, <1>1, <1>3, <1>10 DEF StopSent
<1>11. ASSUME NEW o PROVE o \in Range(plan'[Root]) => o \in Range(plan[Root])
  <2>1. CASE x # Root
    BY <1>0, <1>1, <2>1
  <2>2. ASSUME NEW i \in DOMAIN Tail(plan[x]), o = Tail(plan[x])[i] PROVE o \in Range(plan[x])
    BY <1>6, <2>2 DEF Range
  <2>3. CASE x = Root
    <3>1. o \in Range(Tail(plan[x])) => o \in Range(plan[x])
      BY <2>2 DEF Range
    <3> QED
      BY <1>1, <2>3, <3>1
  <2> QED
    BY <2>1, <2>3
<1>12. ASSUME NEW s, StartDue(s), ~At(x, "start_loop", s) PROVE StartDue(s)'
  <2>1. CASE x # Root
    BY <1>0, <1>1, <1>12, <2>1 DEF StartDue
  <2>2. CASE x = Root
    <3>1. PICK i \in DOMAIN plan[x] : plan[x][i] = Op("start_loop", s)
      BY <1>12, <2>2 DEF StartDue, Range
    <3>2. i # 1
      BY <1>5, <1>12, <3>1 DEF At
    <3> QED
      <4>1. i - 1 \in DOMAIN Tail(plan[x]) /\ Tail(plan[x])[i - 1] = Op("start_loop", s)
        BY <1>7, <3>1, <3>2
      <4>2. Op("start_loop", s) \in Range(Tail(plan[x]))
        BY <4>1 DEF Range
      <4> QED
        BY <1>1, <2>2, <4>2 DEF StartDue
  <2> QED
    BY <2>1, <2>2
<1>13. ASSUME NEW a, Due(a), ~(At(x, "start_agent", a) /\ waiting[x] = "no") PROVE Due(a)'
  <2>1. PICK y \in Sups : \E i \in DOMAIN plan[y] : plan[y][i] = Op("start_agent", a) /\ (i # 1 \/ waiting[y] = "no")
    BY <1>13 DEF Due
  <2>2. CASE y # x
    BY <1>0, <1>1, <1>2, <2>1, <2>2 DEF Due
  <2>3. CASE y = x
    <3>1. PICK i \in DOMAIN plan[x] : plan[x][i] = Op("start_agent", a) /\ (i # 1 \/ waiting[x] = "no")
      BY <2>1, <2>3
    <3>2. i # 1
      BY <1>5, <1>13, <3>1 DEF At
    <3> QED
      BY <1>1, <1>2, <1>7, <3>1, <3>2 DEF Due
  <2> QED
    BY <2>2, <2>3
<1> QED
  BY <1>8, <1>9, <1>10, <1>11, <1>12, <1>13

\* A supervisor that has called the first operation of its plan.
LEMMA WaitKeeps ==
    ASSUME TypeOK, Tree, setting' = setting, NEW x \in Sups, plan' = plan, waiting[x] = "no",
           waiting' = [waiting EXCEPT ![x] = "yes"]
    PROVE  /\ \A a : (Begun(a) => Begun(a)') /\ (Asked(a) => Asked(a)')
           /\ \A s : (StopSent(s) => StopSent(s)') /\ (StartDue(s)' <=> StartDue(s))
           /\ \A a : Due(a) /\ ~At(x, "start_agent", a) => Due(a)'
           /\ \A a : At(x, "start_agent", a) => Begun(a)'
           /\ \A a : At(x, "stop_agent", a) => Asked(a)'
           /\ \A s : x = Root /\ At(x, "stop_loop", s) => StopSent(s)'
<1>0. x \in Actors /\ Root \in Sups /\ Sups \subseteq Actors /\ waiting \in [Actors -> Waits]
  BY TypesNow DEF Actors, Tree
<1>1. waiting'[x] = "yes" /\ \A y \in Actors : y # x => waiting'[y] = waiting[y]
  BY <1>0
<1>2. Sups' = Sups /\ \A y, o, p : At(y, o, p)' <=> At(y, o, p)
  BY DEF Sups, Kids, At
<1>3. "no" # "yes"
  BY SMT
<1>4. ASSUME NEW a PROVE (Begun(a) => Begun(a)') /\ (Asked(a) => Asked(a)')
  BY <1>0, <1>1, <1>2 DEF Begun, Asked
<1>5. ASSUME NEW s PROVE (StopSent(s) => StopSent(s)') /\ (StartDue(s)' <=> StartDue(s))
  BY <1>0, <1>1, <1>2, <1>3 DEF StopSent, StartDue
<1>6. plan[x] \in Seq(Ops)
  BY <1>0, TypesNow
<1>7. \A i \in DOMAIN plan[x] : i = 1 => plan[x] # << >> /\ Head(plan[x]) = plan[x][1]
  BY <1>6, SMT
<1>8. ASSUME NEW a, Due(a), ~At(x, "start_agent", a) PROVE Due(a)'
  <2>1. PICK y \in Sups : \E i \in DOMAIN plan[y] : plan[y][i] = Op("start_agent", a) /\ (i # 1 \/ waiting[y] = "no")
    BY <1>8 DEF Due
  <2>2. CASE y # x
    BY <1>0, <1>1, <1>2, <2>1, <2>2 DEF Due
  <2>3. CASE y = x
    BY <1>2, <1>7, <1>8, <2>1, <2>3 DEF Due, At
  <2> QED
    BY <2>2, <2>3
<1>9. \A a : (At(x, "start_agent", a) => Begun(a)') /\ (At(x, "stop_agent", a) => Asked(a)')
  BY <1>1, <1>2 DEF Begun, Asked
<1>10. \A s : x = Root /\ At(x, "stop_loop", s) => StopSent(s)'
  BY <1>1, <1>2, <1>3 DEF StopSent
<1> QED
  BY <1>4, <1>5, <1>8, <1>9, <1>10

\* What a plan stops it will start again.
LEMMA Restored ==
    ASSUME TypeOK, Orderly, Tree
    PROVE  /\ \A a \in Agents : Asked(a) => Due(a)
           /\ \A s \in Sups : At(Root, "stop_loop", s) => StartDue(s)
           /\ \A s \in Sups : StartDue(s) => s # Root /\ \A a \in Range(Kids[s]) : Due(a)
<1>0. Root \in Sups /\ Sups \subseteq Actors /\ Agents \cap Sups = {}
  BY DEF Actors, Tree
<1>1. ASSUME NEW x \in Sups
      PROVE  plan[x] \in Seq(Ops) /\ PlanOk(x, plan[x])
             /\ (plan[x] # << >> => 1 \in DOMAIN plan[x] /\ Head(plan[x]) = plan[x][1])
  BY <1>0, TypesNow, HeadIs DEF Orderly
<1>2. ASSUME NEW x \in Sups, NEW o \in Stops, NEW p, At(x, o, p)
      PROVE  \E j \in DOMAIN plan[x] : j # 1 /\ plan[x][j] = StartOf(p)
  <2>1. 1 \in DOMAIN plan[x] /\ plan[x][1] = Op(o, p)
    BY <1>1, <1>2 DEF At
  <2>2. plan[x][1].op = o /\ plan[x][1].who = p
    BY <2>1, SMT DEF Op
  <2>3. After(plan[x], 1, StartOf(p))
    BY <1>1, <1>2, <2>1, <2>2 DEF PlanOk, Restores
  <2>4. PICK j \in DOMAIN plan[x] : j > 1 /\ plan[x][j] = StartOf(p)
    BY <2>3 DEF After
  <2>5. j # 1
    BY <2>4, SMT
  <2> QED
    BY <2>4, <2>5
<1>3. "stop_agent" \in Stops /\ "stop_loop" \in Stops
  BY SMT DEF Stops
<1>4. ASSUME NEW a \in Agents, Asked(a) PROVE Due(a)
  <2>1. PICK x \in Sups : At(x, "stop_agent", a)
    BY <1>4 DEF Asked
  <2>2. PICK j \in DOMAIN plan[x] : j # 1 /\ plan[x][j] = StartOf(a)
    BY <1>2, <1>3, <2>1
  <2>3. StartOf(a) = Op("start_agent", a)
    BY <1>0 DEF StartOf
  <2> QED
    BY <2>2, <2>3 DEF Due
<1>5. ASSUME NEW s \in Sups, At(Root, "stop_loop", s) PROVE StartDue(s)
  BY <1>0, <1>2, <1>3, <1>5 DEF StartDue, StartOf, Range
<1>6. ASSUME NEW s \in Sups, StartDue(s) PROVE s # Root /\ \A a \in Range(Kids[s]) : Due(a)
  <2>1. PICK i \in DOMAIN plan[Root] : plan[Root][i] = Op("start_loop", s)
    BY <1>6 DEF StartDue, Range
  <2>2. plan[Root][i].op = "start_loop" /\ plan[Root][i].who = s
    BY <2>1, SMT DEF Op
  <2>3. s # Root
    BY <1>0, <1>1, <2>1, <2>2, ParentIs DEF PlanOk
  <2>4. ASSUME NEW a \in Range(Kids[s]) PROVE Due(a)
    <3>1. After(plan[Root], i, Op("start_agent", a))
      BY <1>0, <1>1, <2>1, <2>2 DEF PlanOk, Fills
    <3>2. PICK j \in DOMAIN plan[Root] : j > i /\ plan[Root][j] = Op("start_agent", a)
      BY <3>1 DEF After
    <3>3. plan[Root] \in Seq(Ops)
      BY <1>0, <1>1
    <3>4. j # 1
      BY <2>1, <3>2, <3>3, SMT
    <3> QED
      BY <1>0, <3>2, <3>4 DEF Due
  <2> QED
    BY <2>3, <2>4
<1> QED
  BY <1>4, <1>5, <1>6

\* A supervisor whose operation has raised.
LEMMA AbortKeeps ==
    ASSUME TypeOK, Orderly, Tree, setting' = setting, NEW x \in Sups, plan[x] # << >>, Abort(x)
    PROVE  /\ \A a : Begun(a) /\ ~At(x, "start_agent", a) => Begun(a)'
           /\ \A a : Begun(a) => Begun(a)' \/ a \in dropped'
           /\ \A a : At(x, "start_agent", a) => a \in dropped'
           /\ \A a : Asked(a) /\ ~At(x, "stop_agent", a) => Asked(a)'
           /\ \A s : StopSent(s) /\ ~At(x, "stop_loop", s) => StopSent(s)'
           /\ \A s \in Sups : StartDue(s) =>
                 \/ StartDue(s)'
                 \/ s \in dropped' /\ Range(Kids[s]) \subseteq dropped' /\ x = Root /\ Range(plan'[Root]) = {}
           /\ \A a : Due(a) => Due(a)' \/ a \in dropped'
           /\ \A o : o \in Range(plan'[Root]) => o \in Range(plan[Root])
           /\ dropped \subseteq dropped' /\ gaveUp \subseteq gaveUp'
<1>0. x \in Actors /\ Root \in Sups /\ Sups \subseteq Actors
  BY DEF Actors, Tree
<1>1. /\ plan'[x] = << >>
      /\ \A y \in Actors : y # x => plan'[y] = plan[y] /\ waiting'[y] = waiting[y]
      /\ dropped \subseteq dropped' /\ gaveUp \subseteq gaveUp'
      /\ \A p : Op("start_agent", p) \in Range(plan[x]) \/ Op("start_loop", p) \in Range(plan[x])
                  => p \in dropped'
  BY <1>0, AbortIs
<1>2. Sups' = Sups
  BY DEF Sups, Kids
<1>3. \A y \in Sups : y # x => \A o, p : At(y, o, p)' <=> At(y, o, p)
  BY <1>0, <1>1 DEF At
<1>4. 1 \in DOMAIN plan[x] /\ Head(plan[x]) = plan[x][1]
  BY <1>0, HeadIs
<1>5. ASSUME NEW a, Begun(a), ~At(x, "start_agent", a) PROVE Begun(a)'
  BY <1>0, <1>1, <1>2, <1>3, <1>5 DEF Begun
<1>6. \A a : At(x, "start_agent", a) => a \in dropped'
  <2>1. ASSUME NEW a, At(x, "start_agent", a) PROVE Op("start_agent", a) \in Range(plan[x])
    BY <1>4, <2>1 DEF At, Range
  <2> QED
    BY <1>1, <2>1
<1>7. ASSUME NEW a, Asked(a), ~At(x, "stop_agent", a) PROVE Asked(a)'
  BY <1>0, <1>1, <1>2, <1>3, <1>7 DEF Asked
<1>8. ASSUME NEW s, StopSent(s), ~At(x, "stop_loop", s) PROVE StopSent(s)'
  BY <1>0, <1>1, <1>3, <1>8 DEF StopSent
<1>9. ASSUME NEW s \in Sups, StartDue(s)
      PROVE  \/ StartDue(s)'
             \/ s \in dropped' /\ Range(Kids[s]) \subseteq dropped' /\ x = Root /\ Range(plan'[Root]) = {}
  <2>1. CASE x # Root
    BY <1>0, <1>1, <1>9, <2>1 DEF StartDue
  <2>2. CASE x = Root
    <3>1. s \in dropped'
      BY <1>1, <1>9, <2>2 DEF StartDue
    <3>2. PICK i \in DOMAIN plan[x] : plan[x][i] = Op("start_loop", s)
      BY <1>9, <2>2 DEF StartDue, Range
    <3>3. plan[x][i].op = "start_loop" /\ plan[x][i].who = s
      BY <3>2, SMT DEF Op
    <3>4. ASSUME NEW a \in Range(Kids[s]) PROVE a \in dropped'
      <4>1. After(plan[x], i, Op("start_agent", a))
        BY <3>2, <3>3 DEF Orderly, PlanOk, Fills
      <4>2. Op("start_agent", a) \in Range(plan[x])
        BY <4>1 DEF After, Range
      <4> QED
        BY <1>1, <4>2
    <3>5. plan'[Root] = << >> /\ DOMAIN << >> = {}
      BY <1>1, <2>2, SMT
    <3>6. Range(plan'[Root]) = {}
      BY <3>5 DEF Range
    <3> QED
      BY <2>2, <3>1, <3>4, <3>6
  <2> QED
    BY <2>1, <2>2
<1>10. ASSUME NEW a, Due(a) PROVE Due(a)' \/ a \in dropped'
  <2>1. PICK y \in Sups : \E i \in DOMAIN plan[y] : plan[y][i] = Op("start_agent", a) /\ (i # 1 \/ waiting[y] = "no")
    BY <1>10 DEF Due
  <2>2. CASE y # x
    BY <1>0, <1>1, <1>2, <2>1, <2>2 DEF Due
  <2>3. CASE y = x
    BY <1>1, <2>1, <2>3 DEF Range
  <2> QED
    BY <2>2, <2>3
<1>11. ASSUME NEW o PROVE o \in Range(plan'[Root]) => o \in Range(plan[Root])
  <2>1. CASE x # Root
    BY <1>0, <1>1, <2>1
  <2>2. CASE x = Root
    <3>1. plan'[Root] = << >> /\ DOMAIN << >> = {}
      BY <1>1, <2>2, SMT
    <3> QED
      BY <3>1 DEF Range
  <2> QED
    BY <2>1, <2>2
<1> QED
  BY <1>1, <1>5, <1>6, <1>7, <1>8, <1>9, <1>10, <1>11

\* What the step of an agent leaves alone.
LEMMA AgentElse ==
    ASSUME TypeOK, Orderly, Tended, NEW a \in Agents,
           AgentStep(a) \/ AgentCrash(a) \/ AgentLeaves(a), setting' = setting, DOMAIN st' = DOMAIN st
    PROVE  /\ \A s \in Sups : Kept(s)' /\ Governed(s)'
           /\ \A b \in Agents : b # a => Watched(b)' /\ Accounted(b)'
           /\ \A b : (Begun(b)' <=> Begun(b)) /\ (Asked(b)' <=> Asked(b)) /\ (Due(b)' <=> Due(b))
           /\ \A t \in Sups : \A e \in Range(mail[t]) : e \in Range(mail'[t])
<1>0. Tree
  BY TreeHere
<1>1. /\ plan' = plan /\ waiting' = waiting /\ loop' = loop /\ running' = running
      /\ gaveUp' = gaveUp /\ dropped' = dropped /\ inc' = inc /\ tracked' = tracked
      /\ left \subseteq left' /\ (mail' = mail \/ OnChildDone(a))
      /\ \A b \in Agents : b # a => st'[b] = st[b] /\ shutting'[b] = shutting[b]
  <2>1. st \in [Agents -> AgentStates] /\ shutting \in [Agents -> BOOLEAN]
    BY TypesNow
  <2> QED
    BY <2>1 DEF AgentStep, AgentReady, AgentStartFails, AgentObeys, AgentEnds, AgentCrash, AgentLeaves,
                 supVars, planVars, reports
<1>2. /\ \A b : (Begun(b)' <=> Begun(b)) /\ (Asked(b)' <=> Asked(b)) /\ (Due(b)' <=> Due(b))
      /\ \A s : (StopSent(s)' <=> StopSent(s)) /\ (StartDue(s)' <=> StartDue(s))
  BY <1>1, PlansSame
<1>3. ASSUME NEW t \in Sups
      PROVE  Quiet(t) /\ \A e \in Range(mail[t]) : e \in Range(mail'[t])
  <2>1. CASE mail'[t] = mail[t]
    BY <2>1 DEF Quiet
  <2>2. CASE mail'[t] # mail[t]
    <3>1. mail'[t] = Append(mail[t], Crashed(a, inc[a], 0))
      BY <1>0, <1>1, <2>2, DoneIs
    <3>2. mail[t] \in Seq(Events) /\ Crashed(a, inc[a], 0) \in Events
      BY <1>0, CrashFits, TypesNow
    <3>3. Crashed(a, inc[a], 0).kind = "child_crashed"
      BY SMT DEF Crashed
    <3>4. PICK r : r = Append(mail[t], Crashed(a, inc[a], 0))
      OBVIOUS
    <3>5. /\ \A e \in Range(mail[t]) : e \in Range(r)
          /\ HasShutdown(r) => HasShutdown(mail[t])
          /\ OneShutdown(mail[t]) => OneShutdown(r)
      BY <3>2, <3>3, <3>4, MailAppend
    <3> QED
      BY <3>1, <3>4, <3>5 DEF Quiet
  <2> QED
    BY <2>1, <2>2
<1>4. \A s \in Sups : Kept(s)' /\ Governed(s)'
  BY <1>1, <1>2, <1>3, SupFrame
<1>5. \A b \in Agents : b # a => Watched(b)'
  BY <1>1, <1>2, WatchedFrame
<1>6. ASSUME NEW b \in Agents, b # a PROVE Accounted(b)'
  <2>1. ParentOf(b) \in Sups /\ Root \in Sups
    BY <1>0, ParentIs DEF Tree
  <2>2. Queued(b) => Crashed(b, inc[b], 0) \in Range(mail'[ParentOf(b)])
    BY <1>3, <2>1 DEF Queued
  <2>3. Escalated(ParentOf(b)) => Escalated(ParentOf(b))'
    <3>1. ParentOf(b)' = ParentOf(b)
      BY Same
    <3> QED
      BY <1>3, <2>1, <3>1 DEF Escalated
  <2> QED
    BY <1>1, <1>2, <1>6, <2>2, <2>3, AccountedFrame
<1> QED
  BY <1>2, <1>3, <1>4, <1>5, <1>6

\* The done-callback of an agent that crashes leaves its event with the
\* supervisor, or a start is waiting for the agent.
LEMMA CrashAccounted ==
    ASSUME TypeOK, Orderly, Tended, NEW a \in Agents, setting' = setting, DOMAIN st' = DOMAIN st,
           st' = [st EXCEPT ![a] = "crashed"], OnChildDone(a), inc' = inc, tracked' = tracked,
           shutting' = shutting, ~shutting[a], dropped' = dropped, Begun(a)' <=> Begun(a)
    PROVE  Watched(a)' /\ Accounted(a)'
<1>1. Tree /\ Watched(a)
  BY TreeHere DEF Tended
<1>2. st'[a] = "crashed"
  <2>1. st \in [Agents -> AgentStates]
    BY TypesNow
  <2> QED
    BY <2>1
<1>3. ParentOf(a)' = ParentOf(a) /\ ParentOf(a) \in Sups
  BY <1>1, Same, ParentIs
<1>4. "crashed" # "starting" /\ "crashed" # "leaving"
  BY SMT
<1>5. Watched(a)'
  BY <1>1, <1>2, <1>4 DEF Watched
<1>6. ASSUME tracked[a] = inc[a] PROVE Queued(a)'
  <2>1. mail'[ParentOf(a)] = Append(mail[ParentOf(a)], Crashed(a, inc[a], 0))
    BY <1>1, <1>6, DoneIs
  <2>2. mail[ParentOf(a)] \in Seq(Events) /\ Crashed(a, inc[a], 0) \in Events
    BY <1>1, <1>3, CrashFits, TypesNow
  <2>3. Crashed(a, inc[a], 0) \in Range(mail'[ParentOf(a)])
    BY <2>1, <2>2, MailAppend
  <2> QED
    BY <1>2, <1>3, <1>6, <2>3 DEF Queued, Crashed
<1>7. tracked[a] # inc[a] => Begun(a)' \/ a \in dropped'
  BY <1>1 DEF Watched
<1> QED
  BY <1>2, <1>5, <1>6, <1>7 DEF Accounted

\* An agent that crashes is in its supervisor's mailbox from then on.
LEMMA AgentAttended ==
    ASSUME TypeOK, Orderly, Tended, ~setting.endInStop, NEW a \in Agents,
           AgentStep(a) \/ AgentCrash(a) \/ AgentLeaves(a), setting' = setting, DOMAIN st' = DOMAIN st
    PROVE  Tended'
<1>0. Tree /\ Watched(a) /\ Accounted(a) /\ st \in [Agents -> AgentStates] /\ shutting \in [Agents -> BOOLEAN]
  BY TreeHere, TypesNow DEF Tended
<1>1. /\ \A s \in Sups : Kept(s)' /\ Governed(s)'
      /\ \A b \in Agents : b # a => Watched(b)' /\ Accounted(b)'
      /\ (Begun(a)' <=> Begun(a)) /\ (Asked(a)' <=> Asked(a)) /\ (Due(a)' <=> Due(a))
      /\ \A t \in Sups : \A e \in Range(mail[t]) : e \in Range(mail'[t])
  BY AgentElse
<1>2. Sups' = Sups /\ Agents' = Agents /\ ParentOf(a)' = ParentOf(a)
  BY Same
<1>3. /\ "starting" # "live" /\ "starting" # "leaving" /\ "live" # "leaving" /\ "stopped" # "starting"
      /\ "stopped" # "leaving" /\ "dying" # "starting" /\ "dying" # "leaving" /\ "dying" # "live"
      /\ "failed" # "starting" /\ "failed" # "leaving" /\ "stuck" # "starting" /\ "stuck" # "leaving"
  BY SMT
<1>4. Watched(a)' /\ Accounted(a)'
  <2>1. CASE AgentReady(a)
    <3>1. /\ st'[a] = "live" /\ inc' = inc /\ tracked' = tracked /\ shutting' = shutting /\ dropped' = dropped
          /\ st[a] = "starting"
      BY <1>0, <2>1 DEF AgentReady, reports
    <3> QED
      BY <1>0, <1>1, <1>3, <3>1 DEF Watched, Accounted, Live
  <2>2. CASE AgentStartFails(a)
    <3>1. /\ st'[a] \in setting.startFailures /\ inc' = inc /\ tracked' = tracked /\ shutting' = shutting
          /\ dropped' = dropped /\ st[a] = "starting" /\ ~shutting[a]
      BY <1>0, <2>2 DEF AgentStartFails, reports
    <3>2. setting.startFailures \subseteq {"failed", "stuck"}
      BY SupervisorAssumption, TypesNow, SMT
    <3>3. st'[a] = "failed" \/ st'[a] = "stuck"
      BY <3>1, <3>2
    <3> QED
      BY <1>0, <1>1, <1>3, <3>1, <3>3 DEF Watched, Accounted
  <2>3. CASE AgentObeys(a)
    <3>1. /\ st'[a] = "leaving" /\ inc' = inc /\ tracked' = tracked /\ shutting'[a] = FALSE
          /\ dropped' = dropped /\ shutting[a]
      BY <1>0, <2>3 DEF AgentObeys, reports
    <3>2. Asked(a) /\ Due(a)
      BY <1>0, <3>1, Restored DEF Watched
    <3> QED
      BY <1>0, <1>1, <1>3, <3>1, <3>2 DEF Watched, Accounted
  <2>4. CASE AgentEnds(a)
    <3>1. /\ inc' = inc /\ tracked' = tracked /\ shutting' = shutting /\ dropped' = dropped
          /\ gaveUp' = gaveUp /\ left' = left
          /\ \/ st[a] = "dying" /\ st' = [st EXCEPT ![a] = "crashed"] /\ OnChildDone(a)
             \/ st[a] = "leaving" /\ st' = [st EXCEPT ![a] = "stopped"]
      BY <2>4 DEF AgentEnds, reports
    <3>2. ~shutting[a]
      <4>1. ~Live(a)
        BY <3>1, SMT DEF Live
      <4> QED
        BY <1>0, <4>1 DEF Watched
    <3>3. CASE st[a] = "dying"
      <4>1. st' = [st EXCEPT ![a] = "crashed"] /\ OnChildDone(a)
        BY <1>3, <3>1, <3>3
      <4> QED
        BY <1>1, <3>1, <3>2, <4>1, CrashAccounted
    <3>4. CASE st[a] = "leaving"
      <4>1. st'[a] = "stopped"
        BY <1>0, <1>3, <3>1, <3>4
      <4>2. Watched(a)'
        BY <1>0, <1>1, <1>3, <3>1, <3>2, <4>1 DEF Watched
      <4>3. Reported(a) \/ a \in dropped \/ Due(a) \/ Escalated(ParentOf(a))
        BY <1>0, <3>4, SMT DEF Accounted, Queued
      <4>4. Escalated(ParentOf(a)) => Escalated(ParentOf(a))'
        BY <1>0, <1>1, <1>2 DEF Escalated, Tree
      <4>5. Reported(a) => Reported(a)'
        BY <1>2, <3>1 DEF Reported
      <4> QED
        BY <1>1, <1>2, <3>1, <4>2, <4>3, <4>4, <4>5 DEF Accounted
    <3> QED
      BY <3>1, <3>3, <3>4
  <2>5. CASE AgentCrash(a)
    <3>1. /\ inc' = inc /\ tracked' = tracked /\ shutting' = shutting /\ dropped' = dropped /\ ~shutting[a]
          /\ \/ st' = [st EXCEPT ![a] = "dying"]
             \/ st' = [st EXCEPT ![a] = "crashed"] /\ OnChildDone(a)
      BY <2>5 DEF AgentCrash, reports
    <3>2. CASE st' = [st EXCEPT ![a] = "dying"]
      <4>1. st'[a] = "dying"
        BY <1>0, <3>2
      <4> QED
        BY <1>0, <1>1, <1>3, <3>1, <4>1 DEF Watched, Accounted
    <3> QED
      BY <1>1, <3>1, <3>2, CrashAccounted
  <2>6. CASE AgentLeaves(a)
    <3>1. /\ inc' = inc /\ tracked' = tracked /\ shutting' = shutting /\ dropped' = dropped /\ ~shutting[a]
          /\ a \in left' /\ (st'[a] = "stopped" \/ st'[a] = "leaving")
      <4>1. \A e : e \in {"stopped"} \cup (IF setting.slowTeardown THEN {"leaving"} ELSE {}) =>
               e = "stopped" \/ e = "leaving"
        OBVIOUS
      <4> QED
        BY <1>0, <2>6, <4>1 DEF AgentLeaves, reports
    <3> QED
      BY <1>0, <1>1, <1>3, <3>1 DEF Watched, Accounted, Reported
  <2> QED
    BY <2>1, <2>2, <2>3, <2>4, <2>5, <2>6 DEF AgentStep
<1> QED
  BY <1>1, <1>2, <1>4 DEF Tended

\* A supervisor takes the first message of its mailbox.
LEMMA TakeIs ==
    ASSUME TypeOK, NEW s \in Sups, mail[s] # << >>, mail'[s] = Tail(mail[s])
    PROVE  /\ Quiet(s)
           /\ \A e \in Range(mail[s]) : e \in Range(mail'[s]) \/ e = Head(mail[s])
<1>1. mail[s] \in Seq(Events)
  BY TypesNow
<1>2. /\ HasShutdown(Tail(mail[s])) => HasShutdown(mail[s])
      /\ OneShutdown(mail[s]) => OneShutdown(Tail(mail[s]))
      /\ \A e \in Range(mail[s]) : e = Head(mail[s]) \/ e \in Range(Tail(mail[s]))
  BY <1>1, MailTail
<1> QED
  BY <1>2 DEF Quiet

\* A mailbox that is left alone is quiet.
LEMMA SameMail ==
    ASSUME NEW s, mail'[s] = mail[s]
    PROVE  Quiet(s)
BY DEF Quiet

\* The variables of the agents, the plans and the reports are as they were.
Calm == /\ st' = st /\ inc' = inc /\ tracked' = tracked /\ shutting' = shutting /\ left' = left
        /\ setting' = setting /\ dropped' = dropped /\ gaveUp \subseteq gaveUp'

\* Only mailboxes change: who was accounted for by a message that is gone is
\* accounted for otherwise.
LEMMA CalmFrame ==
    ASSUME TypeOK, Orderly, Tended, Calm, \A s \in Sups : Kept(s)' /\ Governed(s)',
           \A a : Begun(a) => Begun(a)', \A a : Asked(a) => Asked(a)', \A a : Due(a) => Due(a)',
           NEW s \in Sups, NEW e,
           \A t \in Sups : \A d \in Range(mail[t]) : d \in Range(mail'[t]) \/ (t = s /\ d = e),
           \A a \in Agents : Queued(a) /\ s = ParentOf(a) /\ e = Crashed(a, inc[a], 0) =>
              Due(a)' \/ Escalated(ParentOf(a))' \/ a \in gaveUp',
           \A a \in Agents : s = Root /\ e.kind = "child_crashed" /\ e.who = ParentOf(a) =>
              Due(a)' \/ ParentOf(a) \in gaveUp'
    PROVE  Tended'
<1>0. Tree /\ Root \in Sups /\ DOMAIN st' = DOMAIN st
  BY TreeHere DEF Tree, Calm
<1>1. Sups' = Sups /\ Agents' = Agents /\ \A p : ParentOf(p)' = ParentOf(p)
  BY <1>0, Same DEF Calm
<1>2. ASSUME NEW a \in Agents PROVE Watched(a)'
  BY WatchedFrame DEF Calm
<1>3. ASSUME NEW a \in Agents PROVE Accounted(a)'
  <2>1. ParentOf(a) \in Sups
    BY <1>0, ParentIs
  <2>2. Queued(a) => \/ Crashed(a, inc[a], 0) \in Range(mail'[ParentOf(a)]) \/ Due(a)'
                     \/ Escalated(ParentOf(a))' \/ a \in gaveUp'
    BY <2>1 DEF Queued
  <2>3. Escalated(ParentOf(a)) => Escalated(ParentOf(a))' \/ Due(a)' \/ ParentOf(a) \in gaveUp'
    <3>1. ASSUME Escalated(ParentOf(a)), ~(Due(a)' \/ ParentOf(a) \in gaveUp')
          PROVE  \E d \in Range(mail'[Root]) : d.kind = "child_crashed" /\ d.who = ParentOf(a)
      <4>1. PICK d \in Range(mail[Root]) : d.kind = "child_crashed" /\ d.who = ParentOf(a)
        BY <3>1 DEF Escalated
      <4>2. d \in Range(mail'[Root])
        BY <1>0, <3>1, <4>1
      <4> QED
        BY <4>1, <4>2
    <3> QED
      BY <1>1, <3>1 DEF Escalated
  <2> QED
    BY <1>0, <2>2, <2>3, AccountedFrame DEF Calm
<1> QED
  BY <1>1, <1>2, <1>3 DEF Tended

\* A loop ends only when the root has told it to and starts it again.
LEMMA LoopEndsAttended ==
    ASSUME TypeOK, Orderly, Tended, NEW s \in Sups, LoopEnds(s)
    PROVE  Tended'
<1>0. Tree /\ mail \in [Sups -> Seq(Events)] /\ loop \in [Sups -> BOOLEAN]
  BY TreeHere, TypesNow
<1>1. /\ Calm /\ plan' = plan /\ waiting' = waiting /\ running' = running
      /\ mail[s] # << >> /\ Head(mail[s]).kind = "shutdown"
      /\ mail' = [mail EXCEPT ![s] = Tail(@)] /\ loop' = [loop EXCEPT ![s] = FALSE]
  BY DEF LoopEnds, agentVars, planVars, reports, envVars, Calm
<1>2. /\ \A a : (Begun(a)' <=> Begun(a)) /\ (Asked(a)' <=> Asked(a)) /\ (Due(a)' <=> Due(a))
      /\ \A t : (StopSent(t)' <=> StopSent(t)) /\ (StartDue(t)' <=> StartDue(t))
  BY <1>1, PlansSame DEF Calm
<1>3. /\ mail'[s] = Tail(mail[s]) /\ \A t \in Sups : t # s => mail'[t] = mail[t]
      /\ loop'[s] = FALSE /\ \A t \in Sups : t # s => loop'[t] = loop[t]
  BY <1>0, <1>1
<1>4. /\ HasShutdown(mail[s]) /\ ~HasShutdown(Tail(mail[s])) /\ OneShutdown(Tail(mail[s]))
      /\ \A e \in Range(mail[s]) : e \in Range(mail'[s]) \/ e = Head(mail[s])
  <2>1. OneShutdown(mail[s]) /\ mail[s] \in Seq(Events)
    BY <1>0 DEF Tended, Governed
  <2> QED
    BY <1>1, <1>3, <2>1, MailTail
<1>5. ~running[s] /\ StopSent(s)
  BY <1>4 DEF Tended, Governed
<1>6. StartDue(s)
  BY <1>0, <1>5, Restored DEF StopSent
<1>7. Kept(s)' /\ Governed(s)'
  <2>1. Kids' = Kids
    BY <1>1 DEF Kids, Calm
  <2>2. ~HasShutdown(mail'[s]) /\ OneShutdown(mail'[s])
    BY <1>3, <1>4
  <2> QED
    BY <1>1, <1>2, <1>3, <1>5, <1>6, <2>1, <2>2 DEF Kept, Governed, HasShutdown, OneShutdown
<1>8. ASSUME NEW t \in Sups PROVE Kept(t)' /\ Governed(t)'
  <2>1. ASSUME t # s PROVE Quiet(t) /\ loop'[t] = loop[t] /\ running'[t] = running[t]
    BY <1>1, <1>3, <2>1, SameMail
  <2> QED
    BY <1>1, <1>2, <1>7, <2>1, SupFrame DEF Calm
<1>9. Head(mail[s]).kind # "child_crashed" /\ \A a : Head(mail[s]) # Crashed(a, inc[a], 0)
  <2>1. "shutdown" # "child_crashed" /\ \A a : Crashed(a, inc[a], 0).kind = "child_crashed"
    BY SMT DEF Crashed
  <2> QED
    BY <1>1, <2>1
<1>10. \A t \in Sups : \A d \in Range(mail[t]) : d \in Range(mail'[t]) \/ (t = s /\ d = Head(mail[s]))
  BY <1>3, <1>4
<1>11. /\ \A a : Begun(a) => Begun(a)'
       /\ \A a : Asked(a) => Asked(a)'
       /\ \A a : Due(a) => Due(a)'
  BY <1>2
<1> QED
  BY <1>1, <1>8, <1>9, <1>10, <1>11, CalmFrame

\* A crash of a replaced incarnation may be skipped: the new one is accounted for.
LEMMA SkipAttended ==
    ASSUME TypeOK, Orderly, Tended, NEW s \in Sups, SkipEvent(s)
    PROVE  Tended'
<1>0. Tree /\ mail \in [Sups -> Seq(Events)]
  BY TreeHere, TypesNow
<1>1. /\ Calm /\ plan' = plan /\ waiting' = waiting /\ running' = running /\ loop' = loop
      /\ mail[s] # << >> /\ Head(mail[s]).kind = "child_crashed" /\ loop[s]
      /\ mail' = [mail EXCEPT ![s] = Tail(@)] /\ Stale(s, Head(mail[s]))
  BY DEF SkipEvent, Idle, agentVars, planVars, reports, envVars, Calm
<1>2. /\ \A a : (Begun(a)' <=> Begun(a)) /\ (Asked(a)' <=> Asked(a)) /\ (Due(a)' <=> Due(a))
      /\ \A t : (StopSent(t)' <=> StopSent(t)) /\ (StartDue(t)' <=> StartDue(t))
  BY <1>1, PlansSame DEF Calm
<1>3. mail'[s] = Tail(mail[s]) /\ \A t \in Sups : t # s => mail'[t] = mail[t]
  BY <1>0, <1>1
<1>4. Quiet(s) /\ \A e \in Range(mail[s]) : e \in Range(mail'[s]) \/ e = Head(mail[s])
  BY <1>1, <1>3, TakeIs
<1>5. ASSUME NEW t \in Sups PROVE Kept(t)' /\ Governed(t)'
  <2>1. Quiet(t)
    BY <1>3, <1>4, SameMail
  <2> QED
    BY <1>1, <1>2, <2>1, SupFrame DEF Calm
<1>6. ASSUME ~running[s] PROVE s # Root /\ \A a \in Range(Kids[s]) : Due(a)
  <2>1. StartDue(s)
    BY <1>1, <1>6 DEF Tended, Kept
  <2> QED
    BY <1>0, <2>1, Restored
<1>7. Head(mail[s]).who \in Sups => Head(mail[s]).inc = 0
  BY <1>1, EventIs
<1>8. ASSUME NEW a \in Agents, Queued(a), s = ParentOf(a), Head(mail[s]) = Crashed(a, inc[a], 0)
      PROVE  Due(a)'
  <2>1. Head(mail[s]).who = a /\ Head(mail[s]).inc = inc[a]
    BY <1>8, SMT DEF Crashed
  <2>2. ~running[s]
    BY <1>1, <1>8, <2>1 DEF Stale, Queued
  <2>3. a \in Range(Kids[s])
    BY <1>0, <1>8, ParentIs
  <2> QED
    BY <1>2, <1>6, <2>2, <2>3
<1>9. ASSUME NEW a \in Agents, s = Root, Head(mail[s]).who = ParentOf(a) PROVE FALSE
  <2>1. ParentOf(a) \in Sups
    BY <1>0, ParentIs
  <2> QED
    BY <1>1, <1>6, <1>7, <1>9, <2>1 DEF Stale
<1> QED
  BY <1>1, <1>2, <1>3, <1>4, <1>5, <1>8, <1>9, CalmFrame

\* The plan of the restart takes over from the event.
LEMMA BeginAttended ==
    ASSUME TypeOK, Orderly, Planned, Tended, NEW s \in Sups, BeginRestart(s)
    PROVE  Tended'
<1> DEFINE p == Head(mail[s]).who
<1>0. Tree /\ mail \in [Sups -> Seq(Events)] /\ Sups \subseteq Actors /\ Root \in Sups
  BY TreeHere, TypesNow DEF Actors, Tree
<1>1. /\ Calm /\ waiting' = waiting /\ running' = running /\ loop' = loop
      /\ mail[s] # << >> /\ Head(mail[s]).kind = "child_crashed" /\ plan[s] = << >>
      /\ mail' = [mail EXCEPT ![s] = Tail(@)]
  BY DEF BeginRestart, Idle, agentVars, reports, envVars, Calm
<1>2. /\ plan'[s] # << >> /\ Head(plan'[s]) = Op("backoff", p)
      /\ PlanOk(s, plan'[s]) /\ StartOf(p) \in Range(plan'[s])
      /\ plan'[s] \in Seq(Ops) /\ p \in Range(Kids[s])
      /\ \A t \in Sups : \A k \in Range(Kids[t]) :
            t # s /\ Op("start_agent", k) \in Range(plan'[s]) => Op("start_loop", t) \in Range(plan'[s])
      /\ \A y \in Actors : y # s => plan'[y] = plan[y]
  BY <1>0, BeginIs
<1> HIDE DEF p
<1>3. mail'[s] = Tail(mail[s]) /\ \A t \in Sups : t # s => mail'[t] = mail[t]
  BY <1>0, <1>1
<1>4. Quiet(s) /\ \A e \in Range(mail[s]) : e \in Range(mail'[s]) \/ e = Head(mail[s])
  BY <1>1, <1>3, TakeIs
<1>5. Sups' = Sups /\ \A x, o, k : At(x, o, k) /\ x \in Sups => x # s /\ At(x, o, k)'
  BY <1>0, <1>1, <1>2 DEF At, Sups, Kids, Calm
<1>6. /\ \A a : Begun(a) => Begun(a)'
      /\ \A a : Asked(a) => Asked(a)'
      /\ \A t : StopSent(t) => StopSent(t)'
  BY <1>0, <1>1, <1>5 DEF Begun, Asked, StopSent
<1>7. DOMAIN plan[s] = {}
  BY <1>1, SMT
<1>8. \A t : StartDue(t) => StartDue(t)'
  <2>1. ASSUME NEW t, StartDue(t) PROVE Root # s
    BY <1>7, <2>1 DEF StartDue, Range
  <2> QED
    BY <1>0, <1>2, <2>1 DEF StartDue
<1>9. ASSUME NEW a, Due(a) PROVE Due(a)'
  <2>1. PICK y \in Sups : \E i \in DOMAIN plan[y] : plan[y][i] = Op("start_agent", a) /\ (i # 1 \/ waiting[y] = "no")
    BY <1>9 DEF Due
  <2>2. y # s
    BY <1>7, <2>1
  <2> QED
    BY <1>0, <1>1, <1>2, <1>5, <2>1, <2>2 DEF Due
<1>10. ASSUME NEW a, Op("start_agent", a) \in Range(plan'[s]) PROVE Due(a)'
  <2>1. PICK i \in DOMAIN plan'[s] : plan'[s][i] = Op("start_agent", a)
    BY <1>10 DEF Range
  <2>2. Head(plan'[s]) = plan'[s][1]
    BY <1>2, TailIs, SMTT(30)
  <2>3. Op("backoff", p) # Op("start_agent", a)
    BY SMT DEF Op
  <2>4. i # 1
    BY <1>2, <2>1, <2>2, <2>3
  <2> QED
    BY <1>5, <2>1, <2>4 DEF Due
<1>11. ASSUME NEW t \in Sups PROVE Kept(t)' /\ Governed(t)'
  <2>1. Quiet(t)
    BY <1>3, <1>4, SameMail
  <2>2. ASSUME NEW a \in Range(Kids[t]), Op("start_agent", a) \in Range(plan'[Root]), t # Root
        PROVE  Op("start_agent", a) \in Range(plan[Root]) \/ StartDue(t)'
    <3>1. CASE s # Root
      BY <1>0, <1>2, <2>2, <3>1
    <3>2. CASE s = Root
      BY <1>2, <2>2, <3>2 DEF StartDue
    <3> QED
      BY <3>1, <3>2
  <2>3. \A a \in Range(Kids[t]) : Op("start_agent", a) \in Range(plan'[Root]) /\ t # Root =>
            Op("start_agent", a) \in Range(plan[Root]) \/ StartDue(t)'
    BY <2>2
  <2> QED
    BY <1>1, <1>6, <1>8, <2>1, <2>3, SupFrame DEF Calm
<1>12. ASSUME NEW a \in Agents, Queued(a), s = ParentOf(a), Head(mail[s]) = Crashed(a, inc[a], 0)
       PROVE  Due(a)'
  <2>1. p = a
    BY <1>12, SMT DEF Crashed, p
  <2>2. StartOf(a) = Op("start_agent", a)
    BY <1>0 DEF StartOf, Tree
  <2> QED
    BY <1>2, <1>10, <2>1, <2>2
<1>13. ASSUME NEW a \in Agents, s = Root, p = ParentOf(a) PROVE Due(a)'
  <2>1. p \in Sups /\ a \in Range(Kids[p])
    BY <1>0, <1>13, ParentIs
  <2>2. Op("start_loop", p) \in Range(plan'[s])
    BY <1>2, <2>1 DEF StartOf
  <2>3. PICK i \in DOMAIN plan'[s] : plan'[s][i] = Op("start_loop", p)
    BY <2>2 DEF Range
  <2>4. plan'[s][i].op = "start_loop" /\ plan'[s][i].who = p
    BY <2>3, SMT DEF Op
  <2>5. After(plan'[s], i, Op("start_agent", a))
    BY <1>2, <2>1, <2>3, <2>4 DEF PlanOk, Fills
  <2>6. Op("start_agent", a) \in Range(plan'[s])
    BY <2>5 DEF After, Range
  <2> QED
    BY <1>10, <2>6
<1>14. \A t \in Sups : \A d \in Range(mail[t]) : d \in Range(mail'[t]) \/ (t = s /\ d = Head(mail[s]))
  BY <1>3, <1>4
<1>15. \A a \in Agents : s = Root /\ Head(mail[s]).who = ParentOf(a) => Due(a)'
  BY <1>13 DEF p
<1> QED
  BY <1>1, <1>6, <1>9, <1>11, <1>12, <1>14, <1>15, CalmFrame

\* A spent budget drops the child, or escalates to the root.
LEMMA ExhaustedAttended ==
    ASSUME TypeOK, Orderly, Tended, NEW s \in Sups, Exhausted(s)
    PROVE  Tended'
<1>0. Tree /\ mail \in [Sups -> Seq(Events)] /\ Root \in Sups
  BY TreeHere, TypesNow DEF Tree
<1>1. /\ plan' = plan /\ waiting' = waiting /\ running' = running /\ loop' = loop /\ Idle(s)
      /\ mail[s] # << >> /\ Head(mail[s]).kind = "child_crashed"
      /\ Escalate(s, Head(mail[s]).who)
      /\ st' = st /\ inc' = inc /\ tracked' = tracked /\ shutting' = shutting /\ left' = left
      /\ setting' = setting /\ dropped' = dropped
  BY DEF Exhausted, agentVars, planVars, envVars
<1>2. /\ \A a : (Begun(a)' <=> Begun(a)) /\ (Asked(a)' <=> Asked(a)) /\ (Due(a)' <=> Due(a))
      /\ \A t : (StopSent(t)' <=> StopSent(t)) /\ (StartDue(t)' <=> StartDue(t))
  BY <1>1, PlansSame
<1>3. /\ \A t \in Sups : t # s /\ t # Root => mail'[t] = mail[t]
      /\ mail'[s] = Tail(mail[s])
      /\ s = Root => gaveUp' = gaveUp \cup {Head(mail[s]).who}
      /\ s # Root => gaveUp' = gaveUp /\ mail'[Root] = Append(mail[Root], Crashed(s, 0, gen[s]))
  BY <1>0, <1>1, EscalateIs
<1>4. Calm
  BY <1>1, <1>3 DEF Calm
<1>5. Quiet(s) /\ \A e \in Range(mail[s]) : e \in Range(mail'[s]) \/ e = Head(mail[s])
  BY <1>1, <1>3, TakeIs
<1>6. ASSUME s # Root
      PROVE  /\ Quiet(Root) /\ \A e \in Range(mail[Root]) : e \in Range(mail'[Root])
             /\ Escalated(s)'
  <2>1. PICK e \in Events : e = Crashed(s, 0, gen[s])
    BY <1>0, <1>6, CrashFits
  <2>2. e.kind = "child_crashed" /\ e.who = s
    BY <2>1, SMT DEF Crashed
  <2>3. mail[Root] \in Seq(Events) /\ mail'[Root] = Append(mail[Root], e)
    BY <1>0, <1>3, <1>6, <2>1
  <2>4. PICK r : r = Append(mail[Root], e)
    OBVIOUS
  <2>5. /\ (\A d \in Range(mail[Root]) : d \in Range(r)) /\ e \in Range(r)
        /\ HasShutdown(r) => HasShutdown(mail[Root])
        /\ OneShutdown(mail[Root]) => OneShutdown(r)
    BY <2>2, <2>3, <2>4, MailAppend
  <2> QED
    BY <2>2, <2>3, <2>4, <2>5 DEF Quiet, Escalated
<1>7. ASSUME NEW t \in Sups PROVE Kept(t)' /\ Governed(t)'
  <2>1. Quiet(t)
    BY <1>3, <1>5, <1>6, SameMail
  <2> QED
    BY <1>1, <1>2, <2>1, SupFrame
<1>8. \A t \in Sups : \A d \in Range(mail[t]) : d \in Range(mail'[t]) \/ (t = s /\ d = Head(mail[s]))
  BY <1>3, <1>5, <1>6
<1>9. ASSUME NEW a \in Agents, s = ParentOf(a), Head(mail[s]) = Crashed(a, inc[a], 0)
      PROVE  Escalated(ParentOf(a))' \/ a \in gaveUp'
  <2>1. Head(mail[s]).who = a
    BY <1>9, SMT DEF Crashed
  <2>2. ParentOf(a)' = ParentOf(a)
    BY <1>1, Same
  <2> QED
    BY <1>3, <1>6, <1>9, <2>1, <2>2
<1>10. \A a \in Agents : s = Root /\ Head(mail[s]).who = ParentOf(a) => ParentOf(a) \in gaveUp'
  BY <1>3
<1>11. /\ \A a : Begun(a) => Begun(a)'
       /\ \A a : Asked(a) => Asked(a)'
       /\ \A a : Due(a) => Due(a)'
  BY <1>2
<1> QED
  BY <1>4, <1>7, <1>8, <1>9, <1>10, <1>11, CalmFrame

\* The mailboxes lose nothing, and gain no shutdown message.
Grown(t) == Quiet(t) /\ \A e \in Range(mail[t]) : e \in Range(mail'[t])

\* A mailbox that is left alone keeps its events,
LEMMA GrownSame ==
    ASSUME NEW t, mail'[t] = mail[t]
    PROVE  Grown(t)
BY SameMail DEF Grown

\* and so does one that grows.
LEMMA GrownAppend ==
    ASSUME TypeOK, NEW t \in Sups, NEW e \in Events, e.kind = "child_crashed",
           mail'[t] = Append(mail[t], e)
    PROVE  Grown(t) /\ e \in Range(mail'[t])
<1>1. mail[t] \in Seq(Events)
  BY TypesNow
<1>2. PICK r : r = Append(mail[t], e)
  OBVIOUS
<1>3. /\ (\A d \in Range(mail[t]) : d \in Range(r)) /\ e \in Range(r)
      /\ HasShutdown(r) => HasShutdown(mail[t])
      /\ OneShutdown(mail[t]) => OneShutdown(r)
  BY <1>1, <1>2, MailAppend
<1> QED
  BY <1>2, <1>3 DEF Grown, Quiet

\* What the mailboxes account for is still accounted for when they only grow.
LEMMA EventsKept ==
    ASSUME Tree, setting' = setting, DOMAIN st' = DOMAIN st, NEW a \in Agents, \A t \in Sups : Grown(t)
    PROVE  /\ Queued(a) => Crashed(a, inc[a], 0) \in Range(mail'[ParentOf(a)])
           /\ Escalated(ParentOf(a)) => Escalated(ParentOf(a))'
<1>1. ParentOf(a) \in Sups /\ Root \in Sups /\ ParentOf(a)' = ParentOf(a)
  BY Same, ParentIs DEF Tree
<1>2. Queued(a) => Crashed(a, inc[a], 0) \in Range(mail'[ParentOf(a)])
  BY <1>1 DEF Queued, Grown
<1>3. Escalated(ParentOf(a)) => Escalated(ParentOf(a))'
  BY <1>1 DEF Escalated, Grown
<1> QED
  BY <1>2, <1>3

\* A supervisor that goes on after a stop, or after the backoff.
LEMMA ProceedFrame ==
    ASSUME TypeOK, Orderly, Tended, Calm, loop' = loop, running' = running, mail' = mail,
           NEW x \in Sups, plan[x] # << >>, Proceed(x),
           \A p : ~At(x, "start_agent", p) /\ ~At(x, "start_loop", p),
           \A a \in Agents : At(x, "stop_agent", a) /\ waiting[x] = "yes" => ~Live(a) /\ st[a] # "leaving",
           \A s \in Sups : At(x, "stop_loop", s) => ~loop[s]
    PROVE  Tended'
<1>0. Tree /\ setting' = setting /\ DOMAIN st' = DOMAIN st
  BY TreeHere DEF Calm
<1>1. Sups' = Sups /\ Agents' = Agents
  BY <1>0, Same
<1>2. /\ \A a : Begun(a) /\ ~At(x, "start_agent", a) => Begun(a)'
      /\ \A a : Asked(a) /\ ~(At(x, "stop_agent", a) /\ waiting[x] = "yes") => Asked(a)'
      /\ \A s : StopSent(s) /\ ~At(x, "stop_loop", s) => StopSent(s)'
      /\ \A s : StartDue(s) /\ ~At(x, "start_loop", s) => StartDue(s)'
      /\ \A a : Due(a) /\ ~(At(x, "start_agent", a) /\ waiting[x] = "no") => Due(a)'
      /\ \A o : o \in Range(plan'[Root]) => o \in Range(plan[Root])
  BY <1>0, ProceedKeeps
<1>3. \A t \in Sups : Grown(t)
  BY GrownSame
<1>4. ASSUME NEW s \in Sups PROVE Kept(s)' /\ Governed(s)'
  BY <1>0, <1>2, <1>3, SupFrame DEF Grown, Calm
<1>5. ASSUME NEW a \in Agents PROVE Watched(a)'
  BY <1>2, WatchedFrame DEF Calm
<1>6. ASSUME NEW a \in Agents PROVE Accounted(a)'
  <2>1. /\ Queued(a) => Crashed(a, inc[a], 0) \in Range(mail'[ParentOf(a)])
        /\ Escalated(ParentOf(a)) => Escalated(ParentOf(a))'
    BY <1>0, <1>3, EventsKept
  <2> QED
    BY <1>0, <1>2, <2>1, AccountedFrame DEF Calm
<1> QED
  BY <1>1, <1>4, <1>5, <1>6 DEF Tended

\* A restart that fails: what it had still to start is recorded.
LEMMA AbortFrame ==
    ASSUME TypeOK, Orderly, Tended, setting' = setting, loop' = loop, running' = running,
           st' = st, inc' = inc, tracked' = tracked, shutting' = shutting, left' = left,
           NEW x \in Sups, plan[x] # << >>, Abort(x),
           \A s : ~At(x, "stop_loop", s),
           \A a \in Agents : At(x, "stop_agent", a) => ~Live(a) /\ st[a] # "leaving",
           \A a \in Agents : At(x, "start_agent", a) => st[a] \in {"failed", "stuck"}
    PROVE  Tended'
<1>0. Tree /\ DOMAIN st' = DOMAIN st /\ Root \in Sups /\ x \in Actors
  BY TreeHere DEF Tree, Actors
<1>1. Sups' = Sups /\ Agents' = Agents /\ Kids' = Kids
  BY <1>0, Same
<1>2. /\ \A a : Begun(a) /\ ~At(x, "start_agent", a) => Begun(a)'
      /\ \A a : Begun(a) => Begun(a)' \/ a \in dropped'
      /\ \A a : At(x, "start_agent", a) => a \in dropped'
      /\ \A a : Asked(a) /\ ~At(x, "stop_agent", a) => Asked(a)'
      /\ \A s : StopSent(s) /\ ~At(x, "stop_loop", s) => StopSent(s)'
      /\ \A s \in Sups : StartDue(s) =>
            \/ StartDue(s)'
            \/ s \in dropped' /\ Range(Kids[s]) \subseteq dropped' /\ x = Root /\ Range(plan'[Root]) = {}
      /\ \A a : Due(a) => Due(a)' \/ a \in dropped'
      /\ \A o : o \in Range(plan'[Root]) => o \in Range(plan[Root])
      /\ dropped \subseteq dropped' /\ gaveUp \subseteq gaveUp'
  BY <1>0, AbortKeeps
<1>3. ASSUME NEW t \in Sups PROVE Grown(t)
  <2>1. mail'[t] = mail[t] \/ (t = Root /\ x \in Sups \ {Root} /\ mail'[t] = Append(mail[t], Crashed(x, 0, gen[x])))
    BY <1>0, AbortIs
  <2>2. x \in Sups \ {Root} => Crashed(x, 0, gen[x]) \in Events
    BY <1>0, CrashFits
  <2>3. Crashed(x, 0, gen[x]).kind = "child_crashed"
    BY SMT DEF Crashed
  <2> QED
    BY <2>1, <2>2, <2>3, GrownSame, GrownAppend
<1>4. ASSUME NEW s \in Sups PROVE Kept(s)' /\ Governed(s)'
  <2>1. Quiet(s) /\ \A a \in Range(Kids[s]) : a \in dropped => a \in dropped'
    BY <1>2, <1>3 DEF Grown
  <2>2. CASE StartDue(s) => StartDue(s)'
    BY <1>2, <2>1, <2>2, SupFrame
  <2>3. CASE ~(StartDue(s) => StartDue(s)')
    <3>1. s \in dropped' /\ Range(Kids[s]) \subseteq dropped' /\ x = Root /\ Range(plan'[Root]) = {} /\ s # Root
      BY <1>0, <1>2, <2>3, Restored
    <3>2. Governed(s)
      BY DEF Tended
    <3>3. Kept(s)'
      BY <1>1, <1>2, <3>1, <3>2 DEF Kept, Governed, StopSent
    <3>4. /\ HasShutdown(mail'[s]) => loop'[s] /\ ~running'[s] /\ StopSent(s)'
          /\ OneShutdown(mail'[s])
      BY <1>2, <2>1, <3>2 DEF Governed, Quiet
    <3> QED
      BY <1>1, <1>2, <3>1, <3>2, <3>3, <3>4 DEF Governed, HasShutdown, OneShutdown
  <2> QED
    BY <2>2, <2>3
<1>5. ASSUME NEW a \in Agents PROVE Watched(a)'
  <2>1. CASE ~At(x, "start_agent", a)
    BY <1>2, <2>1, WatchedFrame
  <2>2. CASE At(x, "start_agent", a)
    <3>1. a \in dropped'
      BY <1>2, <2>2
    <3>2. st[a] # "starting" /\ st[a] # "leaving" /\ ~Live(a)
      BY <2>2, SMT DEF Live
    <3> QED
      BY <3>1, <3>2 DEF Tended, Watched
  <2> QED
    BY <2>1, <2>2
<1>6. ASSUME NEW a \in Agents PROVE Accounted(a)'
  <2>1. /\ Queued(a) => Crashed(a, inc[a], 0) \in Range(mail'[ParentOf(a)])
        /\ Escalated(ParentOf(a)) => Escalated(ParentOf(a))'
    BY <1>0, <1>3, EventsKept
  <2> QED
    BY <1>0, <1>2, <2>1, AccountedFrame
<1> QED
  BY <1>1, <1>4, <1>5, <1>6 DEF Tended

\* An operation that finds nothing to wait for, or has been waited for, is done.
LEMMA StopAttended ==
    ASSUME TypeOK, Orderly, Tended, NEW x \in Sups,
           \/ BackoffOver(x) \/ (StopAgentDown(x) /\ ~stray')
           \/ StopAgentWaited(x) \/ StopLoopWaited(x)
    PROVE  Tended'
<1>0. x \in Actors /\ shutting \in [Agents -> BOOLEAN]
  BY TypesNow DEF Actors
<1>1. /\ "backoff" # "start_agent" /\ "backoff" # "start_loop" /\ "backoff" # "stop_agent" /\ "backoff" # "stop_loop"
      /\ "stop_agent" # "start_agent" /\ "stop_agent" # "start_loop" /\ "stop_agent" # "stop_loop"
      /\ "stop_loop" # "start_agent" /\ "stop_loop" # "start_loop" /\ "no" # "yes"
  BY SMT
<1>2. CASE BackoffOver(x)
  <2>1. /\ Acts(x, "backoff") /\ Proceed(x) /\ Calm /\ loop' = loop /\ running' = running /\ mail' = mail
    BY <1>2 DEF BackoffOver, agentVars, supVars, reports, envVars, Calm
  <2>2. plan[x] # << >> /\ At(x, "backoff", Target(x)) /\ \A r, p : At(x, r, p) => r = "backoff" /\ p = Target(x)
    BY <1>0, <2>1, AtIs
  <2> QED
    BY <1>1, <2>1, <2>2, ProceedFrame
<1>3. CASE StopAgentDown(x) /\ ~stray'
  <2>1. /\ Acts(x, "stop_agent") /\ waiting[x] = "no" /\ Proceed(x)
        /\ loop' = loop /\ running' = running /\ mail' = mail
        /\ st[Target(x)] # "stuck" /\ shutting' = [shutting EXCEPT ![Target(x)] = @ \/ st[Target(x)] = "stuck"]
        /\ st' = st /\ inc' = inc /\ tracked' = tracked /\ left' = left
        /\ setting' = setting /\ dropped' = dropped /\ gaveUp' = gaveUp
    BY <1>3 DEF StopAgentDown, supVars, reports
  <2>2. /\ plan[x] # << >> /\ At(x, "stop_agent", Target(x))
        /\ \A r, p : At(x, r, p) => r = "stop_agent" /\ p = Target(x)
    BY <1>0, <2>1, AtIs
  <2>3. shutting' = shutting
    <3>1. Target(x) \in Agents
      BY <1>0, <2>1, <2>2, HeadIs
    <3> QED
      BY <1>0, <2>1, <3>1
  <2>4. Calm
    BY <2>1, <2>3 DEF Calm
  <2> QED
    BY <1>1, <2>1, <2>2, <2>4, ProceedFrame
<1>4. CASE StopAgentWaited(x)
  <2>1. /\ Acts(x, "stop_agent") /\ ~TaskUp(Target(x)) /\ loop' = loop /\ running' = running
        /\ st' = st /\ inc' = inc /\ tracked' = tracked /\ shutting' = shutting /\ left' = left
        /\ setting' = setting
        /\ \/ Proceed(x) /\ mail' = mail /\ dropped' = dropped /\ gaveUp' = gaveUp
           \/ Abort(x)
    BY <1>4 DEF StopAgentWaited, agentVars, reports, envVars
  <2>2. /\ plan[x] # << >> /\ At(x, "stop_agent", Target(x))
        /\ \A r, p : At(x, r, p) => r = "stop_agent" /\ p = Target(x)
    BY <1>0, <2>1, AtIs
  <2>3. \A a : At(x, "stop_agent", a) => ~Live(a) /\ st[a] # "leaving"
    BY <2>1, <2>2 DEF TaskUp, Live
  <2>4. CASE Abort(x)
    BY <1>1, <2>1, <2>2, <2>3, <2>4, AbortFrame
  <2>5. CASE Proceed(x) /\ mail' = mail /\ dropped' = dropped /\ gaveUp' = gaveUp
    <3>1. Calm
      BY <2>1, <2>5 DEF Calm
    <3> QED
      BY <1>1, <2>1, <2>2, <2>3, <2>5, <3>1, ProceedFrame
  <2> QED
    BY <2>1, <2>4, <2>5
<1>5. CASE StopLoopWaited(x)
  <2>1. /\ Acts(x, "stop_loop") /\ ~loop[Target(x)] /\ Proceed(x) /\ Calm /\ loop' = loop /\ running' = running
        /\ mail' = mail
    BY <1>5 DEF StopLoopWaited, agentVars, supVars, reports, envVars, Calm
  <2>2. plan[x] # << >> /\ At(x, "stop_loop", Target(x)) /\ \A r, p : At(x, r, p) => r = "stop_loop" /\ p = Target(x)
    BY <1>0, <2>1, AtIs
  <2>3. \A s \in Sups : At(x, "stop_loop", s) => ~loop[s]
    <3>1. \A s \in Sups : At(x, "stop_loop", s) => s = Target(x)
      BY <2>2
    <3> QED
      BY <2>1, <3>1, SMT
  <2> QED
    BY <1>1, <2>1, <2>2, <2>3, ProceedFrame
<1> QED
  BY <1>2, <1>3, <1>4, <1>5

\* An agent is told to stop by one who starts it again.
LEMMA SendAttended ==
    ASSUME TypeOK, Orderly, Tended, NEW x \in Sups, StopAgentSend(x)
    PROVE  Tended'
<1>0. Tree /\ x \in Actors /\ shutting \in [Agents -> BOOLEAN]
  BY TypesNow, TreeHere DEF Actors
<1>1. /\ Acts(x, "stop_agent") /\ waiting[x] = "no" /\ Live(Target(x)) /\ plan' = plan
      /\ shutting' = [shutting EXCEPT ![Target(x)] = TRUE] /\ waiting' = [waiting EXCEPT ![x] = "yes"]
      /\ loop' = loop /\ running' = running /\ mail' = mail
      /\ st' = st /\ inc' = inc /\ tracked' = tracked /\ left' = left
      /\ setting' = setting /\ dropped' = dropped /\ gaveUp' = gaveUp
  BY DEF StopAgentSend, supVars, reports, envVars
<1>2. plan[x] # << >> /\ At(x, "stop_agent", Target(x)) /\ \A r, p : At(x, r, p) => r = "stop_agent" /\ p = Target(x)
  BY <1>0, <1>1, AtIs
<1>3. Target(x) \in Agents
  BY <1>0, <1>1, <1>2, HeadIs
<1>4. Sups' = Sups /\ Agents' = Agents
  BY <1>1, Same
<1>5. /\ \A a : (Begun(a) => Begun(a)') /\ (Asked(a) => Asked(a)')
      /\ \A s : (StopSent(s) => StopSent(s)') /\ (StartDue(s)' <=> StartDue(s))
      /\ \A a : Due(a) /\ ~At(x, "start_agent", a) => Due(a)'
      /\ \A a : At(x, "stop_agent", a) => Asked(a)'
  BY <1>0, <1>1, WaitKeeps
<1>6. \A a : Due(a) => Due(a)'
  <2>1. "stop_agent" # "start_agent"
    BY SMT
  <2> QED
    BY <1>2, <1>5, <2>1
<1>7. \A t \in Sups : Grown(t)
  BY <1>1, GrownSame
<1>8. ASSUME NEW s \in Sups PROVE Kept(s)' /\ Governed(s)'
  BY <1>1, <1>5, <1>7, SupFrame DEF Grown
<1>9. ASSUME NEW a \in Agents PROVE Watched(a)'
  <2>1. CASE a # Target(x)
    <3>1. shutting'[a] = shutting[a]
      BY <1>0, <1>1, <2>1
    <3> QED
      BY <1>1, <1>5, <3>1, WatchedFrame
  <2>2. CASE a = Target(x)
    <3>1. Asked(a)' /\ Live(a)'
      BY <1>1, <1>2, <1>5, <2>2 DEF Live
    <3> QED
      BY <1>1, <1>5, <3>1 DEF Tended, Watched
  <2> QED
    BY <2>1, <2>2
<1>10. ASSUME NEW a \in Agents PROVE Accounted(a)'
  <2>1. /\ Queued(a) => Crashed(a, inc[a], 0) \in Range(mail'[ParentOf(a)])
        /\ Escalated(ParentOf(a)) => Escalated(ParentOf(a))'
    BY <1>0, <1>1, <1>7, EventsKept
  <2> QED
    BY <1>1, <1>5, <1>6, <2>1, AccountedFrame
<1> QED
  BY <1>4, <1>8, <1>9, <1>10 DEF Tended

\* A supervisor is told to stop by the root, which starts it again.
LEMMA StopLoopAttended ==
    ASSUME TypeOK, Orderly, Tended, NEW x \in Sups, StopLoopSend(x)
    PROVE  Tended'
<1>t. PICK t : t = Target(x)
  OBVIOUS
<1>0. /\ Tree /\ x \in Actors /\ running \in [Sups -> BOOLEAN] /\ mail \in [Sups -> Seq(Events)]
  BY TypesNow, TreeHere DEF Actors
<1>1. /\ Acts(x, "stop_loop") /\ waiting[x] = "no" /\ plan' = plan
      /\ waiting' = [waiting EXCEPT ![x] = "yes"] /\ running' = [running EXCEPT ![t] = FALSE]
      /\ mail' = IF loop[t] THEN [mail EXCEPT ![t] = Append(@, Shutdown)] ELSE mail
      /\ loop' = loop
      /\ st' = st /\ inc' = inc /\ tracked' = tracked /\ left' = left /\ shutting' = shutting
      /\ setting' = setting /\ dropped' = dropped /\ gaveUp' = gaveUp
  BY <1>t DEF StopLoopSend, agentVars, reports, envVars
<1>2. plan[x] # << >> /\ At(x, "stop_loop", t) /\ \A r, p : At(x, r, p) => r = "stop_loop" /\ p = t
  BY <1>t, <1>0, <1>1, AtIs
<1>3. t \in Sups /\ x # Runtime
  BY <1>t, <1>0, <1>1, <1>2, HeadIs DEF Tree
<1>4. x = Root /\ t # Root
  BY <1>t, <1>0, <1>2, <1>3, HeadIs
<1>5. /\ \A a : (Begun(a) => Begun(a)') /\ (Asked(a) => Asked(a)')
      /\ \A s : (StopSent(s) => StopSent(s)') /\ (StartDue(s)' <=> StartDue(s))
      /\ \A a : Due(a) /\ ~At(x, "start_agent", a) => Due(a)'
      /\ \A s : x = Root /\ At(x, "stop_loop", s) => StopSent(s)'
  BY <1>0, <1>1, WaitKeeps
<1>6. \A a : Due(a) => Due(a)'
  <2>1. "stop_loop" # "start_agent"
    BY SMT
  <2> QED
    BY <1>2, <1>5, <2>1
<1>7. StopSent(t)' /\ StartDue(t)'
  <2>1. At(Root, "stop_loop", t)
    BY <1>2, <1>4
  <2> QED
    BY <1>0, <1>3, <1>4, <1>5, <2>1, Restored
<1>8. ~StopSent(t)
  BY <1>1, <1>4 DEF StopSent
<1>9. /\ running'[t] = FALSE /\ \A s \in Sups : s # t => running'[s] = running[s] /\ mail'[s] = mail[s]
      /\ loop[t] => mail'[t] = Append(mail[t], Shutdown)
      /\ ~loop[t] => mail'[t] = mail[t]
  BY <1>0, <1>1, <1>3
<1>10. Shutdown \in Events /\ mail[t] \in Seq(Events)
  BY <1>0, <1>3, EventsAre
<1>11. ~HasShutdown(mail[t]) /\ OneShutdown(mail[t])
  BY <1>3, <1>8 DEF Tended, Governed
<1>12. /\ OneShutdown(mail'[t]) /\ (HasShutdown(mail'[t]) => loop[t])
       /\ \A e \in Range(mail[t]) : e \in Range(mail'[t])
  <2>1. CASE ~loop[t]
    BY <1>9, <1>11, <2>1
  <2>2. CASE loop[t]
    BY <1>9, <1>10, <1>11, <2>2, MailAppend, ZenonT(30)
  <2> QED
    BY <2>1, <2>2
<1>13. Sups' = Sups /\ Agents' = Agents /\ Kids' = Kids
  BY <1>1, Same
<1>14. ASSUME NEW s \in Sups PROVE Kept(s)' /\ Governed(s)'
  <2>1. CASE s # t
    <3>1. Quiet(s) /\ running'[s] = running[s]
      BY <1>9, <2>1, SameMail
    <3> QED
      BY <1>1, <1>5, <3>1, SupFrame
  <2>2. CASE s = t
    <3>1. Governed(t)'
      BY <1>1, <1>7, <1>9, <1>12, GovernedThen
    <3>2. Kept(t)'
      BY <1>7 DEF Kept
    <3> QED
      BY <2>2, <3>1, <3>2
  <2> QED
    BY <2>1, <2>2
<1>15. ASSUME NEW a \in Agents PROVE Watched(a)'
  BY <1>1, <1>5, WatchedFrame
<1>16. ASSUME NEW a \in Agents PROVE Accounted(a)'
  <2>1. \A s \in Sups : \A e \in Range(mail[s]) : e \in Range(mail'[s])
    BY <1>9, <1>12
  <2>2. ParentOf(a) \in Sups /\ Root \in Sups /\ ParentOf(a)' = ParentOf(a)
    BY <1>0, <1>1, ParentIs, Same DEF Tree
  <2>3. Queued(a) => Crashed(a, inc[a], 0) \in Range(mail'[ParentOf(a)])
    BY <2>1, <2>2 DEF Queued
  <2>4. Escalated(ParentOf(a)) => Escalated(ParentOf(a))'
    BY <2>1, <2>2 DEF Escalated
  <2> QED
    BY <1>1, <1>5, <1>6, <2>3, <2>4, AccountedFrame
<1> QED
  BY <1>13, <1>14, <1>15, <1>16 DEF Tended

\* A supervisor that is started listens before its children are started.
LEMMA StartLoopAttended ==
    ASSUME TypeOK, Orderly, Tended, NEW x \in Sups, StartLoop(x)
    PROVE  Tended'
<1>t. PICK t : t = Target(x)
  OBVIOUS
<1>0. /\ Tree /\ x \in Actors /\ running \in [Sups -> BOOLEAN] /\ loop \in [Sups -> BOOLEAN]
  BY TypesNow, TreeHere DEF Actors
<1>1. /\ Acts(x, "start_loop") /\ Proceed(x) /\ mail' = mail
      /\ loop' = [loop EXCEPT ![t] = TRUE] /\ running' = [running EXCEPT ![t] = TRUE]
      /\ dropped' = dropped \ {t}
      /\ st' = st /\ inc' = inc /\ tracked' = tracked /\ left' = left /\ shutting' = shutting
      /\ setting' = setting /\ gaveUp' = gaveUp
  BY <1>t DEF StartLoop, agentVars, envVars
<1>2. plan[x] # << >> /\ At(x, "start_loop", t) /\ \A r, p : At(x, r, p) => r = "start_loop" /\ p = t
  BY <1>t, <1>0, <1>1, AtIs
<1>3. t \in Sups /\ x # Runtime
  BY <1>t, <1>0, <1>1, <1>2, HeadIs DEF Tree
<1>4. x = Root /\ t # Root
  BY <1>t, <1>0, <1>2, <1>3, HeadIs
<1>5. "start_loop" # "stop_loop" /\ "start_loop" # "start_agent" /\ "start_loop" # "stop_agent"
  BY SMT
<1>6. /\ \A a : Begun(a) /\ ~At(x, "start_agent", a) => Begun(a)'
      /\ \A a : Asked(a) /\ ~(At(x, "stop_agent", a) /\ waiting[x] = "yes") => Asked(a)'
      /\ \A s : StopSent(s) /\ ~At(x, "stop_loop", s) => StopSent(s)'
      /\ \A s : StartDue(s) /\ ~At(x, "start_loop", s) => StartDue(s)'
      /\ \A a : Due(a) /\ ~(At(x, "start_agent", a) /\ waiting[x] = "no") => Due(a)'
      /\ \A o : o \in Range(plan'[Root]) => o \in Range(plan[Root])
  BY <1>0, <1>1, <1>2, ProceedKeeps
<1>7. /\ \A a : (Begun(a) => Begun(a)') /\ (Asked(a) => Asked(a)') /\ (Due(a) => Due(a)')
      /\ \A s : StopSent(s) => StopSent(s)'
      /\ \A s : StartDue(s) /\ s # t => StartDue(s)'
  <2>1. \A p : ~At(x, "start_agent", p) /\ ~At(x, "stop_agent", p) /\ ~At(x, "stop_loop", p)
    BY <1>2, <1>5
  <2>2. \A s : s # t => ~At(x, "start_loop", s)
    BY <1>2
  <2> QED
    BY <1>6, <2>1, <2>2
<1>8. /\ running'[t] = TRUE /\ loop'[t] = TRUE
      /\ \A s \in Sups : s # t => running'[s] = running[s] /\ loop'[s] = loop[s]
  BY <1>0, <1>1, <1>3
<1>9. Sups' = Sups /\ Agents' = Agents /\ Agents \cap Sups = {}
  BY <1>0, <1>1, Same DEF Tree
<1>10. \A s \in Sups : Grown(s)
  BY <1>1, GrownSame
<1>11. ASSUME NEW s \in Sups PROVE Kept(s)' /\ Governed(s)'
  <2>1. CASE s # t
    <3>1. s # Root => \A p \in Range(Kids[s]) : p # t
      <4>1. s # Root => Range(Kids[s]) \subseteq Agents
        BY <1>0 DEF Tree
      <4> QED
        BY <1>3, <1>9, <4>1
    <3>2. s # Root /\ s \in dropped /\ Range(Kids[s]) \subseteq dropped =>
              s \in dropped' /\ Range(Kids[s]) \subseteq dropped'
      BY <1>1, <2>1, <3>1
    <3> QED
      BY <1>1, <1>6, <1>7, <1>8, <1>10, <2>1, <3>2, SupFrame DEF Grown
  <2>2. CASE s = t
    <3>1. ~HasShutdown(mail[t]) /\ OneShutdown(mail[t])
      BY <1>2, <1>3, <1>4, <1>5 DEF Tended, Governed, StopSent
    <3>2. ~HasShutdown(mail'[t]) /\ OneShutdown(mail'[t])
      BY <1>1, <3>1
    <3>3. Governed(t)'
      BY <1>1, <1>8, <3>2, GovernedThen
    <3>4. Kept(t)'
      BY <1>8 DEF Kept
    <3> QED
      BY <2>2, <3>3, <3>4
  <2> QED
    BY <2>1, <2>2
<1>12. ASSUME NEW a \in Agents PROVE Watched(a)' /\ Accounted(a)'
  <2>1. a \in dropped => a \in dropped'
    BY <1>1, <1>3, <1>9
  <2>2. Watched(a)'
    BY <1>1, <1>7, <2>1, WatchedFrame
  <2>3. /\ Queued(a) => Crashed(a, inc[a], 0) \in Range(mail'[ParentOf(a)])
        /\ Escalated(ParentOf(a)) => Escalated(ParentOf(a))'
    BY <1>0, <1>1, <1>10, EventsKept
  <2>4. Accounted(a)'
    BY <1>1, <1>7, <2>1, <2>3, AccountedFrame
  <2> QED
    BY <2>2, <2>4
<1> QED
  BY <1>9, <1>11, <1>12 DEF Tended

\* A start that has begun takes over from one that is due.
LEMMA BeginAgentAttended ==
    ASSUME TypeOK, Orderly, Tended, NEW x \in Sups, StartAgentBegin(x), DOMAIN st' = DOMAIN st
    PROVE  Tended'
<1>a. PICK a : a = Target(x)
  OBVIOUS
<1>0. /\ Tree /\ x \in Actors /\ st \in [Agents -> AgentStates] /\ inc \in [Agents -> Nat]
  BY TypesNow, TreeHere DEF Actors
<1>1. /\ Acts(x, "start_agent") /\ waiting[x] = "no" /\ plan' = plan
      /\ waiting' = [waiting EXCEPT ![x] = "yes"] /\ loop' = loop /\ running' = running
      /\ st' = [st EXCEPT ![a] = "starting"] /\ inc' = [inc EXCEPT ![a] = @ + 1]
      /\ left' = left \ {a} /\ dropped' = dropped \ {a} /\ tracked' = tracked /\ shutting' = shutting
      /\ setting' = setting /\ gaveUp' = gaveUp /\ (mail' = mail \/ OnChildDone(a))
  BY <1>a DEF StartAgentBegin, envVars
<1>2. plan[x] # << >> /\ At(x, "start_agent", a) /\ \A r, p : At(x, r, p) => r = "start_agent" /\ p = a
  BY <1>a, <1>0, <1>1, AtIs
<1>3. a \in Agents /\ a \in Reach(x)
  BY <1>a, <1>0, <1>1, <1>2, HeadIs DEF Tree
<1>4. /\ \A b : (Begun(b) => Begun(b)') /\ (Asked(b) => Asked(b)')
      /\ \A s : (StopSent(s) => StopSent(s)') /\ (StartDue(s)' <=> StartDue(s))
      /\ \A b : Due(b) /\ ~At(x, "start_agent", b) => Due(b)'
      /\ \A b : At(x, "start_agent", b) => Begun(b)'
  BY <1>0, <1>1, WaitKeeps
<1>5. Begun(a)' /\ \A b : Due(b) /\ b # a => Due(b)'
  <2>1. At(x, "start_agent", a) /\ \A b : b # a => ~At(x, "start_agent", b)
    BY <1>2
  <2> QED
    BY <1>4, <2>1
<1>6. /\ st'[a] = "starting"
      /\ \A b \in Agents : b # a => st'[b] = st[b] /\ inc'[b] = inc[b]
  BY <1>0, <1>1, <1>3
<1>7. Sups' = Sups /\ Agents' = Agents
  BY <1>1, Same
<1>8. ASSUME NEW t \in Sups PROVE Grown(t)
  <2>1. mail'[t] = mail[t] \/ mail'[t] = Append(mail[t], Crashed(a, inc[a], 0))
    BY <1>0, <1>1, <1>3, DoneIs
  <2>2. Crashed(a, inc[a], 0) \in Events
    BY <1>0, <1>3, CrashFits
  <2>3. Crashed(a, inc[a], 0).kind = "child_crashed"
    BY SMT DEF Crashed
  <2> QED
    BY <2>1, <2>2, <2>3, GrownSame, GrownAppend
<1>9. ASSUME NEW s \in Sups PROVE Kept(s)' /\ Governed(s)'
  <2>1. ASSUME s # Root, ~loop[s], s \in dropped, Range(Kids[s]) \subseteq dropped
        PROVE  StartDue(s)' \/ (s \in dropped' /\ Range(Kids[s]) \subseteq dropped')
    <3>1. CASE a \notin Range(Kids[s])
      <4>1. s # a
        BY <1>0, <1>3 DEF Tree
      <4> QED
        BY <1>1, <2>1, <3>1, <4>1
    <3>2. CASE a \in Range(Kids[s])
      <4>1. x # s
        BY <1>2, <2>1 DEF Orderly
      <4>2. x = Root
        BY <1>0, <1>3, <3>2, <4>1 DEF Tree, Reach
      <4>3. Op("start_agent", a) \in Range(plan[Root])
        <5>1. 1 \in DOMAIN plan[x] /\ Head(plan[x]) = plan[x][1]
          BY <1>0, <1>2, HeadIs
        <5>2. Head(plan[x]) = Op("start_agent", a)
          BY <1>2 DEF At
        <5>3. Op("start_agent", a) \in Range(plan[x])
          BY <5>1, <5>2 DEF Range
        <5> QED
          BY <4>2, <5>3
      <4>4. running[s] \/ StartDue(s)
        BY <2>1, <3>2, <4>3 DEF Tended, Governed
      <4>5. ~running[s]
        BY <2>1 DEF Tended, Governed
      <4> QED
        BY <1>4, <4>4, <4>5
    <3> QED
      BY <3>1, <3>2
  <2>2. Quiet(s)
    BY <1>8 DEF Grown
  <2> QED
    BY <1>1, <1>4, <2>1, <2>2, SupFrame
<1>10. ASSUME NEW b \in Agents PROVE Watched(b)' /\ Accounted(b)'
  <2>1. CASE b = a
    <3>1. "starting" # "leaving"
      BY SMT
    <3>2. Watched(a)'
      BY <1>1, <1>3, <1>4, <1>5, <1>6, <3>1 DEF Tended, Watched, Live
    <3>3. Accounted(a)'
      BY <1>5, <1>6 DEF Accounted
    <3> QED
      BY <2>1, <3>2, <3>3
  <2>2. CASE b # a
    <3>1. (b \in left => b \in left') /\ (b \in dropped => b \in dropped')
      BY <1>1, <2>2
    <3>2. Watched(b)'
      BY <1>1, <1>4, <1>6, <2>2, <3>1, WatchedFrame
    <3>3. /\ Queued(b) => Crashed(b, inc[b], 0) \in Range(mail'[ParentOf(b)])
          /\ Escalated(ParentOf(b)) => Escalated(ParentOf(b))'
      BY <1>0, <1>1, <1>8, EventsKept
    <3>4. Accounted(b)'
      BY <1>1, <1>4, <1>5, <1>6, <2>2, <3>1, <3>3, AccountedFrame
    <3> QED
      BY <3>2, <3>4
  <2> QED
    BY <2>1, <2>2
<1> QED
  BY <1>7, <1>9, <1>10 DEF Tended

\* A start that was waited for leaves the agent up or reported.
LEMMA WaitedAttended ==
    ASSUME TypeOK, Orderly, Tended, NEW x \in Sups, StartAgentWaited(x)
    PROVE  Tended'
<1>a. PICK a : a = Target(x)
  OBVIOUS
<1>0. Tree /\ x \in Actors /\ mail \in [Sups -> Seq(Events)] /\ tracked \in [Agents -> Nat]
  BY TypesNow, TreeHere DEF Actors
<1>1. /\ Acts(x, "start_agent") /\ waiting[x] = "yes" /\ st[a] # "starting"
      /\ st' = st /\ inc' = inc /\ shutting' = shutting /\ left' = left
      /\ loop' = loop /\ running' = running /\ setting' = setting
      /\ \/ st[a] \in {"failed", "stuck"} /\ Abort(x) /\ tracked' = tracked
         \/ /\ st[a] \notin {"failed", "stuck"} /\ tracked' = [tracked EXCEPT ![a] = inc[a]]
            /\ mail' = IF st[a] = "crashed"
                       THEN [mail EXCEPT ![ParentOf(a)] = Append(@, Crashed(a, inc[a], 0))]
                       ELSE mail
            /\ Proceed(x) /\ gaveUp' = gaveUp /\ dropped' = dropped
  BY <1>a DEF StartAgentWaited, reports, envVars
<1>2. plan[x] # << >> /\ At(x, "start_agent", a) /\ \A r, p : At(x, r, p) => r = "start_agent" /\ p = a
  BY <1>a, <1>0, <1>1, AtIs
<1>3. a \in Agents
  BY <1>a, <1>0, <1>1, <1>2, HeadIs
<1>4. "start_agent" # "stop_loop" /\ "start_agent" # "stop_agent" /\ "start_agent" # "start_loop" /\ "no" # "yes"
  BY SMT
<1>5. /\ \A p : ~At(x, "stop_loop", p) /\ ~At(x, "stop_agent", p) /\ ~At(x, "start_loop", p)
      /\ \A b : At(x, "start_agent", b) => b = a
  BY <1>2, <1>4
<1>6. CASE st[a] \in {"failed", "stuck"} /\ Abort(x) /\ tracked' = tracked
  BY <1>1, <1>2, <1>5, <1>6, AbortFrame
<1>7. CASE /\ st[a] \notin {"failed", "stuck"} /\ tracked' = [tracked EXCEPT ![a] = inc[a]]
           /\ mail' = IF st[a] = "crashed"
                      THEN [mail EXCEPT ![ParentOf(a)] = Append(@, Crashed(a, inc[a], 0))]
                      ELSE mail
           /\ Proceed(x) /\ gaveUp' = gaveUp /\ dropped' = dropped
  <2>1. /\ \A b : Begun(b) /\ ~At(x, "start_agent", b) => Begun(b)'
        /\ \A b : Asked(b) /\ ~(At(x, "stop_agent", b) /\ waiting[x] = "yes") => Asked(b)'
        /\ \A s : StopSent(s) /\ ~At(x, "stop_loop", s) => StopSent(s)'
        /\ \A s : StartDue(s) /\ ~At(x, "start_loop", s) => StartDue(s)'
        /\ \A b : Due(b) /\ ~(At(x, "start_agent", b) /\ waiting[x] = "no") => Due(b)'
        /\ \A o : o \in Range(plan'[Root]) => o \in Range(plan[Root])
    BY <1>0, <1>1, <1>2, <1>7, ProceedKeeps
  <2>2. /\ \A b : Begun(b) /\ b # a => Begun(b)'
        /\ \A b : (Asked(b) => Asked(b)') /\ (Due(b) => Due(b)')
        /\ \A s : (StopSent(s) => StopSent(s)') /\ (StartDue(s) => StartDue(s)')
    BY <1>1, <1>4, <1>5, <2>1
  <2>3. Sups' = Sups /\ Agents' = Agents /\ ParentOf(a)' = ParentOf(a) /\ ParentOf(a) \in Sups
    BY <1>0, <1>1, <1>3, ParentIs, Same
  <2>4. tracked'[a] = inc[a] /\ \A b \in Agents : b # a => tracked'[b] = tracked[b]
    BY <1>0, <1>3, <1>7
  <2>5. Crashed(a, inc[a], 0) \in Events
    BY <1>0, <1>3, CrashFits
  <2>6. Crashed(a, inc[a], 0).kind = "child_crashed"
    BY SMT DEF Crashed
  <2>7. ASSUME NEW t \in Sups
        PROVE  Grown(t) /\ (st[a] = "crashed" /\ t = ParentOf(a) => Crashed(a, inc[a], 0) \in Range(mail'[t]))
    <3>1. /\ ~(st[a] = "crashed" /\ t = ParentOf(a)) => mail'[t] = mail[t]
          /\ st[a] = "crashed" /\ t = ParentOf(a) => mail'[t] = Append(mail[t], Crashed(a, inc[a], 0))
      BY <1>0, <1>7, <2>3
    <3> QED
      BY <2>5, <2>6, <3>1, GrownSame, GrownAppend
  <2>8. ASSUME NEW s \in Sups PROVE Kept(s)' /\ Governed(s)'
    <3>1. Quiet(s)
      BY <2>7 DEF Grown
    <3> QED
      BY <1>1, <1>7, <2>1, <2>2, <3>1, SupFrame
  <2>9. ASSUME NEW b \in Agents, b # a PROVE Watched(b)' /\ Accounted(b)'
    <3>1. Watched(b)'
      BY <1>1, <1>7, <2>2, <2>4, <2>9, WatchedFrame
    <3>2. /\ Queued(b) => Crashed(b, inc[b], 0) \in Range(mail'[ParentOf(b)])
          /\ Escalated(ParentOf(b)) => Escalated(ParentOf(b))'
      BY <1>0, <1>1, <2>7, EventsKept
    <3>3. Accounted(b)'
      BY <1>1, <1>7, <2>2, <2>4, <2>9, <3>2, AccountedFrame
    <3> QED
      BY <3>1, <3>3
  <2>10. Watched(a) /\ Accounted(a)
    BY <1>3 DEF Tended
  <2>11. Watched(a)'
    BY <1>1, <2>2, <2>4, <2>10 DEF Watched, Live
  <2>12. Accounted(a)'
    <3>1. CASE st[a] = "crashed"
      <4>1. Queued(a)'
        BY <1>1, <2>3, <2>4, <2>7, <3>1 DEF Queued, Crashed
      <4> QED
        BY <4>1 DEF Accounted
    <3>2. CASE st[a] = "leaving"
      <4>1. a \in left \/ Due(a)
        BY <1>0, <1>3, <2>10, <3>2, Restored DEF Watched
      <4> QED
        BY <1>1, <2>2, <4>1 DEF Accounted, Reported
    <3>3. CASE st[a] # "crashed" /\ st[a] # "leaving"
      <4>1. st[a] \in {"live", "dying"} \/ Reported(a) \/ a \in dropped \/ Due(a) \/ Escalated(ParentOf(a))
        BY <1>1, <1>7, <2>10, <3>3, SMTT(30) DEF Accounted, Queued
      <4>2. Reported(a) => Reported(a)'
        BY <1>1, <1>7, <2>3 DEF Reported
      <4>3. Escalated(ParentOf(a)) => Escalated(ParentOf(a))'
        BY <1>0, <1>1, <1>3, <2>7, EventsKept
      <4> QED
        BY <1>1, <1>7, <2>2, <4>1, <4>2, <4>3, ZenonT(30) DEF Accounted
    <3> QED
      BY <3>1, <3>2, <3>3
  <2> QED
    BY <2>3, <2>8, <2>9, <2>11, <2>12 DEF Tended
<1> QED
  BY <1>1, <1>6, <1>7

\* As long as no shutdown message is left behind, nobody is forgotten.
LEMMA AttendedStep ==
    ASSUME TypeOK, Orderly, Planned, Attended, ~setting.endInStop, Next
    PROVE  Attended'
<1> SUFFICES ASSUME ~stray', ~stopping' PROVE Tended'
  BY DEF Attended
<1>1. setting' = setting /\ DOMAIN st' = DOMAIN st /\ ~stopping /\ ~stray
  BY Frozen
<1>2. Tended /\ plan[Runtime] = << >> /\ Actors = Sups \cup {Runtime}
  BY <1>1 DEF Attended, Orderly, Actors
<1>3. ASSUME NEW a \in Agents, AgentStep(a) \/ AgentCrash(a) \/ AgentLeaves(a) PROVE Tended'
  BY <1>1, <1>2, <1>3, AgentAttended
<1>4. ASSUME NEW s \in Sups, LoopStep(s) PROVE Tended'
  BY <1>2, <1>4, LoopEndsAttended, SkipAttended, BeginAttended, ExhaustedAttended DEF LoopStep
<1>5. ASSUME NEW s \in Sups, BackoffOver(s) PROVE Tended'
  BY <1>2, <1>5, StopAttended
<1>6. ASSUME NEW s \in Sups, AgeOut(s) PROVE Tended'
  <2>1. /\ Calm /\ plan' = plan /\ waiting' = waiting /\ loop' = loop /\ running' = running /\ mail' = mail
    BY <1>6 DEF AgeOut, agentVars, planVars, reports, envVars, Calm
  <2>2. /\ \A a : (Begun(a)' <=> Begun(a)) /\ (Asked(a)' <=> Asked(a)) /\ (Due(a)' <=> Due(a))
        /\ \A t : (StopSent(t)' <=> StopSent(t)) /\ (StartDue(t)' <=> StartDue(t))
    BY <1>1, <2>1, PlansSame
  <2>3. ASSUME NEW t \in Sups PROVE Kept(t)' /\ Governed(t)'
    BY <1>1, <1>2, <2>1, <2>2, SameMail, SupFrame DEF Calm
  <2>4. /\ \A a : Begun(a) => Begun(a)'
        /\ \A a : Asked(a) => Asked(a)'
        /\ \A a : Due(a) => Due(a)'
    BY <2>2
  <2>5. PICK e : e.kind = "shutdown" /\ \A a : e # Crashed(a, inc[a], 0)
    <3>1. Shutdown.kind = "shutdown" /\ \A a : Shutdown # Crashed(a, inc[a], 0)
      BY SMT DEF Shutdown, Crashed
    <3> QED
      BY <3>1
  <2>6. "shutdown" # "child_crashed"
    BY SMT
  <2> QED
    BY <1>2, <2>1, <2>3, <2>4, <2>5, <2>6, CalmFrame
<1>7. ASSUME NEW x \in Actors, PlanStep(x) PROVE Tended'
  <2>1. plan[x] # << >>
    BY <1>7 DEF PlanStep, StopAgentDown, StopAgentSend, StopAgentWaited, StopLoopSend,
                      StopLoopWaited, StartLoop, StartAgentBegin, StartAgentWaited, Acts
  <2>2. x \in Sups
    BY <1>2, <2>1
  <2> QED
    BY <1>1, <1>2, <1>7, <2>2, StopAttended, SendAttended, StopLoopAttended,
       StartLoopAttended, BeginAgentAttended, WaitedAttended DEF PlanStep
<1>8. CASE StopRuntime
  BY <1>8 DEF StopRuntime
<1>9. ASSUME NEW x \in Actors, StopAgentTimeout(x) \/ StopLoopTimeout(x) \/ StopLoopTimeoutSwallowed(x)
      PROVE  Tended'
  BY <1>9 DEF StopAgentTimeout, StopLoopTimeout, StopLoopTimeoutSwallowed
<1> QED
  BY <1>3, <1>4, <1>5, <1>6, <1>7, <1>8, <1>9 DEF Next, Fault
=============================================================================

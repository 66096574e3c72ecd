------------------------ MODULE SupervisorInvariant ------------------------
(***************************************************************************)
(* The inductive invariant of the supervision tree: Orderly for the plans  *)
(* and the mailboxes, Attended for a tree that is left to run, StopAhead   *)
(* for one that Runtime.stop() is at work on.                              *)
(***************************************************************************)
EXTENDS Supervisor

-----------------------------------------------------------------------------
(* Plans.                                                                  *)

\* The operation comes later in the sequence.
After(q, i, o) == \E j \in DOMAIN q : j > i /\ q[j] = o

Stops == {"stop_agent", "stop_loop"}
StartOf(p) == Op(IF p \in Sups THEN "start_loop" ELSE "start_agent", p)

\* What a plan stops it starts again, and with a supervisor its children.
Restores(q) == \A i \in DOMAIN q : q[i].op \in Stops => After(q, i, StartOf(q[i].who))
Fills(q) ==
    \A i \in DOMAIN q : q[i].op = "start_loop" =>
        \A a \in Range(Kids[q[i].who]) : After(q, i, Op("start_agent", a))

\* The loop of a supervisor is stopped before its children, which follow.
Ahead(q, s) ==
    \E i \in DOMAIN q : /\ q[i] = Op("stop_loop", s)
                        /\ \A j \in 1..(i - 1) : q[j].who \notin Range(Kids[s])
                        /\ \A a \in Range(Kids[s]) : After(q, i, Op("stop_agent", a))

\* What the plan of a supervisor may be about.
Reach(s) == IF s = Root THEN KidsOf(Kids) ELSE Range(Kids[s])
Proper(o) == /\ o.op \in {"stop_agent", "start_agent"} => o.who \in Agents
             /\ o.op \in {"stop_loop", "start_loop"} => o.who \in Sups

-----------------------------------------------------------------------------
(* The invariant.                                                          *)

\* The plan of a supervisor: it deals with its own children, and with those of
\* a child supervisor only at the root.
PlanOk(s, q) ==
    /\ \A i \in DOMAIN q : Proper(q[i]) /\ q[i].who \in Reach(s)
    /\ Restores(q) /\ Fills(q)

\* A mailbox holds the crashes of the children; an escalation has no incarnation.
MailOk(s, q) ==
    \A i \in DOMAIN q : q[i].kind = "child_crashed" =>
        q[i].who \in Range(Kids[s]) /\ (q[i].who \in Sups => q[i].inc = 0)

\* Only the loop of a supervisor runs its plan; Runtime.stop() only stops.
Orderly ==
    /\ Agents = KidsOf(Kids) \ Sups
    /\ \A s \in Sups : /\ PlanOk(s, plan[s]) /\ MailOk(s, mail[s])
                       /\ ~loop[s] => plan[s] = << >>
    /\ \A i \in DOMAIN plan[Runtime] : Proper(plan[Runtime][i]) /\ plan[Runtime][i].op \in Stops
    /\ ~stopping => plan[Runtime] = << >>

\* The operation is the one the actor is at.
At(x, o, p) == plan[x] # << >> /\ Head(plan[x]) = Op(o, p)

Begun(a)    == \E x \in Sups : At(x, "start_agent", a) /\ waiting[x] = "yes"
Asked(a)    == \E x \in Sups : At(x, "stop_agent", a) /\ waiting[x] = "yes"
StopSent(s) == At(Root, "stop_loop", s) /\ waiting[Root] # "no"
StartDue(s) == Op("start_loop", s) \in Range(plan[Root])

\* A start of the agent is planned and has not begun.
Due(a) ==
    \E x \in Sups : \E i \in DOMAIN plan[x] :
        plan[x][i] = Op("start_agent", a) /\ (i # 1 \/ waiting[x] = "no")

\* The crash of the agent, or the failure of a supervisor, is in the mailbox.
Queued(a) ==
    /\ st[a] = "crashed" /\ tracked[a] = inc[a]
    /\ Crashed(a, inc[a], 0) \in Range(mail[ParentOf(a)])
Escalated(s) == \E e \in Range(mail[Root]) : e.kind = "child_crashed" /\ e.who = s

\* A supervisor runs, is to be started again or has been dropped with all its
\* children.
Kept(s) ==
    \/ running[s] /\ loop[s]
    \/ StartDue(s)
    \/ s # Root /\ s \in dropped /\ Range(Kids[s]) \subseteq dropped /\ ~loop[s]

HasShutdown(q) == \E i \in DOMAIN q : q[i].kind = "shutdown"
OneShutdown(q) == \A i, j \in DOMAIN q : q[i].kind = "shutdown" /\ q[j].kind = "shutdown" => i = j

\* A supervisor is told to stop by the root alone, once, and waited for; its
\* children are started from above only with it.
Governed(s) ==
    /\ running[s] => loop[s]
    /\ ~running[s] /\ loop[s] => StopSent(s)
    /\ HasShutdown(mail[s]) => loop[s] /\ ~running[s] /\ StopSent(s)
    /\ OneShutdown(mail[s])
    /\ s # Root => \A a \in Range(Kids[s]) :
          Op("start_agent", a) \in Range(plan[Root]) => running[s] \/ StartDue(s)

\* Who starts an agent waits for it; an agent is told to stop by a supervisor
\* that waits for it.
Watched(a) ==
    /\ st[a] = "starting" => Begun(a)
    /\ tracked[a] # inc[a] => Begun(a) \/ a \in dropped
    /\ shutting[a] => Live(a) /\ Asked(a)
    /\ st[a] = "leaving" => a \in left \/ Asked(a)

\* An agent that is not up is accounted for: reported, dropped, or somebody is
\* still to see to it.
Accounted(a) ==
    \/ st[a] \in {"live", "dying"} \/ Reported(a) \/ a \in dropped
    \/ Begun(a) /\ st[a] \in {"starting", "failed", "stuck", "crashed"}
    \/ Due(a) \/ Queued(a) \/ Escalated(ParentOf(a))

Tended ==
    /\ \A s \in Sups : Kept(s) /\ Governed(s)
    /\ \A a \in Agents : Watched(a) /\ Accounted(a)

Attended == ~stray /\ ~stopping => Tended

\* What runs while Runtime.stop() is at work is still in front of it, and the
\* agent it waits for is on its way down without an exception.
StopAhead ==
    stopping =>
        /\ loop[Root] => plan[Runtime] = StopTree
        /\ \A s \in Sups \ {Root} : loop[s] => Ahead(plan[Runtime], s)
        /\ \A a \in Agents :
              /\ Live(a) => Op("stop_agent", a) \in Range(plan[Runtime])
              /\ At(Runtime, "stop_agent", a) /\ waiting[Runtime] = "yes" =>
                    (Live(a) /\ shutting[a]) \/ st[a] \in {"leaving", "stopped"}

-----------------------------------------------------------------------------
(* The tree.                                                               *)

Parties == Sups \cup Agents

\* What the runtime has checked of the tree (SupervisorAssumption), at hand.
Tree ==
    /\ Root \in Sups /\ Root \notin KidsOf(Kids) /\ Runtime \notin Sups
    /\ Agents \cap Sups = {}
    /\ \A p : p \in KidsOf(Kids) <=> p \in Agents \/ (p \in Sups /\ p # Root)
    /\ \A s \in Sups : Kids[s] \in Seq(KidsOf(Kids)) /\ Range(Kids[s]) \subseteq KidsOf(Kids)
    /\ \A s \in Sups : s # Root => s \in Range(Kids[Root]) /\ Range(Kids[s]) \subseteq Agents
    /\ \A s, t \in Sups : \A p \in Range(Kids[s]) : p \in Range(Kids[t]) => s = t
    /\ \A p \in KidsOf(Kids) : ParentOf(p) \in Sups /\ p \in Range(Kids[ParentOf(p)])

\* The plan of every restart and the plan of Runtime.stop() are in order, before
\* anything of them is performed.
RestartsFit ==
    \A s \in Sups : \A p \in Range(Kids[s]) :
        LET q == <<Op("backoff", p)>> \o RestartOps(s, p)
        IN  /\ q \in Seq(Ops) /\ q # << >> /\ Head(q) = Op("backoff", p)
            /\ PlanOk(s, q) /\ StartOf(p) \in Range(q)
            /\ \A t \in Sups : \A k \in Range(Kids[t]) :
                  t # s /\ Op("start_agent", k) \in Range(q) => Op("start_loop", t) \in Range(q)
StopTreeFits ==
    /\ StopTree \in Seq(Ops) /\ StopTree # << >> /\ Head(StopTree) = Op("stop_loop", Root)
    /\ \A i \in DOMAIN StopTree : Proper(StopTree[i]) /\ StopTree[i].op \in Stops
    /\ \A a \in Agents : Op("stop_agent", a) \in Range(StopTree)
    /\ \A s \in Sups : s # Root => Ahead(StopTree, s)
Planned == RestartsFit /\ StopTreeFits
=============================================================================

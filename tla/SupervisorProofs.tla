-------------------------- MODULE SupervisorProofs --------------------------
(***************************************************************************)
(* What the supervision tree promises, for every tree of two levels and    *)
(* every mix of strategies.                                                *)
(***************************************************************************)
EXTENDS SupervisorPlans, SupervisorSteps

\* A leaf is proved by Zenon unless it names another prover.
USE Zenon

-----------------------------------------------------------------------------
(* What follows.                                                           *)

\* Plans are in order in every reachable state.
LEMMA PlansAre ==
    ASSUME TypeOK, Orderly
    PROVE  Planned
BY TreeHere, PlansInOrder

\* A tree that has been started has nothing to do,
LEMMA StartedOrderly ==
    ASSUME Init
    PROVE  TypeOK /\ Orderly
<1>1. /\ setting \in Settings /\ Agents = KidsOf(Kids) \ Sups
  BY DEF Init, Agents
<1>2. Tree /\ setting.maxCrashes \in Nat
  BY <1>1, TreeIs, SupervisorAssumption
<1>3. /\ loop = [s \in Sups |-> TRUE] /\ running = loop /\ mail = [s \in Sups |-> << >>]
      /\ plan = [x \in Actors |-> << >>] /\ waiting = [x \in Actors |-> "no"]
      /\ st = [a \in Agents |-> "live"] /\ shutting = [a \in Agents |-> FALSE]
      /\ inc = [a \in Agents |-> 1] /\ tracked = inc /\ cause = [s \in Sups |-> s]
      /\ window = [s \in Sups |-> 0] /\ gen = [s \in Sups |-> 1]
      /\ gaveUp = {} /\ dropped = {} /\ left = {} /\ stopping = FALSE /\ stray = FALSE /\ crashes = 0
  BY <1>1 DEF Init
<1>4. TypeOK
  <2>1. {0, 1} \subseteq Nat /\ 0 \in 0..setting.maxCrashes /\ "live" \in AgentStates
    BY <1>2, SMT DEF AgentStates
  <2>2. << >> \in Seq(Events) /\ << >> \in Seq(Ops)
    BY SMT
  <2>3. /\ st \in [Agents -> AgentStates] /\ inc \in [Agents -> Nat] /\ tracked \in [Agents -> Nat]
        /\ shutting \in [Agents -> BOOLEAN]
    BY <1>3, <2>1
  <2>4. /\ loop \in [Sups -> BOOLEAN] /\ running \in [Sups -> BOOLEAN]
        /\ mail \in [Sups -> Seq(Events)] /\ window \in [Sups -> Nat] /\ gen \in [Sups -> Nat]
        /\ cause \in [Sups -> Sups \cup Agents]
    BY <1>3, <2>1, <2>2
  <2>5. plan \in [Actors -> Seq(Ops)] /\ waiting \in [Actors -> {"no", "yes", "cancelled"}]
    BY <1>3, <2>2
  <2> QED
    BY <1>1, <1>3, <2>1, <2>3, <2>4, <2>5 DEF TypeOK
<1>5. Orderly
  <2>1. Runtime \in Actors /\ Sups \subseteq Actors
    BY DEF Actors
  <2>2. \A x \in Actors : plan[x] = << >>
    BY <1>3
  <2>3. \A s \in Sups : mail[s] = << >>
    BY <1>3
  <2>4. DOMAIN << >> = {}
    BY SMT
  <2>5. \A s \in Sups : PlanOk(s, << >>) /\ MailOk(s, << >>)
    BY <2>4 DEF PlanOk, MailOk, Restores, Fills
  <2> QED
    BY <1>1, <2>1, <2>2, <2>3, <2>4, <2>5 DEF Orderly
<1> QED
  BY <1>4, <1>5

\* and all of it is up.
LEMMA StartedAttended ==
    ASSUME Init
    PROVE  Attended /\ StopAhead
<1>0. Agents = KidsOf(Kids) \ Sups
  BY DEF Init, Agents
<1>1. /\ \A s \in Sups : loop[s] /\ running[s] /\ mail[s] = << >>
      /\ \A x \in Actors : plan[x] = << >>
      /\ \A a \in Agents : st[a] = "live" /\ tracked[a] = inc[a] /\ ~shutting[a]
      /\ ~stopping
  BY <1>0 DEF Init
<1>2. Root \in Sups /\ Root \in Actors
  BY TreeHere, StartedOrderly DEF Tree, Actors
<1>3. \A a : Op("start_agent", a) \notin Range(plan[Root])
  <2>1. DOMAIN << >> = {}
    BY SMT
  <2> QED
    BY <1>1, <1>2, <2>1 DEF Range
<1>4. \A s \in Sups : Kept(s) /\ Governed(s)
  <2>1. DOMAIN << >> = {}
    BY SMT
  <2> QED
    BY <1>1, <1>3, <2>1 DEF Kept, Governed, HasShutdown, OneShutdown
<1>5. \A a \in Agents : Watched(a) /\ Accounted(a)
  <2>1. "live" # "starting" /\ "live" # "leaving" /\ "live" \in {"live", "dying"}
    BY SMT
  <2> QED
    BY <1>1, <2>1 DEF Watched, Accounted
<1> QED
  BY <1>1, <1>4, <1>5 DEF Attended, Tended, StopAhead

\* In a settled tree that is attended nobody is silently down: there is no plan
\* left to see to an agent, and a mailbox holds events only of a supervisor that
\* was dropped with its children.
LEMMA SettledSeen ==
    ASSUME TypeOK, Orderly, Attended
    PROVE  NoneSilentlyDown
<1> SUFFICES ASSUME Settled, ~stray
             PROVE  /\ \A a \in Agents : st[a] = "live" \/ Reported(a) \/ a \in dropped
                    /\ \A s \in Sups : (loop[s] /\ running[s]) \/ s \in dropped
  BY DEF NoneSilentlyDown
<1>1. /\ Tended /\ Tree
      /\ \A s \in Sups : plan[s] = << >> /\ (loop[s] => mail[s] = << >>)
      /\ \A a \in Agents : ~(st[a] \in {"starting", "dying", "leaving"})
  BY TreeHere DEF Settled, Attended
<1>2. DOMAIN << >> = {}
  BY SMT
<1>3. Range(<< >>) = {}
  BY <1>2 DEF Range
<1>4. \A s \in Sups : \/ running[s] /\ loop[s]
                      \/ s # Root /\ s \in dropped /\ Range(Kids[s]) \subseteq dropped
  BY <1>1, <1>3 DEF Tended, Kept, StartDue, Tree
<1>5. ASSUME NEW a \in Agents PROVE st[a] = "live" \/ Reported(a) \/ a \in dropped
  <2>1. ~Begun(a) /\ ~Due(a)
    BY <1>1, <1>2 DEF Begun, Due, At
  <2>2. PICK s \in Sups : a \in Range(Kids[s]) /\ ParentOf(a) = s
    BY <1>1, ParentIs
  <2>3. ASSUME Queued(a) PROVE a \in dropped
    <3>1. mail[s] # << >>
      BY <1>3, <2>2, <2>3 DEF Queued
    <3> QED
      BY <1>1, <1>4, <2>2, <3>1
  <2>4. ~Escalated(s)
    <3>1. mail[Root] = << >>
      BY <1>1, <1>4 DEF Tree
    <3> QED
      BY <1>3, <3>1 DEF Escalated
  <2>5. st[a] # "dying"
    BY <1>1, SMTT(30)
  <2>6. st[a] \in {"live", "dying"} \/ Reported(a) \/ a \in dropped \/ Queued(a)
    BY <1>1, <2>1, <2>2, <2>4 DEF Tended, Accounted
  <2> QED
    BY <2>3, <2>5, <2>6
<1> QED
  BY <1>4, <1>5

\* A plan that has been worked off leaves nothing of it up.
LEMMA StoppedAll ==
    ASSUME TypeOK, Orderly, StopAhead
    PROVE  StopComplete
<1> SUFFICES ASSUME stopping, plan[Runtime] = << >>
             PROVE  (\A a \in Agents : ~Live(a)) /\ (\A s \in Sups : ~loop[s])
  BY DEF StopComplete
<1>1. DOMAIN << >> = {}
  BY SMT
<1>2. Tree /\ StopTree # << >>
  BY TreeHere, PlansAre DEF Planned, StopTreeFits
<1>3. \A o : o \notin Range(plan[Runtime])
  BY <1>1 DEF Range
<1>4. \A s : ~Ahead(plan[Runtime], s)
  BY <1>1 DEF Ahead
<1> QED
  BY <1>2, <1>3, <1>4 DEF StopAhead

\* A step in which nothing happens.
LEMMA Unchanged ==
    ASSUME UNCHANGED vars
    PROVE  (TypeOK => TypeOK') /\ (Orderly => Orderly') /\ (Attended => Attended') /\ (StopAhead => StopAhead')
<1>1. /\ st' = st /\ inc' = inc /\ tracked' = tracked /\ shutting' = shutting /\ left' = left
      /\ loop' = loop /\ running' = running /\ mail' = mail /\ window' = window /\ gen' = gen
      /\ plan' = plan /\ cause' = cause /\ waiting' = waiting /\ gaveUp' = gaveUp /\ dropped' = dropped
      /\ setting' = setting /\ stopping' = stopping /\ stray' = stray /\ crashes' = crashes
  BY DEF vars, agentVars, supVars, planVars, reports, envVars
<1>2. /\ Kids' = Kids /\ Sups' = Sups /\ Agents' = Agents /\ Actors' = Actors /\ Ops' = Ops /\ Events' = Events
      /\ StopTree' = StopTree /\ (\A p : ParentOf(p)' = ParentOf(p)) /\ (\A o : Proper(o)' <=> Proper(o))
      /\ (\A s, q : PlanOk(s, q)' <=> PlanOk(s, q)) /\ (\A s, q : MailOk(s, q)' <=> MailOk(s, q))
  BY <1>1, Same
<1>3. TypeOK => TypeOK'
  BY <1>1, <1>2 DEF TypeOK, AgentStates
<1>4. ASSUME Orderly PROVE Orderly'
  <2>1. PlansNext /\ MailsNext
    BY <1>1, <1>4 DEF Orderly, PlansNext, MailsNext
  <2> QED
    BY <1>1, <1>4, <2>1, OrderlyThen
<1>5. Attended => Attended'
  <2>1. \A x, o, p : At(x, o, p)' <=> At(x, o, p)
    BY <1>1 DEF At
  <2>2. \A s : (StopSent(s) <=> StopSent(s)') /\ (StartDue(s) <=> StartDue(s)') /\ (Escalated(s) <=> Escalated(s)')
    BY <1>1, <2>1 DEF StopSent, StartDue, Escalated
  <2>3. \A a : (Begun(a) <=> Begun(a)') /\ (Asked(a) <=> Asked(a)') /\ (Due(a) <=> Due(a)') /\ (Live(a) <=> Live(a)')
    BY <1>1, <1>2, <2>1 DEF Begun, Asked, Due, Live
  <2>4. \A a : /\ (Reported(a) => Reported(a)') /\ (Queued(a) => Queued(a)')
               /\ (Escalated(ParentOf(a)) => Escalated(ParentOf(a))')
    BY <1>1, <1>2 DEF Reported, Queued, Escalated
  <2>5. \A s \in Sups : Kept(s) /\ Governed(s) => Kept(s)' /\ Governed(s)'
    BY <1>1, <1>2, <2>2 DEF Kept, Governed
  <2>6. \A a \in Agents : Watched(a) /\ Accounted(a) => Watched(a)' /\ Accounted(a)'
    BY <1>1, <1>2, <2>3, <2>4 DEF Watched, Accounted
  <2> QED
    BY <1>1, <1>2, <2>5, <2>6 DEF Attended, Tended
<1>6. ASSUME StopAhead PROVE StopAhead'
  <2>1. \A a : (Live(a) <=> Live(a)') /\ (At(Runtime, "stop_agent", a) <=> At(Runtime, "stop_agent", a)')
    BY <1>1 DEF Live, At
  <2>2. CASE stopping
    <3>1. /\ loop'[Root] => plan'[Runtime] = StopTree
          /\ \A s \in Sups : s # Root /\ loop'[s] => Ahead(plan'[Runtime], s)
          /\ \A a \in Agents : Live(a)' => Op("stop_agent", a) \in Range(plan'[Runtime])
          /\ \A a \in Agents : At(Runtime, "stop_agent", a)' /\ waiting'[Runtime] = "yes" =>
                (Live(a)' /\ shutting'[a]) \/ st'[a] \in {"leaving", "stopped"}
      BY <1>1, <1>6, <2>1, <2>2 DEF StopAhead
    <3> QED
      BY <1>1, <3>1, AheadThen
  <2> QED
    BY <1>1, <2>2 DEF StopAhead
<1> QED
  BY <1>3, <1>4, <1>5, <1>6

\* The variables of the supervision tree keep their types: in particular every
\* event a mailbox holds and every operation a restart or Runtime.stop() still
\* has to perform is well formed, whatever the tree, the strategies, the budget
\* and the faults allowed.
THEOREM TypesKept == Spec => []TypeOK
<1>1. Init => TypeOK /\ Orderly
  BY StartedOrderly
<1>2. TypeOK /\ Orderly /\ [Next]_vars => TypeOK' /\ Orderly'
  <2>1. ASSUME TypeOK, Orderly, Next PROVE TypeOK' /\ Orderly'
    BY <2>1, PlansAre, TypesStep, OrderlyStep
  <2>2. ASSUME TypeOK, Orderly, UNCHANGED vars PROVE TypeOK' /\ Orderly'
    BY <2>2, Unchanged
  <2> QED
    BY <2>1, <2>2
<1> QED
  BY <1>1, <1>2, PTL DEF Spec

\* No crash is lost: once a tree has come to rest, every agent of it is up, has
\* been reported as permanently down or ended by itself, or was still to be
\* started by a restart that failed; and every supervisor listens for the
\* crashes of its children unless it was still to be started likewise
\* (Supervisor._handle_crash, _restart_child, _restart_agent_child).  It holds for
\* every two-level tree, mix of strategies, restart budget and number of crashes,
\* with failing and stuck starts, slow teardowns and stops that time out, as long
\* as no agent ends by itself while the shutdown message is in its mailbox.
THEOREM NobodySilentlyDown ==
    ASSUME \A c \in Settings : ~c.endInStop
    PROVE  Spec => []NoneSilentlyDown
<1> DEFINE IInv == TypeOK /\ Orderly /\ Attended
<1>1. Init => IInv
  BY StartedOrderly, StartedAttended
<1>2. IInv /\ [Next]_vars => IInv'
  <2>1. ASSUME IInv, Next PROVE IInv'
    <3>1. ~setting.endInStop
      BY <2>1 DEF TypeOK
    <3> QED
      BY <2>1, <3>1, PlansAre, TypesStep, OrderlyStep, AttendedStep
  <2>2. ASSUME IInv, UNCHANGED vars PROVE IInv'
    BY <2>2, Unchanged
  <2> QED
    BY <2>1, <2>2
<1>3. IInv => NoneSilentlyDown
  BY SettledSeen
<1> QED
  BY <1>1, <1>2, <1>3, PTL DEF Spec

\* Runtime.stop() leaves nothing behind: when its stop of the root supervisor
\* returns, no agent of the tree is up and no supervisor's loop runs, though the
\* supervisors went on restarting children while it was at work
\* (Supervisor.stop, AgentProcess._stop).  Again for every tree, and as long as no
\* agent ends by itself while the shutdown message is in its mailbox.
THEOREM TreeStopped ==
    ASSUME \A c \in Settings : ~c.endInStop
    PROVE  Spec => []StopComplete
<1> DEFINE IInv == TypeOK /\ Orderly /\ StopAhead
<1>1. Init => IInv
  BY StartedOrderly, StartedAttended
<1>2. IInv /\ [Next]_vars => IInv'
  <2>1. ASSUME IInv, Next PROVE IInv'
    <3>1. ~setting.endInStop
      BY <2>1 DEF TypeOK
    <3> QED
      BY <2>1, <3>1, PlansAre, TypesStep, OrderlyStep, StopAheadStep
  <2>2. ASSUME IInv, UNCHANGED vars PROVE IInv'
    BY <2>2, Unchanged
  <2> QED
    BY <2>1, <2>2
<1>3. IInv => StopComplete
  BY StoppedAll
<1> QED
  BY <1>1, <1>2, <1>3, PTL DEF Spec
=============================================================================

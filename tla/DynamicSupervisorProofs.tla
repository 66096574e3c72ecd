---------------------- MODULE DynamicSupervisorProofs -----------------------
(***************************************************************************)
(* Proofs about DynamicSupervisor, for any number of names, children,      *)
(* restarts and incarnations: what it leaves to other agents, what its     *)
(* records say of the children that run, and of those their spawners       *)
(* believe to run.                                                         *)
(***************************************************************************)
EXTENDS DynamicSupervisor, FiniteSetTheorems, TLAPS

-----------------------------------------------------------------------------
(* What the theorems take for granted.                                     *)

\* A request and a waiting spawn do not meet the restart of the same child,
\* and nobody takes a name while it is cleaned up.
Apart == RaceRestart \cup EarlyCrash \subseteq {"never"} /\ ~TeardownYields

-----------------------------------------------------------------------------
(* The inductive invariant.                                                *)

\* What the message loop may have in hand.
Tasks == [op : {"idle", "checked", "claimed", "stopping"}, kid : Names \cup {None},
          agent : 0..MaxStarts, task : 0..MaxStarts]

DynTypes ==
    /\ mode \in Modes
    /\ up \in {"up", "stopped", "crashed"} /\ born \in 0..MaxStarts
    /\ who \in [Incs -> Names \cup {None}] /\ st \in [Incs -> States]
    /\ rec \in [Names -> 0..MaxStarts] /\ task \in [Names -> 0..MaxStarts]
    /\ watched \subseteq 1..born
    /\ foreign \subseteq registered
    /\ busy \in Tasks
    /\ conts \subseteq [inc : Incs, pc : {"wait"}]
    /\ exits \subseteq [inc : Incs, kid : Names, pc : {"begin", "starting"}]

\* The restart of an incarnation that is not yet on file.
Restarting(i) == \E e \in exits : e.inc = i /\ e.pc = "starting"

\* What runs is in the record of its name, and on file unless it is being restarted.
Runs(i) ==
    Up(i) => /\ i <= born /\ who[i] \in Names /\ rec[who[i]] = i
             /\ up = "up" => task[who[i]] = i \/ Restarting(i)

\* A record and a task on file are of their name, and the name is this supervisor's.
Books(n) ==
    /\ rec[n] # 0 => rec[n] <= born /\ who[rec[n]] = n /\ n \in registered \ foreign
    /\ task[n] # 0 => task[n] <= born /\ who[task[n]] = n

\* An exit handler works on the incarnation in the record, if there is one.
Exit(e) ==
    /\ e.inc <= born /\ who[e.inc] = e.kid /\ e.kid \notin foreign
    /\ e.pc = "begin" => /\ e.inc \in watched /\ rec[e.kid] \in {0, e.inc}
                         /\ st[e.inc] \in {"crashed", "exited", "failed"}
    /\ e.pc = "starting" => /\ e.inc \notin watched /\ rec[e.kid] = e.inc
                            /\ mode # "never" /\ st[e.inc] \notin {"none", "cancelled"}
                            /\ \A c \in conts : who[c.inc] # e.kid
                            /\ ~(busy.op = "stopping" /\ busy.kid = e.kid)

\* So does the continuation of a spawn.
Cont(c) ==
    /\ c.inc <= born /\ who[c.inc] \in Names \ foreign /\ rec[who[c.inc]] \in {0, c.inc}
    /\ mode # "never" => st[c.inc] \notin {"crashed", "exited"}

\* The name of a spawn under way is free.
Spawning ==
    busy.op \in {"checked", "claimed"} =>
        /\ busy.kid \in Names /\ rec[busy.kid] = 0 /\ born < MaxStarts
        /\ \A e \in exits : e.kid # busy.kid
        /\ \A c \in conts : who[c.inc] # busy.kid
        /\ busy.op = "claimed" => busy.kid \in registered \ foreign

\* A stop request waits for the incarnation in the record.
Stopping ==
    busy.op = "stopping" =>
        /\ busy.kid \in Names /\ rec[busy.kid] # 0
        /\ Up(rec[busy.kid]) => busy.agent = rec[busy.kid]
        /\ busy.agent # 0 => busy.agent <= born /\ who[busy.agent] = busy.kid
        /\ busy.task # 0 => busy.task <= born /\ who[busy.task] = busy.kid

DynInv ==
    /\ DynTypes
    /\ \A i \in Incs : Runs(i)
    /\ \A n \in Names : Books(n)
    /\ \A e \in exits : Exit(e)
    /\ \A c \in conts : Cont(c)
    /\ Spawning /\ Stopping

-----------------------------------------------------------------------------
(* Steps that change little.                                               *)

LEMMA IdleIs == Idle \in Tasks /\ Idle.op = "idle"
BY DynamicAssumption DEF Idle, Tasks

LEMMA WaitsForIncs == DynInv => busy.agent \in {0} \cup Incs /\ busy.task \in {0} \cup Incs
BY DEF DynInv, DynTypes, Tasks, Incs

\* A step that leaves the children and their records alone.
LEMMA FrameKeeps ==
    ASSUME DynInv, UNCHANGED <<mode, up, born, who, st, watched, rec, task>>,
           foreign' \subseteq registered', \A n \in Names : rec[n] # 0 => n \in registered' \ foreign',
           exits' \subseteq exits, \A e \in exits' : e.kid \notin foreign',
           \A e \in exits : e.pc = "starting" /\ Up(e.inc) => e \in exits',
           conts' \subseteq conts, \A c \in conts' : who[c.inc] \notin foreign',
           busy' \in Tasks, Spawning', Stopping',
           \A e \in exits' : e.pc = "starting" => ~(busy'.op = "stopping" /\ busy'.kid = e.kid)
    PROVE  DynInv'
<1>1. DynTypes'
  BY Zenon DEF DynInv, DynTypes
<1>2. \A j \in Incs : Runs(j)'
  <2>1. \A j \in Incs : Up(j) /\ Restarting(j) => Restarting(j)'
    BY Zenon DEF Restarting
  <2>2. \A j \in Incs : Up(j)' <=> Up(j)
    BY Zenon DEF Up
  <2> QED
    BY <2>1, <2>2, Zenon DEF DynInv, Runs
<1>3. \A n \in Names : Books(n)'
  BY Zenon DEF DynInv, Books
<1>4. \A e \in exits' : Exit(e)'
  BY Zenon DEF DynInv, Exit
<1>5. \A c \in conts' : Cont(c)'
  BY Zenon DEF DynInv, Cont
<1> QED
  BY <1>1, <1>2, <1>3, <1>4, <1>5, Zenon DEF DynInv

\* A step that only ends background tasks.
LEMMA HandlerGone ==
    ASSUME DynInv, exits' \subseteq exits, conts' \subseteq conts,
           UNCHANGED <<mode, up, born, who, st, watched, rec, task, registered, foreign, busy>>,
           \A e \in exits : e.pc = "starting" /\ Up(e.inc) => e \in exits'
    PROVE  DynInv'
<1>1. foreign \subseteq registered /\ \A m \in Names : rec[m] # 0 => m \in registered \ foreign
  BY Zenon DEF DynInv, DynTypes, Books
<1>2. (\A e \in exits : e.kid \notin foreign) /\ \A c \in conts : who[c.inc] \notin foreign
  BY Zenon DEF DynInv, Exit, Cont
<1>3. Spawning' /\ Stopping'
  BY Zenon DEF DynInv, Spawning, Stopping, Up
<1>4. busy \in Tasks /\ \A e \in exits : e.pc = "starting" => ~(busy.op = "stopping" /\ busy.kid = e.kid)
  BY Zenon DEF DynInv, DynTypes, Exit
<1> QED
  BY <1>1, <1>2, <1>3, <1>4, FrameKeeps, Zenon

-----------------------------------------------------------------------------
(* Children.                                                               *)

LEMMA ReadyKeeps ==
    ASSUME DynInv, NEW i \in Incs, ChildReady(i)
    PROVE  DynInv'
<1>1. /\ st[i] = "starting" /\ st' = [st EXCEPT ![i] = "live"]
      /\ UNCHANGED <<mode, up, born, who, watched, rec, task, acked, registered, foreign, busy, conts, exits>>
  BY Zenon DEF ChildReady, bookVars, regVars, bgVars
<1>2. st'[i] = "live" /\ st' \in [Incs -> States] /\ \A j \in Incs : j # i => st'[j] = st[j]
  BY <1>1, Zenon DEF DynInv, DynTypes, States
<1>3. \A j \in Incs : Up(j)' <=> Up(j)
  BY <1>1, <1>2, Zenon DEF Up
<1>4. DynTypes'
  BY <1>1, <1>2, Zenon DEF DynInv, DynTypes
<1>5. \A j \in Incs : Runs(j)'
  BY <1>1, <1>3, Zenon DEF DynInv, Runs, Restarting
<1>6. \A n \in Names : Books(n)'
  BY <1>1, Zenon DEF DynInv, Books
<1>7. \A e \in exits' : Exit(e)'
  BY <1>1, <1>2 DEF DynInv, DynTypes, Exit
<1>8. \A c \in conts' : Cont(c)'
  BY <1>1, <1>2, Zenon DEF DynInv, DynTypes, Cont
<1>9. Spawning'
  BY <1>1, Zenon DEF DynInv, Spawning
<1>10. Stopping'
  BY <1>1, <1>3 DEF DynInv, DynTypes, Stopping, Incs
<1> QED
  BY <1>4, <1>5, <1>6, <1>7, <1>8, <1>9, <1>10, Zenon DEF DynInv

LEMMA EndsKeeps ==
    ASSUME DynInv, NEW i \in Incs, Up(i), NEW s \in {"crashed", "exited", "failed"}, Ends(i, s),
           mode # "never" /\ Waited(i) => s = "failed"
    PROVE  DynInv'
<1>1. /\ st' = [st EXCEPT ![i] = s] /\ exits \subseteq exits' /\ exits' \subseteq exits \cup {Begin(i)}
      /\ Begin(i) \in exits' => i \in watched \/ Begin(i) \in exits
      /\ UNCHANGED <<mode, up, born, who, watched, rec, task, registered, foreign, busy, conts>>
  BY Zenon DEF Ends, bookVars, regVars
<1>2. st'[i] = s /\ st' \in [Incs -> States] /\ \A j \in Incs : j # i => st'[j] = st[j]
  BY <1>1, Zenon DEF DynInv, DynTypes, States
<1>3. \A j \in Incs : Up(j)' => Up(j)
  BY <1>1, <1>2, Zenon DEF Up
<1>4. i <= born /\ i # 0 /\ who[i] \in Names /\ rec[who[i]] = i /\ who[i] \notin foreign
  BY DEF DynInv, Runs, Books, Incs
<1>5. DynTypes'
  BY <1>1, <1>2, <1>4 DEF DynInv, DynTypes, Begin
<1>6. \A j \in Incs : Runs(j)'
  BY <1>1, <1>3, Zenon DEF DynInv, Runs, Restarting
<1>7. \A n \in Names : Books(n)'
  BY <1>1, Zenon DEF DynInv, Books
<1>8. \A e \in exits' : Exit(e)'
  <2> SUFFICES ASSUME NEW e \in exits' PROVE Exit(e)'
    BY Zenon
  <2>1. CASE e \in exits
    BY <1>1, <1>2, <2>1, Zenon DEF DynInv, DynTypes, Exit, Up
  <2>2. CASE e \notin exits
    <3>1. e = Begin(i) /\ i \in watched
      BY <1>1, <2>2, Zenon
    <3> QED
      BY <1>1, <1>2, <1>4, <3>1, Zenon DEF Exit, Begin
  <2> QED
    BY <2>1, <2>2, Zenon
<1>9. \A c \in conts' : Cont(c)'
  BY <1>1, <1>2, Zenon DEF DynInv, DynTypes, Cont, Waited
<1>10. Spawning'
  BY <1>1, <1>4 DEF DynInv, Spawning, Begin
<1>11. Stopping'
  BY <1>1, <1>3 DEF DynInv, DynTypes, Stopping, Incs
<1> QED
  BY <1>5, <1>6, <1>7, <1>8, <1>9, <1>10, <1>11, Zenon DEF DynInv

LEMMA ChildKeeps ==
    ASSUME Apart, DynInv, NEW i \in Incs, Child(i)
    PROVE  DynInv'
<1>1. CASE ChildReady(i)
  BY <1>1, ReadyKeeps, Zenon
<1>2. CASE ChildFails(i)
  BY <1>2, EndsKeeps, Zenon DEF ChildFails, Up
<1>3. CASE ChildCrash(i)
  BY <1>3, EndsKeeps, Zenon DEF ChildCrash, Up, Apart
<1>4. CASE ChildExits(i)
  BY <1>4, EndsKeeps, Zenon DEF ChildExits, Up, Apart
<1> QED
  BY <1>1, <1>2, <1>3, <1>4, Zenon DEF Child

-----------------------------------------------------------------------------
(* Requests.                                                               *)

LEMMA SpawnCheckedKeeps ==
    ASSUME Apart, DynInv, NEW n \in Names, SpawnChecked(n)
    PROVE  DynInv'
<1>1. /\ busy'.op = "checked" /\ busy'.kid = n /\ busy' \in Tasks
      /\ UNCHANGED <<mode, up, born, who, st, watched, rec, task, registered, foreign, conts, exits>>
  BY DynamicAssumption DEF SpawnChecked, Tasks, childVars, bookVars, regVars, bgVars
<1>2. rec[n] = 0 /\ born < MaxStarts /\ ~Settling(n)
  BY DynamicAssumption DEF SpawnChecked, Room, Idle, Apart, DynInv, DynTypes
<1>3. \A e \in exits : e.kid # n
  BY <1>2, Zenon DEF Settling
<1>4. \A c \in conts : who[c.inc] # n
  BY <1>2 DEF Settling, DynInv, DynTypes, Runs, Up, Incs
<1>5. Spawning' /\ Stopping'
  BY <1>1, <1>2, <1>3, <1>4, Zenon DEF Spawning, Stopping
<1>6. foreign \subseteq registered /\ \A m \in Names : rec[m] # 0 => m \in registered \ foreign
  BY Zenon DEF DynInv, DynTypes, Books
<1>7. (\A e \in exits : e.kid \notin foreign) /\ \A c \in conts : who[c.inc] \notin foreign
  BY Zenon DEF DynInv, Exit, Cont
<1> QED
  BY <1>1, <1>5, <1>6, <1>7, FrameKeeps, Zenon

LEMMA SpawnClaimedKeeps ==
    ASSUME DynInv, SpawnClaimed
    PROVE  DynInv'
<1>1. /\ registered \subseteq registered'
      /\ UNCHANGED <<mode, up, born, who, st, watched, rec, task, foreign, conts, exits>>
  BY Zenon DEF SpawnClaimed, childVars, bookVars, bgVars
<1>2. /\ busy' \in Tasks
      /\ \/ busy'.op = "idle"
         \/ /\ busy'.op = "claimed" /\ busy'.kid = busy.kid /\ busy.op = "checked"
            /\ busy.kid \in registered' \ foreign
  BY IdleIs, Zenon DEF SpawnClaimed, Tasks, DynInv, DynTypes
<1>3. Spawning' /\ Stopping'
  BY <1>1, <1>2, Zenon DEF DynInv, Spawning, Stopping
<1>4. foreign \subseteq registered' /\ \A m \in Names : rec[m] # 0 => m \in registered' \ foreign
  BY <1>1, Zenon DEF DynInv, DynTypes, Books
<1>5. (\A e \in exits : e.kid \notin foreign) /\ \A c \in conts : who[c.inc] \notin foreign
  BY Zenon DEF DynInv, Exit, Cont
<1> QED
  BY <1>1, <1>2, <1>3, <1>4, <1>5, FrameKeeps, Zenon

LEMMA SpawnStartedKeeps ==
    ASSUME DynInv, NEW wait \in BOOLEAN, SpawnStarted(wait)
    PROVE  DynInv'
<1> DEFINE i == born + 1
           n == busy.kid
<1>1. /\ busy.op = "claimed" /\ busy' = Idle /\ UNCHANGED <<mode, up, registered, foreign, exits>>
      /\ born' = i /\ who' = [who EXCEPT ![i] = n] /\ st' = [st EXCEPT ![i] = "starting"]
      /\ watched' = watched \cup {i}
      /\ rec' = [rec EXCEPT ![n] = i] /\ task' = [task EXCEPT ![n] = i]
      /\ conts \subseteq conts' /\ conts' \subseteq conts \cup {[inc |-> i, pc |-> "wait"]}
  BY Zenon DEF SpawnStarted, regVars
<1>2. /\ n \in Names /\ rec[n] = 0 /\ i \in Incs /\ i # 0 /\ born \in Nat /\ n \in registered \ foreign
      /\ \A e \in exits : e.kid # n
      /\ \A c \in conts : who[c.inc] # n
  BY <1>1, DynamicAssumption DEF DynInv, DynTypes, Spawning, Incs
<1> HIDE DEF i, n
<1>3. /\ who'[i] = n /\ st'[i] = "starting" /\ rec'[n] = i /\ task'[n] = i
      /\ \A j \in Incs : j # i => who'[j] = who[j] /\ st'[j] = st[j]
      /\ \A m \in Names : m # n => rec'[m] = rec[m] /\ task'[m] = task[m]
  BY <1>1, <1>2, Zenon DEF DynInv, DynTypes
<1>4. \A j \in Incs : j <= born => j # i
  BY <1>2 DEF i, Incs
<1>5. DynTypes'
  <2>1. watched' \subseteq 1..born' /\ born' \in 0..MaxStarts
    BY <1>1, <1>2 DEF DynInv, DynTypes, Incs, i
  <2>2. /\ who' \in [Incs -> Names \cup {None}] /\ st' \in [Incs -> States]
        /\ rec' \in [Names -> 0..MaxStarts] /\ task' \in [Names -> 0..MaxStarts]
    BY <1>1, <1>2 DEF DynInv, DynTypes, Incs, States
  <2>3. conts' \subseteq [inc : Incs, pc : {"wait"}]
    BY <1>1, <1>2 DEF DynInv, DynTypes
  <2>4. busy' \in [op : {"idle", "checked", "claimed", "stopping"}, kid : Names \cup {None},
                   agent : 0..MaxStarts, task : 0..MaxStarts]
    BY <1>1, DynamicAssumption DEF Idle
  <2> QED
    BY <1>1, <2>1, <2>2, <2>3, <2>4, Zenon DEF DynInv, DynTypes, Tasks
<1>6. \A j \in Incs : Runs(j)'
  <2> SUFFICES ASSUME NEW j \in Incs PROVE Runs(j)'
    BY Zenon
  <2>1. CASE j = i
    BY <1>1, <1>2, <1>3, <2>1, SMTT(30) DEF Runs, i
  <2>2. CASE j # i
    <3>1. Up(j)' <=> Up(j)
      BY <1>3, <2>2, Zenon DEF Up
    <3>2. who'[j] = who[j] /\ (Up(j) => rec[who[j]] = j /\ j # 0)
      BY <1>3, <2>2 DEF DynInv, Runs, Incs
    <3>3. Up(j) => who[j] \in Names /\ who[j] # n
      BY <1>2, <3>2, Zenon DEF DynInv, Runs
    <3>4. j <= born => j <= born'
      BY <1>1, <1>2 DEF i, Incs
    <3> QED
      BY <1>1, <1>3, <3>1, <3>2, <3>3, <3>4 DEF DynInv, Runs, Restarting
  <2> QED
    BY <2>1, <2>2, Zenon
<1>7. \A m \in Names : Books(m)'
  <2> SUFFICES ASSUME NEW m \in Names PROVE Books(m)'
    BY Zenon
  <2>1. CASE m = n
    BY <1>1, <1>2, <1>3, <2>1, SMTT(30) DEF Books, i
  <2>2. CASE m # n
    <3>1. rec'[m] = rec[m] /\ task'[m] = task[m] /\ rec[m] \in 0..MaxStarts /\ task[m] \in 0..MaxStarts
      BY <1>3, <2>2, Zenon DEF DynInv, DynTypes
    <3>2. Books(m) /\ \A k \in 0..MaxStarts : k # 0 /\ k <= born => k <= born' /\ k # i /\ k \in Incs
      BY <1>1, <1>2 DEF DynInv, i, Incs
    <3> QED
      BY <1>1, <1>3, <3>1, <3>2 DEF Books
  <2> QED
    BY <2>1, <2>2, Zenon
<1>8. \A e \in exits' : Exit(e)'
  <2> SUFFICES ASSUME NEW e \in exits PROVE Exit(e)'
    BY <1>1, Zenon
  <2>1. Exit(e) /\ e.inc \in Incs /\ e.kid \in Names /\ e.kid # n
    BY <1>2, Zenon DEF DynInv, DynTypes
  <2>2. e.inc # i /\ e.inc <= born' /\ who[e.inc] = e.kid
    BY <1>1, <1>2, <1>4, <2>1 DEF Exit, i, Incs
  <2>3. \A c \in conts' : c \in conts \/ c.inc = i
    BY <1>1
  <2>4. \A c \in conts : c.inc \in Incs /\ c.inc <= born
    BY Zenon DEF DynInv, DynTypes, Cont
  <2>5. (\A c \in conts : who[c.inc] # e.kid) => \A c \in conts' : who'[c.inc] # e.kid
    BY <1>3, <1>4, <2>1, <2>3, <2>4, Zenon
  <2>6. busy'.op # "stopping"
    BY <1>1, Zenon DEF Idle
  <2> QED
    BY <1>1, <1>3, <2>1, <2>2, <2>5, <2>6, Zenon DEF Exit
<1>9. \A c \in conts' : Cont(c)'
  <2> SUFFICES ASSUME NEW c \in conts' PROVE Cont(c)'
    BY Zenon
  <2>1. CASE c.inc = i
    BY <1>1, <1>2, <1>3, <2>1, SMTT(30) DEF Cont, i
  <2>2. CASE c.inc # i
    <3>1. c \in conts
      BY <1>1, <2>2
    <3>2. Cont(c) /\ c.inc \in Incs /\ who[c.inc] # n /\ (c.inc <= born => c.inc <= born')
      BY <1>1, <1>2, <3>1 DEF DynInv, DynTypes, i, Incs
    <3> QED
      BY <1>1, <1>3, <2>2, <3>2 DEF Cont
  <2> QED
    BY <2>1, <2>2, Zenon
<1>10. Spawning' /\ Stopping'
  BY <1>1, Zenon DEF Spawning, Stopping, Idle
<1> QED
  BY <1>5, <1>6, <1>7, <1>8, <1>9, <1>10, Zenon DEF DynInv

\* Idle is a value of busy.
\* A child is taken off the records once nothing of its name runs.
LEMMA DropKeeps ==
    ASSUME DynInv, NEW n \in Names, Drop(n), UNCHANGED <<mode, up, born, who, watched>>,
           st' \in [Incs -> States],
           \A i \in Incs : st'[i] = st[i] \/ (st'[i] = "cancelled" /\ Up(i) /\ who[i] = n),
           \A i \in Incs : Up(i)' => who[i] # n,
           UNCHANGED <<registered, foreign>> \/ Deregister(n),
           exits' \subseteq exits, conts' \subseteq conts,
           \A e \in exits : e.pc = "starting" => e.kid # n /\ e \in exits',
           busy' = Idle \/ (busy' = busy /\ (busy.op # "idle" => busy.kid # n))
    PROVE  DynInv'
<1>1. /\ rec'[n] = 0 /\ task'[n] = 0
      /\ \A m \in Names : m # n => rec'[m] = rec[m] /\ task'[m] = task[m]
      /\ rec' \in [Names -> 0..MaxStarts] /\ task' \in [Names -> 0..MaxStarts]
  BY DynamicAssumption DEF Drop, DynInv, DynTypes
<1>2. \A i \in Incs : Up(i)' => Up(i)
  BY Zenon DEF Up
<1>3. /\ foreign' \subseteq foreign /\ foreign' \subseteq registered'
      /\ \A m \in Names : m # n /\ m \in registered => m \in registered'
  BY Zenon DEF Deregister, DynInv, DynTypes
<1>4. busy'.op = "idle" \/ (busy' = busy /\ (busy.op # "idle" => busy.kid # n))
  BY IdleIs, Zenon
<1>5. DynTypes'
  BY <1>1, <1>3, IdleIs, Zenon DEF DynInv, DynTypes
<1>6. \A i \in Incs : Runs(i)'
  <2> SUFFICES ASSUME NEW i \in Incs, Up(i)' PROVE Runs(i)'
    BY Zenon DEF Runs
  <2>1. Up(i) /\ who[i] # n /\ Runs(i)
    BY <1>2, Zenon DEF DynInv
  <2>2. Restarting(i) => Restarting(i)'
    BY Zenon DEF Restarting
  <2> QED
    BY <1>1, <2>1, <2>2, Zenon DEF Runs
<1>7. \A m \in Names : Books(m)'
  BY <1>1, <1>3 DEF DynInv, Books
<1>8. \A e \in exits' : Exit(e)'
  <2> SUFFICES ASSUME NEW e \in exits' PROVE Exit(e)'
    BY Zenon
  <2>1. e \in exits /\ Exit(e) /\ e.inc \in Incs /\ e.kid \in Names
    BY Zenon DEF DynInv, DynTypes
  <2>2. e.pc = "begin" => st'[e.inc] = st[e.inc] /\ rec'[e.kid] \in {0, e.inc}
    BY <1>1, <2>1, Zenon DEF Exit, Up
  <2>3. e.pc = "starting" => st'[e.inc] = st[e.inc] /\ rec'[e.kid] = e.inc
    BY <1>1, <2>1, Zenon DEF Exit
  <2> QED
    BY <1>3, <1>4, <2>1, <2>2, <2>3, Zenon DEF Exit
<1>9. \A c \in conts' : Cont(c)'
  BY <1>1, <1>3 DEF DynInv, DynTypes, Cont
<1>13. Spawning'
  <2>1. busy'.op \in {"checked", "claimed"} => busy' = busy /\ busy.kid \in Names
    BY <1>4, Zenon DEF DynInv, Spawning
  <2>2. busy'.op \in {"checked", "claimed"} => rec'[busy.kid] = 0
    BY <1>1, <2>1, Zenon DEF DynInv, Spawning
  <2>4. busy'.op = "claimed" => busy.kid \in registered' \ foreign'
    BY <1>3, <1>4, <2>1, Zenon DEF DynInv, Spawning
  <2> QED
    BY <2>1, <2>2, <2>4, Zenon DEF DynInv, Spawning
<1>14. Stopping'
  <2> SUFFICES ASSUME busy'.op = "stopping" PROVE Stopping'
    BY Zenon DEF Stopping
  <2>1. busy' = busy /\ busy.op = "stopping" /\ busy.kid # n
    BY <1>4, Zenon
  <2>2. rec'[busy.kid] = rec[busy.kid] /\ rec[busy.kid] \in Incs
    BY <1>1, <2>1 DEF DynInv, DynTypes, Stopping, Incs
  <2> QED
    BY <1>2, <2>1, <2>2, Zenon DEF DynInv, Stopping
<1> QED
  BY <1>5, <1>6, <1>7, <1>8, <1>9, <1>13, <1>14, Zenon DEF DynInv

\* A stop request whose child is down is due.
LEMMA DownIsDue ==
    ASSUME DynInv, busy.op = "stopping", ~Up(rec[busy.kid])
    PROVE  StopDue
<1>1. \A i \in Incs : Up(i) => rec[who[i]] = i
  BY Zenon DEF DynInv, Runs
<1>2. busy.agent \in {0} \cup Incs /\ busy.task \in {0} \cup Incs
  BY WaitsForIncs, Zenon
<1>3. ~UpOf(busy.agent) /\ ~UpOf(busy.task)
  BY <1>1, <1>2, Zenon DEF DynInv, Stopping, UpOf
<1> QED
  BY <1>3, Zenon DEF StopDue

LEMMA DespawnKeeps ==
    ASSUME Apart, DynInv, NEW n \in Names, Despawn(n)
    PROVE  DynInv'
<1>1. /\ up = "up" /\ busy = Idle /\ Undisturbed(n) /\ Drop(n) /\ Deregister(n)
      /\ st' = IF UpOf(task[n]) THEN [st EXCEPT ![task[n]] = "cancelled"] ELSE st
      /\ UNCHANGED <<mode, up, born, who, watched, busy, exits, conts>>
  BY Zenon DEF Despawn, bgVars
<1>2. \A e \in exits : e.pc = "starting" => e.kid # n
  BY <1>1, Zenon DEF DynInv, Exit, Undisturbed, Apart, Settling
<1>3. task[n] \in {0} \cup Incs /\ (task[n] # 0 => who[task[n]] = n)
  BY DEF DynInv, DynTypes, Books, Incs
<1>4. st' \in [Incs -> States]
  <2>1. st \in [Incs -> States] /\ "cancelled" \in States
    BY Zenon DEF DynInv, DynTypes, States
  <2> QED
    BY <1>1, <2>1, Zenon
<1>5. \A i \in Incs : st'[i] = st[i] \/ (st'[i] = "cancelled" /\ Up(i) /\ who[i] = n)
  BY <1>1, <1>3, Zenon DEF DynInv, DynTypes, UpOf
<1>6. \A i \in Incs : Up(i)' => who[i] # n
  <2> SUFFICES ASSUME NEW i \in Incs, Up(i)', who[i] = n PROVE FALSE
    BY Zenon
  <2>1. Up(i)
    BY <1>5, Zenon DEF Up
  <2>2. ~Restarting(i)
    BY <1>2, Zenon DEF Restarting, DynInv, Exit
  <2>3. task[n] = i /\ i # 0
    BY <1>1, <2>1, <2>2 DEF DynInv, Runs, Incs
  <2>4. st'[i] = "cancelled"
    BY <1>1, <2>1, <2>3, Zenon DEF UpOf, DynInv, DynTypes
  <2> QED
    BY <2>4, Zenon DEF Up
<1> QED
  BY <1>1, <1>2, <1>4, <1>5, <1>6, DropKeeps, Zenon

LEMMA StopBeginKeeps ==
    ASSUME Apart, DynInv, NEW n \in Names, StopBegin(n)
    PROVE  DynInv'
<1>1. /\ rec[n] # 0 /\ Undisturbed(n)
      /\ UNCHANGED <<mode, up, born, who, st, watched, rec, task, registered, foreign, conts, exits>>
  BY Zenon DEF StopBegin, childVars, bookVars, regVars, bgVars
<1>2. \A e \in exits : e.pc = "starting" => e.kid # n
  BY <1>1, Zenon DEF DynInv, Exit, Undisturbed, Apart, Settling
<1>3. /\ busy'.op = "stopping" /\ busy'.kid = n
      /\ busy'.agent \in {0, rec[n]} /\ (Up(rec[n]) => busy'.agent = rec[n])
      /\ busy'.task \in {0, task[n]}
  BY Zenon DEF StopBegin
<1>4. busy' \in Tasks
  BY DynamicAssumption DEF StopBegin, Tasks, DynInv, DynTypes
<1>5. Spawning' /\ Stopping'
  BY <1>1, <1>3, Zenon DEF DynInv, Books, Spawning, Stopping, Up
<1>6. foreign \subseteq registered /\ \A m \in Names : rec[m] # 0 => m \in registered \ foreign
  BY SMTT(30) DEF DynInv, DynTypes, Books
<1>7. (\A e \in exits : e.kid \notin foreign) /\ \A c \in conts : who[c.inc] \notin foreign
  BY DEF DynInv, Exit, Cont
<1> QED
  BY <1>1, <1>2, <1>3, <1>4, <1>5, <1>6, <1>7, FrameKeeps, Zenon

LEMMA StopTimeoutKeeps ==
    ASSUME DynInv, StopTimeout
    PROVE  DynInv'
<1>1. /\ busy.op = "stopping"
      /\ st' = [i \in Incs |-> IF Stopped(i) /\ Up(i) THEN "cancelled" ELSE st[i]]
      /\ UNCHANGED <<mode, up, born, who, watched, rec, task, registered, foreign, busy, conts, exits>>
  BY Zenon DEF StopTimeout, bookVars, regVars, bgVars
<1>2. st' \in [Incs -> States]
  BY <1>1, Zenon DEF DynInv, DynTypes, States
<1>3. \A i \in Incs : st'[i] = st[i] \/ (st'[i] = "cancelled" /\ Up(i) /\ who[i] = busy.kid)
  BY <1>1 DEF DynInv, Stopping, Stopped, Incs
<1>4. \A i \in Incs : Up(i)' => Up(i)
  BY <1>3, Zenon DEF Up
<1>5. DynTypes'
  BY <1>1, <1>2, Zenon DEF DynInv, DynTypes
<1>6. \A j \in Incs : Runs(j)'
  BY <1>1, <1>4, Zenon DEF DynInv, Runs, Restarting
<1>7. \A m \in Names : Books(m)'
  BY <1>1, Zenon DEF DynInv, Books
<1>8. \A e \in exits' : Exit(e)'
  <2> SUFFICES ASSUME NEW e \in exits PROVE Exit(e)'
    BY <1>1, Zenon
  <2>1. Exit(e) /\ e.inc \in Incs
    BY Zenon DEF DynInv, DynTypes
  <2>2. e.pc \in {"begin", "starting"} => st'[e.inc] = st[e.inc]
    BY <1>1, <1>3, <2>1, Zenon DEF Exit, Up
  <2> QED
    BY <1>1, <2>1, <2>2, Zenon DEF Exit
<1>9. \A c \in conts' : Cont(c)'
  BY <1>1, <1>3, Zenon DEF DynInv, DynTypes, Cont
<1>11. Spawning'
  BY <1>1, Zenon DEF Spawning
<1>12. Stopping'
  BY <1>1, <1>4 DEF DynInv, DynTypes, Stopping, Incs
<1> QED
  BY <1>5, <1>6, <1>7, <1>8, <1>9, <1>11, <1>12, Zenon DEF DynInv

LEMMA CancelAllKeeps ==
    ASSUME DynInv, CancelAll, up' \in {"stopped", "crashed"},
           UNCHANGED <<mode, born, who, watched, rec, task, registered, foreign>>
    PROVE  DynInv'
<1>1. conts' = {} /\ exits' = {} /\ busy' = Idle
  BY Zenon DEF CancelAll
<1>2. st' \in [Incs -> States] /\ \A i \in Incs : st'[i] \in {st[i], "cancelled"}
  BY Zenon DEF CancelAll, DynInv, DynTypes, States
<1>3. \A i \in Incs : Up(i)' => Up(i)
  BY <1>2, Zenon DEF Up
<1>4. DynTypes'
  BY <1>1, <1>2, IdleIs, Zenon DEF DynInv, DynTypes
<1>5. \A j \in Incs : Runs(j)'
  BY <1>3, Zenon DEF DynInv, Runs
<1>6. \A m \in Names : Books(m)'
  BY Zenon DEF DynInv, Books
<1>8. Spawning' /\ Stopping'
  BY <1>1, IdleIs, Zenon DEF Spawning, Stopping
<1> QED
  BY <1>1, <1>4, <1>5, <1>6, <1>8, Zenon DEF DynInv

LEMMA StopReturnsKeeps ==
    ASSUME DynInv, StopReturns
    PROVE  DynInv'
<1>1. StopDue /\ UNCHANGED <<mode, born, who, watched>>
  BY Zenon DEF StopReturns
<1>2. CASE \E i \in {busy.agent, busy.task} \ {0} : st[i] \in {"crashed", "failed"}
  BY <1>1, <1>2, CancelAllKeeps, Zenon DEF StopReturns, regVars
<1>3. CASE ~\E i \in {busy.agent, busy.task} \ {0} : st[i] \in {"crashed", "failed"}
  <2>1. Drop(busy.kid) /\ Deregister(busy.kid) /\ busy' = Idle /\ UNCHANGED <<up, st, exits, conts>>
    BY <1>3, Zenon DEF StopReturns, bgVars
  <2>2. busy.op = "stopping" /\ busy.kid \in Names
    BY <1>1, Zenon DEF StopDue, DynInv, Stopping
  <2>3. \A i \in Incs : Up(i)' => who[i] # busy.kid
    <3> SUFFICES ASSUME NEW i \in Incs, Up(i), who[i] = busy.kid PROVE FALSE
      BY <2>1, Zenon DEF Up
    <3>1. rec[busy.kid] = i /\ i # 0
      BY DEF DynInv, Runs, Incs
    <3>2. busy.agent = i
      BY <2>2, <3>1, Zenon DEF DynInv, Stopping
    <3> QED
      BY <1>1, <3>1, <3>2, Zenon DEF StopDue, UpOf
  <2>4. \A e \in exits : e.pc = "starting" => e.kid # busy.kid
    BY <2>2, Zenon DEF DynInv, Exit
  <2>5. st' \in [Incs -> States]
    BY <2>1, Zenon DEF DynInv, DynTypes
  <2> QED
    BY <1>1, <2>1, <2>2, <2>3, <2>4, <2>5, DropKeeps, Zenon
<1> QED
  BY <1>2, <1>3, Zenon

LEMMA ShutdownKeeps ==
    ASSUME DynInv, Shutdown
    PROVE  DynInv'
BY CancelAllKeeps, Zenon DEF Shutdown, bookVars, regVars

-----------------------------------------------------------------------------
(* Background tasks.                                                       *)

LEMMA ContWakesKeeps ==
    ASSUME Apart, DynInv, NEW c \in conts, ContWakes(c)
    PROVE  DynInv'
<1> DEFINE n == who[c.inc]
<1>1. /\ st[c.inc] # "starting" /\ ~StopDue /\ conts' = conts \ {c}
      /\ UNCHANGED <<mode, up, born, who, st, watched, busy, exits>>
      /\ \/ st[c.inc] = "live" /\ UNCHANGED <<rec, task, registered, foreign>>
         \/ st[c.inc] # "live" /\ Deregister(n) /\ Drop(n)
  BY Zenon DEF ContWakes, childVars, Apart
<1>2. c.inc \in Incs /\ n \in Names /\ rec[n] \in {0, c.inc}
  BY Zenon DEF DynInv, DynTypes, Cont
<1>3. CASE st[c.inc] = "live"
  BY <1>1, <1>3, HandlerGone, Zenon
<1>4. CASE st[c.inc] # "live"
  <2>1. ~Up(c.inc)
    BY <1>1, <1>4, Zenon DEF Up
  <2>2. \A i \in Incs : Up(i)' => who[i] # n
    BY <1>1, <1>2, <2>1 DEF DynInv, Runs, Incs, Up
  <2>3. busy.op # "idle" => busy.kid # n
    <3>1. busy.op \in {"checked", "claimed"} => busy.kid # n
      BY Zenon DEF DynInv, Spawning
    <3>2. busy.op = "stopping" => busy.kid # n
      <4> SUFFICES ASSUME busy.op = "stopping", busy.kid = n PROVE FALSE
        BY Zenon
      <4>1. rec[busy.kid] = c.inc
        BY <1>2, Zenon DEF DynInv, Stopping
      <4> QED
        BY <1>1, <2>1, <4>1, DownIsDue, Zenon
    <3> QED
      BY <3>1, <3>2, Zenon DEF DynInv, DynTypes, Tasks
  <2>4. \A e \in exits : e.pc = "starting" => e.kid # n
    BY Zenon DEF DynInv, Exit
  <2>5. st' \in [Incs -> States]
    BY <1>1, Zenon DEF DynInv, DynTypes
  <2> QED
    BY <1>1, <1>2, <1>4, <2>2, <2>3, <2>4, <2>5, DropKeeps, Zenon
<1> QED
  BY <1>3, <1>4, Zenon

\* An exit handler that has just begun, while the child is on record.
LEMMA Handled ==
    ASSUME DynInv, NEW e \in exits, e.pc = "begin", rec[e.kid] # 0
    PROVE  /\ e.inc \in Incs /\ e.kid \in Names /\ rec[e.kid] = e.inc /\ who[e.inc] = e.kid
           /\ st[e.inc] \in {"crashed", "exited", "failed"}
           /\ ~StopDue => (busy.op # "idle" => busy.kid # e.kid)
           /\ \A f \in exits : f.pc = "starting" => f.kid # e.kid
           /\ \A i \in Incs : Up(i) => who[i] # e.kid
           /\ e.kid \notin foreign
<1>1. /\ e.inc \in Incs /\ e.kid \in Names /\ rec[e.kid] = e.inc /\ who[e.inc] = e.kid
      /\ st[e.inc] \in {"crashed", "exited", "failed"} /\ e.kid \notin foreign /\ e.inc \in watched
  BY Zenon DEF DynInv, DynTypes, Exit
<1>2. \A f \in exits : f.pc = "starting" => f.kid # e.kid
  BY <1>1, Zenon DEF DynInv, Exit
<1>3. \A i \in Incs : Up(i) => who[i] # e.kid
  BY <1>1, Zenon DEF DynInv, Runs, Up
<1>4. ~StopDue => (busy.op # "idle" => busy.kid # e.kid)
  <2>1. busy.op \in {"checked", "claimed"} => busy.kid # e.kid
    BY Zenon DEF DynInv, Spawning
  <2>2. busy.op = "stopping" /\ busy.kid = e.kid => StopDue
    BY <1>1, DownIsDue, Zenon DEF Up
  <2> QED
    BY <2>1, <2>2, Zenon DEF DynInv, DynTypes, Tasks
<1> QED
  BY <1>1, <1>2, <1>3, <1>4, Zenon

\* The end of a child that is not restarted.
LEMMA EndHandledKeeps ==
    ASSUME DynInv, NEW e \in exits, e.pc = "begin", rec[e.kid] # 0, ~StopDue, Drop(e.kid),
           exits' = exits \ {e}, UNCHANGED <<mode, up, born, who, st, watched, busy, conts>>,
           UNCHANGED <<registered, foreign>> \/ Deregister(e.kid)
    PROVE  DynInv'
<1>1. st' \in [Incs -> States] /\ \A i \in Incs : Up(i)' => Up(i)
  BY Zenon DEF DynInv, DynTypes, Up
<1>2. \A f \in exits : f.pc = "starting" => f.kid # e.kid /\ f \in exits'
  BY Handled, Zenon
<1>3. (busy.op # "idle" => busy.kid # e.kid) /\ e.kid \in Names
  BY Handled, Zenon
<1>4. \A i \in Incs : Up(i)' => who[i] # e.kid
  BY <1>1, Handled, Zenon
<1> QED
  BY <1>1, <1>2, <1>3, <1>4, DropKeeps, Zenon

LEMMA ExitIgnoredKeeps ==
    ASSUME DynInv, NEW e \in exits, ExitIgnored(e)
    PROVE  DynInv'
<1>1. /\ e.pc = "begin" /\ exits' = exits \ {e}
      /\ UNCHANGED <<mode, up, born, who, st, watched, rec, task, registered, foreign, busy, conts>>
  BY Zenon DEF ExitIgnored, Turn, childVars, bookVars, regVars
<1> QED
  BY <1>1, HandlerGone, Zenon

LEMMA ExitOfFailedStartKeeps ==
    ASSUME Apart, DynInv, NEW e \in exits, ExitOfFailedStart(e)
    PROVE  DynInv'
<1>1. /\ e.pc = "begin" /\ rec[e.kid] # 0 /\ ~StopDue /\ Drop(e.kid) /\ exits' = exits \ {e}
      /\ Deregister(e.kid) /\ UNCHANGED <<mode, up, born, who, st, watched, busy, conts>>
  BY Zenon DEF ExitOfFailedStart, Turn, childVars, Apart
<1> QED
  BY <1>1, EndHandledKeeps, Zenon

LEMMA ExitForGoodKeeps ==
    ASSUME DynInv, NEW e \in exits, ExitForGood(e)
    PROVE  DynInv'
<1>1. /\ e.pc = "begin" /\ rec[e.kid] # 0 /\ ~StopDue /\ Drop(e.kid) /\ exits' = exits \ {e}
      /\ UNCHANGED <<registered, foreign>> /\ UNCHANGED <<mode, up, born, who, st, watched, busy, conts>>
  BY Zenon DEF ExitForGood, Turn, childVars, regVars
<1> QED
  BY <1>1, EndHandledKeeps, Zenon

LEMMA ExitRestartsKeeps ==
    ASSUME DynInv, NEW e \in exits, ExitRestarts(e)
    PROVE  DynInv'
<1> DEFINE i == born + 1
           n == e.kid
           new == [inc |-> i, kid |-> n, pc |-> "starting"]
<1>1. /\ e.pc = "begin" /\ rec[n] # 0 /\ ~StopDue /\ ~StartFailed(e) /\ ~Final(e) /\ Room
      /\ born' = i /\ who' = [who EXCEPT ![i] = n] /\ st' = [st EXCEPT ![i] = "starting"]
      /\ rec' = [rec EXCEPT ![n] = i] /\ exits' = (exits \ {e}) \cup {new}
      /\ UNCHANGED <<mode, up, watched, task, registered, foreign, busy, conts>>
  BY Zenon DEF ExitRestarts, Turn, regVars
<1>2. /\ e.inc \in Incs /\ n \in Names /\ rec[n] = e.inc /\ who[e.inc] = n
      /\ st[e.inc] \in {"crashed", "exited", "failed"}
      /\ busy.op # "idle" => busy.kid # n
      /\ \A f \in exits : f.pc = "starting" => f.kid # n
      /\ \A j \in Incs : Up(j) => who[j] # n
      /\ n \in registered \ foreign
  BY <1>1, Handled, Zenon DEF DynInv, Books
<1>3. mode # "never"
  BY <1>1, Zenon DEF Final
<1>4. \A c \in conts : who[c.inc] # n
  <2> SUFFICES ASSUME NEW c \in conts, who[c.inc] = n PROVE FALSE
    BY Zenon
  <2>1. c.inc = e.inc /\ st[e.inc] = "failed"
    BY <1>2, <1>3, <1>1, Zenon DEF DynInv, Cont
  <2> QED
    BY <1>1, <1>2, <2>1, Zenon DEF StartFailed, CrashExit
<1>5. \A f \in exits : f # e => f.kid # n
  BY <1>1, <1>2, SMTT(30) DEF DynInv, DynTypes, Exit
<1>6. i \in Incs /\ i # 0 /\ born \in Nat /\ (busy.op \in {"checked", "claimed"} => i < MaxStarts)
  BY <1>1, DynamicAssumption DEF DynInv, DynTypes, Incs, Room
<1>7. i \notin watched /\ \A j \in Incs : j <= born => j # i /\ j <= i
  BY <1>6 DEF DynInv, DynTypes, Incs
<1> HIDE DEF i, n
<1>8. /\ who'[i] = n /\ st'[i] = "starting" /\ rec'[n] = i
      /\ \A j \in Incs : j # i => who'[j] = who[j] /\ st'[j] = st[j]
      /\ \A m \in Names : m # n => rec'[m] = rec[m]
  BY <1>1, <1>2, <1>6, Zenon DEF DynInv, DynTypes
<1>9. DynTypes'
  <2>1. watched' \subseteq 1..born' /\ born' \in 0..MaxStarts
    BY <1>1, <1>6, SMTT(30) DEF DynInv, DynTypes, Incs, i
  <2>2. /\ who' \in [Incs -> Names \cup {None}] /\ st' \in [Incs -> States]
        /\ rec' \in [Names -> 0..MaxStarts]
    BY <1>1, <1>2, <1>6, SMTT(30) DEF DynInv, DynTypes, Incs, States
  <2>3. exits' \subseteq [inc : Incs, kid : Names, pc : {"begin", "starting"}]
    BY <1>1, <1>2, <1>6 DEF DynInv, DynTypes
  <2> QED
    BY <1>1, <2>1, <2>2, <2>3, Zenon DEF DynInv, DynTypes
<1>10. \A j \in Incs : Runs(j)'
  <2> SUFFICES ASSUME NEW j \in Incs, Up(j)' PROVE Runs(j)'
    BY Zenon DEF Runs
  <2>1. CASE j = i
    <3>1. new.inc = j /\ new.pc = "starting" /\ new \in exits'
      BY <1>1, <2>1, Zenon
    <3>2. Restarting(j)'
      BY <3>1, Zenon DEF Restarting
    <3> QED
      BY <1>1, <1>2, <1>6, <1>8, <2>1, <3>2, SMTT(30) DEF Runs, Incs
  <2>2. CASE j # i
    <3>1. Up(j) /\ Runs(j) /\ who[j] # n /\ who'[j] = who[j]
      BY <1>2, <1>8, <2>2, Zenon DEF Up, DynInv
    <3>2. Restarting(j) => Restarting(j)'
      BY <1>1, Zenon DEF Restarting
    <3>3. j <= born'
      BY <1>1, <1>7, <3>1, Zenon DEF Runs
    <3> QED
      BY <1>1, <1>8, <3>1, <3>2, <3>3, Zenon DEF Runs
  <2> QED
    BY <2>1, <2>2, Zenon
<1>11. \A m \in Names : Books(m)'
  <2> SUFFICES ASSUME NEW m \in Names PROVE Books(m)'
    BY Zenon
  <2>1. Books(m) /\ rec[m] \in {0} \cup Incs /\ task[m] \in {0} \cup Incs
    BY DEF DynInv, DynTypes, Incs
  <2>2. task[m] # 0 => task[m] <= born' /\ who'[task[m]] = m
    BY <1>1, <1>7, <1>8, <2>1, Zenon DEF Books
  <2>3. CASE m = n
    <3>1. rec'[m] = i /\ i <= born' /\ who'[i] = m /\ m \in registered' \ foreign'
      BY <1>1, <1>2, <1>6, <1>8, <2>3 DEF Incs
    <3> QED
      BY <1>1, <2>2, <3>1, Zenon DEF Books
  <2>4. CASE m # n
    <3>1. rec'[m] = rec[m]
      BY <1>8, <2>4, Zenon
    <3>2. rec[m] # 0 => rec[m] <= born' /\ who'[rec[m]] = m
      BY <1>1, <1>7, <1>8, <2>1, Zenon DEF Books
    <3> QED
      BY <1>1, <2>1, <2>2, <3>1, <3>2, Zenon DEF Books
  <2> QED
    BY <2>3, <2>4, Zenon
<1>12. \A f \in exits' : Exit(f)'
  <2> SUFFICES ASSUME NEW f \in exits' PROVE Exit(f)'
    BY Zenon
  <2>1. \A c \in conts : c.inc \in Incs /\ c.inc <= born
    BY Zenon DEF DynInv, DynTypes, Cont
  <2>2. CASE f = new
    <3>1. f.inc = i /\ f.kid = n /\ f.pc = "starting"
      BY <2>2, Zenon
    <3>2. \A c \in conts' : who'[c.inc] # n
      BY <1>1, <1>4, <1>7, <1>8, <2>1, SMTT(30)
    <3>3. busy' = busy /\ ~(busy.op = "stopping" /\ busy.kid = n) /\ i <= born' /\ foreign' = foreign
      BY <1>1, <1>2, <1>6 DEF Incs
    <3> QED
      BY <1>1, <1>2, <1>3, <1>7, <1>8, <3>1, <3>2, <3>3, SMTT(30) DEF Exit
  <2>3. CASE f # new
    <3>1. f \in exits /\ f.kid # n /\ Exit(f) /\ f.inc \in Incs /\ f.kid \in Names
      BY <1>1, <1>5, <2>3, Zenon DEF DynInv, DynTypes
    <3>2. f.inc # i /\ f.inc <= born'
      BY <1>1, <1>7, <3>1, Zenon DEF Exit
    <3>3. (\A c \in conts : who[c.inc] # f.kid) => \A c \in conts' : who'[c.inc] # f.kid
      BY <1>1, <1>7, <1>8, <2>1, Zenon
    <3> QED
      BY <1>1, <1>8, <3>1, <3>2, <3>3, Zenon DEF Exit
  <2> QED
    BY <2>2, <2>3, Zenon
<1>13. \A c \in conts' : Cont(c)'
  <2> SUFFICES ASSUME NEW c \in conts PROVE Cont(c)'
    BY <1>1, Zenon
  <2>1. Cont(c) /\ c.inc \in Incs /\ who[c.inc] # n
    BY <1>4, Zenon DEF DynInv, DynTypes
  <2>2. c.inc # i /\ c.inc <= born'
    BY <1>1, <1>7, <2>1, Zenon DEF Cont
  <2> QED
    BY <1>1, <1>8, <2>1, <2>2 DEF Cont
<1>15. Spawning'
  <2>1. \A c \in conts : c.inc \in Incs /\ c.inc <= born
    BY Zenon DEF DynInv, DynTypes, Cont
  <2> SUFFICES ASSUME busy.op \in {"checked", "claimed"} PROVE Spawning'
    BY <1>1, Zenon DEF Spawning
  <2>2. busy.kid # n /\ busy.kid \in Names /\ rec'[busy.kid] = 0 /\ born' < MaxStarts
    BY <1>1, <1>2, <1>6, <1>8, Zenon DEF DynInv, Spawning
  <2>3. \A f \in exits' : f.kid # busy.kid
    BY <1>1, <2>2, SMTT(30) DEF DynInv, Spawning
  <2>4. \A c \in conts' : who'[c.inc] # busy.kid
    BY <1>1, <1>7, <1>8, <2>1, SMTT(30) DEF DynInv, Spawning
  <2> QED
    BY <1>1, <2>2, <2>3, <2>4, Zenon DEF DynInv, Spawning
<1>16. Stopping'
  <2> SUFFICES ASSUME busy.op = "stopping" PROVE Stopping'
    BY <1>1, Zenon DEF Stopping
  <2>1. busy.kid # n /\ busy.kid \in Names /\ rec'[busy.kid] = rec[busy.kid]
    BY <1>2, <1>8, ZenonT(30) DEF DynInv, Stopping
  <2>2. rec[busy.kid] \in Incs /\ rec[busy.kid] <= born /\ busy.agent \in {0} \cup Incs /\ busy.task \in {0} \cup Incs
    BY <2>1, WaitsForIncs, SMTT(30) DEF DynInv, DynTypes, Stopping, Books, Incs
  <2>3. Up(rec[busy.kid])' <=> Up(rec[busy.kid])
    BY <1>1, <1>7, <1>8, <2>1, <2>2 DEF Up
  <2>4. \A j \in Incs : j <= born => j <= born' /\ who'[j] = who[j]
    BY <1>1, <1>7, <1>8, Zenon
  <2>5. \A j \in {busy.agent, busy.task} \ {0} : j <= born /\ who[j] = busy.kid => j <= born' /\ who'[j] = busy.kid
    BY <2>2, <2>4, Zenon
  <2> QED
    BY <1>1, <2>1, <2>3, <2>5 DEF DynInv, Stopping
<1> QED
  BY <1>9, <1>10, <1>11, <1>12, <1>13, <1>15, <1>16, Zenon DEF DynInv

LEMMA ExitStartedKeeps ==
    ASSUME DynInv, NEW e \in exits, ExitStarted(e)
    PROVE  DynInv'
<1>1. /\ e.pc = "starting" /\ st[e.inc] # "starting"
      /\ UNCHANGED <<mode, up, born, who, st, rec, registered, foreign, busy, conts>>
  BY Zenon DEF ExitStarted, regVars
<1>2. /\ e.inc \in Incs /\ e.kid \in Names /\ rec[e.kid] = e.inc /\ who[e.inc] = e.kid /\ e.kid \notin foreign
      /\ e.inc <= born /\ e.inc # 0
  BY <1>1, SMTT(30) DEF DynInv, DynTypes, Exit, Incs
<1>3. \A f \in exits : f.pc = "starting" /\ f.inc = e.inc => f = e
  BY <1>1 DEF DynInv, DynTypes, Exit
<1>4. CASE st[e.inc] = "failed"
  <2>1. exits' = exits \ {e} /\ task' = task /\ watched' = watched /\ ~Up(e.inc)
    BY <1>4, Zenon DEF ExitStarted, Up
  <2> QED
    BY <1>1, <2>1, HandlerGone, Zenon
<1>5. CASE st[e.inc] # "failed"
  <2>1. task' = [task EXCEPT ![e.kid] = e.inc] /\ watched' = watched \cup {e.inc}
    BY <1>5, Zenon DEF ExitStarted
  <2>2. \A f : f \in exits' <=> \/ f \in exits /\ f # e
                                \/ f = Begin(e.inc) /\ st[e.inc] \in {"crashed", "exited"}
    <3>1. exits' = (exits \ {e}) \cup (IF st[e.inc] \in {"crashed", "exited"} THEN {Begin(e.inc)} ELSE {})
      BY <1>5, Zenon DEF ExitStarted
    <3> QED
      BY <3>1, Zenon
  <2>3. task'[e.kid] = e.inc /\ \A m \in Names : m # e.kid => task'[m] = task[m]
    BY <1>2, <2>1, Zenon DEF DynInv, DynTypes
  <2>4. DynTypes'
    <3>1. task' \in [Names -> 0..MaxStarts]
      BY <1>2, <2>1, Zenon DEF DynInv, DynTypes, Incs
    <3>2. Begin(e.inc) \in [inc : Incs, kid : Names, pc : {"begin", "starting"}]
      BY <1>2, Zenon DEF Begin
    <3>3. exits' \subseteq [inc : Incs, kid : Names, pc : {"begin", "starting"}]
      BY <2>2, <3>2, Zenon DEF DynInv, DynTypes
    <3>4. watched' \subseteq 1..born'
      <4>1. born' = born /\ e.inc \in 1..born /\ watched \subseteq 1..born
        BY <1>1, <1>2 DEF DynInv, DynTypes, Incs
      <4> QED
        BY <2>1, <4>1, Zenon
    <3> QED
      BY <1>1, <3>1, <3>3, <3>4, Zenon DEF DynInv, DynTypes
  <2>5. \A j \in Incs : Runs(j)'
    <3> SUFFICES ASSUME NEW j \in Incs, Up(j)' PROVE Runs(j)'
      BY DEF Runs
    <3>1. Up(j) /\ Runs(j)
      BY <1>1, Zenon DEF Up, DynInv
    <3>2. CASE j = e.inc
      BY <1>1, <1>2, <2>3, <3>1, <3>2, Zenon DEF Runs
    <3>3. CASE j # e.inc
      <4>1. who[j] # e.kid
        BY <1>2, <3>1, <3>3, Zenon DEF Runs
      <4>2. Restarting(j) => Restarting(j)'
        BY <2>2, <3>3, Zenon DEF Restarting
      <4> QED
        BY <1>1, <2>3, <3>1, <4>1, <4>2, Zenon DEF Runs
    <3> QED
      BY <3>2, <3>3, Zenon
  <2>6. \A m \in Names : Books(m)'
    BY <1>1, <1>2, <2>3 DEF DynInv, Books
  <2>7. \A f \in exits' : Exit(f)'
    <3> SUFFICES ASSUME NEW f \in exits' PROVE Exit(f)'
      OBVIOUS
    <3>1. CASE f \in exits /\ f # e
      BY <1>1, <1>3, <2>1, <3>1, Zenon DEF DynInv, Exit
    <3>2. CASE f = Begin(e.inc) /\ st[e.inc] \in {"crashed", "exited"}
      BY <1>1, <1>2, <2>1, <3>2, Zenon DEF Exit, Begin
    <3> QED
      BY <2>2, <3>1, <3>2, Zenon
  <2>8. \A c \in conts' : Cont(c)'
    BY <1>1, Zenon DEF DynInv, Cont
  <2>10. Spawning'
    <3>1. busy.op \in {"checked", "claimed"} => \A f \in exits' : f.kid # busy.kid
      <4> SUFFICES ASSUME busy.op \in {"checked", "claimed"}, NEW f \in exits' PROVE f.kid # busy.kid
        BY Zenon
      <4>1. e.kid # busy.kid /\ (f \in exits => f.kid # busy.kid)
        BY Zenon DEF DynInv, Spawning
      <4> QED
        BY <1>2, <2>2, <4>1 DEF Begin
    <3> QED
      BY <1>1, <3>1, Zenon DEF DynInv, Spawning
  <2>11. Stopping'
    BY <1>1, Zenon DEF DynInv, Stopping, Up
  <2> QED
    BY <2>4, <2>5, <2>6, <2>7, <2>8, <2>10, <2>11 DEF DynInv
<1> QED
  BY <1>4, <1>5, Zenon

-----------------------------------------------------------------------------
(* The other supervisor.                                                   *)

LEMMA OtherRegistersKeeps ==
    ASSUME Apart, DynInv, NEW n \in Names, OtherRegisters(n)
    PROVE  DynInv'
<1>1. /\ n \notin registered /\ ~Settling(n) /\ registered' = registered \cup {n} /\ foreign' = foreign \cup {n}
      /\ UNCHANGED <<mode, up, born, who, st, watched, rec, task, busy, conts, exits>>
  BY Zenon DEF OtherRegisters, Apart, childVars, bookVars, bgVars
<1>2. rec[n] = 0
  BY <1>1, Zenon DEF DynInv, Books
<1>3. \A e \in exits : e.kid # n
  BY <1>1, Zenon DEF Settling
<1>4. \A c \in conts : who[c.inc] # n
  BY <1>1, <1>2 DEF Settling, DynInv, DynTypes, Runs, Up, Incs
<1>5. foreign' \subseteq registered' /\ \A m \in Names : rec[m] # 0 => m \in registered' \ foreign'
  BY <1>1, <1>2, Zenon DEF DynInv, DynTypes, Books
<1>6. (\A e \in exits : e.kid \notin foreign') /\ \A c \in conts : who[c.inc] \notin foreign'
  BY <1>1, <1>3, <1>4, Zenon DEF DynInv, Exit, Cont
<1>7. Spawning' /\ Stopping'
  BY <1>1, Zenon DEF DynInv, Spawning, Stopping, Up
<1>8. busy \in Tasks /\ \A e \in exits : e.pc = "starting" => ~(busy.op = "stopping" /\ busy.kid = e.kid)
  BY Zenon DEF DynInv, DynTypes, Exit
<1> QED
  BY <1>1, <1>5, <1>6, <1>7, <1>8, FrameKeeps, Zenon

LEMMA OtherReleasesKeeps ==
    ASSUME DynInv, NEW n \in Names, OtherReleases(n)
    PROVE  DynInv'
<1>1. /\ n \in foreign /\ registered' = registered \ {n} /\ foreign' = foreign \ {n}
      /\ UNCHANGED <<mode, up, born, who, st, watched, rec, task, busy, conts, exits>>
  BY Zenon DEF OtherReleases, Deregister, childVars, bookVars, bgVars
<1>2. foreign' \subseteq registered' /\ \A m \in Names : rec[m] # 0 => m \in registered' \ foreign'
  BY <1>1, Zenon DEF DynInv, DynTypes, Books
<1>3. (\A e \in exits : e.kid \notin foreign') /\ \A c \in conts : who[c.inc] \notin foreign'
  BY <1>1, Zenon DEF DynInv, Exit, Cont
<1>4. Spawning' /\ Stopping'
  BY <1>1, Zenon DEF DynInv, Spawning, Stopping, Up
<1>5. busy \in Tasks /\ \A e \in exits : e.pc = "starting" => ~(busy.op = "stopping" /\ busy.kid = e.kid)
  BY Zenon DEF DynInv, DynTypes, Exit
<1> QED
  BY <1>1, <1>2, <1>3, <1>4, <1>5, FrameKeeps, Zenon

-----------------------------------------------------------------------------
(* The invariant is inductive.                                             *)

LEMMA DynInvInit == Init => DynInv
<1> SUFFICES ASSUME Init PROVE DynInv
  BY Zenon
<1>1. DynTypes
  BY DynamicAssumption, IdleIs DEF Init, DynTypes, States
<1>4. Spawning /\ Stopping
  BY IdleIs, Zenon DEF Init, Spawning, Stopping
<1>5. (\A i \in Incs : Runs(i)) /\ (\A n \in Names : Books(n))
  BY Zenon DEF Init, Runs, Books, Up
<1> QED
  BY <1>1, <1>4, <1>5, Zenon DEF DynInv, Init

LEMMA DynInvStep ==
    ASSUME Apart, DynInv, [Next]_vars
    PROVE  DynInv'
<1>1. CASE \E i \in Incs : Child(i)
  BY <1>1, ChildKeeps, Zenon
<1>2. CASE Request
  BY <1>2, SpawnCheckedKeeps, DespawnKeeps, StopBeginKeeps, ShutdownKeeps, Zenon DEF Request
<1>3. CASE Dispatch \/ StopTimeout
  BY <1>3, SpawnClaimedKeeps, SpawnStartedKeeps, StopReturnsKeeps, StopTimeoutKeeps, Zenon DEF Dispatch
<1>4. CASE ContStep
  <2>1. PICK c \in conts : ContWakes(c) \/ ContCleaned(c)
    BY <1>4, Zenon DEF ContStep
  <2>2. c.pc = "wait"
    BY Zenon DEF DynInv, DynTypes
  <2> QED
    BY <2>1, <2>2, ContWakesKeeps, Zenon DEF ContCleaned
<1>5. CASE ExitStep
  <2>1. PICK e \in exits :
          \/ ExitIgnored(e) \/ ExitOfFailedStart(e) \/ ExitCleaned(e)
          \/ ExitForGood(e) \/ ExitRestarts(e) \/ ExitStarted(e)
    BY <1>5, Zenon DEF ExitStep
  <2>2. ~ExitCleaned(e)
    BY Zenon DEF DynInv, DynTypes, ExitCleaned
  <2> QED
    BY <2>1, <2>2, ExitIgnoredKeeps, ExitOfFailedStartKeeps, ExitForGoodKeeps, ExitRestartsKeeps, ExitStartedKeeps, Zenon
<1>6. CASE Other
  BY <1>6, OtherRegistersKeeps, OtherReleasesKeeps, Zenon DEF Other
<1>7. CASE UNCHANGED vars
  <2>1. UNCHANGED <<mode, up, born, who, st, watched, rec, task, registered, foreign, busy, conts, exits>>
    BY <1>7, Zenon DEF vars, childVars, bookVars, regVars, bgVars
  <2> QED
    BY <2>1, HandlerGone, Zenon
<1> QED
  BY <1>1, <1>2, <1>3, <1>4, <1>5, <1>6, <1>7, Zenon DEF Next

-----------------------------------------------------------------------------
(* The registry.                                                           *)

\* The registration of another supervisor's child survives whatever this one
\* does (_deregister_child(), _terminal_cleanup()), also when restarts fail and
\* children crash while they are stopped.
THEOREM ForeignRegistrationsKept ==
    ASSUME Apart
    PROVE  Spec => ForeignKept
<1>1. ASSUME DynInv, [Next]_vars, NEW n \in foreign, n \notin foreign'
      PROVE  OtherReleases(n)
  <2>1. n \in Names => rec[n] = 0
    BY <1>1, Zenon DEF DynInv, Books
  <2>2. \A e \in exits : e.kid # n
    BY <1>1, Zenon DEF DynInv, Exit
  <2>3. \A c \in conts : who[c.inc] # n
    BY <1>1, Zenon DEF DynInv, Cont
  <2>4. ~\E i \in Incs : Child(i)
    BY <1>1, Zenon DEF Child, ChildReady, ChildFails, ChildCrash, ChildExits, Ends, regVars
  <2>5. ~Request
    <3>1. ASSUME NEW m \in Names, Despawn(m) PROVE FALSE
      BY <1>1, <2>1, <3>1, Zenon DEF Despawn, Deregister
    <3>2. ~Shutdown /\ ~\E m \in Names : SpawnChecked(m) \/ StopBegin(m)
      BY <1>1, Zenon DEF Shutdown, SpawnChecked, StopBegin, regVars
    <3> QED
      BY <3>1, <3>2, Zenon DEF Request
  <2>6. ~Dispatch /\ ~StopTimeout
    <3>1. ~SpawnClaimed /\ ~StopTimeout /\ ~\E w \in BOOLEAN : SpawnStarted(w)
      BY <1>1, Zenon DEF SpawnClaimed, SpawnStarted, StopTimeout, regVars
    <3>2. ASSUME StopReturns PROVE FALSE
      <4>1. n = busy.kid /\ busy.op = "stopping"
        BY <1>1, <3>2, Zenon DEF StopReturns, Deregister, StopDue, regVars
      <4> QED
        BY <1>1, <2>1, <4>1, Zenon DEF DynInv, Stopping
    <3> QED
      BY <3>1, <3>2, Zenon DEF Dispatch
  <2>7. ~ContStep
    BY <1>1, <2>3, Zenon DEF ContStep, ContWakes, ContCleaned, Deregister, regVars
  <2>8. ~ExitStep
    BY <1>1, <2>2 DEF ExitStep, ExitIgnored, ExitOfFailedStart, ExitCleaned, ExitForGood, ExitRestarts, ExitStarted,
                      Deregister, regVars
  <2>9. ~UNCHANGED vars
    BY <1>1, Zenon DEF vars, regVars
  <2>10. PICK m \in Names : OtherRegisters(m) \/ OtherReleases(m)
    BY <1>1, <2>4, <2>5, <2>6, <2>7, <2>8, <2>9, Zenon DEF Next, Other
  <2> QED
    BY <1>1, <2>10, Zenon DEF OtherRegisters, OtherReleases, Deregister
<1>2. DynInv /\ [Next]_vars => [\A n \in foreign : n \notin foreign' => OtherReleases(n)]_vars
  BY <1>1, Zenon
<1>3. DynInv /\ [Next]_vars => DynInv'
  BY DynInvStep, Zenon
<1> QED
  BY <1>2, <1>3, DynInvInit, PTL DEF Spec, ForeignKept

-----------------------------------------------------------------------------
(* The inductive invariants.                                               *)

\* There is a place for the child of a spawn under way.
Recorded == {n \in Names : rec[n] # 0}

Counted ==
    /\ IsFiniteSet(Recorded) /\ Cardinality(Recorded) <= MaxChildren
    /\ busy.op \in {"checked", "claimed"} => Cardinality(Recorded) < MaxChildren

\* No child crashes while it is stopped: the supervisor stays up until the end.
Survives ==
    /\ up # "crashed"
    /\ busy.op = "stopping" =>
          \A i \in {busy.agent, busy.task} \ {0} : st[i] \notin {"crashed", "failed"}
    /\ up = "stopped" => exits = {} /\ \A i \in Incs : ~Up(i)

\* A child that its spawner believes up is up, or its end is being handled.
Told ==
    /\ \A c \in conts : who[c.inc] \notin owed
    /\ up = "up" => \A n \in owed :
          /\ n \in Names /\ n \in acked /\ rec[n] # 0
          /\ \/ Up(rec[n])
             \/ \E e \in exits : e.kid = n
             \/ busy.op = "stopping" /\ busy.kid = n
    /\ \A n \in Names : task[n] # 0 => task[n] \in watched
    /\ \A e \in exits : e.pc = "starting" => st[e.inc] # "failed"

-----------------------------------------------------------------------------
(* The number of children.                                                 *)

LEMMA NoMoreRecords ==
    ASSUME Counted, \A n \in Names : rec'[n] # 0 => rec[n] # 0,
           busy'.op \in {"checked", "claimed"} =>
               busy.op \in {"checked", "claimed"} \/ Cardinality(Recorded) < MaxChildren
    PROVE  Counted'
<1>1. Recorded' \subseteq Recorded
  BY Zenon DEF Recorded
<1>2. /\ IsFiniteSet(Recorded') /\ Cardinality(Recorded') <= Cardinality(Recorded)
      /\ Cardinality(Recorded') \in Nat /\ Cardinality(Recorded) \in Nat
  BY <1>1, FS_Subset, FS_CardinalityType, Zenon DEF Counted
<1> QED
  BY <1>2, DynamicAssumption DEF Counted

LEMMA CountedStep ==
    ASSUME DynInv, Counted, [Next]_vars
    PROVE  Counted'
<1>1. CASE UNCHANGED <<rec, busy>>
  BY <1>1, NoMoreRecords, Zenon DEF Counted
<1>2. CASE Request
  <2>1. ASSUME NEW n \in Names, SpawnChecked(n) PROVE Counted'
    BY <2>1, NoMoreRecords, Zenon DEF SpawnChecked, bookVars, Recorded
  <2>2. ASSUME NEW n \in Names, Despawn(n) PROVE Counted'
    BY <2>2, NoMoreRecords, Zenon DEF Despawn, Drop, DynInv, DynTypes
  <2>3. ASSUME NEW n \in Names, StopBegin(n) PROVE Counted'
    BY <2>3, NoMoreRecords, Zenon DEF StopBegin, bookVars
  <2>4. CASE Shutdown
    BY <2>4, IdleIs, NoMoreRecords, Zenon DEF Shutdown, CancelAll, bookVars
  <2> QED
    BY <1>2, <2>1, <2>2, <2>3, <2>4, Zenon DEF Request
<1>3. CASE SpawnClaimed
  BY <1>3, NoMoreRecords, Zenon DEF SpawnClaimed, bookVars
<1>4. CASE \E w \in BOOLEAN : SpawnStarted(w)
  <2>1. /\ busy.op = "claimed" /\ busy'.op = "idle"
        /\ rec' = [rec EXCEPT ![busy.kid] = born + 1]
    BY <1>4, IdleIs, Zenon DEF SpawnStarted
  <2>2. busy.kid \in Names /\ born + 1 # 0
    BY <2>1 DEF DynInv, DynTypes, Spawning
  <2>3. Recorded' = Recorded \cup {busy.kid}
    BY <2>1, <2>2, Zenon DEF Recorded, DynInv, DynTypes
  <2>4. /\ IsFiniteSet(Recorded') /\ Cardinality(Recorded') <= Cardinality(Recorded) + 1
        /\ Cardinality(Recorded') \in Nat /\ Cardinality(Recorded) \in Nat
    <3>1. IsFiniteSet(Recorded) /\ Cardinality(Recorded) \in Nat
      BY FS_CardinalityType, Zenon DEF Counted
    <3>2. /\ IsFiniteSet(Recorded \cup {busy.kid})
          /\ Cardinality(Recorded \cup {busy.kid}) \in {Cardinality(Recorded), Cardinality(Recorded) + 1}
      BY <3>1, FS_AddElement, Zenon
    <3> QED
      BY <2>3, <3>1, <3>2
  <2> QED
    BY <2>1, <2>4, DynamicAssumption DEF Counted
<1>5. CASE StopReturns
  <2>1. busy'.op = "idle" /\ \A n \in Names : rec'[n] # 0 => rec[n] # 0
    BY <1>5, IdleIs, Zenon DEF StopReturns, CancelAll, Drop, DynInv, DynTypes
  <2> QED
    BY <2>1, NoMoreRecords, Zenon
<1>6. CASE ContStep
  <2>1. busy' = busy /\ \A n \in Names : rec'[n] # 0 => rec[n] # 0
    BY <1>6 DEF ContStep, ContWakes, ContCleaned, Drop, DynInv, DynTypes
  <2> QED
    BY <2>1, NoMoreRecords, Zenon
<1>7. ASSUME NEW e \in exits,
             \/ ExitIgnored(e) \/ ExitOfFailedStart(e) \/ ExitCleaned(e)
             \/ ExitForGood(e) \/ ExitRestarts(e) \/ ExitStarted(e)
      PROVE  Counted'
  <2>1. CASE ExitRestarts(e)
    <3>1. busy' = busy /\ rec[e.kid] # 0 /\ rec' = [rec EXCEPT ![e.kid] = born + 1]
      BY <2>1, Zenon DEF ExitRestarts
    <3>2. \A n \in Names : rec'[n] # 0 => rec[n] # 0
      BY <3>1, Zenon DEF DynInv, DynTypes
    <3> QED
      BY <3>1, <3>2, NoMoreRecords, Zenon
  <2>2. CASE ~ExitRestarts(e)
    <3>1. busy' = busy /\ (rec' = rec \/ rec' = [rec EXCEPT ![e.kid] = 0])
      BY <1>7, <2>2, Zenon DEF ExitIgnored, ExitOfFailedStart, ExitCleaned, ExitForGood, ExitStarted, Drop, bookVars
    <3>2. \A n \in Names : rec'[n] # 0 => rec[n] # 0
      BY <3>1, ZenonT(30) DEF DynInv, DynTypes
    <3> QED
      BY <3>1, <3>2, NoMoreRecords, Zenon
  <2> QED
    BY <2>1, <2>2, Zenon
<1>8. ASSUME (\E i \in Incs : Child(i)) \/ StopTimeout \/ Other \/ UNCHANGED vars
      PROVE  UNCHANGED <<rec, busy>>
  BY <1>8, Zenon DEF Child, ChildReady, ChildFails, ChildCrash, ChildExits, Ends, StopTimeout, Other, OtherRegisters,
              OtherReleases, vars, bookVars
<1> QED
  BY <1>1, <1>2, <1>3, <1>4, <1>5, <1>6, <1>7, <1>8, Zenon DEF Next, Dispatch, ExitStep

-----------------------------------------------------------------------------
(* Orphans.                                                                *)

LEMMA SurvivesStep ==
    ASSUME Apart, ~CrashInStop, DynInv, Survives, [Next]_vars
    PROVE  Survives'
<1>1. ASSUME NEW i \in Incs, Child(i) PROVE Survives'
  <2>1. Up(i) /\ up # "stopped" /\ UNCHANGED <<up, busy>>
    BY <1>1, Zenon DEF Child, ChildReady, ChildFails, ChildCrash, ChildExits, Ends, Up, Survives
  <2>2. /\ \A j \in Incs : j # i => st'[j] = st[j]
        /\ st'[i] \in {"crashed", "failed"} => ~Stopped(i)
    BY <1>1, Zenon DEF Child, ChildReady, ChildFails, ChildCrash, ChildExits, Ends, DynInv, DynTypes
  <2>3. busy.agent \in {0} \cup Incs /\ busy.task \in {0} \cup Incs
    BY WaitsForIncs, Zenon
  <2> QED
    BY <2>1, <2>2, <2>3, Zenon DEF Survives, Stopped
<1>2. CASE Request
  <2>1. ASSUME NEW n \in Names, SpawnChecked(n) \/ Despawn(n) PROVE Survives'
    BY <2>1, IdleIs DEF SpawnChecked, Despawn, Survives
  <2>2. ASSUME NEW n \in Names, StopBegin(n) PROVE Survives'
    <3>1. up = "up" /\ UNCHANGED <<up, st>>
      BY <2>2, Zenon DEF StopBegin, childVars
    <3>2. \A i \in {busy'.agent, busy'.task} \ {0} : Up(i)
      BY <2>2, Zenon DEF StopBegin, UpOf
    <3> QED
      BY <3>1, <3>2, Zenon DEF Survives, Up
  <2>3. ASSUME Shutdown PROVE Survives'
    <3>1. /\ up = "up" /\ up' = "stopped" /\ busy' = Idle /\ exits' = {}
          /\ mode \in RaceRestart \/ exits = {}
          /\ st' = [i \in Incs |->
                      IF st[i] \in {"starting", "live"} /\ rec[who[i]] # 0 /\ task[who[i]] = i
                      THEN "cancelled" ELSE st[i]]
      BY <2>3, Zenon DEF Shutdown, CancelAll
    <3>2. \A i \in Incs : ~Restarting(i)
      BY <3>1, Zenon DEF Restarting, DynInv, Exit, Apart
    <3>3. \A i \in Incs : ~Up(i)'
      <4> SUFFICES ASSUME NEW i \in Incs, Up(i)' PROVE FALSE
        BY Zenon
      <4>1. Up(i)
        BY <3>1, Zenon DEF Up
      <4>2. rec[who[i]] # 0 /\ task[who[i]] = i
        BY <3>1, <3>2, <4>1 DEF DynInv, Runs, Incs
      <4> QED
        BY <3>1, <4>1, <4>2, Zenon DEF Up
    <3> QED
      BY <3>1, <3>3, IdleIs, Zenon DEF Survives
  <2> QED
    BY <1>2, <2>1, <2>2, <2>3, Zenon DEF Request
<1>3. CASE SpawnClaimed \/ \E w \in BOOLEAN : SpawnStarted(w)
  BY <1>3, IdleIs, Zenon DEF SpawnClaimed, SpawnStarted, Survives, DynInv, DynTypes, Tasks
<1>4. CASE StopReturns
  BY <1>4, IdleIs, Zenon DEF StopReturns, StopDue, Survives
<1>5. CASE StopTimeout
  <2>1. \A i \in Incs : st'[i] \in {st[i], "cancelled"}
    BY <1>5, Zenon DEF StopTimeout
  <2>2. \A i \in Incs : Up(i)' => Up(i)
    BY <2>1, Zenon DEF Up
  <2>3. busy.agent \in {0} \cup Incs /\ busy.task \in {0} \cup Incs
    BY WaitsForIncs, Zenon
  <2>4. UNCHANGED <<up, busy, exits>>
    BY <1>5, Zenon DEF StopTimeout, bgVars
  <2> QED
    BY <2>1, <2>2, <2>3, <2>4, Zenon DEF Survives
<1>6. CASE ContStep \/ Other \/ UNCHANGED vars
  <2>1. UNCHANGED <<up, busy, st, exits>>
    BY <1>6, Zenon DEF ContStep, ContWakes, ContCleaned, Other, OtherRegisters, OtherReleases, vars, childVars, bgVars
  <2> QED
    BY <2>1, Zenon DEF Survives, Up
<1>7. ASSUME NEW e \in exits, ExitIgnored(e) \/ ExitOfFailedStart(e) \/ ExitCleaned(e) \/ ExitForGood(e)
                                \/ ExitRestarts(e) \/ ExitStarted(e)
      PROVE  Survives'
  <2>1. up # "stopped" /\ UNCHANGED <<up, busy>>
    BY <1>7, Zenon DEF ExitIgnored, ExitOfFailedStart, ExitCleaned, ExitForGood, ExitRestarts, ExitStarted, Survives
  <2>2. \A j \in Incs : j <= born => st'[j] = st[j]
    <3>1. CASE st' = st
      BY <3>1, Zenon
    <3>2. CASE ExitRestarts(e)
      BY <3>2 DEF ExitRestarts, DynInv, DynTypes, Incs
    <3> QED
      BY <1>7, <3>1, <3>2, Zenon DEF ExitIgnored, ExitOfFailedStart, ExitCleaned, ExitForGood, ExitStarted, childVars
  <2>3. busy.op = "stopping" => \A j \in {busy.agent, busy.task} \ {0} : j \in Incs /\ j <= born
    BY WaitsForIncs, Zenon DEF DynInv, Stopping, Incs
  <2> QED
    BY <2>1, <2>2, <2>3, Zenon DEF Survives
<1> QED
  BY <1>1, <1>2, <1>3, <1>4, <1>5, <1>6, <1>7, SMTT(30) DEF Next, Dispatch, ExitStep

\* What the invariant says of the children that run.
LEMMA InvTellsRunning ==
    ASSUME DynInv, Counted, Survives
    PROVE  NoOrphans
<1>1. \A i \in Incs : Up(i) => who[i] \in Names /\ rec[who[i]] = i /\ i # 0
  BY DEF DynInv, Runs, Incs
<1>2. Quiet => \A i \in Incs : Up(i) => rec[who[i]] = i /\ task[who[i]] = i
  BY Zenon DEF Quiet, DynInv, Runs, Restarting
<1>3. Cardinality({i \in Incs : Up(i)}) <= MaxChildren
  <2> DEFINE R == {i \in Incs : Up(i)}
             f == [i \in R |-> who[i]]
  <2>1. f \in Injection(R, Recorded)
    BY <1>1 DEF Recorded, Injection, IsInjective
  <2>2. IsFiniteSet(R) /\ Cardinality(R) <= Cardinality(Recorded)
    BY <2>1, FS_Injection, Zenon DEF Counted
  <2>3. Cardinality(R) \in Nat /\ Cardinality(Recorded) \in Nat
    BY <2>2, FS_CardinalityType, Zenon DEF Counted
  <2> QED
    BY <2>2, <2>3, DynamicAssumption, SMTT(30) DEF Counted
<1>4. up # "up" => \A i \in Incs : ~Up(i)
  BY Zenon DEF DynInv, DynTypes, Survives
<1> QED
  BY <1>1, <1>2, <1>3, <1>4, Zenon DEF NoOrphans

\* Every running child is on record when nothing is under way; a name runs at
\* most once, at most max_children run, and none outlives the supervisor
\* (_handle_spawn(), _handle_child_exit(), on_stop()), for any number of names and
\* starts, also when restarts fail.
THEOREM ChildrenNotOrphaned ==
    ASSUME Apart, ~CrashInStop
    PROVE  Spec => []NoOrphans
<1>1. Init => DynInv /\ Counted /\ Survives
  <2>1. Init => Recorded = {}
    BY Zenon DEF Init, Recorded
  <2>2. Init => Counted
    BY <2>1, FS_EmptySet, IdleIs, DynamicAssumption DEF Init, Counted
  <2> QED
    BY <2>2, DynInvInit, IdleIs, Zenon DEF Init, Survives
<1>2. DynInv /\ Counted /\ Survives /\ [Next]_vars => (DynInv /\ Counted /\ Survives)'
  BY DynInvStep, CountedStep, SurvivesStep, Zenon
<1>3. DynInv /\ Counted /\ Survives => NoOrphans
  BY InvTellsRunning, Zenon
<1> QED
  BY <1>1, <1>2, <1>3, PTL DEF Spec

-----------------------------------------------------------------------------
(* Reports.                                                                *)

LEMMA ToldOfChildren ==
    ASSUME Apart, RestartFails \subseteq {"never"}, DynInv, Told, NEW i \in Incs, Child(i)
    PROVE  Told'
<1>1. UNCHANGED <<mode, up, who, rec, task, acked, owed, watched, busy, conts>>
  BY Zenon DEF Child, ChildReady, ChildFails, ChildCrash, ChildExits, Ends, bookVars, bgVars
<1>2. /\ Up(i) /\ \A j \in Incs : j # i => st'[j] = st[j]
      /\ exits \subseteq exits' /\ exits' \subseteq exits \cup {Begin(i)}
      /\ ~Up(i)' => i \notin watched \/ Begin(i) \in exits'
      /\ st'[i] = "failed" => i \in watched \/ mode = "never"
  BY Zenon DEF Child, ChildReady, ChildFails, ChildCrash, ChildExits, Ends, Up, bgVars, DynInv, DynTypes
<1>3. i # 0 /\ who[i] \in Names /\ rec[who[i]] = i /\ (up = "up" => task[who[i]] = i \/ Restarting(i))
  BY <1>2 DEF DynInv, Runs, Incs
<1>4. up = "up" /\ ~Up(i)' => \E e \in exits' : e.kid = who[i]
  <2> SUFFICES ASSUME up = "up", ~Up(i)' PROVE \E e \in exits' : e.kid = who[i]
    BY Zenon
  <2>1. CASE Begin(i) \in exits'
    BY <2>1, Zenon DEF Begin
  <2>2. CASE i \notin watched
    <3>1. Restarting(i)
      BY <1>3, <2>2, Zenon DEF Told
    <3>2. PICK e \in exits : e.inc = i /\ e.pc = "starting"
      BY <3>1, Zenon DEF Restarting
    <3>3. e.kid = who[i] /\ e \in exits'
      BY <1>2, <3>2, Zenon DEF DynInv, Exit
    <3> QED
      BY <3>3, Zenon
  <2> QED
    BY <1>2, <2>1, <2>2, Zenon
<1>5. up' = "up" => \A n \in owed' :
          /\ n \in Names /\ n \in acked' /\ rec'[n] # 0
          /\ \/ Up(rec[n])'
             \/ \E e \in exits' : e.kid = n
             \/ busy'.op = "stopping" /\ busy'.kid = n
  <2> SUFFICES ASSUME up = "up", NEW n \in owed
               PROVE  /\ n \in Names /\ n \in acked /\ rec[n] # 0
                      /\ \/ Up(rec[n])'
                         \/ \E e \in exits' : e.kid = n
                         \/ busy.op = "stopping" /\ busy.kid = n
    BY <1>1, Zenon
  <2>1. n \in Names /\ n \in acked /\ rec[n] # 0 /\ rec[n] \in Incs /\ who[rec[n]] = n
    BY DEF Told, DynInv, DynTypes, Books, Incs
  <2>2. CASE \E e \in exits : e.kid = n
    BY <1>2, <2>1, <2>2, Zenon
  <2>3. CASE busy.op = "stopping" /\ busy.kid = n
    BY <2>1, <2>3, Zenon
  <2>4. CASE Up(rec[n]) /\ rec[n] # i
    <3>1. Up(rec[n])'
      BY <1>1, <1>2, <2>1, <2>4, Zenon DEF Up
    <3> QED
      BY <2>1, <3>1, Zenon
  <2>5. CASE rec[n] = i
    <3>1. Up(i)' => Up(rec[n])'
      BY <1>1, <2>5, Zenon DEF Up
    <3> QED
      BY <1>4, <2>1, <2>5, <3>1, Zenon
  <2> QED
    BY <2>2, <2>3, <2>4, <2>5, Zenon DEF Told
<1>6. \A e \in exits' : e.pc = "starting" => st'[e.inc] # "failed"
  <2> SUFFICES ASSUME NEW e \in exits', e.pc = "starting", st'[e.inc] = "failed" PROVE FALSE
    BY Zenon
  <2>1. e \in exits
    BY <1>2 DEF Begin
  <2>2. e.inc \in Incs /\ e.inc \notin watched /\ mode # "never"
    BY <2>1, Zenon DEF DynInv, DynTypes, Exit
  <2> QED
    BY <1>2, <2>1, <2>2, Zenon DEF Told
<1> QED
  BY <1>1, <1>5, <1>6, Zenon DEF Told

\* A step that takes nothing on and, for the children still owed, drops nothing.
LEMMA ToldKept ==
    ASSUME DynInv, Told, UNCHANGED <<up, acked, watched>>, owed' \subseteq owed,
           \A c \in conts' : c \in conts /\ who'[c.inc] = who[c.inc],
           \A n \in owed' : up = "up" =>
               /\ rec'[n] # 0 /\ (Up(rec[n]) => Up(rec[n])')
               /\ (\E e \in exits : e.kid = n) => \E e \in exits' : e.kid = n
               /\ busy.op = "stopping" /\ busy.kid = n => busy'.op = "stopping" /\ busy'.kid = n,
           \A n \in Names : task'[n] \in {0, task[n]},
           \A e \in exits' : e.pc = "starting" => e \in exits /\ st'[e.inc] = st[e.inc]
    PROVE  Told'
<1>1. \A c \in conts' : who'[c.inc] \notin owed'
  BY Zenon DEF Told
<1>2. up' = "up" => \A n \in owed' :
          /\ n \in Names /\ n \in acked' /\ rec'[n] # 0
          /\ \/ Up(rec[n])'
             \/ \E e \in exits' : e.kid = n
             \/ busy'.op = "stopping" /\ busy'.kid = n
  <2> SUFFICES ASSUME up = "up", NEW n \in owed'
               PROVE  /\ n \in Names /\ n \in acked' /\ rec'[n] # 0
                      /\ \/ Up(rec[n])'
                         \/ \E e \in exits' : e.kid = n
                         \/ busy'.op = "stopping" /\ busy'.kid = n
    BY Zenon
  <2>1. /\ n \in Names /\ n \in acked /\ rec[n] # 0
        /\ \/ Up(rec[n])
           \/ \E e \in exits : e.kid = n
           \/ busy.op = "stopping" /\ busy.kid = n
    BY Zenon DEF Told
  <2> QED
    BY <2>1, Zenon
<1>3. \A n \in Names : task'[n] # 0 => task'[n] \in watched'
  BY Zenon DEF Told
<1>4. \A e \in exits' : e.pc = "starting" => st'[e.inc] # "failed"
  BY DEF Told
<1> QED
  BY <1>1, <1>2, <1>3, <1>4, Zenon DEF Told

\* The shutdown, or the crash of the supervisor.
LEMMA ToldAtTheEnd ==
    ASSUME Told, CancelAll, up' # "up", UNCHANGED <<task, watched>>
    PROVE  Told'
BY Zenon DEF Told, CancelAll

LEMMA ToldOfRequests ==
    ASSUME Apart, DynInv, Told, Request \/ StopTimeout \/ StopReturns \/ SpawnClaimed
    PROVE  Told'
<1>1. \A n \in owed : up = "up" => n \in Names /\ rec[n] # 0 /\ rec[n] \in Incs /\ who[rec[n]] = n
  BY DEF Told, DynInv, DynTypes, Books, Incs
<1>2. \A e \in exits : e.inc \in Incs /\ who[e.inc] = e.kid
  BY Zenon DEF DynInv, DynTypes, Exit
<1>3. ASSUME NEW n \in Names, SpawnChecked(n) \/ StopBegin(n)
      PROVE  Told'
  <2>1. UNCHANGED <<up, acked, watched, owed, conts, who, rec, st, exits, task>> /\ busy.op # "stopping"
    BY <1>3, IdleIs, Zenon DEF SpawnChecked, StopBegin, childVars, bookVars, bgVars
  <2>2. \A m \in owed : Up(rec[m]) => Up(rec[m])'
    BY <2>1, Zenon DEF Up
  <2> QED
    BY <2>1, <2>2, Zenon DEF Told
<1>4. ASSUME NEW n \in Names, Despawn(n) PROVE Told'
  <2>1. /\ UNCHANGED <<up, acked, watched, who, conts, exits, busy>> /\ busy.op = "idle" /\ up = "up"
        /\ owed' = owed \ {n} /\ Drop(n) /\ Undisturbed(n)
    BY <1>4, IdleIs, Zenon DEF Despawn, bgVars
  <2>2. st' = IF UpOf(task[n]) THEN [st EXCEPT ![task[n]] = "cancelled"] ELSE st
    BY <1>4, Zenon DEF Despawn
  <2>3. task[n] \in {0} \cup Incs /\ (task[n] # 0 => who[task[n]] = n)
    BY DEF DynInv, DynTypes, Books, Incs
  <2>4. \A i \in Incs : who[i] # n => st'[i] = st[i]
    BY <2>2, <2>3, Zenon DEF DynInv, DynTypes, UpOf
  <2>5. \A m \in Names : (m # n => rec'[m] = rec[m]) /\ task'[m] \in {0, task[m]}
    BY <2>1, ZenonT(30) DEF Drop, DynInv, DynTypes
  <2>6. \A m \in owed' : rec'[m] # 0 /\ (Up(rec[m]) => Up(rec[m])')
    BY <1>1, <2>1, <2>4, <2>5, SMTT(30) DEF Up
  <2>7. \A e \in exits' : e.pc = "starting" => e \in exits /\ st'[e.inc] = st[e.inc]
    <3>1. \A e \in exits : e.pc = "starting" => mode # "never"
      BY Zenon DEF DynInv, Exit
    <3>2. \A e \in exits : e.pc = "starting" => e.kid # n
      BY <2>1, <3>1 DEF Undisturbed, Apart, Settling
    <3> QED
      BY <1>2, <2>1, <2>4, <3>2, Zenon DEF DynInv, Exit
  <2> QED
    BY <2>1, <2>5, <2>6, <2>7, ToldKept, Zenon
<1>5. ASSUME StopTimeout PROVE Told'
  <2>1. UNCHANGED <<up, acked, watched, owed, conts, who, rec, task, exits, busy>> /\ busy.op = "stopping"
    BY <1>5, ZenonT(30) DEF StopTimeout, bookVars, bgVars
  <2>2. \A i \in Incs : who[i] # busy.kid => st'[i] = st[i]
    BY <1>5 DEF StopTimeout, DynInv, Stopping, Stopped, Incs
  <2>3. \A n \in owed : n # busy.kid /\ up = "up" /\ Up(rec[n]) => Up(rec[n])'
    BY <1>1, <2>1, <2>2, Zenon DEF Up
  <2>4. \A e \in exits : e.pc = "starting" => st'[e.inc] = st[e.inc]
    BY <1>2, <2>1, <2>2, Zenon DEF DynInv, Exit
  <2> QED
    BY <2>1, <2>3, <2>4, Zenon DEF Told
<1>6. ASSUME StopReturns PROVE Told'
  <2>1. CASE \E i \in {busy.agent, busy.task} \ {0} : st[i] \in {"crashed", "failed"}
    BY <1>6, <2>1, ToldAtTheEnd, Zenon DEF StopReturns
  <2>2. CASE ~\E i \in {busy.agent, busy.task} \ {0} : st[i] \in {"crashed", "failed"}
    <3>1. /\ Drop(busy.kid) /\ busy' = Idle /\ owed' = owed \ {busy.kid} /\ busy.op = "stopping"
          /\ UNCHANGED <<up, st, exits, conts, who, acked, watched>>
      BY <1>6, <2>2, Zenon DEF StopReturns, StopDue, bgVars
    <3>2. \A m \in Names : (m # busy.kid => rec'[m] = rec[m]) /\ task'[m] \in {0, task[m]}
      BY <3>1, Zenon DEF Drop, DynInv, DynTypes
    <3>3. \A m \in owed' : up = "up" => rec'[m] # 0 /\ (Up(rec[m]) => Up(rec[m])') /\ m # busy.kid
      BY <1>1, <3>1, <3>2, Zenon DEF Up
    <3> QED
      BY <3>1, <3>2, <3>3, ToldKept, Zenon
  <2> QED
    BY <2>1, <2>2, Zenon
<1>7. ASSUME Shutdown PROVE Told'
  BY <1>7, ToldAtTheEnd, Zenon DEF Shutdown, bookVars
<1>8. ASSUME SpawnClaimed PROVE Told'
  <2>1. UNCHANGED <<up, acked, watched, owed, conts, who, rec, st, exits, task>>
    BY <1>8, Zenon DEF SpawnClaimed, childVars, bookVars, bgVars
  <2>2. \A m \in owed : Up(rec[m]) => Up(rec[m])'
    BY <2>1, Zenon DEF Up
  <2>3. busy.op # "stopping"
    BY <1>8, Zenon DEF SpawnClaimed
  <2> QED
    BY <2>1, <2>2, <2>3, Zenon DEF Told
<1> QED
  BY <1>3, <1>4, <1>5, <1>6, <1>7, <1>8, ZenonT(30) DEF Request

LEMMA ToldOfSpawn ==
    ASSUME DynInv, Told, NEW wait \in BOOLEAN, SpawnStarted(wait)
    PROVE  Told'
<1> DEFINE i == born + 1
           n == busy.kid
<1>1. /\ up = "up" /\ busy.op = "claimed" /\ busy' = Idle /\ UNCHANGED <<up, exits>>
      /\ who' = [who EXCEPT ![i] = n] /\ st' = [st EXCEPT ![i] = "starting"]
      /\ watched' = watched \cup {i}
      /\ rec' = [rec EXCEPT ![n] = i] /\ task' = [task EXCEPT ![n] = i]
  BY Zenon DEF SpawnStarted
<1>2. /\ acked' = IF wait THEN acked \ {n} ELSE acked \cup {n}
      /\ owed' = IF wait THEN owed ELSE owed \cup {n}
      /\ conts' = IF wait THEN conts \cup {[inc |-> i, pc |-> "wait"]} ELSE conts
  BY ZenonT(30)  DEF SpawnStarted
<1>3. /\ n \in Names /\ rec[n] = 0 /\ i \in Incs /\ i # 0
      /\ \A c \in conts : who[c.inc] # n /\ c.inc \in Incs /\ c.inc # i
      /\ \A e \in exits : e.inc \in Incs /\ e.inc # i
  BY <1>1, DynamicAssumption, SMTT(30) DEF DynInv, DynTypes, Spawning, Cont, Exit, Incs
<1>4. \A m \in Names : rec[m] # 0 => rec[m] \in Incs /\ rec[m] # i
  BY DEF DynInv, DynTypes, Books, Incs
<1> HIDE DEF i, n
<1>5. /\ who'[i] = n /\ st'[i] = "starting" /\ rec'[n] = i /\ task'[n] = i
      /\ \A j \in Incs : j # i => who'[j] = who[j] /\ st'[j] = st[j]
      /\ \A m \in Names : m # n => rec'[m] = rec[m] /\ task'[m] = task[m]
  BY <1>1, <1>3, Zenon DEF DynInv, DynTypes
<1>6. n \notin owed
  BY <1>1, <1>3, Zenon DEF Told
<1>7. \A c \in conts' : who'[c.inc] \notin owed'
  <2>1. CASE wait
    <3>1. \A c \in conts' : c \in conts \/ c.inc = i
      BY <1>2, <2>1
    <3>2. owed' = owed
      BY <1>2, <2>1, Zenon
    <3> QED
      BY <1>3, <1>5, <1>6, <3>1, <3>2, Zenon DEF Told
  <2>2. CASE ~wait
    <3>1. conts' = conts /\ owed' = owed \cup {n}
      BY <1>2, <2>2, Zenon
    <3>2. \A c \in conts : who'[c.inc] = who[c.inc] /\ who[c.inc] # n
      BY <1>3, <1>5, Zenon
    <3>3. \A c \in conts : who[c.inc] \notin owed
      BY Zenon DEF Told
    <3> QED
      BY <3>1, <3>2, <3>3, Zenon
  <2> QED
    BY <2>1, <2>2, Zenon
<1>8. \A m \in owed : m \in acked' /\ m \in Names /\ m # n
  BY <1>1, <1>2, <1>6, Zenon DEF Told
<1>9. \A m \in owed : /\ rec'[m] # 0
                      /\ \/ Up(rec[m])'
                         \/ \E e \in exits' : e.kid = m
  <2> SUFFICES ASSUME NEW m \in owed PROVE rec'[m] # 0 /\ (Up(rec[m])' \/ \E e \in exits' : e.kid = m)
    BY Zenon
  <2>1. rec[m] # 0 /\ (Up(rec[m]) \/ \E e \in exits : e.kid = m)
    BY <1>1, Zenon DEF Told
  <2>2. rec'[m] = rec[m] /\ rec[m] \in Incs /\ rec[m] # i
    BY <1>4, <1>5, <1>8, <2>1, Zenon
  <2>3. Up(rec[m]) => Up(rec[m])'
    BY <1>5, <2>2, Zenon DEF Up
  <2> QED
    BY <1>1, <2>1, <2>2, <2>3, Zenon
<1>10. \A m \in owed' : m # n => m \in owed
  BY <1>2, Zenon
<1>11. n \in owed' => n \in acked'
  BY <1>2, <1>6, Zenon
<1>12. rec'[n] # 0 /\ st'[rec'[n]] = "starting"
  BY <1>3, <1>5, Zenon
<1>13. \A m \in owed' : /\ m \in Names /\ m \in acked' /\ rec'[m] # 0
                        /\ \/ Up(rec[m])'
                           \/ \E e \in exits' : e.kid = m
  <2> SUFFICES ASSUME NEW m \in owed'
               PROVE  /\ m \in Names /\ m \in acked' /\ rec'[m] # 0
                      /\ Up(rec[m])' \/ \E e \in exits' : e.kid = m
    BY Zenon
  <2>1. CASE m = n
    BY <1>3, <1>11, <1>12, <2>1, Zenon DEF Up
  <2>2. CASE m # n
    BY <1>8, <1>9, <1>10, <2>2, ZenonT(30)
  <2> QED
    BY <2>1, <2>2, Zenon
<1>14. \A m \in Names : task'[m] # 0 => task'[m] \in watched'
  <2>1. \A m \in Names : task[m] # 0 => task[m] \in watched
    BY Zenon DEF Told
  <2>2. watched' = watched \cup {i}
    BY <1>1, Zenon
  <2>3. task'[n] = i /\ \A m \in Names : m # n => task'[m] = task[m]
    BY <1>5, Zenon
  <2> QED
    BY <2>1, <2>2, <2>3, Zenon
<1>15. \A e \in exits' : e.pc = "starting" => st'[e.inc] # "failed"
  <2>1. \A e \in exits : e.pc = "starting" => st[e.inc] # "failed"
    BY Zenon DEF Told
  <2>2. \A e \in exits : st'[e.inc] = st[e.inc]
    BY <1>3, <1>5, Zenon
  <2> QED
    BY <1>1, <2>1, <2>2, Zenon
<1> QED
  BY <1>7, <1>13, <1>14, <1>15, Zenon DEF Told

LEMMA ToldOfCont ==
    ASSUME Apart, DynInv, Told, NEW c \in conts, ContWakes(c)
    PROVE  Told'
<1> DEFINE n == who[c.inc]
<1>1. /\ st[c.inc] # "starting" /\ conts' = conts \ {c}
      /\ UNCHANGED <<up, who, st, watched, busy, exits>>
  BY Zenon DEF ContWakes, childVars, Apart
<1>2. c.inc \in Incs /\ n \in Names /\ rec[n] \in {0, c.inc}
  BY Zenon DEF DynInv, DynTypes, Cont
<1>3. CASE st[c.inc] = "live"
  <2>1. UNCHANGED <<rec, task>> /\ acked' = acked \cup {n} /\ owed' = owed \cup {n}
    BY <1>3, ZenonT(30) DEF ContWakes
  <2>2. rec[n] = c.inc /\ c.inc # 0 /\ Up(c.inc)
    BY <1>2, <1>3 DEF DynInv, Runs, Up, Incs
  <2>3. \A d \in conts' : d \in conts /\ who[d.inc] # n
    <3> SUFFICES ASSUME NEW d \in conts', who[d.inc] = n PROVE FALSE
      BY <1>1, Zenon
    <3>1. d \in conts /\ d # c
      BY <1>1, Zenon
    <3>2. d.inc = c.inc /\ d \in [inc : Incs, pc : {"wait"}] /\ c \in [inc : Incs, pc : {"wait"}]
      BY <2>2, <3>1, Zenon DEF DynInv, DynTypes, Cont
    <3> QED
      BY <3>1, <3>2
  <2>4. \A m \in owed : Up(rec[m]) => Up(rec[m])'
    BY <1>1, <2>1, Zenon DEF Up
  <2>5. Up(rec[n]) => st'[rec'[n]] \in {"starting", "live"}
    BY <1>1, <2>1, Zenon DEF Up
  <2>6. \A d \in conts' : who'[d.inc] \notin owed'
    BY <1>1, <2>1, <2>3, Zenon DEF Told
  <2>7. up' = "up" => \A m \in owed' :
          /\ m \in Names /\ m \in acked' /\ rec'[m] # 0
          /\ \/ Up(rec[m])'
             \/ \E e \in exits' : e.kid = m
             \/ busy'.op = "stopping" /\ busy'.kid = m
    <3> SUFFICES ASSUME up = "up", NEW m \in owed'
                 PROVE  /\ m \in Names /\ m \in acked' /\ rec'[m] # 0
                        /\ \/ Up(rec[m])'
                           \/ \E e \in exits' : e.kid = m
                           \/ busy'.op = "stopping" /\ busy'.kid = m
      BY <1>1, Zenon
    <3>1. CASE m = n
      BY <1>2, <2>1, <2>2, <2>5, <3>1, Zenon DEF Up
    <3>2. CASE m # n
      <4>1. m \in owed
        BY <2>1, <3>2, Zenon
      <4>2. /\ m \in Names /\ m \in acked /\ rec[m] # 0
            /\ \/ Up(rec[m])
               \/ \E e \in exits : e.kid = m
               \/ busy.op = "stopping" /\ busy.kid = m
        BY <4>1, Zenon DEF Told
      <4> QED
        BY <1>1, <2>1, <2>4, <4>1, <4>2, Zenon
    <3> QED
      BY <3>1, <3>2, Zenon
  <2> QED
    BY <1>1, <2>1, <2>6, <2>7, Zenon DEF Told
<1>4. CASE st[c.inc] # "live"
  <2>1. Drop(n) /\ UNCHANGED <<acked, owed>>
    BY <1>4, Zenon DEF ContWakes, Apart
  <2>2. n \notin owed
    BY Zenon DEF Told
  <2>3. \A m \in Names : (m # n => rec'[m] = rec[m]) /\ task'[m] \in {0, task[m]}
    BY <2>1, Zenon DEF Drop, DynInv, DynTypes
  <2>4. \A m \in owed : up = "up" => rec'[m] # 0 /\ (Up(rec[m]) => Up(rec[m])')
    BY <1>1, <2>2, <2>3, Zenon DEF Told, Up
  <2> QED
    BY <1>1, <2>1, <2>3, <2>4, ToldKept, Zenon
<1> QED
  BY <1>3, <1>4, Zenon

\* An end that is reported, or that nobody waits for.
LEMMA ToldOfEnd ==
    ASSUME Apart, DynInv, Told, NEW e \in exits, ExitIgnored(e) \/ ExitOfFailedStart(e) \/ ExitForGood(e)
    PROVE  Told'
<1>1. /\ e.pc = "begin" /\ exits' = exits \ {e} /\ owed' \subseteq owed
      /\ UNCHANGED <<up, who, st, watched, acked, busy, conts>>
  BY Zenon DEF ExitIgnored, ExitOfFailedStart, ExitForGood, Turn, childVars, bookVars, Apart
<1>2. e.kid \in Names /\ (Drop(e.kid) \/ UNCHANGED <<rec, task>>)
  BY Zenon DEF ExitIgnored, ExitOfFailedStart, ExitForGood, bookVars, Apart, DynInv, DynTypes
<1>3. up = "up" => e.kid \notin owed'
  BY Zenon DEF ExitIgnored, ExitOfFailedStart, ExitForGood, Apart, Told
<1>4. \A m \in Names : (m # e.kid => rec'[m] = rec[m]) /\ task'[m] \in {0, task[m]}
  BY <1>2, Zenon DEF Drop, DynInv, DynTypes
<1>5. \A m \in owed' : up = "up" =>
          /\ rec'[m] # 0 /\ (Up(rec[m]) => Up(rec[m])')
          /\ (\E f \in exits : f.kid = m) => \E f \in exits' : f.kid = m
          /\ busy.op = "stopping" /\ busy.kid = m => busy'.op = "stopping" /\ busy'.kid = m
  <2> SUFFICES ASSUME NEW m \in owed', up = "up"
               PROVE  /\ rec'[m] # 0 /\ (Up(rec[m]) => Up(rec[m])')
                      /\ (\E f \in exits : f.kid = m) => \E f \in exits' : f.kid = m
                      /\ busy.op = "stopping" /\ busy.kid = m => busy'.op = "stopping" /\ busy'.kid = m
    BY Zenon
  <2>1. m # e.kid /\ m \in Names /\ rec[m] # 0
    BY <1>1, <1>3, Zenon DEF Told
  <2>2. rec'[m] = rec[m] /\ st' = st
    BY <1>1, <1>4, <2>1, Zenon
  <2>3. Up(rec[m]) => Up(rec[m])'
    BY <2>2, Zenon DEF Up
  <2> QED
    BY <1>1, <2>1, <2>2, <2>3, Zenon
<1>6. \A c \in conts' : c \in conts /\ who'[c.inc] = who[c.inc]
  BY <1>1, Zenon
<1>7. \A f \in exits' : f.pc = "starting" => f \in exits /\ st'[f.inc] = st[f.inc]
  BY <1>1, Zenon
<1>8. UNCHANGED <<up, acked, watched>> /\ owed' \subseteq owed
  BY <1>1, Zenon
<1>9. \A m \in Names : task'[m] \in {0, task[m]}
  BY <1>4, Zenon
<1> QED
  BY <1>5, <1>6, <1>7, <1>8, <1>9, ToldKept, Zenon

LEMMA ToldOfRestart ==
    ASSUME DynInv, Told, NEW e \in exits, ExitRestarts(e)
    PROVE  Told'
<1> DEFINE i == born + 1
           n == e.kid
           new == [inc |-> i, kid |-> n, pc |-> "starting"]
<1>1. /\ e.pc = "begin" /\ rec[n] # 0 /\ Room
      /\ who' = [who EXCEPT ![i] = n] /\ st' = [st EXCEPT ![i] = "starting"]
      /\ rec' = [rec EXCEPT ![n] = i] /\ exits' = (exits \ {e}) \cup {new}
      /\ UNCHANGED <<up, watched, task, acked, busy, conts, owed>>
  BY Zenon DEF ExitRestarts, Turn
<1>2. n \in Names /\ i \in Incs /\ i # 0
  BY <1>1, DynamicAssumption, SMTT(30) DEF DynInv, DynTypes, Incs, Room
<1>3. /\ \A c \in conts : c.inc \in Incs /\ c.inc # i
      /\ \A f \in exits : f.inc \in Incs /\ f.inc # i
      /\ \A m \in Names : rec[m] # 0 => rec[m] \in Incs /\ rec[m] # i
  BY DEF DynInv, DynTypes, Cont, Exit, Books, Incs
<1> HIDE DEF i, n
<1>4. /\ st'[i] = "starting" /\ rec'[n] = i
      /\ \A j \in Incs : j # i => who'[j] = who[j] /\ st'[j] = st[j]
      /\ \A m \in Names : m # n => rec'[m] = rec[m]
  BY <1>1, <1>2, Zenon DEF DynInv, DynTypes
<1>5. \A c \in conts' : who'[c.inc] \notin owed'
  <2>1. conts' = conts /\ owed' = owed
    BY <1>1, Zenon
  <2>2. \A c \in conts : who'[c.inc] = who[c.inc]
    BY <1>3, <1>4, Zenon
  <2>3. \A c \in conts : who[c.inc] \notin owed
    BY Zenon DEF Told
  <2> QED
    BY <2>1, <2>2, <2>3, Zenon
<1>6. new \in exits' /\ new.kid = n /\ new.inc = i
  BY <1>1, Zenon
<1>7. \A f \in exits' : f.pc = "starting" => st'[f.inc] # "failed"
  <2>1. \A f \in exits' : f = new \/ f \in exits
    BY <1>1, Zenon
  <2>2. \A f \in exits : f.pc = "starting" => st[f.inc] # "failed"
    BY Zenon DEF Told
  <2>3. \A f \in exits : st'[f.inc] = st[f.inc]
    BY <1>3, <1>4, Zenon
  <2>4. st'[new.inc] = "starting"
    BY <1>4, <1>6, Zenon
  <2> HIDE DEF new
  <2>5. \A f \in exits : f.pc = "starting" => st'[f.inc] # "failed"
    BY <2>2, <2>3, Zenon
  <2>6. st'[new.inc] # "failed"
    BY <2>4
  <2> QED
    BY <2>1, <2>5, <2>6, Zenon
<1>8. \A f \in exits : f.kid # n => f \in exits'
  BY <1>1, Zenon DEF n
<1> HIDE DEF new
<1>9. up' = "up" => \A m \in owed' :
          /\ m \in Names /\ m \in acked' /\ rec'[m] # 0
          /\ \/ Up(rec[m])'
             \/ \E f \in exits' : f.kid = m
             \/ busy'.op = "stopping" /\ busy'.kid = m
  <2> SUFFICES ASSUME up = "up", NEW m \in owed
               PROVE  /\ m \in Names /\ m \in acked /\ rec'[m] # 0
                      /\ \/ Up(rec[m])'
                         \/ \E f \in exits' : f.kid = m
                         \/ busy.op = "stopping" /\ busy.kid = m
    BY <1>1, Zenon
  <2>1. /\ m \in Names /\ m \in acked /\ rec[m] # 0
        /\ \/ Up(rec[m])
           \/ \E f \in exits : f.kid = m
           \/ busy.op = "stopping" /\ busy.kid = m
    BY ZenonT(30)  DEF Told
  <2>2. CASE m = n
    BY <1>2, <1>4, <1>6, <2>1, <2>2, SMTT(30)
  <2>3. CASE m # n
    <3>1. rec'[m] = rec[m] /\ st'[rec[m]] = st[rec[m]]
      BY <1>3, <1>4, <2>1, <2>3, SMTT(30)
    <3>2. Up(rec[m]) => Up(rec[m])'
      BY <3>1, Zenon DEF Up
    <3> QED
      BY <1>8, <2>1, <2>3, <3>1, <3>2, SMTT(30)
  <2> QED
    BY <2>2, <2>3, Zenon
<1> QED
  BY <1>1, <1>5, <1>7, <1>9, Zenon DEF Told

LEMMA ToldOfStart ==
    ASSUME DynInv, Told, NEW e \in exits, ExitStarted(e)
    PROVE  Told'
<1>1. /\ e.pc = "starting" /\ st[e.inc] \notin {"starting", "failed"}
      /\ UNCHANGED <<up, who, st, rec, acked, busy, conts, owed>>
  BY Zenon DEF ExitStarted, Told
<1>2. /\ e.inc \in Incs /\ e.kid \in Names /\ rec[e.kid] = e.inc /\ who[e.inc] = e.kid
      /\ st[e.inc] \in {"live", "crashed", "exited"}
  BY <1>1, Zenon DEF DynInv, DynTypes, Exit, States
<1>3. task' = [task EXCEPT ![e.kid] = e.inc] /\ watched' = watched \cup {e.inc}
  BY <1>1, Zenon DEF ExitStarted
<1>4. \A f : f \in exits' <=> \/ f \in exits /\ f # e
                              \/ f = Begin(e.inc) /\ st[e.inc] \in {"crashed", "exited"}
  <2>1. exits' = (exits \ {e}) \cup (IF st[e.inc] \in {"crashed", "exited"} THEN {Begin(e.inc)} ELSE {})
    BY <1>1, Zenon DEF ExitStarted
  <2> QED
    BY <2>1, Zenon
<1>5. Begin(e.inc).kid = e.kid /\ Begin(e.inc).pc = "begin"
  BY <1>2, Zenon DEF Begin
<1>6. \A m \in Names : task'[m] # 0 => task'[m] \in watched'
  BY <1>2, <1>3, Zenon DEF Told, DynInv, DynTypes
<1>7. \A f \in exits' : f.pc = "starting" => st'[f.inc] # "failed"
  BY <1>1, <1>4, <1>5, Zenon DEF Told
<1>8. \A m : Up(rec[m]) => Up(rec[m])'
  BY <1>1, Zenon DEF Up
<1>9. \A m : (\E f \in exits : f.kid = m) => Up(rec[m])' \/ \E f \in exits' : f.kid = m
  <2> SUFFICES ASSUME NEW f \in exits PROVE Up(rec[f.kid]) \/ \E g \in exits' : g.kid = f.kid
    BY <1>8, Zenon
  <2>1. CASE f # e
    BY <1>4, <2>1, Zenon
  <2>2. CASE f = e
    <3>1. CASE st[e.inc] = "live"
      BY <1>2, <2>2, <3>1, ZenonT(30) DEF Up
    <3>2. CASE st[e.inc] # "live"
      BY <1>2, <1>4, <1>5, <2>2, <3>2, SMTT(30)
    <3> QED
      BY <3>1, <3>2, Zenon
  <2> QED
    BY <2>1, <2>2, Zenon
<1>10. up' = "up" => \A m \in owed' :
          /\ m \in Names /\ m \in acked' /\ rec'[m] # 0
          /\ \/ Up(rec[m])'
             \/ \E f \in exits' : f.kid = m
             \/ busy'.op = "stopping" /\ busy'.kid = m
  <2> SUFFICES ASSUME up = "up", NEW m \in owed
               PROVE  /\ m \in Names /\ m \in acked /\ rec[m] # 0
                      /\ \/ Up(rec[m])'
                         \/ \E f \in exits' : f.kid = m
                         \/ busy.op = "stopping" /\ busy.kid = m
    BY <1>1, Zenon
  <2>1. /\ m \in Names /\ m \in acked /\ rec[m] # 0
        /\ \/ Up(rec[m])
           \/ \E f \in exits : f.kid = m
           \/ busy.op = "stopping" /\ busy.kid = m
    BY DEF Told
  <2> QED
    BY <1>8, <1>9, <2>1, Zenon
<1> QED
  BY <1>1, <1>6, <1>7, <1>10, SMTT(30) DEF Told

LEMMA ToldStep ==
    ASSUME Apart, RestartFails \subseteq {"never"}, DynInv, Told, [Next]_vars
    PROVE  Told'
<1>1. CASE \E i \in Incs : Child(i)
  BY <1>1, ToldOfChildren, Zenon
<1>2. CASE Request \/ StopTimeout \/ StopReturns \/ SpawnClaimed
  BY <1>2, ToldOfRequests, Zenon
<1>3. CASE \E w \in BOOLEAN : SpawnStarted(w)
  BY <1>3, ToldOfSpawn, Zenon
<1>4. CASE ContStep
  <2>1. PICK c \in conts : ContWakes(c) \/ ContCleaned(c)
    BY <1>4, Zenon DEF ContStep
  <2>2. c.pc = "wait"
    BY Zenon DEF DynInv, DynTypes
  <2> QED
    BY <2>1, <2>2, ToldOfCont, Zenon DEF ContCleaned
<1>5. CASE ExitStep
  <2>1. PICK e \in exits :
          \/ ExitIgnored(e) \/ ExitOfFailedStart(e) \/ ExitCleaned(e)
          \/ ExitForGood(e) \/ ExitRestarts(e) \/ ExitStarted(e)
    BY <1>5, Zenon DEF ExitStep
  <2>2. ~ExitCleaned(e)
    BY Zenon DEF DynInv, DynTypes, ExitCleaned
  <2> QED
    BY <2>1, <2>2, ToldOfEnd, ToldOfRestart, ToldOfStart, SMTT(30)
<1>6. CASE Other \/ UNCHANGED vars
  <2>1. UNCHANGED <<up, who, st, watched, rec, task, acked, busy, conts, exits, owed>>
    BY <1>6, Zenon DEF Other, OtherRegisters, OtherReleases, vars, childVars, bookVars, bgVars
  <2> QED
    BY <2>1, Zenon DEF Told, Up
<1> QED
  BY <1>1, <1>2, <1>3, <1>4, <1>5, <1>6, SMTT(30) DEF Next, Dispatch

\* A spawner that was told its child is up hears of its end unless it asked for
\* it (_notify_spawner() in _handle_child_exit()), for any number of names and
\* starts, also when children crash while they are stopped.
THEOREM SpawnersKeptInformed ==
    ASSUME Apart, RestartFails \subseteq {"never"}
    PROVE  Spec => []NoSilentEnd
<1>1. Init => DynInv /\ Told
  BY DynInvInit, Zenon DEF Init, Told
<1>2. DynInv /\ Told /\ [Next]_vars => DynInv' /\ Told'
  BY DynInvStep, ToldStep, Zenon
<1>3. ASSUME DynInv, Told, Quiet, NEW n \in owed
      PROVE  rec[n] # 0 /\ st[rec[n]] = "live"
  <2>1. n \in Names /\ rec[n] # 0 /\ Up(rec[n])
    BY <1>3, IdleIs, Zenon DEF Quiet, Told
  <2>2. rec[n] \in Incs
    BY <1>3, <2>1 DEF DynInv, DynTypes, Incs
  <2> QED
    BY <1>3, <2>1, <2>2, Zenon DEF Quiet, Up
<1>4. DynInv /\ Told => NoSilentEnd
  BY <1>3, Zenon DEF NoSilentEnd
<1> QED
  BY <1>1, <1>2, <1>4, PTL DEF Spec
=============================================================================

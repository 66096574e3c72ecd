---------------------------- MODULE RestartEngine ----------------------------
(***************************************************************************)
(* RestartEngine of supervision/engine.py: the sliding window of crash     *)
(* times that decides whether a supervisor may restart a crashed child,    *)
(* and the backoff it must wait first.  Time is a natural number of clock  *)
(* ticks; a tick is as fine as the delays need it to be.                   *)
(***************************************************************************)
EXTENDS Integers, Sequences, FiniteSets

CONSTANTS MaxRestarts,     \* restart budget inside one window
          RestartWindow,   \* length of the window, in ticks
          Backoff,         \* "NONE", "CONSTANT", "LINEAR" or "EXPONENTIAL"
          BackoffBase, BackoffMax,
          MaxStepBack,     \* how far the wall clock may be set back (0: never)
          MaxTime,         \* bound: ticks that elapse
          MaxCrashes       \* bound: crashes recorded between two resets

ASSUME EngineAssumption ==
  /\ MaxRestarts \in Nat /\ RestartWindow \in Nat
  /\ Backoff \in {"NONE", "CONSTANT", "LINEAR", "EXPONENTIAL"}
  /\ BackoffBase \in Nat /\ BackoffMax \in Nat
  /\ MaxStepBack \in Nat
  /\ MaxTime \in Nat /\ MaxCrashes \in Nat

VARIABLES now,      \* what time.time() returns
          elapsed,  \* real time since the start
          window,   \* RestartEngine.window, oldest first
          verdict,  \* the last RestartVerdict
          history   \* every crash since the last reset: its real time and its ruling

vars == <<now, elapsed, window, verdict, history>>

NoVerdict == [action |-> "none", delay |-> 0, crashes |-> 0]

SmallerOf(a, b) == IF a <= b THEN a ELSE b

\* Mutant: the jitter may exceed the step between two crashes.
BackoffDelaysWideJitter(n) ==
  IF Backoff = "NONE" THEN {0}
  ELSE {SmallerOf((BackoffBase * 2^n) \div 2 + j, BackoffMax) : j \in 0..(BackoffBase * 2^n)}

\* compute_backoff: the exponential policy adds a random jitter of up to 25%.
BackoffDelays(n) ==
  LET base == CASE Backoff = "LINEAR" -> BackoffBase * n
                [] Backoff = "EXPONENTIAL" -> (BackoffBase * 2^n) \div 2
                [] OTHER -> BackoffBase
      jitter == IF Backoff = "EXPONENTIAL" THEN 0..(base \div 4) ELSE {0}
  IN IF Backoff = "NONE" THEN {0} ELSE {SmallerOf(base + j, BackoffMax) : j \in jitter}

\* The first position whose entry is younger than the cutoff, or the end.
FirstKept(w, cutoff) ==
  CHOOSE i \in 1..(Len(w) + 1) :
    /\ \A j \in 1..(i - 1) : w[j] <= cutoff
    /\ i <= Len(w) => w[i] > cutoff

\* record_crash's popleft loop: it stops at the first entry it keeps.
Pruned(w, cutoff) == SubSeq(w, FirstKept(w, cutoff), Len(w))

Init == /\ now = 0
        /\ elapsed = 0
        /\ window = <<>>
        /\ verdict = NoVerdict
        /\ history = <<>>

\* Mutants: the budget is off by one, in either direction.
ExhaustedAtLimit(n) == n >= MaxRestarts

ExhaustedPastLimit(n) == n > MaxRestarts + 1

Exhausted(n) == n > MaxRestarts

RecordCrash ==
  /\ Len(history) < MaxCrashes
  /\ window' = Pruned(Append(window, now), now - RestartWindow)
  /\ LET n == Len(window')
     IN IF Exhausted(n)
        THEN verdict' = [action |-> "exhausted", delay |-> 0, crashes |-> n]
        ELSE \E d \in BackoffDelays(n) :
               verdict' = [action |-> "restart", delay |-> d, crashes |-> n]
  /\ history' = Append(history, [t |-> elapsed, granted |-> verdict'.action = "restart"])
  /\ UNCHANGED <<now, elapsed>>

\* exempt_verdict: the crash of a suspended agent restarts it for free.
ExemptVerdict ==
  /\ verdict' = [action |-> "restart", delay |-> 0, crashes |-> Len(window)]
  /\ UNCHANGED <<now, elapsed, window, history>>

Reset ==
  /\ window' = <<>>
  /\ history' = <<>>
  /\ UNCHANGED <<now, elapsed, verdict>>

Tick ==
  /\ elapsed < MaxTime
  /\ elapsed' = elapsed + 1
  /\ now' = now + 1
  /\ UNCHANGED <<window, verdict, history>>

\* The wall clock is set back; record_crash does not use a monotonic clock.
StepBack ==
  /\ now' \in (elapsed - MaxStepBack)..(now - 1)
  /\ UNCHANGED <<elapsed, window, verdict, history>>

Next == RecordCrash \/ ExemptVerdict \/ Reset \/ Tick \/ StepBack

Spec == Init /\ [][Next]_vars

-----------------------------------------------------------------------------
(* Properties *)

\* The delays a verdict can carry.
Delays == {0} \cup UNION {BackoffDelays(n) : n \in 0..MaxRestarts}

TypeOK ==
  /\ elapsed \in 0..MaxTime
  /\ now \in Int /\ now <= elapsed
  /\ window \in Seq(Int)
  /\ verdict \in [action : {"none", "restart", "exhausted"},
                  delay : Delays, crashes : 0..MaxCrashes]
  /\ history \in Seq([t : Nat, granted : BOOLEAN])
  /\ Len(window) <= Len(history) /\ Len(history) <= MaxCrashes

\* No step makes up for a clock that was set back, so it is right iff it never was.
ClockRight == now = elapsed

\* The parts of the inductive invariant behind RulingExact, while the clock is
\* right: history is in time order, and the deque holds exactly the times of
\* the last Len(window) crashes, those inside the window of the last one.
HistoryOrdered ==
  /\ ClockRight
  /\ \A j \in 1..Len(history) : history[j].t <= elapsed
  /\ \A i, j \in 1..Len(history) : i <= j => history[i].t <= history[j].t

WindowIsRecent ==
  LET h == Len(history)
      k == Len(history) - Len(window)
  IN /\ \A i \in 1..Len(window) : window[i] = history[k + i].t
     /\ \A j \in 1..k : history[j].t <= history[h].t - RestartWindow
     /\ \A j \in (k + 1)..h : history[j].t > history[h].t - RestartWindow

\* Crashes of the history that lie inside the window that ends at crash i.
InWindowOf(i) == {j \in 1..i : history[j].t > history[i].t - RestartWindow}

\* The ruling on every recorded crash is the documented one: exhausted exactly
\* when more than max_restarts crashes, itself included, happened within
\* restart_window seconds (record_crash, engine.py:73-74).  The reference counts
\* timestamps; the code keeps a pruned deque, of wall-clock times, and is only
\* right as long as that clock is.
RulingExact ==
  ClockRight => \A i \in 1..Len(history) :
    history[i].granted <=> Cardinality(InWindowOf(i)) <= MaxRestarts

\* Restart intensity, the guarantee supervisors build on: whatever the crash
\* pattern, no span of restart_window seconds contains more than max_restarts
\* counted restarts (Supervisor and DynamicSupervisor stop restarting beyond it),
\* as long as the clock is right.
IntensityBound ==
  ClockRight => \A i \in 1..Len(history) :
    Cardinality({j \in InWindowOf(i) : history[j].granted}) <= MaxRestarts

\* Backoff never shrinks inside a crash burst: the jitter of compute_backoff is
\* too small to make a later crash of the same window wait less than the one
\* before it, and the cap does not reorder them either.
BackoffGrows ==
  [][ (/\ Len(history') = Len(history) + 1
       /\ verdict.action = "restart" /\ verdict'.action = "restart"
       /\ verdict'.crashes > verdict.crashes)
      => verdict'.delay >= verdict.delay ]_vars

\* The abstract budget the supervisors are written against.
Budget == INSTANCE RestartBudget WITH occupancy <- Len(window), ruling <- verdict.action

\* The engine implements the abstract budget.
ImplementsBudget == Budget!BudgetSpec

=============================================================================

------------------------ MODULE RestartEngineProofs --------------------------
(***************************************************************************)
(* Proofs about RestartEngine, for every budget, window and backoff.       *)
(* The popleft loop is characterised once (PrunedKeeps); type correctness  *)
(* and the refinement of the abstract budget hold for any clock.  The      *)
(* exactness of the rulings and the intensity bound hold while the clock   *)
(* was never set back, and follow from the invariant that the deque is the *)
(* part of the history inside the window of the last crash.                *)
(***************************************************************************)
EXTENDS RestartEngine, FiniteSetTheorems, SequenceTheorems, WellFoundedInduction, TLAPS

\* Every non-empty set of natural numbers has a least element.
LEMMA LeastElement ==
  ASSUME NEW T \in SUBSET Nat, T # {}
  PROVE  \E x \in T : \A y \in T : x <= y
<1> DEFINE R == OpToRel(<, Nat)
<1>1. IsWellFoundedOn(R, Nat)
  BY NatLessThanWellFounded, Zenon
<1>2. \A x, y \in Nat : x < y => <<x, y>> \in R
  BY Zenon DEF OpToRel
<1> HIDE DEF R
<1>3. PICK x \in T : \A y \in T : ~(<<y, x>> \in R)
  BY <1>1, WFMin, Zenon
<1>4. \A y \in T : ~(y < x)
  BY <1>2, <1>3, Zenon
<1>5. \A y \in T : x <= y
  BY <1>4
<1> QED
  BY <1>5, Zenon

\* The popleft loop of record_crash stops where FirstKept says: everything
\* before it is old, and the entry at it, if there is one, is not.
LEMMA FirstKeptIs ==
  ASSUME NEW w \in Seq(Int), NEW c \in Int
  PROVE  /\ FirstKept(w, c) \in 1..(Len(w) + 1)
         /\ \A j \in 1..(FirstKept(w, c) - 1) : w[j] <= c
         /\ FirstKept(w, c) <= Len(w) => w[FirstKept(w, c)] > c
<1> DEFINE T == {i \in 1..(Len(w) + 1) : i <= Len(w) => w[i] > c}
<1>1. Len(w) \in Nat /\ \A i \in 1..Len(w) : w[i] \in Int
  BY LenProperties, ElementOfSeq, Zenon
<1>2. T \in SUBSET Nat /\ Len(w) + 1 \in T
  BY <1>1
<1>3. PICK x \in T : \A y \in T : x <= y
  BY <1>2, LeastElement, Zenon
<1>4. \A j \in 1..(x - 1) : w[j] <= c
  BY <1>1, <1>3
<1> QED
  BY <1>1, <1>3, <1>4, Zenon DEF FirstKept

\* What pruning keeps: a suffix of the deque that starts at FirstKept.
LEMMA PrunedKeeps ==
  ASSUME NEW w \in Seq(Int), NEW c \in Int
  PROVE  LET k == FirstKept(w, c) - 1
         IN /\ k \in 0..Len(w)
            /\ Pruned(w, c) \in Seq(Int)
            /\ Len(Pruned(w, c)) = Len(w) - k
            /\ \A i \in 1..(Len(w) - k) : Pruned(w, c)[i] = w[k + i]
<1> DEFINE f == FirstKept(w, c)
<1>1. f \in 1..(Len(w) + 1) /\ Pruned(w, c) = SubSeq(w, f, Len(w))
  BY FirstKeptIs, Zenon DEF Pruned
<1> HIDE DEF f
<1>2. Len(w) \in Nat /\ \A i \in f..Len(w) : w[i] \in Int
  BY <1>1, LenProperties, ElementOfSeq
<1>3. /\ Pruned(w, c) \in Seq(Int)
      /\ Len(Pruned(w, c)) = IF f <= Len(w) THEN Len(w) - f + 1 ELSE 0
      /\ \A i \in 1..(Len(w) - f + 1) : Pruned(w, c)[i] = w[f + i - 1]
  BY <1>1, <1>2, SubSeqProperties
<1>4. /\ f - 1 \in 0..Len(w)
      /\ Len(Pruned(w, c)) = Len(w) - (f - 1)
      /\ \A i \in 1..(Len(w) - (f - 1)) : Pruned(w, c)[i] = w[(f - 1) + i]
  BY <1>1, <1>2, <1>3
<1> QED
  BY <1>3, <1>4, Zenon DEF f

-----------------------------------------------------------------------------
(* Type correctness *)

\* Initially nothing is recorded.
LEMMA TypeInit == Init => TypeOK
  BY EngineAssumption DEF Init, TypeOK, NoVerdict, Delays

\* Every call of the engine and every move of the clock keeps the types.
LEMMA TypeStep == TypeOK /\ [Next]_vars => TypeOK'
<1> SUFFICES ASSUME TypeOK, [Next]_vars PROVE TypeOK'
  BY Zenon
<1> USE EngineAssumption
<1>1. CASE RecordCrash
  <2> DEFINE w == Append(window, now)
  <2>1. w \in Seq(Int) /\ Len(w) = Len(window) + 1 /\ now - RestartWindow \in Int
    BY AppendProperties DEF TypeOK
  <2>2. window' \in Seq(Int) /\ Len(window') <= Len(window) + 1 /\ Len(window') \in Nat
    <3>1. /\ FirstKept(w, now - RestartWindow) - 1 \in 0..Len(w)
          /\ Pruned(w, now - RestartWindow) \in Seq(Int)
          /\ Len(Pruned(w, now - RestartWindow)) = Len(w) - (FirstKept(w, now - RestartWindow) - 1)
      BY <2>1, PrunedKeeps, Zenon
    <3>2. window' = Pruned(w, now - RestartWindow) /\ Len(window) \in Nat
      BY <1>1, LenProperties, Zenon DEF RecordCrash, TypeOK
    <3> QED
      BY <2>1, <3>1, <3>2
  <2>3. Len(history) \in Nat /\ Len(window) \in Nat
    BY LenProperties, Zenon DEF TypeOK
  <2>4. verdict' \in [action : {"none", "restart", "exhausted"},
                      delay : Delays, crashes : 0..MaxCrashes]
    <3>1. Len(window') \in 0..MaxCrashes
      BY <1>1, <2>2, <2>3 DEF RecordCrash, TypeOK
    <3>2. CASE Exhausted(Len(window'))
      BY <1>1, <3>1, <3>2 DEF RecordCrash, Delays
    <3>3. CASE ~Exhausted(Len(window'))
      <4>1. PICK d \in BackoffDelays(Len(window')) :
              verdict' = [action |-> "restart", delay |-> d, crashes |-> Len(window')]
        BY <1>1, <3>3, Zenon DEF RecordCrash
      <4>2. Len(window') \in 0..MaxRestarts
        BY <3>1, <3>3 DEF Exhausted
      <4>3. d \in Delays
        BY <4>1, <4>2, Zenon DEF Delays
      <4> QED
        BY <3>1, <4>1, <4>3, Zenon
    <3> QED
      BY <3>2, <3>3, Zenon
  <2>5. [t |-> elapsed, granted |-> verdict'.action = "restart"] \in [t : Nat, granted : BOOLEAN]
    BY DEF TypeOK
  <2>6. /\ history' \in Seq([t : Nat, granted : BOOLEAN])
        /\ Len(history') = Len(history) + 1
    BY <1>1, <2>5, AppendProperties DEF RecordCrash, TypeOK
  <2> QED
    BY <1>1, <2>2, <2>3, <2>4, <2>6 DEF RecordCrash, TypeOK
<1>2. CASE ExemptVerdict
  <2>1. Len(window) \in 0..MaxCrashes
    BY LenProperties DEF TypeOK
  <2> QED
    BY <1>2, <2>1, Zenon DEF ExemptVerdict, TypeOK, Delays
<1>3. CASE Reset
  BY <1>3 DEF Reset, TypeOK
<1>4. CASE Tick
  BY <1>4 DEF Tick, TypeOK
<1>5. CASE StepBack
  BY <1>5 DEF StepBack, TypeOK
<1>6. CASE UNCHANGED vars
  BY <1>6, Zenon DEF vars, TypeOK
<1> QED
  BY <1>1, <1>2, <1>3, <1>4, <1>5, <1>6, Zenon DEF Next

\* The engine's state stays within its types: in particular the deque never
\* outgrows the crashes recorded since the last reset.
THEOREM TypeCorrect == Spec => []TypeOK
  BY TypeInit, TypeStep, PTL DEF Spec

-----------------------------------------------------------------------------
(* The engine implements the abstract budget, whatever the clock does. *)

\* Every step of the engine is a step of the abstract budget, or leaves it alone.
LEMMA BudgetStep ==
  TypeOK /\ [Next]_vars => [Budget!BudgetNext]_(Budget!budgetVars)
<1> SUFFICES ASSUME TypeOK, [Next]_vars
             PROVE  [Budget!BudgetNext]_(Budget!budgetVars)
  BY Zenon
<1> USE EngineAssumption
<1>1. CASE RecordCrash
  <2> DEFINE w == Append(window, now)
  <2>1. w \in Seq(Int) /\ Len(w) = Len(window) + 1 /\ now - RestartWindow \in Int
    BY AppendProperties DEF TypeOK
  <2>2. /\ FirstKept(w, now - RestartWindow) - 1 \in 0..Len(w)
        /\ Len(Pruned(w, now - RestartWindow)) = Len(w) - (FirstKept(w, now - RestartWindow) - 1)
    BY <2>1, PrunedKeeps, Zenon
  <2>3. window' = Pruned(w, now - RestartWindow) /\ Len(window) \in Nat
    BY <1>1, LenProperties DEF RecordCrash, TypeOK
  <2>4. Len(window') \in 0..(Len(window) + 1)
    BY <2>1, <2>2, <2>3
  <2>5. verdict'.action = Budget!RulingFor(Len(window'))
    BY <1>1 DEF RecordCrash, Exhausted, Budget!RulingFor
  <2> QED
    BY <2>4, <2>5, Zenon DEF Budget!BudgetNext, Budget!BudgetRecord
<1>2. CASE ExemptVerdict
  BY <1>2, Zenon DEF ExemptVerdict, Budget!BudgetNext, Budget!BudgetExempt
<1>3. CASE Reset
  BY <1>3, EmptySeq, Zenon DEF Reset, Budget!BudgetNext, Budget!BudgetReset
<1>4. CASE UNCHANGED <<window, verdict>>
  BY <1>4, Zenon DEF Budget!budgetVars
<1> QED
  BY <1>1, <1>2, <1>3, <1>4, Zenon DEF Next, Tick, StepBack, vars

\* Every behaviour of the engine is one of the abstract budget: what the
\* supervisors rely on holds for every clock, window length and backoff.
THEOREM EngineImplementsBudget == Spec => ImplementsBudget
<1>1. Init => Budget!BudgetInit
  BY EmptySeq DEF Init, NoVerdict, Budget!BudgetInit
<1> QED
  BY <1>1, BudgetStep, TypeCorrect, PTL DEF Spec, ImplementsBudget, Budget!BudgetSpec

-----------------------------------------------------------------------------
(* The rulings are the documented ones, while the clock is right. *)

\* What one recorded crash does to the deque: the invariants about it persist.
LEMMA RecordKeepsWindow ==
  ASSUME TypeOK, HistoryOrdered, WindowIsRecent, RecordCrash
  PROVE  HistoryOrdered' /\ WindowIsRecent'
<1> USE EngineAssumption
<1> DEFINE w == Append(window, now)
           c == now - RestartWindow
           p == FirstKept(w, c) - 1
           h == Len(history)
           L == Len(window)
           k == h - L
<1>1. /\ h \in Nat /\ L \in Nat /\ k \in Nat /\ k + L = h
      /\ now \in Int /\ c \in Int /\ elapsed \in Int /\ RestartWindow \in Int
      /\ \A j \in 1..h : history[j].t \in Int
      /\ \A j \in 1..L : window[j] \in Int
  <2>1. h \in Nat /\ L \in Nat /\ L <= h
    BY LenProperties, Zenon DEF TypeOK
  <2>2. \A j \in 1..h : history[j] \in [t : Nat, granted : BOOLEAN]
    BY ElementOfSeq, Zenon DEF TypeOK
  <2>3. \A j \in 1..L : window[j] \in Int
    BY ElementOfSeq, Zenon DEF TypeOK
  <2>4. now \in Int /\ elapsed \in Int
    BY DEF TypeOK
  <2> QED
    BY <2>1, <2>2, <2>3, <2>4
<1>2. /\ w \in Seq(Int) /\ Len(w) = L + 1 /\ w[L + 1] = now
      /\ \A i \in 1..L : w[i] = window[i]
  BY AppendProperties DEF TypeOK
<1>3. /\ p \in 0..(L + 1)
      /\ Len(window') = L + 1 - p
      /\ \A i \in 1..(L + 1 - p) : window'[i] = w[p + i]
  <2>1. window' = Pruned(w, c)
    BY Zenon DEF RecordCrash
  <2> HIDE DEF w, c
  <2>2. /\ FirstKept(w, c) - 1 \in 0..Len(w)
        /\ Len(Pruned(w, c)) = Len(w) - (FirstKept(w, c) - 1)
        /\ \A i \in 1..(Len(w) - (FirstKept(w, c) - 1)) :
              Pruned(w, c)[i] = w[(FirstKept(w, c) - 1) + i]
    BY <1>1, <1>2, PrunedKeeps, Zenon
  <2> QED
    BY <1>2, <2>1, <2>2, SMTT(30)
<1>4. /\ \A j \in 1..p : w[j] <= c
      /\ p < L + 1 => w[p + 1] > c
  <2> HIDE DEF w, c
  <2>1. /\ FirstKept(w, c) \in 1..(Len(w) + 1)
        /\ \A j \in 1..(FirstKept(w, c) - 1) : w[j] <= c
        /\ FirstKept(w, c) <= Len(w) => w[FirstKept(w, c)] > c
    BY <1>1, <1>2, FirstKeptIs, Zenon
  <2> HIDE DEF L
  <2> QED
    BY <1>1, <1>2, <2>1, SMTT(30)
<1>5. [t |-> elapsed, granted |-> verdict'.action = "restart"] \in [t : Nat, granted : BOOLEAN]
  BY DEF TypeOK
<1>6. /\ Len(history') = h + 1
      /\ \A j \in 1..h : history'[j] = history[j]
      /\ history'[h + 1].t = elapsed
  BY <1>5, AppendProperties DEF RecordCrash, TypeOK
<1>7. elapsed' = elapsed /\ now' = now /\ now = elapsed
  BY Zenon DEF RecordCrash, HistoryOrdered, ClockRight
<1> HIDE DEF w, c, p, h, L, k
<1>8. HistoryOrdered'
  <2>1. /\ \A j \in 1..h : history[j].t <= elapsed
        /\ \A i, j \in 1..h : i <= j => history[i].t <= history[j].t
    BY Zenon DEF HistoryOrdered, h
  <2>2. \A j \in 1..(h + 1) : j \in 1..h \/ j = h + 1
    BY <1>1
  <2>3. \A j \in 1..(h + 1) : history'[j].t <= elapsed
    <3>1. \A j \in 1..h : history'[j].t <= elapsed
      BY <1>6, <2>1, Zenon
    <3>2. history'[h + 1].t <= elapsed
      BY <1>1, <1>6
    <3> QED
      BY <2>2, <3>1, <3>2, Zenon
  <2>4. \A i, j \in 1..(h + 1) : i <= j => history'[i].t <= history'[j].t
    <3> SUFFICES ASSUME NEW i \in 1..(h + 1), NEW j \in 1..(h + 1), i <= j
                 PROVE  history'[i].t <= history'[j].t
      BY Zenon
    <3>1. CASE j = h + 1
      BY <1>6, <2>3, <3>1, Zenon
    <3>2. CASE j # h + 1
      <4>1. i \in 1..h /\ j \in 1..h
        BY <1>1, <3>2
      <4> QED
        BY <1>6, <2>1, <4>1, Zenon
    <3> QED
      BY <3>1, <3>2, Zenon
  <2> QED
    BY <1>6, <1>7, <2>3, <2>4, Zenon DEF HistoryOrdered, ClockRight
<1>9. \A i \in 1..(L + 1) : w[i] = history'[k + i].t
  <2>1. \A i \in 1..L : window[i] = history[k + i].t
    BY Zenon DEF WindowIsRecent, k, h, L
  <2>2. \A i \in 1..L : k + i \in 1..h
    BY <1>1
  <2>3. \A i \in 1..L : w[i] = history'[k + i].t
    BY <1>1, <1>2, <1>6, <2>1, <2>2, Zenon
  <2>4. w[L + 1] = history'[k + (L + 1)].t
    BY <1>1, <1>2, <1>6, <1>7
  <2> QED
    BY <1>1, <2>3, <2>4
<1>10. /\ Len(history') - Len(window') = k + p
       /\ k + p \in Nat
  BY <1>1, <1>3, <1>6
<1>11. \A j \in 1..(h + 1) : history'[j].t \in Int
  BY <1>1, <1>6
<1>12. \A i \in 1..Len(window') : window'[i] = history'[k + p + i].t
  BY <1>1, <1>3, <1>9, <1>10
<1>13. \A j \in 1..(k + p) : history'[j].t <= history'[h + 1].t - RestartWindow
  <2>1. \A j \in 1..k : history[j].t <= history[h].t - RestartWindow
    BY Zenon DEF WindowIsRecent, k, h, L
  <2>2. \A j \in 1..k : history[h].t <= elapsed /\ history[h].t \in Int
    BY <1>1, <1>10 DEF HistoryOrdered, h
  <2>3. \A j \in 1..k : history'[j].t <= history'[h + 1].t - RestartWindow
    <3> SUFFICES ASSUME NEW j \in 1..k
                 PROVE  history'[j].t <= history'[h + 1].t - RestartWindow
      BY Zenon
    <3>1. j \in 1..h
      BY <1>1
    <3>2. history[j].t <= history[h].t - RestartWindow /\ history[h].t <= elapsed
      BY <2>1, <2>2, Zenon
    <3>3. history'[j].t = history[j].t /\ history'[h + 1].t = elapsed
      BY <1>6, <3>1, Zenon
    <3>4. history[j].t \in Int /\ history[h].t \in Int
      BY <1>1, <2>2, <3>1, Zenon
    <3> QED
      BY <1>1, <3>2, <3>3, <3>4
  <2>4. \A i \in 1..p : history'[k + i].t <= c
    <3>1. \A i \in 1..p : i \in 1..(L + 1)
      BY <1>1, <1>3
    <3> QED
      BY <1>4, <1>9, <3>1, Zenon
  <2>5. c = history'[h + 1].t - RestartWindow
    BY <1>6, <1>7, Zenon DEF c
  <2>6. \A j \in (k + 1)..(k + p) : j - k \in 1..p /\ k + (j - k) = j
    BY <1>1, <1>3
  <2>7. \A j \in (k + 1)..(k + p) : history'[j].t <= history'[h + 1].t - RestartWindow
    BY <2>4, <2>5, <2>6, Zenon
  <2> QED
    BY <1>1, <1>3, <2>3, <2>7
<1>14. \A j \in (k + p + 1)..(h + 1) : history'[j].t > history'[h + 1].t - RestartWindow
  <2> SUFFICES ASSUME NEW j \in (k + p + 1)..(h + 1)
               PROVE  history'[j].t > c
    BY <1>6, <1>7, Zenon DEF c
  <2>1. p < L + 1 /\ k + p + 1 \in 1..(h + 1) /\ p + 1 \in 1..(L + 1)
    BY <1>1, <1>3, <1>10
  <2>2. history'[k + p + 1].t > c
    <3>1. w[p + 1] = history'[k + (p + 1)].t /\ w[p + 1] > c
      BY <1>4, <1>9, <2>1, Zenon
    <3>2. k + (p + 1) = k + p + 1
      BY <1>1, <1>3
    <3> QED
      BY <3>1, <3>2, Zenon
  <2>3. history'[k + p + 1].t <= history'[j].t
    <3>1. j \in 1..(h + 1) /\ k + p + 1 <= j
      BY <1>1, <1>10
    <3> QED
      BY <1>6, <1>8, <2>1, <3>1, Zenon DEF HistoryOrdered
  <2>4. history'[k + p + 1].t \in Int /\ history'[j].t \in Int
    BY <1>1, <1>11, <1>10, <2>1, SMTT(30)
  <2> QED
    BY <1>1, <2>2, <2>3, <2>4
<1>15. WindowIsRecent'
  BY <1>6, <1>10, <1>12, <1>13, <1>14, Zenon DEF WindowIsRecent
<1> QED
  BY <1>8, <1>15, Zenon

\* The length of the deque is the number of crashes inside the window.
LEMMA WindowCount ==
  TypeOK /\ WindowIsRecent /\ Len(history) > 0
    => Cardinality(InWindowOf(Len(history))) = Len(window)
<1> SUFFICES ASSUME TypeOK, WindowIsRecent, Len(history) > 0
             PROVE  Cardinality(InWindowOf(Len(history))) = Len(window)
  BY Zenon
<1> DEFINE h == Len(history)
           k == Len(history) - Len(window)
<1>1. h \in Nat /\ Len(window) \in Nat /\ k \in Nat /\ k <= h
  BY LenProperties DEF TypeOK
<1>2. \A j \in 1..h : history[j].t \in Int
  <2>1. \A j \in 1..h : history[j] \in [t : Nat, granted : BOOLEAN]
    BY ElementOfSeq, Zenon DEF TypeOK
  <2> QED
    BY <2>1
<1>3. \A j \in 1..h : j \in InWindowOf(h) <=> j \in (k + 1)..h
  <2> SUFFICES ASSUME NEW j \in 1..h
               PROVE  j \in InWindowOf(h) <=> j \in (k + 1)..h
    BY Zenon
  <2>1. j \in InWindowOf(h) <=> history[j].t > history[h].t - RestartWindow
    BY Zenon DEF InWindowOf
  <2>2. j \in 1..k => history[j].t <= history[h].t - RestartWindow
    BY Zenon DEF WindowIsRecent
  <2>3. j \in (k + 1)..h => history[j].t > history[h].t - RestartWindow
    BY Zenon DEF WindowIsRecent
  <2>4. history[j].t \in Int /\ history[h].t \in Int /\ RestartWindow \in Int
    BY <1>1, <1>2, EngineAssumption
  <2>5. j \in 1..k \/ j \in (k + 1)..h
    BY <1>1
  <2> QED
    BY <2>1, <2>2, <2>3, <2>4, <2>5, SMTT(30)
<1>4. InWindowOf(h) \subseteq 1..h /\ (k + 1)..h \subseteq 1..h
  BY <1>1 DEF InWindowOf
<1>5. InWindowOf(h) = (k + 1)..h
  BY <1>3, <1>4, Zenon
<1>6. Cardinality((k + 1)..h) = IF k + 1 > h THEN 0 ELSE h - (k + 1) + 1
  <2> HIDE DEF k, h
  <2>1. k + 1 \in Int /\ h \in Int
    BY <1>1
  <2> QED
    BY <2>1, FS_Interval, Zenon
<1> QED
  BY <1>1, <1>5, <1>6

\* What holds while the clock is right: it needs the state of the deque to be
\* inductive.
EngineInv == TypeOK /\ HistoryOrdered /\ WindowIsRecent /\ RulingExact /\ IntensityBound

\* The windows of the crashes already recorded do not change when one is added.
LEMMA RecordKeepsPast ==
  ASSUME TypeOK, RecordCrash
  PROVE  /\ Len(history) \in Nat /\ Len(history') = Len(history) + 1
         /\ \A j \in 1..Len(history) : history'[j] = history[j]
         /\ history'[Len(history) + 1] = [t |-> elapsed, granted |-> verdict'.action = "restart"]
         /\ \A i \in 1..Len(history) : InWindowOf(i)' = InWindowOf(i)
<1>1. [t |-> elapsed, granted |-> verdict'.action = "restart"] \in [t : Nat, granted : BOOLEAN]
  BY EngineAssumption DEF TypeOK
<1>2. /\ Len(history) \in Nat /\ Len(history') = Len(history) + 1
      /\ \A j \in 1..Len(history) : history'[j] = history[j]
      /\ history'[Len(history) + 1] = [t |-> elapsed, granted |-> verdict'.action = "restart"]
  BY <1>1, AppendProperties, LenProperties DEF RecordCrash, TypeOK
<1>3. ASSUME NEW i \in 1..Len(history) PROVE InWindowOf(i)' = InWindowOf(i)
  <2>1. \A j \in 1..i : history'[j] = history[j]
    BY <1>2
  <2> QED
    BY <1>2, <2>1, Zenon DEF InWindowOf
<1> QED
  BY <1>2, <1>3, Zenon

\* One more recorded crash keeps the rulings exact and the intensity bounded.
LEMMA RecordKeepsRuling ==
  ASSUME EngineInv, RecordCrash, TypeOK', WindowIsRecent', HistoryOrdered'
  PROVE  RulingExact' /\ IntensityBound'
<1> DEFINE G(i) == {j \in InWindowOf(i) : history[j].granted}
<1> USE EngineAssumption
<1>0. PICK h \in Nat : h = Len(history)
  BY RecordKeepsPast, Zenon DEF EngineInv
<1>1. /\ h \in Nat /\ Len(history') = h + 1
      /\ \A j \in 1..h : history'[j] = history[j]
      /\ history'[h + 1] = [t |-> elapsed, granted |-> verdict'.action = "restart"]
      /\ \A i \in 1..h : InWindowOf(i)' = InWindowOf(i)
  BY <1>0, RecordKeepsPast, Zenon DEF EngineInv
<1>2. Cardinality(InWindowOf(h + 1)') = Len(window')
  <2>1. (TypeOK /\ WindowIsRecent /\ Len(history) > 0
          => Cardinality(InWindowOf(Len(history))) = Len(window))'
    BY WindowCount, PTL
  <2>2. Len(history') > 0
    BY <1>1
  <2> QED
    BY <1>1, <2>1, <2>2, Zenon
<1>3. history'[h + 1].granted <=> Len(window') <= MaxRestarts
  <2>1. Len(window') \in Nat
    BY LenProperties, Zenon DEF TypeOK
  <2>2. verdict'.action = "restart" <=> ~Exhausted(Len(window'))
    BY DEF RecordCrash
  <2>3. ~Exhausted(Len(window')) <=> Len(window') <= MaxRestarts
    BY <2>1 DEF Exhausted
  <2>4. history'[h + 1].granted = (verdict'.action = "restart")
    BY <1>1
  <2> QED
    BY <2>2, <2>3, <2>4, Zenon
<1>4. RulingExact'
  <2> SUFFICES ASSUME NEW i \in 1..(h + 1)
               PROVE  history'[i].granted <=> Cardinality(InWindowOf(i)') <= MaxRestarts
    BY <1>0, <1>1, Zenon DEF RulingExact
  <2>1. CASE i \in 1..h
    BY <1>0, <1>1, <2>1, Zenon DEF EngineInv, RulingExact, HistoryOrdered
  <2>2. CASE i = h + 1
    BY <1>2, <1>3, <2>2, Zenon
  <2> QED
    BY <1>1, <2>1, <2>2
<1>5. IntensityBound'
  <2> SUFFICES ASSUME NEW i \in 1..(h + 1)
               PROVE  Cardinality({j \in InWindowOf(i)' : history'[j].granted}) <= MaxRestarts
    BY <1>0, <1>1, Zenon DEF IntensityBound
  <2>1. CASE i \in 1..h
    <3>1. InWindowOf(i)' \subseteq 1..h
      BY <1>1, <2>1 DEF InWindowOf
    <3>2. {j \in InWindowOf(i)' : history'[j].granted} = G(i)
      BY <1>1, <2>1, <3>1, Zenon
    <3> QED
      BY <1>0, <2>1, <3>2, Zenon DEF EngineInv, IntensityBound, HistoryOrdered
  <2>2. CASE i = h + 1 /\ history'[h + 1].granted
    <3> DEFINE W == InWindowOf(i)'
               S == {j \in W : history'[j].granted}
    <3>1. W \subseteq 1..(h + 1) /\ IsFiniteSet(1..(h + 1))
      BY <1>1, <2>2, FS_Interval DEF InWindowOf
    <3>2. IsFiniteSet(W) /\ Cardinality(W) <= MaxRestarts
      BY <1>2, <1>3, <2>2, <3>1, FS_Subset, Zenon
    <3>3. S \in SUBSET W
      BY Zenon
    <3> HIDE DEF W, S
    <3>4. IsFiniteSet(S) /\ Cardinality(S) <= Cardinality(W)
      BY <3>2, <3>3, FS_Subset, Zenon
    <3>5. Cardinality(S) \in Nat /\ Cardinality(W) \in Nat
      BY <3>2, <3>4, FS_CardinalityType, Zenon
    <3>6. Cardinality(S) <= MaxRestarts
      BY <3>2, <3>4, <3>5
    <3> QED
      BY <3>6, Zenon DEF S, W
  <2>3. CASE i = h + 1 /\ ~history'[h + 1].granted
    <3> DEFINE S == {j \in InWindowOf(i)' : history'[j].granted}
    <3>1. CASE h = 0
      <4>1. S = {}
        BY <1>1, <2>3, <3>1 DEF InWindowOf
      <4>2. Cardinality(S) = 0
        BY <4>1, FS_EmptySet, Zenon
      <4> QED
        BY <4>2
    <3>2. CASE h > 0
      <4>1. h \in 1..h
        BY <1>1, <3>2
      <4>2. \A j \in 1..(h + 1) : history'[j].t \in Int
        <5>1. \A j \in 1..(h + 1) : history'[j] \in [t : Nat, granted : BOOLEAN]
          BY <1>1, ElementOfSeq, Zenon DEF TypeOK
        <5> QED
          BY <5>1
      <4>3. history'[h].t <= history'[h + 1].t
        BY <1>1, <4>1 DEF HistoryOrdered
      <4>4. S \subseteq 1..h
        BY <1>1, <2>3 DEF InWindowOf
      <4>5. \A j \in S : j \in InWindowOf(h) /\ history[j].granted
        <5> SUFFICES ASSUME NEW j \in S
                     PROVE  j \in InWindowOf(h) /\ history[j].granted
          BY Zenon
        <5>1. j \in 1..h /\ history'[j] = history[j] /\ history'[h] = history[h]
          BY <1>1, <4>1, <4>4, Zenon
        <5>2. history'[j].t > history'[h + 1].t - RestartWindow /\ history'[j].granted
          BY <2>3, Zenon DEF InWindowOf
        <5>3. history[j].t > history[h].t - RestartWindow
          BY <4>1, <4>2, <4>3, <5>1, <5>2
        <5> QED
          BY <5>1, <5>2, <5>3, Zenon DEF InWindowOf
      <4>6. S \in SUBSET G(h)
        BY <4>5, Zenon
      <4>7. IsFiniteSet(G(h)) /\ Cardinality(G(h)) <= MaxRestarts
        <5>1. G(h) \in SUBSET (1..h) /\ IsFiniteSet(1..h)
          BY <1>1, FS_Interval, SMTT(30) DEF InWindowOf
        <5>2. IsFiniteSet(G(h))
          BY <5>1, FS_Subset, Zenon
        <5> QED
          BY <1>0, <4>1, <5>2, Zenon DEF EngineInv, IntensityBound, HistoryOrdered
      <4> HIDE DEF S, G
      <4>8. IsFiniteSet(S) /\ Cardinality(S) <= Cardinality(G(h))
        BY <4>6, <4>7, FS_Subset, Zenon
      <4>9. Cardinality(S) \in Nat /\ Cardinality(G(h)) \in Nat
        BY <4>7, <4>8, FS_CardinalityType, Zenon
      <4>10. Cardinality(S) <= MaxRestarts
        BY <4>7, <4>8, <4>9
      <4> QED
        BY <4>10, Zenon DEF S
    <3> QED
      BY <1>1, <3>1, <3>2
  <2> QED
    BY <1>1, <2>1, <2>2, <2>3
<1> QED
  BY <1>4, <1>5, Zenon

\* An empty history satisfies the invariant.
LEMMA EngineInvInit == Init => EngineInv
  BY TypeInit, EmptySeq
     DEF Init, EngineInv, HistoryOrdered, ClockRight, WindowIsRecent, RulingExact, IntensityBound

\* Every step under a clock still right keeps the invariant.
LEMMA EngineInvStep == EngineInv /\ [Next]_vars /\ ClockRight' => EngineInv'
<1> SUFFICES ASSUME EngineInv, [Next]_vars, ClockRight' PROVE EngineInv'
  BY Zenon
<1> USE EngineAssumption
<1>1. TypeOK /\ TypeOK'
  BY TypeStep, Zenon DEF EngineInv
<1>2. CASE RecordCrash
  BY <1>1, <1>2, RecordKeepsWindow, RecordKeepsRuling, Zenon DEF EngineInv
<1>3. CASE Reset
  BY <1>1, <1>3, EmptySeq
     DEF Reset, EngineInv, HistoryOrdered, ClockRight, WindowIsRecent, RulingExact, IntensityBound
<1>4. CASE UNCHANGED <<window, history>> /\ now' = elapsed' /\ elapsed <= elapsed'
  <2>1. WindowIsRecent' /\ RulingExact' /\ IntensityBound'
    BY <1>4, Zenon DEF EngineInv, HistoryOrdered, WindowIsRecent, RulingExact, IntensityBound, InWindowOf
  <2>2. \A j \in 1..Len(history) : history[j].t \in Int
    <3>1. \A j \in 1..Len(history) : history[j] \in [t : Nat, granted : BOOLEAN]
      BY <1>1, ElementOfSeq, Zenon DEF TypeOK
    <3> QED
      BY <3>1
  <2>3. elapsed \in Int /\ elapsed' \in Int
    BY <1>1 DEF TypeOK
  <2>4. HistoryOrdered'
    BY <1>4, <2>2, <2>3, SMTT(30) DEF EngineInv, HistoryOrdered, ClockRight
  <2> QED
    BY <1>1, <2>1, <2>4, Zenon DEF EngineInv
<1>5. CASE ExemptVerdict \/ Tick \/ UNCHANGED vars
  BY <1>1, <1>4, <1>5 DEF ExemptVerdict, Tick, vars, EngineInv, HistoryOrdered, ClockRight, TypeOK
<1>6. CASE StepBack
  BY <1>1, <1>6 DEF StepBack, ClockRight, TypeOK
<1> QED
  BY <1>2, <1>3, <1>5, <1>6, Zenon DEF Next

\* The inductive invariant: a clock once set back is never right again.
ClockInv == TypeOK /\ (ClockRight => EngineInv)

\* Every step keeps the invariant, whatever it does to the clock.
LEMMA ClockInvStep == ClockInv /\ [Next]_vars => ClockInv'
<1> SUFFICES ASSUME ClockInv, [Next]_vars PROVE ClockInv'
  OBVIOUS
<1>1. TypeOK /\ TypeOK'
  BY TypeStep, Zenon DEF ClockInv
<1>2. ClockRight' => ClockRight
  BY <1>1, SMTT(30) DEF ClockRight, Next, RecordCrash, ExemptVerdict, Reset, Tick, StepBack, vars, TypeOK
<1> QED
  BY <1>1, <1>2, EngineInvStep, Zenon DEF ClockInv

\* While the clock is right, every ruling is the documented one: exhausted
\* exactly when more than max_restarts crashes lie in the window.
THEOREM RulingsExact == Spec => []RulingExact
<1>1. Init => ClockInv
  BY TypeInit, EngineInvInit, Zenon DEF ClockInv
<1>2. ClockInv => RulingExact
  BY Zenon DEF ClockInv, EngineInv, RulingExact
<1> QED
  BY <1>1, <1>2, ClockInvStep, PTL DEF Spec

\* While the clock is right, no window contains more than max_restarts counted
\* restarts, for every budget and every window length.
THEOREM IntensityBounded == Spec => []IntensityBound
<1>1. Init => ClockInv
  BY TypeInit, EngineInvInit DEF ClockInv
<1>2. ClockInv => IntensityBound
  BY Zenon DEF ClockInv, EngineInv, IntensityBound
<1> QED
  BY <1>1, <1>2, ClockInvStep, PTL DEF Spec

=============================================================================

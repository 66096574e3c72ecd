---------------------------- MODULE StorageProofs ----------------------------
(***************************************************************************)
(* Proofs about what is stored: the checkpoints of StateStore, for every   *)
(* set of values and every key ring, however often the store is            *)
(* reconfigured, the log of AuditSink, for every number of events, every   *)
(* batch size and any amount of disk trouble, and the spans of Telemetry,  *)
(* for every number of spans, size of queue, batch and window, and time.   *)
(***************************************************************************)
EXTENDS StateStore, AuditSink, Telemetry, TLAPS

-----------------------------------------------------------------------------
(* State stores.                                                           *)

\* Nothing in the row is shared with the agent, so only checkpoint() writes it.
RowIsSaved ==
    /\ ~sharedDict /\ ~sharedInner
    /\ disk.plain = saved.plain /\ disk.nested = saved.nested

\* Every step over a store that keeps no objects preserves it.
LEMMA RowKept == RowIsSaved /\ ~KeepsObjects /\ [StoreNext]_storeVars => RowIsSaved'
<1> SUFFICES ASSUME RowIsSaved, ~KeepsObjects, [StoreNext]_storeVars PROVE RowIsSaved'
  BY Zenon
<1> USE DEF RowIsSaved
<1>1. CASE Assign
  BY <1>1, Zenon DEF Assign
<1>2. CASE Mutate
  BY <1>2, Zenon DEF Mutate
<1>3. CASE Checkpoint
  BY <1>3, Zenon DEF Checkpoint
<1>4. CASE Crash
  BY <1>4, Zenon DEF Crash
<1>5. CASE Restore
  BY <1>5, Zenon DEF Restore
<1>6. CASE Reconfigure
  BY <1>6, Zenon DEF Reconfigure
<1>7. CASE UNCHANGED storeVars
  BY <1>7, Zenon DEF storeVars
<1> QED
  BY <1>1, <1>2, <1>3, <1>4, <1>5, <1>6, <1>7, Zenon DEF StoreNext

\* An agent over SQLite, or over any store behind the encrypting wrapper, that
\* comes up again has exactly the state of its last checkpoint(): the theorem
\* assumes only that the store never keeps the agent's own objects, as
\* InMemoryStateStore alone does.
THEOREM RestoresExact == StoreSpec /\ []~KeepsObjects => RestoreExact
<1>1. StoreInit => RowIsSaved
  BY DEF StoreInit, RowIsSaved, NoRow
<1>2. RowIsSaved /\ [StoreNext]_storeVars
        => [~up /\ up' => plain' = saved.plain /\ nested' = saved.nested]_storeVars
  <2> SUFFICES ASSUME RowIsSaved, StoreNext, ~up, up'
               PROVE  plain' = saved.plain /\ nested' = saved.nested
    BY Zenon
  <2>1. CASE Restore
    BY <2>1, Zenon DEF Restore, RowIsSaved
  <2> QED
    BY <2>1, Zenon DEF StoreNext, Assign, Mutate, Checkpoint, Crash, Reconfigure
<1> QED
  BY <1>1, <1>2, RowKept, PTL DEF StoreSpec, RestoreExact

-----------------------------------------------------------------------------
(* The audit log.  The invariant counts: the first f events have left the  *)
(* queue, the last of them are the batch being collected, and the log has  *)
(* the others, all of them unless the disk gave trouble.  The queue has the *)
(* rest in order, with the sentinel of close() at place z, or nowhere.     *)

\* q holds the events f+1 .. e in order, and the sentinel at z unless z is past
\* the end.
IsQueue(q, e, f, z) ==
    /\ q \in Seq(Nat) /\ e \in Nat /\ f \in Nat /\ z \in 1 .. Len(q) + 1
    /\ z <= Len(q) => q[z] = 0 /\ e + 1 = f + Len(q)
    /\ z = Len(q) + 1 => e = f + Len(q)
    /\ \A k \in 1 .. Len(q) : k < z => q[k] = f + k
    /\ \A k \in 1 .. Len(q) : k > z => q[k] = f + k - 1

\* Of the first f events batch b holds the last and lg others in order; all the
\* others, when nothing was lost.
IsLog(lg, b, f, gap) ==
    /\ lg \in Seq(Nat) /\ b \in Seq(Nat) /\ f \in Nat /\ Len(b) <= f
    /\ \A k \in 1 .. Len(b) : b[k] = f - Len(b) + k
    /\ \A k \in 1 .. Len(lg) : lg[k] \in 1 .. f - Len(b)
    /\ \A j, k \in 1 .. Len(lg) : j < k => lg[j] < lg[k]
    /\ ~gap => Len(lg) = f - Len(b) /\ \A k \in 1 .. Len(lg) : lg[k] = k

-----------------------------------------------------------------------------
\* The elements of a sequence that has grown.
LEMMA Appended ==
    ASSUME NEW q \in Seq(Nat), NEW x \in Nat
    PROVE  /\ Append(q, x) \in Seq(Nat) /\ Len(q) \in Nat /\ Len(Append(q, x)) = Len(q) + 1
           /\ \A k \in 1 .. Len(q) + 1 :
                  \/ k \in 1 .. Len(q) /\ Append(q, x)[k] = q[k]
                  \/ k = Len(q) + 1 /\ Append(q, x)[k] = x
<1> DEFINE r == Append(q, x)  n == Len(q)
<1>1. /\ r \in Seq(Nat) /\ n \in Nat /\ Len(r) = n + 1
      /\ r[n + 1] = x /\ \A k \in 1 .. n : r[k] = q[k]
  OBVIOUS
<1> HIDE DEF r, n
<1>2. \A k \in 1 .. n + 1 : (k \in 1 .. n /\ r[k] = q[k]) \/ (k = n + 1 /\ r[k] = x)
  BY <1>1
<1> QED
  BY <1>1, <1>2, Zenon DEF r, n

LEMMA Joined ==
    ASSUME NEW p \in Seq(Nat), NEW q \in Seq(Nat)
    PROVE  /\ p \o q \in Seq(Nat) /\ Len(p) \in Nat /\ Len(q) \in Nat
           /\ Len(p \o q) = Len(p) + Len(q)
           /\ \A k \in 1 .. Len(p) + Len(q) :
                  \/ k \in 1 .. Len(p) /\ (p \o q)[k] = p[k]
                  \/ k - Len(p) \in 1 .. Len(q) /\ (p \o q)[k] = q[k - Len(p)]
OBVIOUS

LEMMA QueuePut ==
    ASSUME NEW q, NEW e, NEW f, NEW z, IsQueue(q, e, f, z)
    PROVE  IsQueue(Append(q, e + 1), e + 1, f, IF z = Len(q) + 1 THEN z + 1 ELSE z)
<1> DEFINE r == Append(q, e + 1)  n == Len(q)
<1>1. /\ r \in Seq(Nat) /\ n \in Nat /\ Len(r) = n + 1
      /\ \A k \in 1 .. n + 1 : (k \in 1 .. n /\ r[k] = q[k]) \/ (k = n + 1 /\ r[k] = e + 1)
  BY Appended DEF IsQueue
<1>2. /\ e \in Nat /\ f \in Nat /\ z \in 1 .. n + 1
      /\ z <= n => q[z] = 0 /\ e + 1 = f + n
      /\ z = n + 1 => e = f + n
      /\ \A k \in 1 .. n : k < z => q[k] = f + k
      /\ \A k \in 1 .. n : k > z => q[k] = f + k - 1
  BY Zenon DEF IsQueue
<1> HIDE DEF r, n
<1>3. CASE z = n + 1
  <2>1. \A k \in 1 .. n + 1 : r[k] = f + k
    BY <1>1, <1>2, <1>3
  <2>2. IsQueue(r, e + 1, f, z + 1)
    BY <1>1, <1>2, <1>3, <2>1 DEF IsQueue
  <2> QED
    BY <1>3, <2>2, Zenon DEF r, n
<1>4. CASE z <= n
  <2>1. \A k \in 1 .. n + 1 : k < z => r[k] = f + k
    <3> TAKE k \in 1 .. n + 1
    <3>1. CASE k \in 1 .. n /\ r[k] = q[k]
      BY <1>2, <3>1, Zenon
    <3>2. CASE k = n + 1
      BY <1>1, <1>2, <1>4, <3>2
    <3> QED
      BY <1>1, <3>1, <3>2, Zenon
  <2>2. \A k \in 1 .. n + 1 : k > z => r[k] = f + k - 1
    <3> TAKE k \in 1 .. n + 1
    <3>1. CASE k \in 1 .. n /\ r[k] = q[k]
      BY <1>2, <3>1, Zenon
    <3>2. CASE k = n + 1 /\ r[k] = e + 1
      BY <1>1, <1>2, <1>4, <3>2
    <3> QED
      BY <1>1, <3>1, <3>2, Zenon
  <2>3. r[z] = 0 /\ e + 1 + 1 = f + (n + 1) /\ z \in 1 .. (n + 1) + 1 /\ z <= n + 1 /\ z # n + 1
    BY <1>1, <1>2, <1>4
  <2>4. IsQueue(r, e + 1, f, z)
    BY <1>1, <1>2, <2>1, <2>2, <2>3 DEF IsQueue
  <2> QED
    BY <2>3, <2>4, Zenon DEF r, n
<1> QED
  BY <1>1, <1>2, <1>3, <1>4

LEMMA QueueSentinel ==
    ASSUME NEW q, NEW e, NEW f, NEW z, IsQueue(q, e, f, z), z = Len(q) + 1
    PROVE  IsQueue(Append(q, Sentinel), e, f, z)
<1> DEFINE r == Append(q, Sentinel)  n == Len(q)
<1>1. /\ r \in Seq(Nat) /\ n \in Nat /\ Len(r) = n + 1
      /\ \A k \in 1 .. n + 1 : (k \in 1 .. n /\ r[k] = q[k]) \/ (k = n + 1 /\ r[k] = 0)
  BY Appended, Zenon DEF IsQueue, Sentinel
<1>2. /\ e \in Nat /\ f \in Nat /\ z = n + 1 /\ e = f + n
      /\ \A k \in 1 .. n : q[k] = f + k
  BY DEF IsQueue
<1> HIDE DEF r, n
<1>3. r[z] = 0 /\ \A k \in 1 .. n + 1 : k < z => r[k] = f + k
  BY <1>1, <1>2, SMTT(30)
<1>4. IsQueue(r, e, f, z)
  BY <1>1, <1>2, <1>3 DEF IsQueue
<1> QED
  BY <1>4, Zenon DEF r

LEMMA QueueTake ==
    ASSUME NEW q, NEW e, NEW f, NEW z, IsQueue(q, e, f, z), q # <<>>, Head(q) # Sentinel
    PROVE  Head(q) = f + 1 /\ z > 1 /\ IsQueue(Tail(q), e, f + 1, z - 1)
<1> DEFINE r == Tail(q)
<1>1. /\ r \in Seq(Nat) /\ Len(r) = Len(q) - 1 /\ Len(q) \in Nat /\ Len(q) >= 1 /\ Head(q) = q[1]
      /\ \A k \in 1 .. Len(r) : r[k] = q[k + 1]
  BY DEF IsQueue
<1>2. z > 1 /\ q[1] = f + 1
  BY <1>1 DEF IsQueue, Sentinel
<1> HIDE DEF r
<1>3. \A k \in 1 .. Len(r) : k < z - 1 => r[k] = f + 1 + k
  BY <1>1, <1>2, SMTT(30) DEF IsQueue
<1>4. \A k \in 1 .. Len(r) : k > z - 1 => r[k] = f + 1 + k - 1
  BY <1>1, <1>2, SMTT(30) DEF IsQueue
<1>5. IsQueue(r, e, f + 1, z - 1)
  <2>1. z - 1 <= Len(r) => r[z - 1] = 0 /\ e + 1 = f + 1 + Len(r)
    <3> SUFFICES ASSUME z - 1 <= Len(r) PROVE r[z - 1] = 0 /\ e + 1 = f + 1 + Len(r)
      BY Zenon
    <3>1. z \in Nat /\ f \in Nat /\ e \in Nat /\ z <= Len(q) /\ q[z] = 0 /\ e + 1 = f + Len(q)
      BY <1>1, <1>2 DEF IsQueue
    <3>2. z - 1 \in 1 .. Len(r) /\ z - 1 + 1 = z
      BY <1>1, <1>2, <3>1
    <3>3. r[z - 1] = q[z]
      BY <1>1, <3>2, Zenon
    <3>4. e + 1 = f + 1 + Len(r)
      BY <1>1, <3>1
    <3> QED
      BY <3>1, <3>3, <3>4, Zenon
  <2>2. z - 1 = Len(r) + 1 => e = f + 1 + Len(r)
    BY <1>1, <1>2 DEF IsQueue
  <2>3. e \in Nat /\ f + 1 \in Nat /\ z - 1 \in 1 .. Len(r) + 1
    BY <1>1, <1>2 DEF IsQueue
  <2> QED
    BY <1>1, <1>3, <1>4, <2>1, <2>2, <2>3, Zenon DEF IsQueue
<1> QED
  BY <1>1, <1>2, <1>5, Zenon DEF r

LEMMA QueueStop ==
    ASSUME NEW q, NEW e, NEW f, NEW z, IsQueue(q, e, f, z), q # <<>>, Head(q) = Sentinel
    PROVE  z = 1 /\ IsQueue(Tail(q), e, f, Len(Tail(q)) + 1)
<1> DEFINE r == Tail(q)
<1>1. /\ r \in Seq(Nat) /\ Len(r) = Len(q) - 1 /\ Len(q) \in Nat /\ Len(q) >= 1 /\ Head(q) = q[1]
      /\ \A k \in 1 .. Len(r) : r[k] = q[k + 1]
  BY DEF IsQueue
<1>2. z = 1
  BY <1>1 DEF IsQueue, Sentinel
<1> HIDE DEF r
<1>3. \A k \in 1 .. Len(r) : r[k] = f + k
  <2> TAKE k \in 1 .. Len(r)
  <2>1. k + 1 \in 1 .. Len(q) /\ k + 1 > 1 /\ r[k] = q[k + 1] /\ k \in Nat
    BY <1>1
  <2>2. f \in Nat /\ q[k + 1] = f + (k + 1) - 1
    BY <1>2, <2>1, Zenon DEF IsQueue
  <2> QED
    BY <2>1, <2>2
<1>4. e = f + Len(r) /\ e \in Nat /\ f \in Nat
  BY <1>1, <1>2 DEF IsQueue
<1>5. IsQueue(r, e, f, Len(r) + 1)
  BY <1>1, <1>3, <1>4 DEF IsQueue
<1> QED
  BY <1>2, <1>5, Zenon DEF r

-----------------------------------------------------------------------------
LEMMA LogTake ==
    ASSUME NEW lg, NEW b, NEW f, NEW gap, IsLog(lg, b, f, gap)
    PROVE  IsLog(lg, Append(b, f + 1), f + 1, gap)
<1> DEFINE c == Append(b, f + 1)  n == Len(b)
<1>1. /\ c \in Seq(Nat) /\ n \in Nat /\ Len(c) = n + 1
      /\ \A k \in 1 .. n + 1 : (k \in 1 .. n /\ c[k] = b[k]) \/ (k = n + 1 /\ c[k] = f + 1)
  BY Appended DEF IsLog
<1>2. f \in Nat /\ n <= f /\ \A k \in 1 .. n : b[k] = f - n + k
  BY Zenon DEF IsLog
<1> HIDE DEF c
<1>3. f + 1 - (n + 1) = f - n /\ n + 1 <= f + 1
  BY <1>1, <1>2
<1>4. \A k \in 1 .. n + 1 : c[k] = f - n + k
  <2> HIDE DEF n
  <2> QED
    BY <1>1, <1>2, SMTT(30)
<1>5. IsLog(lg, c, f + 1, gap)
  BY <1>1, <1>2, <1>3, <1>4 DEF IsLog
<1> QED
  BY <1>5, Zenon DEF c

LEMMA LogWrite ==
    ASSUME NEW lg, NEW b, NEW f, NEW gap, IsLog(lg, b, f, gap)
    PROVE  IsLog(lg \o b, <<>>, f, gap)
<1> DEFINE r == lg \o b  m == Len(lg)  n == Len(b)
<1>1. /\ r \in Seq(Nat) /\ m \in Nat /\ n \in Nat /\ Len(r) = m + n
      /\ \A k \in 1 .. m + n : (k \in 1 .. m /\ r[k] = lg[k]) \/ (k - m \in 1 .. n /\ r[k] = b[k - m])
  <2>1. lg \in Seq(Nat) /\ b \in Seq(Nat)
    BY Zenon DEF IsLog
  <2> QED
    BY <2>1, Joined, Zenon
<1>2. /\ f \in Nat /\ n <= f
      /\ \A k \in 1 .. n : b[k] = f - n + k
      /\ \A k \in 1 .. m : lg[k] \in 1 .. f - n
      /\ \A j, k \in 1 .. m : j < k => lg[j] < lg[k]
      /\ ~gap => m = f - n /\ \A k \in 1 .. m : lg[k] = k
  BY Zenon DEF IsLog
<1> HIDE DEF r, m, n
<1>3. \A k \in 1 .. m + n :
         \/ k \in 1 .. m /\ r[k] = lg[k] /\ r[k] \in 1 .. f - n
         \/ k > m /\ r[k] = f - n + (k - m)
  <2> TAKE k \in 1 .. m + n
  <2>1. CASE k \in 1 .. m /\ r[k] = lg[k]
    BY <1>2, <2>1, Zenon
  <2>2. CASE k - m \in 1 .. n /\ r[k] = b[k - m]
    BY <1>1, <1>2, <2>2
  <2> QED
    BY <1>1, <2>1, <2>2, Zenon
<1>4. \A k \in 1 .. m + n : r[k] \in 1 .. f
  <2> TAKE k \in 1 .. m + n
  <2>1. CASE k \in 1 .. m /\ r[k] \in 1 .. f - n
    BY <1>1, <1>2, <2>1
  <2>2. CASE k > m /\ r[k] = f - n + (k - m)
    BY <1>1, <1>2, <2>2
  <2> QED
    BY <1>3, <2>1, <2>2, Zenon
<1>5. \A j, k \in 1 .. m + n : j < k => r[j] < r[k]
  <2> TAKE j, k \in 1 .. m + n
  <2>1. ASSUME k \in 1 .. m, j < k PROVE r[j] < r[k]
    <3>1. j \in 1 .. m
      BY <1>1, <2>1
    <3>2. r[j] = lg[j] /\ r[k] = lg[k]
      BY <1>1, <1>3, <2>1, <3>1
    <3> QED
      BY <1>2, <2>1, <3>1, <3>2, Zenon
  <2>2. CASE k > m /\ j \in 1 .. m
    BY <1>1, <1>2, <1>3, <2>2
  <2>3. CASE k > m /\ j > m
    BY <1>1, <1>2, <1>3, <2>3
  <2> QED
    BY <1>1, <2>1, <2>2, <2>3
<1>6. ~gap => m + n = f /\ \A k \in 1 .. m + n : r[k] = k
  <2> SUFFICES ASSUME ~gap PROVE m + n = f /\ \A k \in 1 .. m + n : r[k] = k
    BY Zenon
  <2>1. m = f - n /\ m + n = f
    BY <1>1, <1>2
  <2>2. \A k \in 1 .. m + n : r[k] = k
    BY <1>1, <1>2, <1>3, <2>1, SMTT(30)
  <2> QED
    BY <2>1, <2>2, Zenon
<1>7. IsLog(r, <<>>, f, gap)
  BY <1>1, <1>2, <1>4, <1>5, <1>6 DEF IsLog
<1> QED
  BY <1>7, Zenon DEF r

LEMMA LogLose ==
    ASSUME NEW lg, NEW b, NEW f, NEW gap, IsLog(lg, b, f, gap)
    PROVE  IsLog(lg, <<>>, f, TRUE)
BY DEF IsLog

\* What flush() takes is a batch.
LEMMA FlushTakes ==
    ASSUME NEW f, NEW z, NEW gap, IsQueue(lines, emitted, f, z), IsLog(log, <<>>, f, gap)
    PROVE  /\ Len(Unsent) = z - 1
           /\ IsLog(log, Unsent, f + z - 1, gap)
           /\ IsQueue(SubSeq(lines, z, Len(lines)), emitted, f + z - 1, 1)
<1> DEFINE stops == {k \in DOMAIN lines : lines[k] = Sentinel} \cup {Len(lines) + 1}
           r == SubSeq(lines, z, Len(lines))
<1>1. /\ Len(lines) \in Nat /\ DOMAIN lines = 1 .. Len(lines) /\ z \in 1 .. Len(lines) + 1
      /\ f \in Nat
  BY DEF IsQueue
<1>2. z \in stops /\ \A m \in stops : z <= m
  BY <1>1 DEF IsQueue, Sentinel
<1>3. (CHOOSE k \in stops : \A m \in stops : k <= m) = z
  <2>1. stops \subseteq Nat
    BY <1>1
  <2> HIDE DEF stops
  <2>2. \A k \in stops : (\A m \in stops : k <= m) => k = z
    BY <1>2, <2>1
  <2> QED
    BY <1>2, <2>2, Zenon
<1>4. Unsent = SubSeq(lines, 1, z - 1)
  BY <1>3, Zenon DEF Unsent
<1>5. Unsent \in Seq(Nat) /\ Len(Unsent) = z - 1 /\ \A k \in 1 .. z - 1 : Unsent[k] = f + k
  <2>1. lines \in Seq(Nat) /\ \A k \in 1 .. Len(lines) : lines[k] \in Nat
    BY <1>1 DEF IsQueue
  <2>2. 1 \in Nat /\ z - 1 \in Nat /\ z - 1 <= Len(lines) /\ (z - 1) - 1 + 1 = z - 1
    BY <1>1
  <2>3. /\ Unsent \in Seq(Nat) /\ Len(Unsent) = z - 1
        /\ \A k \in 1 .. z - 1 : Unsent[k] = lines[k]
    BY <1>1, <1>4, <2>1, <2>2
  <2>4. \A k \in 1 .. z - 1 : k \in 1 .. Len(lines) /\ k < z
    BY <1>1
  <2>5. \A k \in 1 .. z - 1 : lines[k] = f + k
    BY <2>4, Zenon DEF IsQueue
  <2> QED
    BY <2>3, <2>5, Zenon
<1>6. IsLog(log, Unsent, f + z - 1, gap)
  BY <1>1, <1>5 DEF IsLog
<1>7. /\ r \in Seq(Nat) /\ Len(r) = Len(lines) + 1 - z
      /\ \A k \in 1 .. Len(r) : r[k] = lines[z + k - 1]
  BY <1>1 DEF IsQueue
<1> HIDE DEF r
<1>8. IsQueue(r, emitted, f + z - 1, 1)
  <2>1. CASE z = Len(lines) + 1
    <3>1. Len(r) = 0 /\ emitted = f + z - 1
      BY <1>1, <1>7, <2>1 DEF IsQueue
    <3> QED
      BY <1>1, <1>7, <3>1 DEF IsQueue
  <2>2. CASE z <= Len(lines)
    <3>1. /\ emitted \in Nat /\ emitted + 1 = f + Len(lines) /\ lines[z] = 0
          /\ \A k \in 1 .. Len(lines) : k > z => lines[k] = f + k - 1
      BY <1>1, <2>2, Zenon DEF IsQueue
    <3>2. 1 <= Len(r) /\ Len(r) \in Nat /\ r[1] = 0 /\ emitted + 1 = f + z - 1 + Len(r)
      <4>1. Len(r) \in Nat /\ 1 \in 1 .. Len(r) /\ z + 1 - 1 = z
        BY <1>1, <1>7, <2>2
      <4>2. r[1] = lines[z]
        BY <1>7, <4>1, Zenon
      <4>3. emitted + 1 = f + z - 1 + Len(r)
        <5>1. Len(r) = Len(lines) + 1 - z
          BY <1>7, Zenon
        <5> QED
          BY <1>1, <3>1, <4>1, <5>1
      <4> QED
        BY <3>1, <4>1, <4>2, <4>3
    <3>3. \A k \in 1 .. Len(r) : k > 1 => r[k] = f + z - 1 + k - 1
      <4> SUFFICES ASSUME NEW k \in 1 .. Len(r), k > 1 PROVE r[k] = f + z - 1 + k - 1
        BY Zenon
      <4>1. Len(r) = Len(lines) + 1 - z /\ r[k] = lines[z + k - 1]
        BY <1>7, Zenon
      <4>2. z + k - 1 \in 1 .. Len(lines) /\ z + k - 1 > z /\ z \in Nat /\ k \in Nat
        BY <1>1, <3>2, <4>1
      <4>3. lines[z + k - 1] = f + (z + k - 1) - 1
        BY <3>1, <4>2, Zenon
      <4> QED
        BY <1>1, <4>1, <4>2, <4>3
    <3>4. f + z - 1 \in Nat /\ 1 \in 1 .. Len(r) + 1 /\ 1 # Len(r) + 1
      BY <1>1, <3>2
    <3> QED
      BY <1>7, <3>1, <3>2, <3>3, <3>4 DEF IsQueue
  <2> QED
    BY <1>1, <2>1, <2>2
<1> QED
  BY <1>5, <1>6, <1>8, Zenon DEF r
-----------------------------------------------------------------------------
\* Who is where: close() waits for a task that runs, and a task that has ended
\* before close() or made it raise has met trouble.
Flow ==
    /\ drain \in {"none", "run", "ended", "late"}
    /\ closing \in {"no", "wait", "flush", "fail", "closed", "raised"}
    /\ drain = "none" => emitted = 0 /\ closing \in {"no", "closed"}
    /\ drain # "run" => collected = <<>>
    /\ drain = "run" => closing \in {"no", "wait"}
    /\ closing = "wait" => drain = "run"
    /\ closing = "no" => drain # "late"
    /\ drain = "ended" /\ closing = "no" => spoiled
    /\ closing \in {"fail", "raised"} => spoiled

Shape(f, z) ==
    /\ IsQueue(lines, emitted, f, z)
    /\ IsLog(log, collected, f, spoiled)
    /\ closing = "no" \/ (closing = "flush" /\ ~spoiled) => z = Len(lines) + 1
    /\ closing = "closed" /\ ~spoiled => f = emitted

AuditInv == spoiled \in BOOLEAN /\ Flow /\ \E f, z \in Nat : Shape(f, z)

LEMMA AuditInitially == ASSUME NEW trouble PROVE AuditInit(trouble) => AuditInv
<1> SUFFICES ASSUME AuditInit(trouble) PROVE AuditInv
  BY Zenon
<1>1. /\ lines = <<>> /\ emitted = 0 /\ log = <<>> /\ collected = <<>> /\ closing = "no"
      /\ Len(lines) = 0
  BY Zenon DEF AuditInit
<1>2. IsQueue(lines, emitted, 0, 1)
  BY <1>1 DEF IsQueue
<1>3. IsLog(log, collected, 0, spoiled)
  <2>1. log \in Seq(Nat) /\ collected \in Seq(Nat) /\ Len(log) = 0 /\ Len(collected) = 0
    BY <1>1
  <2> QED
    BY <2>1 DEF IsLog
<1>4. Shape(0, 1)
  BY <1>1, <1>2, <1>3 DEF Shape
<1> QED
  BY <1>4, Zenon DEF AuditInit, AuditInv, Flow

LEMMA EmitKeeps == AuditInv /\ Emit => AuditInv'
<1> SUFFICES ASSUME AuditInv, Emit PROVE AuditInv'
  BY Zenon
<1>1. PICK f \in Nat, z \in Nat : Shape(f, z)
  BY Zenon DEF AuditInv
<1>2. /\ emitted' = emitted + 1 /\ lines' = Append(lines, emitted + 1)
      /\ UNCHANGED <<collected, log, closing, spoiled>> /\ closing \notin {"closed", "raised"}
  BY Zenon DEF Emit
<1>3. PICK y \in Nat : /\ IsQueue(lines', emitted', f, y)
                       /\ z = Len(lines) + 1 => y = Len(lines') + 1
  <2>1. IsQueue(lines, emitted, f, z)
    BY <1>1, Zenon DEF Shape
  <2> DEFINE w == IF z = Len(lines) + 1 THEN z + 1 ELSE z
  <2>2. IsQueue(lines', emitted', f, w)
    BY <1>2, <2>1, QueuePut, Zenon
  <2>3. Len(lines') = Len(lines) + 1 /\ Len(lines) \in Nat
    BY <1>2, <2>1, Appended DEF IsQueue
  <2>4. w \in Nat /\ (z = Len(lines) + 1 => w = Len(lines') + 1)
    BY <2>3
  <2> HIDE DEF w
  <2> QED
    BY <2>2, <2>4, Zenon
<1>4. Shape(f, y)'
  BY <1>1, <1>2, <1>3, Zenon DEF Shape
<1>5. emitted \in Nat /\ emitted + 1 # 0
  BY <1>1 DEF Shape, IsQueue
<1>6. Flow'
  BY <1>2, <1>5 DEF AuditInv, Flow, Emit
<1> QED
  BY <1>2, <1>3, <1>4, <1>6, Zenon DEF AuditInv

LEMMA BatchKeeps ==
    ASSUME AuditInv, drain = "run", NEW f \in Nat, NEW z \in Nat, NEW entries,
           IsQueue(lines', emitted, f, z), IsLog(log, entries, f, spoiled),
           closing = "no" => z = Len(lines') + 1,
           BatchDone(entries), UNCHANGED emitted
    PROVE  AuditInv'
<1>1. closing \in {"no", "wait"} /\ spoiled \in BOOLEAN
  BY Zenon DEF AuditInv, Flow
<1>2. CASE WriteBatch(entries) /\ UNCHANGED <<drain, closing>>
  <2>1. IsLog(log', collected', f, spoiled') /\ spoiled' = spoiled /\ collected' = <<>>
    BY <1>2, LogWrite, Zenon DEF BatchDone, WriteBatch
  <2>2. Shape(f, z)'
    BY <1>1, <1>2, <2>1, Zenon DEF Shape
  <2> QED
    BY <1>2, <2>1, <2>2, Zenon DEF AuditInv, Flow
<1>3. CASE WriteFails(entries) /\ TaskEnds("fail")
  <2>1. IsLog(log', collected', f, spoiled') /\ spoiled' = TRUE /\ collected' = <<>>
    BY <1>3, LogLose, Zenon DEF BatchDone, WriteFails
  <2>2. drain' = "ended" /\ closing' = IF closing = "wait" THEN "fail" ELSE closing
    BY <1>3, Zenon DEF TaskEnds
  <2>3. Shape(f, z)'
    BY <1>1, <2>1, <2>2, Zenon DEF Shape
  <2> QED
    BY <1>1, <2>1, <2>2, <2>3, Zenon DEF AuditInv, Flow
<1> QED
  BY <1>2, <1>3, Zenon DEF BatchDone

LEMMA ItemKeeps == AuditInv /\ DrainItem => AuditInv'
<1> SUFFICES ASSUME AuditInv, DrainItem PROVE AuditInv'
  OBVIOUS
<1>1. PICK f \in Nat, z \in Nat : Shape(f, z)
  BY DEF AuditInv
<1>2. /\ drain = "run" /\ lines # <<>> /\ Head(lines) # Sentinel
      /\ lines' = Tail(lines) /\ UNCHANGED emitted
  BY Zenon DEF DrainItem
<1>3. IsQueue(lines, emitted, f, z) /\ IsLog(log, collected, f, spoiled)
  BY <1>1, Zenon DEF Shape
<1>4. Head(lines) = f + 1 /\ z > 1 /\ IsQueue(lines', emitted, f + 1, z - 1)
  BY <1>2, <1>3, QueueTake, Zenon
<1> DEFINE b == Append(collected, Head(lines))
<1>5. IsLog(log, b, f + 1, spoiled)
  BY <1>3, <1>4, LogTake, Zenon
<1>6. closing = "no" => z - 1 = Len(lines') + 1
  <2>1. Len(lines') = Len(lines) - 1 /\ Len(lines) \in Nat
    BY <1>2, <1>3 DEF IsQueue
  <2> QED
    BY <1>1, <2>1 DEF Shape
<1>7. f + 1 \in Nat /\ z - 1 \in Nat
  BY <1>4
<1>8. CASE BatchDone(b)
  <2> HIDE DEF b
  <2> QED
    BY <1>2, <1>4, <1>5, <1>6, <1>7, <1>8, BatchKeeps, Zenon
<1>9. CASE collected' = b /\ UNCHANGED <<drain, log, closing, spoiled>>
  <2>1. closing \in {"no", "wait"}
    BY <1>2, Zenon DEF AuditInv, Flow
  <2>2. IsLog(log', collected', f + 1, spoiled')
    BY <1>5, <1>9, Zenon
  <2>3. Shape(f + 1, z - 1)'
    BY <1>2, <1>4, <1>6, <1>9, <2>1, <2>2, Zenon DEF Shape
  <2> QED
    BY <1>2, <1>7, <1>9, <2>1, <2>3, Zenon DEF AuditInv, Flow
<1> QED
  BY <1>8, <1>9, Zenon DEF DrainItem

LEMMA TimeoutKeeps == AuditInv /\ DrainTimeout => AuditInv'
<1> SUFFICES ASSUME AuditInv, DrainTimeout PROVE AuditInv'
  OBVIOUS
<1>1. PICK f \in Nat, z \in Nat : Shape(f, z)
  BY DEF AuditInv
<1>2. drain = "run" /\ BatchDone(collected) /\ UNCHANGED <<emitted, lines>>
  BY Zenon DEF DrainTimeout
<1>3. /\ IsQueue(lines', emitted, f, z) /\ IsLog(log, collected, f, spoiled)
      /\ closing = "no" => z = Len(lines') + 1
  BY <1>1, <1>2, Zenon DEF Shape
<1> QED
  BY <1>2, <1>3, BatchKeeps, Zenon

LEMMA SentinelKeeps == AuditInv /\ DrainSentinel => AuditInv'
<1> SUFFICES ASSUME AuditInv, DrainSentinel PROVE AuditInv'
  OBVIOUS
<1>1. PICK f \in Nat, z \in Nat : Shape(f, z)
  BY DEF AuditInv
<1>2. /\ drain = "run" /\ lines # <<>> /\ Head(lines) = Sentinel
      /\ lines' = Tail(lines) /\ collected' = <<>> /\ UNCHANGED emitted
  BY Zenon DEF DrainSentinel
<1>3. IsQueue(lines, emitted, f, z) /\ IsLog(log, collected, f, spoiled)
  BY <1>1 DEF Shape
<1>4. z = 1 /\ IsQueue(lines', emitted, f, Len(lines') + 1) /\ Len(lines') + 1 \in Nat
  <2>1. z = 1 /\ IsQueue(lines', emitted, f, Len(lines') + 1)
    BY <1>2, <1>3, QueueStop
  <2> QED
    BY <2>1 DEF IsQueue
<1>5. closing = "wait" /\ spoiled \in BOOLEAN
  <2>1. Len(lines) >= 1 /\ Len(lines) \in Nat
    BY <1>2, <1>3, SMTT(30) DEF IsQueue
  <2>2. closing # "no"
    BY <1>1, <1>4, <2>1 DEF Shape
  <2> QED
    BY <1>2, <2>2, Zenon DEF AuditInv, Flow
<1>6. PICK y \in Nat : y = Len(lines') + 1
  BY <1>4, Zenon
<1>7. CASE WriteBatch(collected) /\ TaskEnds("flush")
  <2>1. IsLog(log', collected', f, spoiled') /\ spoiled' = spoiled
    BY <1>2, <1>3, <1>7, LogWrite, Zenon DEF WriteBatch
  <2>2. drain' = "ended" /\ closing' = "flush"
    BY <1>5, <1>7, Zenon DEF TaskEnds
  <2>3. Shape(f, y)'
    BY <1>2, <1>4, <1>6, <2>1, <2>2, Zenon DEF Shape
  <2> QED
    BY <1>2, <1>5, <2>1, <2>2, <2>3, Zenon DEF AuditInv, Flow
<1>8. CASE WriteFails(collected) /\ TaskEnds("fail")
  <2>1. IsLog(log', collected', f, spoiled') /\ spoiled' = TRUE
    BY <1>2, <1>3, <1>8, LogLose, Zenon DEF WriteFails
  <2>2. drain' = "ended" /\ closing' = "fail"
    BY <1>5, <1>8, Zenon DEF TaskEnds
  <2>3. Shape(f, y)'
    BY <1>2, <1>4, <1>6, <2>1, <2>2, Zenon DEF Shape
  <2> QED
    BY <1>2, <2>1, <2>2, <2>3, Zenon DEF AuditInv, Flow
<1> QED
  BY <1>7, <1>8, Zenon DEF DrainSentinel

LEMMA CloseKeeps == AuditInv /\ CloseBegins => AuditInv'
<1> SUFFICES ASSUME AuditInv, CloseBegins PROVE AuditInv'
  OBVIOUS
<1>1. PICK f \in Nat, z \in Nat : Shape(f, z)
  BY DEF AuditInv
<1>2. /\ closing = "no" /\ lines' = Append(lines, Sentinel)
      /\ UNCHANGED <<emitted, drain, collected, log, spoiled>>
  BY Zenon DEF CloseBegins
<1>3. /\ IsQueue(lines, emitted, f, z) /\ IsLog(log, collected, f, spoiled)
      /\ z = Len(lines) + 1
  BY <1>1, <1>2, Zenon DEF Shape
<1>4. IsQueue(lines', emitted', f, z)
  BY <1>2, <1>3, QueueSentinel, Zenon
<1>5. \/ drain = "none" /\ closing' = "closed"
      \/ drain = "run" /\ closing' = "wait"
      \/ drain = "ended" /\ closing' = "raised" /\ spoiled
  BY <1>2, Zenon DEF CloseBegins, AuditInv, Flow
<1>6. drain = "none" => f = emitted
  BY <1>3 DEF AuditInv, Flow, IsQueue
<1>7. Shape(f, z)'
  BY <1>2, <1>3, <1>4, <1>5, <1>6, Zenon DEF Shape
<1> QED
  BY <1>2, <1>5, <1>7, Zenon DEF AuditInv, Flow

LEMMA FlushKeeps == AuditInv /\ CloseFlushes => AuditInv'
<1> SUFFICES ASSUME AuditInv, CloseFlushes PROVE AuditInv'
  OBVIOUS
<1>1. PICK f \in Nat, z \in Nat : Shape(f, z)
  BY DEF AuditInv
<1>2. /\ closing = "flush" /\ UNCHANGED <<emitted, drain, collected>>
      /\ lines' = SubSeq(lines, Len(Unsent) + 1, Len(lines))
  BY Zenon DEF CloseFlushes
<1>3. drain # "run" /\ drain # "none" /\ collected = <<>> /\ spoiled \in BOOLEAN
  BY <1>2, Zenon DEF AuditInv, Flow
<1>4. /\ IsQueue(lines, emitted, f, z) /\ IsLog(log, <<>>, f, spoiled)
      /\ ~spoiled => z = Len(lines) + 1
  BY <1>1, <1>2, <1>3, Zenon DEF Shape
<1>5. /\ Len(Unsent) = z - 1 /\ IsLog(log, Unsent, f + z - 1, spoiled)
      /\ IsQueue(SubSeq(lines, z, Len(lines)), emitted, f + z - 1, 1)
  BY <1>4, FlushTakes, Zenon
<1>6. IsQueue(lines', emitted', f + z - 1, 1)
  <2>1. Len(Unsent) + 1 = z
    BY <1>5
  <2> QED
    BY <1>2, <1>5, <2>1, Zenon
<1>7. f + z - 1 \in Nat /\ (~spoiled => f + z - 1 = emitted)
  BY <1>4 DEF IsQueue
<1>8. CASE WriteBatch(Unsent) /\ closing' = "closed"
  <2>1. IsLog(log', collected', f + z - 1, spoiled') /\ spoiled' = spoiled
    BY <1>2, <1>3, <1>5, <1>8, LogWrite, Zenon DEF WriteBatch
  <2>2. Shape(f + z - 1, 1)'
    BY <1>2, <1>6, <1>7, <1>8, <2>1, Zenon DEF Shape
  <2> QED
    BY <1>2, <1>3, <1>7, <1>8, <2>1, <2>2, Zenon DEF AuditInv, Flow
<1>9. CASE WriteFails(Unsent) /\ closing' = "raised"
  <2>1. IsLog(log', collected', f + z - 1, spoiled') /\ spoiled' = TRUE
    BY <1>2, <1>3, <1>5, <1>9, LogLose, Zenon DEF WriteFails
  <2>2. Shape(f + z - 1, 1)'
    BY <1>2, <1>6, <1>9, <2>1, Zenon DEF Shape
  <2> QED
    BY <1>2, <1>3, <1>7, <1>9, <2>1, <2>2, Zenon DEF AuditInv, Flow
<1> QED
  BY <1>8, <1>9, Zenon DEF CloseFlushes

LEMMA AbandonKeeps == AuditInv /\ CloseTimeout => AuditInv'
<1> SUFFICES ASSUME AuditInv, CloseTimeout PROVE AuditInv'
  OBVIOUS
<1>1. PICK f \in Nat, z \in Nat : Shape(f, z)
  BY DEF AuditInv
<1>2. /\ spoiled' = TRUE /\ drain' = "ended" /\ collected' = <<>> /\ closing' = "flush"
      /\ UNCHANGED <<emitted, lines, log>> /\ drain = "run"
  BY Zenon DEF CloseTimeout
<1>3. IsQueue(lines, emitted, f, z) /\ IsLog(log, collected, f, spoiled)
  BY <1>1 DEF Shape
<1>4. IsLog(log', collected', f, spoiled')
  BY <1>2, <1>3, LogLose, Zenon
<1>5. Shape(f, z)'
  BY <1>2, <1>3, <1>4, Zenon DEF Shape
<1> QED
  BY <1>2, <1>5, Zenon DEF AuditInv, Flow

LEMMA StillKeeps == AuditInv /\ (Sighup \/ CloseRaises \/ UNCHANGED auditVars) => AuditInv'
<1> SUFFICES ASSUME AuditInv, (Sighup \/ CloseRaises \/ UNCHANGED auditVars) PROVE AuditInv'
  BY Zenon
<1>1. PICK f \in Nat, z \in Nat : Shape(f, z)
  BY Zenon DEF AuditInv
<1>2. /\ UNCHANGED <<emitted, lines, drain, collected, log, spoiled>>
      /\ closing' = closing \/ (closing = "fail" /\ closing' = "raised")
  BY Zenon DEF Sighup, CloseRaises, auditVars
<1>3. Shape(f, z)'
  BY <1>1, <1>2, Zenon DEF Shape
<1> QED
  BY <1>2, <1>3, Zenon DEF AuditInv, Flow

\* However often the disk fails or stalls, no event is logged twice or out of
\* order; without trouble close() leaves every event in the file, and it raises
\* only after trouble (_drain_loop(), flush(), close()).
THEOREM LogExact ==
    ASSUME NEW trouble
    PROVE  AuditInit(trouble) /\ [][AuditNext]_auditVars => []AuditExact
<1>1. AuditInit(trouble) => AuditInv
  BY AuditInitially, Zenon
<1>2. AuditInv /\ [AuditNext]_auditVars => AuditInv'
  BY EmitKeeps, ItemKeeps, TimeoutKeeps, SentinelKeeps, CloseKeeps, FlushKeeps, AbandonKeeps,
     StillKeeps, Zenon
     DEF AuditNext
<1>3. AuditInv => AuditExact
  <2> SUFFICES ASSUME AuditInv PROVE AuditExact
    BY Zenon
  <2>1. PICK f \in Nat, z \in Nat : Shape(f, z)
    BY Zenon DEF AuditInv
  <2>2. IsLog(log, collected, f, spoiled) /\ (closing = "closed" /\ ~spoiled => f = emitted)
    BY <2>1, Zenon DEF Shape
  <2>3. DOMAIN log = 1 .. Len(log)
    BY <2>2 DEF IsLog
  <2>4. ASSUME closing = "closed", ~spoiled PROVE log = [k \in 1 .. emitted |-> k]
    <3>1. collected = <<>> /\ f = emitted
      BY <2>2, <2>4, Zenon DEF AuditInv, Flow
    <3>2. Len(log) = emitted /\ (\A k \in 1 .. Len(log) : log[k] = k) /\ log \in Seq(Nat)
      BY <2>2, <2>4, <3>1 DEF IsLog
    <3> QED
      BY <3>2
  <2>5. closing = "raised" => spoiled
    BY Zenon DEF AuditInv, Flow
  <2> QED
    BY <2>2, <2>3, <2>4, <2>5, Zenon DEF AuditExact, IsLog
<1> QED
  BY <1>1, <1>2, <1>3, PTL

-----------------------------------------------------------------------------
(* Spans on their way to the exporters.                                    *)

\* Numbers that rise; numbers all of which are below others; no value twice.
Rising(s) == \A i, j \in DOMAIN s : i < j => s[i] < s[j]
Below(s, t) == \A x \in Range(s), y \in Range(t) : x < y
Distinct(s) == \A i, j \in DOMAIN s : i < j => s[i] # s[j]

\* Numbers of spans that ended.
Numbers(s) == s \in Seq(Nat) /\ \A x \in Range(s) : x \in 1 .. Len(ended)

\* The window of a span; a window that is too old to keep; a span that is in its
\* file, or was.
WindowAt(i) == WindowIndex(ended[i].at)
Gone(w) == w < WindowIndex(now) - Retention
Kept(i) == i \in rows[WindowAt(i)] \/ Gone(WindowAt(i))

Writing == {"schema", "insert", "commit"}
Storing == Writing \cup {"store"}
Idle == {"wait", "drain", "close", "done"}
Places == Storing \cup Idle \cup {"sweep", "second"}

TelTypes ==
    /\ scene \in Scenes /\ now \in 0 .. MaxNow
    /\ ended \in Seq(Range(ended)) /\ Len(ended) \in 0 .. MaxSpans
    /\ \A i \in 1 .. Len(ended) : ended[i].at \in 0 .. now
    /\ Numbers(shown) /\ Numbers(batch) /\ Numbers(pending) /\ Numbers(queue)
    /\ otel \in Places
    /\ DOMAIN rows = Windows /\ DOMAIN limbo = Windows
    /\ inserts \in [1 .. MaxSpans -> {0, 1}]
    /\ todo \in Seq(Windows)

\* The spans go through the task in the order in which they ended.
InLine ==
    /\ Rising(shown) /\ Rising(batch) /\ Rising(pending) /\ Rising(queue)
    /\ Below(shown, batch) /\ Below(shown, pending) /\ Below(shown, queue)
    /\ Below(batch, pending) /\ Below(batch, queue) /\ Below(pending, queue)
    /\ otel \in Idle => batch = <<>>

\* A span is inserted once: not before its batch is stored, and not while its
\* window is still to be written.
Untouched == Range(IF otel = "commit" THEN Tail(todo) ELSE todo)
InsertedOnce ==
    /\ \A i \in 1 .. MaxSpans :
          i > Len(ended) \/ i \in Range(pending) \/ i \in Range(queue) => inserts[i] = 0
    /\ otel \in Storing => Distinct(todo)
    /\ otel \in Writing => todo # <<>>
    /\ otel \in Storing =>
          \A x \in Range(batch) : WindowAt(x) \in Untouched => inserts[x] = 0

\* A span of the batch is in its file already, or will be: its window is still to
\* be written, or the export has failed.
BatchSafe ==
    /\ otel \in Storing => \A x \in Range(batch) : WindowAt(x) \in Range(todo) \/ Kept(x)
    /\ otel = "commit" =>
          \A x \in Range(batch) : WindowAt(x) = Head(todo) => x \in limbo[Head(todo)]
    /\ otel \in {"sweep", "second"} => \A x \in Range(batch) : x \in lost \/ Kept(x)
    /\ otel = "sweep" => \A w \in Range(todo) : Gone(w)

Accounted ==
    \A i \in 1 .. Len(ended) :
        \/ i \in Range(queue) \/ i \in Range(pending) \/ i \in Range(batch)
        \/ i \in dropped \/ i \in lost
        \/ i \in Range(shown) /\ Kept(i)

TelInv == TelTypes /\ InLine /\ InsertedOnce /\ BatchSafe /\ Accounted

\* Lists, and the rest of a list.
LEMMA ListIn == ASSUME NEW S, NEW n \in Nat, NEW q \in [1 .. n -> S] PROVE q \in Seq(S)
OBVIOUS

LEMMA Wider == ASSUME NEW S, NEW T, S \subseteq T, NEW s \in Seq(S) PROVE s \in Seq(T)
OBVIOUS

LEMMA Rest ==
    ASSUME NEW s \in Seq(Nat), NEW n \in 0 .. Len(s)
    PROVE  Len(SubSeq(s, n + 1, Len(s))) = Len(s) - n
<1>1. CASE n = Len(s)
  BY <1>1
<1>2. CASE n < Len(s)
  <2>1. n + 1 <= Len(s) /\ n + 1 \in Nat /\ Len(s) \in Nat
    BY <1>2
  <2>2. Len(SubSeq(s, n + 1, Len(s))) = Len(s) - (n + 1) + 1
    BY <2>1
  <2> QED
    BY <2>1, <2>2
<1> QED
  BY <1>1, <1>2

\* What the operations on sequences do to their elements.
LEMMA AppendedAny ==
    ASSUME NEW S, NEW s \in Seq(S), NEW n \in S
    PROVE  /\ Append(s, n) \in Seq(S)
           /\ Range(Append(s, n)) = Range(s) \cup {n}
           /\ (\A x \in Range(s) : x < n) /\ Rising(s) => Rising(Append(s, n))
<1>1. /\ Append(s, n) \in Seq(S) /\ Len(Append(s, n)) = Len(s) + 1
      /\ \A i \in 1 .. Len(s) : Append(s, n)[i] = s[i]
      /\ Append(s, n)[Len(s) + 1] = n
      /\ DOMAIN s = 1 .. Len(s) /\ DOMAIN Append(s, n) = 1 .. Len(s) + 1
      /\ Len(s) \in Nat
  OBVIOUS
<1>2. \A i : i \in 1 .. Len(s) + 1 <=> i \in 1 .. Len(s) \/ i = Len(s) + 1
  BY <1>1, SMT
<1>3. Range(Append(s, n)) = Range(s) \cup {n}
  BY <1>1, <1>2, Zenon DEF Range
<1>4. ASSUME \A x \in Range(s) : x < n, Rising(s)
      PROVE  Rising(Append(s, n))
  <2>1. \A i \in 1 .. Len(s) : s[i] < n
    BY <1>4, <1>1, Zenon DEF Range
  <2>2. \A i, j \in 1 .. Len(s) : i < j => s[i] < s[j]
    BY <1>4, <1>1, Zenon DEF Rising
  <2>3. ASSUME NEW i \in 1 .. Len(s) + 1, NEW j \in 1 .. Len(s) + 1, i < j
        PROVE  Append(s, n)[i] < Append(s, n)[j]
    <3>1. i \in 1 .. Len(s)
      BY <2>3, <1>1, SMT
    <3>2. CASE j = Len(s) + 1
      BY <3>1, <3>2, <2>1, <1>1, Zenon
    <3>3. CASE j \in 1 .. Len(s)
      BY <3>1, <3>3, <2>2, <2>3, <1>1, Zenon
    <3> QED
      BY <3>2, <3>3, <1>2, Zenon
  <2> QED
    BY <2>3, <1>1, Zenon DEF Rising
<1> QED
  BY <1>1, <1>3, <1>4, Zenon

LEMMA AppendedNumber ==
    \A s \in Seq(Nat) : \A n \in Nat :
        /\ Append(s, n) \in Seq(Nat)
        /\ Range(Append(s, n)) = Range(s) \cup {n}
        /\ (\A x \in Range(s) : x < n) /\ Rising(s) => Rising(Append(s, n))
  BY AppendedAny, Zenon

LEMMA TailedSpans ==
    ASSUME NEW S, NEW s \in Seq(S), s # <<>>
    PROVE  /\ Tail(s) \in Seq(S) /\ Head(s) \in S
           /\ Range(s) = Range(Tail(s)) \cup {Head(s)}
           /\ Rising(s) => Rising(Tail(s)) /\ \A y \in Range(Tail(s)) : Head(s) < y
           /\ Distinct(s) => Distinct(Tail(s)) /\ Head(s) \notin Range(Tail(s))
<1>1. /\ Tail(s) \in Seq(S) /\ Head(s) \in S /\ Head(s) = s[1]
      /\ Len(s) \in Nat \ {0} /\ Len(Tail(s)) = Len(s) - 1
      /\ DOMAIN s = 1 .. Len(s) /\ DOMAIN Tail(s) = 1 .. Len(s) - 1
      /\ \A i \in 1 .. Len(s) - 1 : Tail(s)[i] = s[i + 1]
  OBVIOUS
<1>2. /\ 1 \in 1 .. Len(s)
      /\ \A i \in 1 .. Len(s) - 1 : i + 1 \in 1 .. Len(s) /\ 1 < i + 1
      /\ \A i \in 1 .. Len(s) : i = 1 \/ (i - 1 \in 1 .. Len(s) - 1 /\ (i - 1) + 1 = i)
      /\ \A i, j \in 1 .. Len(s) - 1 : i < j => i + 1 < j + 1
  BY <1>1, SMT
<1>3. Range(s) = Range(Tail(s)) \cup {Head(s)}
  <2>1. ASSUME NEW x \in Range(s) PROVE x \in Range(Tail(s)) \cup {Head(s)}
    <3>1. PICK i \in 1 .. Len(s) : s[i] = x
      BY <1>1, Zenon DEF Range
    <3>2. CASE i = 1
      BY <3>1, <3>2, <1>1, Zenon
    <3>3. CASE i - 1 \in 1 .. Len(s) - 1 /\ (i - 1) + 1 = i
      <4>1. Tail(s)[i - 1] = x
        BY <3>1, <3>3, <1>1, SMT
      <4> QED
        BY <4>1, <3>3, <1>1, Zenon DEF Range
    <3> QED
      BY <3>2, <3>3, <1>2, Zenon
  <2>2. ASSUME NEW x \in Range(Tail(s)) PROVE x \in Range(s)
    <3>1. PICK i \in 1 .. Len(s) - 1 : Tail(s)[i] = x
      BY <1>1, Zenon DEF Range
    <3>2. i + 1 \in 1 .. Len(s) /\ s[i + 1] = x
      BY <3>1, <1>1, <1>2, SMT
    <3> QED
      BY <3>2, <1>1, Zenon DEF Range
  <2>3. Head(s) \in Range(s)
    BY <1>1, <1>2, Zenon DEF Range
  <2> QED
    BY <2>1, <2>2, <2>3, Zenon
<1>4. ASSUME Rising(s) PROVE Rising(Tail(s)) /\ \A y \in Range(Tail(s)) : Head(s) < y
  <2>1. Rising(Tail(s))
    BY <1>4, <1>1, <1>2, SMT DEF Rising
  <2>2. \A i \in 1 .. Len(s) - 1 : s[1] < s[i + 1]
    BY <1>4, <1>1, <1>2, Zenon DEF Rising
  <2> QED
    BY <2>1, <2>2, <1>1, Zenon DEF Range
<1>5. ASSUME Distinct(s) PROVE Distinct(Tail(s)) /\ Head(s) \notin Range(Tail(s))
  <2>1. Distinct(Tail(s))
    BY <1>5, <1>1, <1>2, SMT DEF Distinct
  <2>2. \A i \in 1 .. Len(s) - 1 : s[1] # s[i + 1]
    BY <1>5, <1>1, <1>2, Zenon DEF Distinct
  <2> QED
    BY <2>1, <2>2, <1>1, Zenon DEF Range
<1> QED
  BY <1>1, <1>3, <1>4, <1>5, Zenon

LEMMA JoinedSpans ==
    ASSUME NEW s \in Seq(Nat), NEW t \in Seq(Nat)
    PROVE  /\ s \o t \in Seq(Nat)
           /\ Range(s \o t) = Range(s) \cup Range(t)
           /\ Rising(s) /\ Rising(t) /\ Below(s, t) => Rising(s \o t)
<1> DEFINE u == s \o t
<1>1. /\ u \in Seq(Nat) /\ Len(s) \in Nat /\ Len(t) \in Nat
      /\ DOMAIN s = 1 .. Len(s) /\ DOMAIN t = 1 .. Len(t)
      /\ DOMAIN u = 1 .. Len(s) + Len(t)
      /\ \A i \in 1 .. Len(s) : u[i] = s[i]
      /\ \A i \in 1 .. Len(s) + Len(t) : i > Len(s) => u[i] = t[i - Len(s)]
  OBVIOUS
<1> HIDE DEF u
<1>2. \A i \in 1 .. Len(t) : u[Len(s) + i] = t[i] /\ Len(s) + i \in 1 .. Len(s) + Len(t)
  <2> TAKE i \in 1 .. Len(t)
  <2>1. /\ Len(s) + i \in 1 .. Len(s) + Len(t) /\ Len(s) + i > Len(s)
        /\ (Len(s) + i) - Len(s) = i
    BY <1>1, SMT
  <2> QED
    BY <2>1, <1>1, Zenon
<1>3. \A i \in 1 .. Len(s) + Len(t) :
         \/ i \in 1 .. Len(s)
         \/ i > Len(s) /\ i - Len(s) \in 1 .. Len(t)
  BY <1>1, SMT
<1>4. \A i \in 1 .. Len(s) : i \in 1 .. Len(s) + Len(t)
  BY <1>1, SMT
<1>5. Range(u) = Range(s) \cup Range(t)
  <2>1. ASSUME NEW x \in Range(u) PROVE x \in Range(s) \cup Range(t)
    BY <1>1, <1>3, Zenon DEF Range
  <2>2. ASSUME NEW x \in Range(s) PROVE x \in Range(u)
    BY <1>1, <1>4, Zenon DEF Range
  <2>3. ASSUME NEW x \in Range(t) PROVE x \in Range(u)
    <3>1. PICK i \in 1 .. Len(t) : t[i] = x
      BY <1>1, Zenon DEF Range
    <3> QED
      BY <3>1, <1>1, <1>2, Zenon DEF Range
  <2> QED
    BY <2>1, <2>2, <2>3, Zenon
<1>6. ASSUME Rising(s), Rising(t), Below(s, t) PROVE Rising(u)
  <2>1. \A i \in 1 .. Len(s), j \in 1 .. Len(t) : s[i] < t[j]
    BY <1>6, <1>1, Zenon DEF Below, Range
  <2>2. \A i, j \in 1 .. Len(s) : i < j => s[i] < s[j]
    BY <1>6, <1>1, Zenon DEF Rising
  <2>3. \A i, j \in 1 .. Len(t) : i < j => t[i] < t[j]
    BY <1>6, <1>1, Zenon DEF Rising
  <2>4. ASSUME NEW i \in 1 .. Len(s) + Len(t), NEW j \in 1 .. Len(s) + Len(t), i < j
        PROVE  u[i] < u[j]
    <3>1. CASE j \in 1 .. Len(s)
      <4>1. i \in 1 .. Len(s)
        BY <3>1, <2>4, <1>1, SMT
      <4> QED
        BY <4>1, <3>1, <2>4, <2>2, <1>1, Zenon
    <3>2. CASE i \in 1 .. Len(s) /\ j > Len(s) /\ j - Len(s) \in 1 .. Len(t)
      BY <3>2, <2>1, <1>1, Zenon
    <3>3. CASE /\ i > Len(s) /\ i - Len(s) \in 1 .. Len(t) /\ j > Len(s)
               /\ j - Len(s) \in 1 .. Len(t)
      <4>1. i - Len(s) < j - Len(s)
        BY <3>3, <2>4, <1>1, SMT
      <4> QED
        BY <4>1, <3>3, <2>3, <1>1, Zenon
    <3> QED
      BY <3>1, <3>2, <3>3, <1>3, Zenon
  <2> QED
    BY <2>4, <1>1, Zenon DEF Rising
<1> QED
  BY <1>1, <1>5, <1>6, Zenon DEF u

LEMMA Cut ==
    ASSUME NEW s \in Seq(Nat), NEW n \in 0 .. Len(s)
    PROVE  LET a == SubSeq(s, 1, n)
               b == SubSeq(s, n + 1, Len(s))
           IN  /\ a \in Seq(Nat) /\ b \in Seq(Nat)
               /\ Range(s) = Range(a) \cup Range(b)
               /\ Rising(s) => Rising(a) /\ Rising(b) /\ Below(a, b)
<1> DEFINE a == SubSeq(s, 1, n)
           b == SubSeq(s, n + 1, Len(s))
<1>1. /\ a \in Seq(Nat) /\ b \in Seq(Nat) /\ Len(s) \in Nat /\ n \in Nat /\ n <= Len(s)
      /\ DOMAIN s = 1 .. Len(s) /\ DOMAIN a = 1 .. n /\ DOMAIN b = 1 .. Len(s) - n
      /\ \A i \in 1 .. n : a[i] = s[i]
      /\ \A i \in 1 .. Len(s) - n : b[i] = s[n + i]
  <2>1. Len(s) \in Nat /\ n \in Nat /\ n <= Len(s) /\ DOMAIN s = 1 .. Len(s)
    OBVIOUS
  <2>2. a \in Seq(Nat) /\ DOMAIN a = 1 .. n /\ \A i \in 1 .. n : a[i] = s[i]
    BY <2>1, SMT
  <2>3. b \in Seq(Nat) /\ Len(b) = Len(s) - n /\ DOMAIN b = 1 .. Len(b)
    <3>1. b \in Seq(Nat)
      BY <2>1, SMT
    <3>2. Len(b) = Len(s) - n
      BY Rest, Zenon
    <3>3. DOMAIN b = 1 .. Len(b)
      BY <3>1, SMT
    <3> QED
      BY <3>1, <3>2, <3>3, Zenon
  <2>4. \A i \in 1 .. Len(s) - n : b[i] = s[n + i]
    BY <2>1, SMT
  <2> QED
    BY <2>1, <2>2, <2>3, <2>4, Zenon
<1> HIDE DEF a, b
<1>2. /\ \A i \in 1 .. n : i \in 1 .. Len(s)
      /\ \A i \in 1 .. Len(s) - n : n + i \in 1 .. Len(s)
      /\ \A i \in 1 .. Len(s) : i \in 1 .. n \/ (i - n \in 1 .. Len(s) - n /\ n + (i - n) = i)
      /\ \A i \in 1 .. n, j \in 1 .. Len(s) - n : i < n + j
      /\ \A i, j \in 1 .. Len(s) - n : i < j => n + i < n + j
  BY <1>1, SMT
<1>3. Range(s) = Range(a) \cup Range(b)
  <2>1. ASSUME NEW x \in Range(s) PROVE x \in Range(a) \cup Range(b)
    <3>1. PICK i \in 1 .. Len(s) : s[i] = x
      BY <1>1, Zenon DEF Range
    <3>2. CASE i \in 1 .. n
      BY <3>1, <3>2, <1>1, Zenon DEF Range
    <3>3. CASE i - n \in 1 .. Len(s) - n /\ n + (i - n) = i
      BY <3>1, <3>3, <1>1, Zenon DEF Range
    <3> QED
      BY <3>2, <3>3, <1>2, Zenon
  <2>2. ASSUME NEW x \in Range(a) PROVE x \in Range(s)
    <3>1. PICK i \in 1 .. n : a[i] = x
      BY <1>1, Zenon DEF Range
    <3> QED
      BY <3>1, <1>1, <1>2, Zenon DEF Range
  <2>3. ASSUME NEW x \in Range(b) PROVE x \in Range(s)
    <3>1. PICK i \in 1 .. Len(s) - n : b[i] = x
      BY <1>1, Zenon DEF Range
    <3> QED
      BY <3>1, <1>1, <1>2, Zenon DEF Range
  <2> QED
    BY <2>1, <2>2, <2>3, Zenon
<1>4. ASSUME Rising(s) PROVE Rising(a) /\ Rising(b) /\ Below(a, b)
  <2>1. Rising(a)
    BY <1>4, <1>1, <1>2, Zenon DEF Rising
  <2>2. \A i, j \in 1 .. Len(s) - n : i < j => s[n + i] < s[n + j]
    BY <1>4, <1>1, <1>2, Zenon DEF Rising
  <2>5. Rising(b)
    BY <2>2, <1>1, Zenon DEF Rising
  <2>3. \A i \in 1 .. n, j \in 1 .. Len(s) - n : s[i] < s[n + j]
    BY <1>4, <1>1, <1>2, Zenon DEF Rising
  <2>4. Below(a, b)
    BY <2>3, <1>1, Zenon DEF Below, Range
  <2> QED
    BY <2>1, <2>4, <2>5, Zenon
<1> QED
  BY <1>1, <1>3, <1>4, Zenon DEF a, b

LEMMA NoElements ==
    /\ Range(<<>>) = {} /\ Rising(<<>>) /\ Distinct(<<>>)
    /\ \A S : <<>> \in Seq(S)
    /\ \A S : \A s \in Seq(S) : Range(s) = {} => s = <<>>
<1>1. DOMAIN <<>> = {} /\ \A S : <<>> \in Seq(S)
  OBVIOUS
<1>2. ASSUME NEW S, NEW s \in Seq(S), Range(s) = {} PROVE s = <<>>
  <2>1. DOMAIN s = {}
    BY <1>2, Zenon DEF Range
  <2> QED
    BY <2>1, SMT
<1> QED
  BY <1>1, <1>2, Zenon DEF Range, Rising, Distinct

\* The window of a time is one of the windows, and a later time has a later one.
LEMMA WindowIn == ASSUME NEW t \in 0 .. MaxNow PROVE WindowIndex(t) \in Windows
  BY TelemetryAssumption DEF WindowIndex, Windows

LEMMA WindowLater ==
    ASSUME NEW t \in Nat PROVE /\ WindowIndex(t) \in Nat /\ WindowIndex(t + 1) \in Nat
                               /\ WindowIndex(t) <= WindowIndex(t + 1)
  BY TelemetryAssumption DEF WindowIndex

LEMMA SpanWindow == ASSUME TelTypes, NEW i \in 1 .. Len(ended) PROVE WindowAt(i) \in Windows
<1>1. ended[i].at \in 0 .. now /\ now \in 0 .. MaxNow
  BY Zenon DEF TelTypes
<1>2. ended[i].at \in 0 .. MaxNow
  BY <1>1, TelemetryAssumption, SMT
<1> QED
  BY <1>2, WindowIn, Zenon DEF WindowAt

\* What the task plans to write: each window of the batch once.
LEMMA Planned ==
    ASSUME TelTypes, NEW p \in Seq(Nat), \A x \in Range(p) : x \in 1 .. Len(ended),
           NEW q \in WindowsOf(p)
    PROVE  /\ q \in Seq(Windows) /\ Distinct(q)
           /\ \A x \in Range(p) : WindowAt(x) \in Range(q)
<1> DEFINE at(j) == WindowIndex(ended[p[j]].at)
           W == {at(j) : j \in DOMAIN p}
<1>1. /\ \E n \in 0 .. Len(p) : q \in [1 .. n -> W]
      /\ W \subseteq Range(q)
      /\ \A i, k \in DOMAIN q : i < k =>
            \E j \in DOMAIN p : at(j) = q[i] /\ \A m \in 1 .. j : at(m) # q[k]
  BY Zenon DEF WindowsOf
<1>2. DOMAIN p = 1 .. Len(p) /\ Len(p) \in Nat
  OBVIOUS
<1>3. W \subseteq Windows
  <2> SUFFICES ASSUME NEW j \in DOMAIN p PROVE at(j) \in Windows
    BY Zenon
  <2>1. p[j] \in 1 .. Len(ended)
    BY Zenon DEF Range
  <2> QED
    BY <2>1, SpanWindow, Zenon DEF WindowAt
<1>4. q \in Seq(Windows)
  <2>1. PICK n \in 0 .. Len(p) : q \in [1 .. n -> W]
    BY <1>1, Zenon
  <2>2. n \in Nat
    BY <1>2, SMT
  <2> HIDE DEF W
  <2>3. q \in Seq(W)
    BY <2>1, <2>2, ListIn, Zenon
  <2> QED
    BY <2>3, <1>3, Wider, Zenon
<1>5. \A j \in DOMAIN p : j \in 1 .. j
  BY <1>2, SMT
<1>6. ASSUME NEW i \in DOMAIN q, NEW k \in DOMAIN q, i < k PROVE q[i] # q[k]
  <2>1. PICK j \in DOMAIN p : at(j) = q[i] /\ \A m \in 1 .. j : at(m) # q[k]
    BY <1>1, <1>6, Zenon
  <2>2. at(j) # q[k]
    BY <2>1, <1>5, Zenon
  <2> QED
    BY <2>1, <2>2, Zenon
<1>7. \A x \in Range(p) : WindowAt(x) \in Range(q)
  <2> TAKE x \in Range(p)
  <2>1. PICK j \in DOMAIN p : p[j] = x
    BY Zenon DEF Range
  <2>2. at(j) \in W /\ at(j) = WindowAt(x)
    BY <2>1, Zenon DEF WindowAt
  <2> QED
    BY <2>2, <1>1, Zenon
<1> QED
  BY <1>4, <1>6, <1>7, Zenon DEF Distinct

\* At the start there is nothing.
LEMMA TelStarts == TelInit => TelInv
<1> SUFFICES ASSUME TelInit PROVE TelInv
  OBVIOUS
<1> USE DEF TelInit
<1>1. Len(ended) = 0 /\ DOMAIN ended = 1 .. 0 /\ 1 .. 0 = {}
  OBVIOUS
<1>2. 0 \in 0 .. MaxNow /\ 0 \in 0 .. MaxSpans
  BY TelemetryAssumption, SMT
<1>3. inserts \in [1 .. MaxSpans -> {0, 1}]
  BY Zenon
<1>4. TelTypes
  BY <1>1, <1>2, <1>3, NoElements, Zenon DEF TelTypes, Numbers, Places, Idle
<1>5. InLine
  BY NoElements, Zenon DEF InLine, Below
<1>6. /\ otel \notin Storing /\ otel \notin Writing /\ otel # "commit"
      /\ otel \notin {"sweep", "second"} /\ otel # "sweep"
  BY Zenon DEF Storing, Writing
<1>7. InsertedOnce
  BY <1>6, Zenon DEF InsertedOnce
<1>8. BatchSafe
  BY <1>6, Zenon DEF BatchSafe
<1>9. Accounted
  BY <1>1, Zenon DEF Accounted
<1> QED
  BY <1>4, <1>5, <1>7, <1>8, <1>9, Zenon DEF TelInv

\* What the invariant speaks of.
spanVars == <<scene, ended, queue, pending, batch, shown, dropped, lost, rows, limbo, inserts,
              todo, now>>

\* Steps that leave all of it, and move on in the export at most.
LEMMA MovesOn ==
    ASSUME TelInv, UNCHANGED spanVars,
           \/ otel' = otel
           \/ otel = "store" /\ todo # <<>> /\ otel' \in {"schema", "insert"}
           \/ otel = "schema" /\ otel' = "insert"
           \/ otel = "sweep" /\ otel' = "second"
    PROVE  TelInv'
<1> USE DEF TelInv, spanVars
<1>1. TelTypes'
  BY Zenon DEF TelTypes, Numbers, Places, Storing, Writing, Idle
<1>2. InLine'
  BY Zenon DEF InLine, Idle
<1>3. InsertedOnce'
  BY Zenon DEF InsertedOnce, Untouched, WindowAt, Storing, Writing
<1>4. BatchSafe'
  BY Zenon DEF BatchSafe, Kept, Gone, WindowAt, Storing, Writing
<1>5. Accounted'
  BY Zenon DEF Accounted, Kept, Gone, WindowAt
<1> QED
  BY <1>1, <1>2, <1>3, <1>4, <1>5, Zenon

\* The clock: what is too old stays too old.
LEMMA TickKeeps == ASSUME TelInv, Tick, UNCHANGED scene PROVE TelInv'
<1> USE DEF TelInv, Tick, pipeVars, diskVars
<1>1. now \in Nat /\ now' = now + 1 /\ now' \in 0 .. MaxNow /\ \A t \in 0 .. now : t \in 0 .. now'
  BY TelemetryAssumption, SMT DEF TelTypes
<1>2. TelTypes'
  BY <1>1, Zenon DEF TelTypes, Numbers
<1>3. InLine'
  BY Zenon DEF InLine
<1>4. InsertedOnce'
  BY Zenon DEF InsertedOnce, Untouched, WindowAt
<1>5. ASSUME NEW w \in Windows, Gone(w) PROVE Gone(w)'
  <2>1. /\ WindowIndex(now) \in Nat /\ WindowIndex(now') \in Nat
        /\ WindowIndex(now) <= WindowIndex(now')
    BY <1>1, WindowLater, Zenon
  <2>2. w \in Int /\ Retention \in Nat
    BY TelemetryAssumption, SMT DEF Windows
  <2>3. w < WindowIndex(now) - Retention
    BY <1>5, Zenon DEF Gone
  <2>4. w < WindowIndex(now') - Retention
    BY <2>1, <2>2, <2>3, SMT
  <2> QED
    BY <2>4, Zenon DEF Gone
<1>6. ASSUME NEW i \in 1 .. Len(ended), Kept(i) PROVE Kept(i)'
  BY <1>5, <1>6, SpanWindow, Zenon DEF Kept, WindowAt
<1>7. \A x \in Range(batch) : x \in 1 .. Len(ended)
  BY Zenon DEF TelTypes, Numbers
<1>8. \A w \in Range(todo) : w \in Windows
  BY SMT DEF TelTypes, Range
<1>9. BatchSafe'
  BY <1>5, <1>6, <1>7, <1>8, Zenon DEF BatchSafe, WindowAt
<1>10. Accounted'
  BY <1>6, Zenon DEF Accounted
<1> QED
  BY <1>2, <1>3, <1>4, <1>9, <1>10, Zenon

\* Span.end(): the span is the youngest of all, and at the end of the queue.
LEMMA SpanKeeps == ASSUME TelInv, SpanEnds, UNCHANGED scene PROVE TelInv'
<1> DEFINE n == Len(ended) + 1
<1>1. PICK k \in scene.kinds :
         k.at <= now /\ ended' = Append(ended, NormalizeSpan([k EXCEPT !.id = n]))
  BY Zenon DEF SpanEnds
<1>2. /\ \/ Len(queue) < QueueSize /\ queue' = Append(queue, n) /\ UNCHANGED dropped
         \/ /\ ~ (Len(queue) < QueueSize)
            /\ queue' = Append(Tail(queue), n) /\ dropped' = dropped \cup {Head(queue)}
      /\ UNCHANGED <<pending, batch, otel, shown, lost, rows, limbo, inserts, todo, now>>
      /\ Len(ended) < MaxSpans
  BY Zenon DEF SpanEnds, diskVars
<1>3. /\ TelTypes /\ InLine /\ InsertedOnce /\ BatchSafe /\ Accounted
      /\ n \in Nat /\ n \in 1 .. MaxSpans /\ n > Len(ended) /\ Len(ended) \in Nat
      /\ \A i \in 1 .. n : i \in 1 .. Len(ended) \/ i = n
      /\ \A i \in 1 .. Len(ended) : i \in 1 .. n /\ i < n
  BY <1>2, TelemetryAssumption, SMTT(30) DEF TelInv, TelTypes
<1>4. /\ Len(ended') = n /\ ended' \in Seq(Range(ended'))
      /\ \A i \in 1 .. Len(ended) : ended'[i] = ended[i]
      /\ ended'[n].at \in 0 .. now
  <2> DEFINE r == NormalizeSpan([k EXCEPT !.id = n])
             S == Range(ended) \cup {r}
  <2>1. k.at \in 0 .. now
    BY <1>1, TelemetryAssumption, SMT DEF TelInv, TelTypes
  <2>2. "at" \in DOMAIN k
    BY TelemetryAssumption, UNCHANGED scene, Zenon DEF TelInv, TelTypes
  <2>3. r.at = k.at
    BY <2>2, SMT DEF NormalizeSpan
  <2> HIDE DEF r
  <2>4. ended \in Seq(S) /\ r \in S
    BY <1>3, Wider, Zenon DEF TelTypes
  <2> HIDE DEF S
  <2>5. ended' \in Seq(S) /\ Range(ended') = Range(ended) \cup {r}
    <3>1. ended' = Append(ended, r)
      BY <1>1, Zenon DEF r
    <3> QED
      BY <3>1, <2>4, AppendedAny, ZenonT(30)
  <2>6. /\ Len(ended') = n /\ ended'[n] = r
        /\ \A i \in 1 .. Len(ended) : ended'[i] = ended[i]
    BY <2>4, <1>1, SMT DEF r
  <2> QED
    BY <2>1, <2>3, <2>5, <2>6, Zenon DEF S
<1> HIDE DEF n
<1>5. \A i \in 1 .. Len(ended) : WindowAt(i)' = WindowAt(i) /\ (Kept(i) => Kept(i)')
  BY <1>2, <1>4, Zenon DEF WindowAt, Kept, Gone
<1>6. \A w : Gone(w) => Gone(w)'
  BY <1>2, Zenon DEF Gone
<1>7. /\ queue' \in Seq(Nat) /\ Rising(queue') /\ n \in Range(queue')
      /\ \A x \in Range(queue') : x \in Range(queue) \/ x = n
      /\ \A x \in Range(queue) : x \in Range(queue') \/ x \in dropped'
      /\ \A x \in dropped : x \in dropped'
  <2>1. queue \in Seq(Nat) /\ Rising(queue) /\ \A x \in Range(queue) : x < n
    BY <1>3, Zenon DEF TelTypes, Numbers, InLine
  <2>9. n \in Nat
    BY <1>3, Zenon
  <2>2. CASE queue' = Append(queue, n) /\ UNCHANGED dropped
    <3>1. /\ Append(queue, n) \in Seq(Nat) /\ Range(Append(queue, n)) = Range(queue) \cup {n}
          /\ Rising(Append(queue, n))
      BY <2>1, <2>9, AppendedNumber, Zenon
    <3> QED
      BY <3>1, <2>2, Zenon
  <2>3. CASE ~ (Len(queue) < QueueSize) /\ queue' = Append(Tail(queue), n)
             /\ dropped' = dropped \cup {Head(queue)}
    <3>1. queue # <<>>
      BY <2>1, <2>3, TelemetryAssumption, SMT
    <3>2. /\ Tail(queue) \in Seq(Nat) /\ Range(queue) = Range(Tail(queue)) \cup {Head(queue)}
          /\ Rising(Tail(queue))
      BY <3>1, <2>1, TailedSpans, Zenon
    <3>3. \A x \in Range(Tail(queue)) : x < n
      BY <3>2, <2>1, Zenon
    <3>4. /\ Append(Tail(queue), n) \in Seq(Nat)
          /\ Range(Append(Tail(queue), n)) = Range(Tail(queue)) \cup {n}
          /\ Rising(Append(Tail(queue), n))
      BY <3>2, <3>3, <2>9, AppendedNumber, Zenon
    <3> QED
      BY <3>2, <3>4, <2>3, Zenon
  <2> QED
    BY <2>2, <2>3, <1>2, Zenon
<1>8. TelTypes'
  <2>1. \A i \in 1 .. Len(ended') : ended'[i].at \in 0 .. now'
    BY <1>2, <1>3, <1>4, Zenon DEF TelTypes
  <2>2. Len(ended') \in 0 .. MaxSpans
    BY <1>3, <1>4, SMT
  <2>3. Numbers(queue)'
    <3>1. \A x \in Range(queue) : x \in 1 .. n
      BY <1>3, Zenon DEF TelTypes, Numbers
    <3>2. n \in 1 .. n
      BY <1>3, SMT
    <3> QED
      BY <3>1, <3>2, <1>4, <1>7, Zenon DEF Numbers
  <2>4. Numbers(shown)' /\ Numbers(batch)' /\ Numbers(pending)'
    BY <1>2, <1>3, <1>4, Zenon DEF TelTypes, Numbers
  <2> QED
    BY <2>1, <2>2, <2>3, <2>4, <1>2, <1>3, <1>4, Zenon DEF TelTypes
<1>9. InLine'
  BY <1>2, <1>3, <1>7, Zenon DEF InLine, Below, TelTypes, Numbers
<1>10. InsertedOnce'
  <2>1. ASSUME NEW i \in 1 .. MaxSpans,
               i > Len(ended') \/ i \in Range(pending') \/ i \in Range(queue')
        PROVE  inserts'[i] = 0
    <3>1. i > Len(ended') => i > Len(ended)
      BY <1>3, <1>4, SMT
    <3> QED
      BY <3>1, <2>1, <1>2, <1>3, <1>7, Zenon DEF InsertedOnce
  <2> QED
    BY <2>1, <1>2, <1>3, <1>5, Zenon DEF InsertedOnce, Untouched, TelTypes, Numbers
<1>11. BatchSafe'
  BY <1>2, <1>3, <1>5, <1>6, Zenon DEF BatchSafe, TelTypes, Numbers
<1>12. Accounted'
  BY <1>2, <1>3, <1>4, <1>5, <1>7, Zenon DEF Accounted
<1> QED
  BY <1>8, <1>9, <1>10, <1>11, <1>12, Zenon DEF TelInv

\* A step that only moves spans from the queue towards the task, while it is
\* between two exports.
LEMMA Rearranged ==
    ASSUME TelInv, batch = <<>>, otel' \in Idle,
           pending' \in Seq(Nat), Rising(pending'), queue' \in Seq(Nat), Rising(queue'),
           Below(pending', queue'),
           \A x : x \in Range(pending) \/ x \in Range(queue)
                     <=> x \in Range(pending') \/ x \in Range(queue'),
           UNCHANGED <<scene, ended, batch, shown, dropped, lost, rows, limbo, inserts, todo, now>>
    PROVE  TelInv'
<1> USE DEF TelInv
<1>1. TelTypes'
  BY Zenon DEF TelTypes, Numbers, Places
<1>2. InLine'
  BY NoElements, Zenon DEF InLine, Below
<1>3. /\ otel' \notin Storing /\ otel' \notin Writing /\ otel' # "commit"
      /\ otel' \notin {"sweep", "second"} /\ otel' # "sweep"
  BY Zenon DEF Storing, Writing, Idle
<1>4. InsertedOnce'
  BY <1>3, Zenon DEF InsertedOnce
<1>5. BatchSafe'
  BY <1>3, Zenon DEF BatchSafe
<1>6. Accounted'
  BY Zenon DEF Accounted, Kept, Gone, WindowAt
<1> QED
  BY <1>1, <1>2, <1>4, <1>5, <1>6, Zenon

\* _flush(): the batch is what was pending and perhaps some of the queue.
LEMMA ExportBegins ==
    ASSUME TelInv, NEW p \in Seq(Nat), otel \in {"wait", "drain"}, Flush(p), Rising(p),
           queue' \in Seq(Nat), Rising(queue'), Below(p, queue'),
           \A x : x \in Range(pending) \/ x \in Range(queue)
                     <=> x \in Range(p) \/ x \in Range(queue'),
           UNCHANGED <<scene, ended, shown, dropped, lost, rows, limbo, inserts, now>>
    PROVE  TelInv'
<1> USE DEF TelInv
<1>1. batch = <<>> /\ batch' = p /\ pending' = <<>> /\ otel' = "store" /\ todo' \in WindowsOf(p)
  BY Zenon DEF Flush, InLine, Idle
<1>2. \A x : x \in Range(p) \/ x \in Range(queue') => x \in 1 .. Len(ended)
  BY Zenon DEF TelTypes, Numbers
<1>3. /\ todo' \in Seq(Windows) /\ Distinct(todo')
      /\ \A x \in Range(p) : WindowAt(x) \in Range(todo')
  BY <1>1, <1>2, Planned, Zenon
<1>4. TelTypes'
  BY <1>1, <1>2, <1>3, NoElements, Zenon DEF TelTypes, Numbers, Places, Storing
<1>5. InLine'
  BY <1>1, NoElements, Zenon DEF InLine, Below, Idle
<1>6. InsertedOnce'
  <2>1. \A i \in 1 .. Len(ended) : i \in 1 .. MaxSpans
    BY TelemetryAssumption, SMT DEF TelTypes
  <2>2. \A x \in Range(p) : inserts[x] = 0
    BY <2>1, <1>2, Zenon DEF InsertedOnce
  <2> QED
    BY <2>2, <1>1, <1>3, NoElements, Zenon DEF InsertedOnce, Storing, Writing
<1>7. BatchSafe'
  BY <1>1, <1>3, Zenon DEF BatchSafe, WindowAt
<1>8. Accounted'
  BY <1>1, NoElements, Zenon DEF Accounted, Kept, Gone, WindowAt
<1> QED
  BY <1>4, <1>5, <1>6, <1>7, <1>8, Zenon

LEMMA GetKeeps == ASSUME TelInv, OtelGet, UNCHANGED scene PROVE TelInv'
<1>1. PICK p : p = Append(pending, Head(queue))
  BY Zenon
<1>2. /\ otel = "wait" /\ queue # <<>> /\ queue' = Tail(queue)
      /\ UNCHANGED <<scene, ended, shown, dropped, lost, rows, limbo, inserts, now>>
      /\ \/ Flush(p)
         \/ pending' = p /\ UNCHANGED <<batch, todo, otel>>
  BY <1>1, Zenon DEF OtelGet
<1>3. /\ pending \in Seq(Nat) /\ queue \in Seq(Nat) /\ Rising(pending) /\ Rising(queue)
      /\ Below(pending, queue) /\ batch = <<>>
  BY <1>2, Zenon DEF TelInv, TelTypes, Numbers, InLine, Idle
<1>4. /\ Tail(queue) \in Seq(Nat) /\ Head(queue) \in Nat
      /\ Range(queue) = Range(Tail(queue)) \cup {Head(queue)}
      /\ Rising(Tail(queue)) /\ \A y \in Range(Tail(queue)) : Head(queue) < y
  BY <1>2, <1>3, TailedSpans, Zenon
<1>5. \A x \in Range(pending) : x < Head(queue)
  BY <1>3, <1>4, Zenon DEF Below
<1>6. p \in Seq(Nat) /\ Range(p) = Range(pending) \cup {Head(queue)} /\ Rising(p)
  BY <1>1, <1>3, <1>4, <1>5, AppendedNumber, Zenon
<1>7. Below(p, queue')
  BY <1>2, <1>3, <1>4, <1>6, Zenon DEF Below
<1>8. \A x : x \in Range(pending) \/ x \in Range(queue) <=> x \in Range(p) \/ x \in Range(queue')
  BY <1>2, <1>4, <1>6, Zenon
<1>9. CASE Flush(p)
  BY <1>2, <1>4, <1>6, <1>7, <1>8, <1>9, ExportBegins, Zenon
<1>10. CASE pending' = p /\ UNCHANGED <<batch, todo, otel>>
  BY <1>2, <1>3, <1>4, <1>6, <1>7, <1>8, <1>10, Rearranged, Zenon DEF Idle
<1> QED
  BY <1>2, <1>9, <1>10, Zenon

LEMMA IntervalKeeps == ASSUME TelInv, OtelTimeout, UNCHANGED scene PROVE TelInv'
<1>1. PICK p : p = pending
  BY Zenon
<1>2. /\ otel = "wait" /\ Flush(p)
      /\ UNCHANGED <<scene, ended, queue, shown, dropped, lost, rows, limbo, inserts, now>>
  BY <1>1, Zenon DEF OtelTimeout
<1>3. /\ p \in Seq(Nat) /\ queue' \in Seq(Nat) /\ Rising(p) /\ Rising(queue') /\ Below(p, queue')
  BY <1>1, <1>2, Zenon DEF TelInv, TelTypes, Numbers, InLine
<1> QED
  BY <1>1, <1>2, <1>3, ExportBegins, Zenon

LEMMA DrainKeeps == ASSUME TelInv, Drain, UNCHANGED scene PROVE TelInv'
<1>1. PICK n \in 0 .. Len(queue) :
         LET p == pending \o SubSeq(queue, 1, n) IN
         /\ queue' = SubSeq(queue, n + 1, Len(queue))
         /\ \/ p = <<>> /\ otel' = "close" /\ UNCHANGED <<pending, batch, todo>>
            \/ Flush(p)
  BY Zenon DEF Drain
<1>2. PICK a, p : a = SubSeq(queue, 1, n) /\ p = pending \o a
  BY Zenon
<1>3. /\ otel = "drain"
      /\ UNCHANGED <<scene, ended, shown, dropped, lost, rows, limbo, inserts, now>>
  BY Zenon DEF Drain
<1>4. /\ pending \in Seq(Nat) /\ queue \in Seq(Nat) /\ Rising(pending) /\ Rising(queue)
      /\ Below(pending, queue) /\ batch = <<>>
  BY <1>3, Zenon DEF TelInv, TelTypes, Numbers, InLine, Idle
<1>5. /\ a \in Seq(Nat) /\ queue' \in Seq(Nat)
      /\ Range(queue) = Range(a) \cup Range(queue')
      /\ Rising(a) /\ Rising(queue') /\ Below(a, queue')
  BY <1>1, <1>2, <1>4, Cut, Zenon
<1>6. Below(pending, a) /\ Below(pending, queue')
  BY <1>4, <1>5, Zenon DEF Below
<1>7. p \in Seq(Nat) /\ Range(p) = Range(pending) \cup Range(a) /\ Rising(p)
  BY <1>2, <1>4, <1>5, <1>6, JoinedSpans, Zenon
<1>8. Below(p, queue')
  BY <1>5, <1>6, <1>7, Zenon DEF Below
<1>9. \A x : x \in Range(pending) \/ x \in Range(queue) <=> x \in Range(p) \/ x \in Range(queue')
  BY <1>5, <1>7, Zenon
<1>10. CASE Flush(p)
  BY <1>3, <1>5, <1>7, <1>8, <1>9, <1>10, ExportBegins, Zenon
<1>11. CASE p = <<>> /\ otel' = "close" /\ UNCHANGED <<pending, batch, todo>>
  <2>1. Range(p) = {}
    BY <1>11, NoElements, Zenon
  <2>2. \A x : x \in Range(pending) \/ x \in Range(queue)
                  <=> x \in Range(pending') \/ x \in Range(queue')
    BY <2>1, <1>5, <1>7, <1>11, Zenon
  <2>3. /\ pending' \in Seq(Nat) /\ Rising(pending') /\ Below(pending', queue')
    BY <1>4, <1>6, <1>11, Zenon
  <2> QED
    BY <2>2, <2>3, <1>3, <1>4, <1>5, <1>11, Rearranged, Zenon DEF Idle
<1> QED
  BY <1>1, <1>2, <1>10, <1>11, Zenon

\* The INSERT of a window: of spans of the batch, none of which was inserted.
LEMMA InsertSafe ==
    ASSUME TelInv, otel = "insert", Inserted(Head(todo))
    PROVE  /\ Head(todo) \in Windows /\ todo # <<>>
           /\ inserts' \in [1 .. MaxSpans -> {0, 1}]
           /\ \A i \in 1 .. MaxSpans : i \notin Range(batch) \/ WindowAt(i) # Head(todo)
                                          => inserts'[i] = inserts[i]
           /\ DOMAIN limbo' = Windows
           /\ \A x \in Range(batch) : WindowAt(x) = Head(todo) => x \in limbo'[Head(todo)]
<1> DEFINE w == Head(todo)
<1>1. /\ todo # <<>> /\ Distinct(todo) /\ todo \in Seq(Windows) /\ DOMAIN limbo = Windows
      /\ \A x \in Range(batch) : WindowAt(x) \in Range(todo) => inserts[x] = 0
  BY Zenon DEF TelInv, TelTypes, InsertedOnce, Untouched, Storing, Writing
<1>2. w \in Windows /\ w \in Range(todo)
  <2>1. w \in Windows /\ Range(todo) = Range(Tail(todo)) \cup {w}
    BY <1>1, TailedSpans, Zenon
  <2> QED
    BY <2>1, Zenon
<1> HIDE DEF w
<1>3. /\ limbo' = [limbo EXCEPT ![w] = @ \cup Own(w)]
      /\ inserts' = [i \in 1 .. MaxSpans |-> inserts[i] + IF i \in Own(w) THEN 1 ELSE 0]
      /\ inserts \in [1 .. MaxSpans -> {0, 1}]
  BY Zenon DEF w, Inserted, TelInv, TelTypes
<1>4. \A x : x \in Own(w) <=> x \in Range(batch) /\ WindowAt(x) = w
  BY Zenon DEF Own, WindowAt
<1>5. \A x \in Own(w) : inserts[x] = 0
  BY <1>1, <1>2, <1>4, Zenon
<1>6. ASSUME NEW i \in 1 .. MaxSpans
      PROVE  inserts'[i] \in {0, 1} /\ (i \notin Own(w) => inserts'[i] = inserts[i])
  <2>1. inserts'[i] = inserts[i] + IF i \in Own(w) THEN 1 ELSE 0
    BY <1>3, Zenon
  <2>2. inserts[i] \in {0, 1}
    BY <1>3, Zenon
  <2>3. CASE i \in Own(w)
    BY <2>1, <2>3, <1>5, SMT
  <2>4. CASE i \notin Own(w)
    BY <2>1, <2>2, <2>4, SMT
  <2> QED
    BY <2>3, <2>4, Zenon
<1>7. inserts' \in [1 .. MaxSpans -> {0, 1}]
  BY <1>3, <1>6, Zenon
<1>8. DOMAIN limbo' = Windows /\ limbo'[w] = limbo[w] \cup Own(w)
  BY <1>1, <1>2, <1>3, Zenon
<1> QED
  BY <1>1, <1>2, <1>4, <1>6, <1>7, <1>8, Zenon DEF w

\* The COMMIT of a window: nothing leaves a file, and the batch's spans of the
\* window are in it.
LEMMA CommitSafe ==
    ASSUME TelInv, otel = "commit", Committed(Head(todo))
    PROVE  /\ Head(todo) \in Windows /\ todo # <<>>
           /\ DOMAIN rows' = Windows /\ DOMAIN limbo' = Windows
           /\ \A v \in Windows : rows[v] \subseteq rows'[v]
           /\ \A x \in Range(batch) : WindowAt(x) = Head(todo) => x \in rows'[WindowAt(x)]
<1> DEFINE w == Head(todo)
<1>1. /\ todo # <<>> /\ todo \in Seq(Windows) /\ DOMAIN limbo = Windows /\ DOMAIN rows = Windows
      /\ \A x \in Range(batch) : WindowAt(x) = w => x \in limbo[w]
  BY Zenon DEF TelInv, TelTypes, InsertedOnce, BatchSafe, Writing
<1>2. w \in Windows
  BY <1>1, TailedSpans, Zenon
<1> HIDE DEF w
<1>3. /\ rows' = [rows EXCEPT ![w] = @ \cup limbo[w]]
      /\ limbo' = [limbo EXCEPT ![w] = {}]
  BY Zenon DEF w, Committed
<1>4. DOMAIN rows' = Windows /\ DOMAIN limbo' = Windows
  BY <1>1, <1>3, Zenon
<1>5. rows'[w] = rows[w] \cup limbo[w] /\ \A v \in Windows : v # w => rows'[v] = rows[v]
  BY <1>1, <1>2, <1>3, Zenon
<1> QED
  BY <1>1, <1>2, <1>4, <1>5, Zenon DEF w

\* The batch is neither pending nor queued, nor still to come.
LEMMA BatchApart ==
    TelInv => /\ \A x \in Range(batch) : x \in 1 .. Len(ended) /\ x \in 1 .. MaxSpans
              /\ \A i : i > Len(ended) \/ i \in Range(pending) \/ i \in Range(queue)
                           => i \notin Range(batch)
<1> SUFFICES ASSUME TelInv
             PROVE  /\ \A x \in Range(batch) : x \in 1 .. Len(ended) /\ x \in 1 .. MaxSpans
                    /\ \A i : i > Len(ended) \/ i \in Range(pending) \/ i \in Range(queue)
                                 => i \notin Range(batch)
  OBVIOUS
<1>1. /\ \A x \in Range(batch) : x \in 1 .. Len(ended)
      /\ \A x \in Range(batch), y \in Range(pending) : x < y
      /\ \A x \in Range(batch), y \in Range(queue) : x < y
      /\ Len(ended) \in 0 .. MaxSpans
  BY Zenon DEF TelInv, TelTypes, Numbers, InLine, Below
<1>2. \A x \in 1 .. Len(ended) : x \in 1 .. MaxSpans /\ ~ (x < x) /\ ~ (x > Len(ended))
  BY <1>1, TelemetryAssumption, SMT
<1> QED
  BY <1>1, <1>2, Zenon

LEMMA InsertKeeps == ASSUME TelInv, StoreInsert, UNCHANGED scene PROVE TelInv'
<1> USE DEF TelInv
<1>1. /\ otel = "insert" /\ Inserted(Head(todo)) /\ otel' = "commit"
      /\ UNCHANGED <<scene, ended, queue, pending, batch, shown, dropped, lost, rows, todo, now>>
  BY Zenon DEF StoreInsert
<1>2. /\ Head(todo) \in Windows /\ todo # <<>>
      /\ inserts' \in [1 .. MaxSpans -> {0, 1}]
      /\ \A i \in 1 .. MaxSpans : i \notin Range(batch) \/ WindowAt(i) # Head(todo)
                                     => inserts'[i] = inserts[i]
      /\ DOMAIN limbo' = Windows
      /\ \A x \in Range(batch) : WindowAt(x) = Head(todo) => x \in limbo'[Head(todo)]
  BY <1>1, InsertSafe, Zenon
<1>3. TelTypes'
  BY <1>1, <1>2, Zenon DEF TelTypes, Numbers, Places, Storing, Writing
<1>4. InLine'
  BY <1>1, Zenon DEF InLine, Idle
<1>5. InsertedOnce'
  <2>1. ASSUME NEW i \in 1 .. MaxSpans,
               i > Len(ended) \/ i \in Range(pending) \/ i \in Range(queue)
        PROVE  inserts'[i] = 0
    BY <2>1, <1>2, BatchApart, Zenon DEF InsertedOnce
  <2>2. \A x \in Range(batch) : x \in 1 .. MaxSpans
    BY BatchApart, Zenon
  <2>3. Distinct(todo) /\ todo \in Seq(Windows) /\ todo # <<>>
    BY <1>1, Zenon DEF InsertedOnce, TelTypes, Storing, Writing
  <2>4. Head(todo) \notin Range(Tail(todo)) /\ \A w \in Range(Tail(todo)) : w \in Range(todo)
    BY <2>3, TailedSpans, Zenon
  <2>5. \A x \in Range(batch) : WindowAt(x) \in Range(todo) => inserts[x] = 0
    BY <1>1, Zenon DEF InsertedOnce, Untouched, Storing, Writing
  <2>6. \A x \in Range(batch) : WindowAt(x) \in Range(Tail(todo)) => inserts'[x] = 0
    BY <2>2, <2>4, <2>5, <1>2, Zenon
  <2>7. Untouched' = Range(Tail(todo))
    BY <1>1, Zenon DEF Untouched
  <2> QED
    BY <2>1, <2>3, <2>6, <2>7, <1>1, Zenon DEF InsertedOnce, WindowAt
<1>6. BatchSafe'
  BY <1>1, <1>2, Zenon DEF BatchSafe, Kept, Gone, WindowAt, Storing, Writing
<1>7. Accounted'
  BY <1>1, Zenon DEF Accounted, Kept, Gone, WindowAt
<1> QED
  BY <1>3, <1>4, <1>5, <1>6, <1>7, Zenon

LEMMA CommitKeeps == ASSUME TelInv, StoreCommit, UNCHANGED scene PROVE TelInv'
<1> USE DEF TelInv
<1>1. /\ otel = "commit" /\ Committed(Head(todo)) /\ otel' = "store" /\ todo' = Tail(todo)
      /\ UNCHANGED <<scene, ended, queue, pending, batch, shown, dropped, lost, inserts, now>>
  BY Zenon DEF StoreCommit
<1>2. /\ Head(todo) \in Windows /\ todo # <<>>
      /\ DOMAIN rows' = Windows /\ DOMAIN limbo' = Windows
      /\ \A v \in Windows : rows[v] \subseteq rows'[v]
      /\ \A x \in Range(batch) : WindowAt(x) = Head(todo) => x \in rows'[WindowAt(x)]
  BY <1>1, CommitSafe, Zenon
<1>3. Distinct(todo) /\ todo \in Seq(Windows)
  BY <1>1, Zenon DEF InsertedOnce, TelTypes, Storing, Writing
<1>4. /\ Tail(todo) \in Seq(Windows) /\ Distinct(Tail(todo))
      /\ Range(todo) = Range(Tail(todo)) \cup {Head(todo)}
  BY <1>2, <1>3, TailedSpans, Zenon
<1>5. ASSUME NEW i \in 1 .. Len(ended), Kept(i) PROVE Kept(i)'
  <2>1. WindowAt(i) \in Windows
    BY SpanWindow, Zenon
  <2> QED
    BY <2>1, <1>1, <1>2, <1>5, Zenon DEF Kept, Gone, WindowAt
<1>6. \A x \in Range(batch) : WindowAt(x) = Head(todo) => Kept(x)'
  BY <1>1, <1>2, Zenon DEF Kept, WindowAt
<1>7. TelTypes'
  BY <1>1, <1>2, <1>4, Zenon DEF TelTypes, Numbers, Places, Storing
<1>8. InLine'
  BY <1>1, Zenon DEF InLine, Idle
<1>9. InsertedOnce'
  <2>1. Untouched' = Range(Tail(todo)) /\ Untouched = Range(Tail(todo))
    BY <1>1, Zenon DEF Untouched
  <2> QED
    BY <2>1, <1>1, <1>4, Zenon DEF InsertedOnce, WindowAt, Storing, Writing
<1>10. BatchSafe'
  <2>1. \A x \in Range(batch) : WindowAt(x)' \in Range(todo') \/ Kept(x)'
    <3> TAKE x \in Range(batch)
    <3>1. x \in 1 .. Len(ended)
      BY BatchApart, Zenon
    <3>2. WindowAt(x) \in Range(todo) \/ Kept(x)
      BY <1>1, Zenon DEF BatchSafe, Storing, Writing
    <3> QED
      BY <3>1, <3>2, <1>1, <1>4, <1>5, <1>6, Zenon DEF WindowAt
  <2> QED
    BY <2>1, <1>1, Zenon DEF BatchSafe
<1>11. Accounted'
  BY <1>1, <1>5, Zenon DEF Accounted
<1> QED
  BY <1>7, <1>8, <1>9, <1>10, <1>11, Zenon

\* _sweep_retention(): the windows listed are too old.
LEMMA SweepKeeps == ASSUME TelInv, SweepBegins, UNCHANGED scene PROVE TelInv'
<1> USE DEF TelInv
<1> DEFINE S == {w \in Windows : Expired(w)}
<1>1. /\ otel = "store" /\ todo = <<>> /\ otel' = "sweep"
      /\ UNCHANGED <<scene, ended, queue, pending, batch, shown, dropped, lost, rows, limbo,
                     inserts, now>>
  BY Zenon DEF SweepBegins
<1>2. \A w \in S : w \in Windows /\ Gone(w)'
  BY <1>1, Zenon DEF Expired, Gone
<1>3. PICK n \in 0 .. WindowIndex(MaxNow) + 1 : todo' \in Bijection(1 .. n, S)
  BY Zenon DEF SweepBegins
<1>4. n \in Nat
  BY TelemetryAssumption, SMT DEF WindowIndex
<1> HIDE DEF S
<1>5. todo' \in [1 .. n -> S]
  BY <1>3, Zenon DEF Bijection, Injection
<1>6. todo' \in Seq(S)
  BY <1>4, <1>5, ListIn, Zenon
<1>7. todo' \in Seq(Windows)
  BY <1>2, <1>6, Wider, Zenon
<1>8. \A w \in Range(todo') : Gone(w)'
  BY <1>2, <1>5, Zenon DEF Range
<1>9. TelTypes'
  BY <1>1, <1>7, Zenon DEF TelTypes, Numbers, Places
<1>10. InLine'
  BY <1>1, Zenon DEF InLine, Idle
<1>11. InsertedOnce'
  BY <1>1, Zenon DEF InsertedOnce, Storing, Writing
<1>12. BatchSafe'
  <2>1. \A x \in Range(batch) : Kept(x)
    BY <1>1, NoElements, Zenon DEF BatchSafe, Storing
  <2> QED
    BY <2>1, <1>1, <1>8, Zenon DEF BatchSafe, Kept, Gone, WindowAt, Storing, Writing
<1>13. Accounted'
  BY <1>1, Zenon DEF Accounted, Kept, Gone, WindowAt
<1> QED
  BY <1>9, <1>10, <1>11, <1>12, <1>13, Zenon

LEMMA SweepFileKeeps == ASSUME TelInv, SweepFile, UNCHANGED scene PROVE TelInv'
<1> USE DEF TelInv
<1> DEFINE w == Head(todo)
<1>1. /\ otel = "sweep" /\ todo # <<>> /\ todo' = Tail(todo)
      /\ limbo' = [limbo EXCEPT ![w] = {}]
      /\ rows' = [rows EXCEPT ![w] = {}] \/ rows' = rows
      /\ UNCHANGED <<scene, ended, queue, pending, batch, otel, shown, dropped, lost, inserts, now>>
  BY Zenon DEF SweepFile, pipeVars
<1>2. /\ todo \in Seq(Windows) /\ DOMAIN rows = Windows /\ DOMAIN limbo = Windows
      /\ \A v \in Range(todo) : Gone(v)
  BY <1>1, Zenon DEF TelTypes, BatchSafe
<1>3. /\ Tail(todo) \in Seq(Windows) /\ w \in Windows
      /\ Range(todo) = Range(Tail(todo)) \cup {w}
  BY <1>1, <1>2, TailedSpans, Zenon
<1>4. Gone(w)
  BY <1>2, <1>3, Zenon
<1> HIDE DEF w
<1>5. /\ DOMAIN rows' = Windows /\ DOMAIN limbo' = Windows
      /\ \A v \in Windows : v # w => rows'[v] = rows[v]
  BY <1>1, <1>2, Zenon
<1>6. ASSUME NEW i \in 1 .. Len(ended), Kept(i) PROVE Kept(i)'
  <2>1. WindowAt(i) \in Windows
    BY SpanWindow, Zenon
  <2> QED
    BY <2>1, <1>1, <1>4, <1>5, <1>6, Zenon DEF Kept, Gone, WindowAt
<1>7. TelTypes'
  BY <1>1, <1>3, <1>5, Zenon DEF TelTypes, Numbers
<1>8. InLine'
  BY <1>1, Zenon DEF InLine
<1>9. InsertedOnce'
  BY <1>1, Zenon DEF InsertedOnce, Storing, Writing
<1>10. BatchSafe'
  <2>1. \A x \in Range(batch) : x \in lost \/ Kept(x)'
    <3> TAKE x \in Range(batch)
    <3>1. x \in 1 .. Len(ended)
      BY BatchApart, Zenon
    <3> QED
      BY <3>1, <1>1, <1>6, Zenon DEF BatchSafe
  <2>2. \A v \in Range(todo') : Gone(v)'
    BY <1>1, <1>2, <1>3, Zenon DEF Gone
  <2> QED
    BY <2>1, <2>2, <1>1, Zenon DEF BatchSafe, Storing, Writing
<1>11. Accounted'
  BY <1>1, <1>6, Zenon DEF Accounted
<1> QED
  BY <1>7, <1>8, <1>9, <1>10, <1>11, Zenon

\* An export is over, or the task is: nothing is written any more, and each span
\* of the batch has been shown, is lost, or goes on to the second exporter.
LEMMA ExportEnds ==
    ASSUME TelInv, batch' = <<>>, otel' \in Idle, todo' \in Seq(Windows),
           shown' \in Seq(Nat), Rising(shown'),
           \A x \in Range(shown) : x \in Range(shown'),
           \A x \in Range(shown') : x \in Range(shown) \/ x \in Range(batch),
           \A x \in lost : x \in lost',
           \A x \in Range(batch) : x \in lost' \/ (x \in Range(shown') /\ Kept(x)'),
           DOMAIN rows' = Windows, DOMAIN limbo' = Windows,
           \A i \in 1 .. Len(ended) : Kept(i) => Kept(i)',
           inserts' \in [1 .. MaxSpans -> {0, 1}],
           \A i \in 1 .. MaxSpans : i \notin Range(batch) => inserts'[i] = inserts[i],
           UNCHANGED <<scene, ended, queue, pending, dropped, now>>
    PROVE  TelInv'
<1> USE DEF TelInv
<1>1. \A x \in Range(shown') : x \in 1 .. Len(ended)
  BY Zenon DEF TelTypes, Numbers
<1>2. TelTypes'
  BY <1>1, NoElements, Zenon DEF TelTypes, Numbers, Places
<1>3. InLine'
  BY NoElements, Zenon DEF InLine, Below
<1>4. /\ otel' \notin Storing /\ otel' \notin Writing /\ otel' # "commit"
      /\ otel' \notin {"sweep", "second"} /\ otel' # "sweep"
  BY Zenon DEF Storing, Writing, Idle
<1>5. ASSUME NEW i \in 1 .. MaxSpans,
             i > Len(ended') \/ i \in Range(pending') \/ i \in Range(queue')
      PROVE  inserts'[i] = 0
  BY <1>5, BatchApart, Zenon DEF InsertedOnce
<1>6. InsertedOnce'
  BY <1>4, <1>5, Zenon DEF InsertedOnce
<1>7. BatchSafe'
  BY <1>4, Zenon DEF BatchSafe
<1>8. Accounted'
  BY Zenon DEF Accounted
<1> QED
  BY <1>2, <1>3, <1>6, <1>7, <1>8, Zenon

LEMMA SecondKeeps == ASSUME TelInv, SecondExporter, UNCHANGED scene PROVE TelInv'
<1> USE DEF TelInv
<1>1. /\ otel = "second" /\ shown' = shown \o batch /\ batch' = <<>> /\ otel' \in Idle
      /\ UNCHANGED <<scene, ended, queue, pending, dropped, lost, rows, limbo, inserts, todo, now>>
  BY Zenon DEF SecondExporter, AfterExport, diskVars, Idle
<1>2. /\ shown \in Seq(Nat) /\ batch \in Seq(Nat)
      /\ Rising(shown) /\ Rising(batch) /\ Below(shown, batch)
  BY Zenon DEF TelTypes, Numbers, InLine
<1>3. /\ shown' \in Seq(Nat) /\ Rising(shown')
      /\ Range(shown') = Range(shown) \cup Range(batch)
  BY <1>1, <1>2, JoinedSpans, Zenon
<1>4. \A i : Kept(i)' <=> Kept(i)
  BY <1>1, Zenon DEF Kept, Gone, WindowAt
<1>5. \A x \in Range(batch) : x \in lost' \/ (x \in Range(shown') /\ Kept(x)')
  BY <1>1, <1>3, <1>4, Zenon DEF BatchSafe
<1>6. /\ DOMAIN rows' = Windows /\ DOMAIN limbo' = Windows /\ todo' \in Seq(Windows)
      /\ inserts' \in [1 .. MaxSpans -> {0, 1}]
  BY <1>1, Zenon DEF TelTypes
<1> HIDE DEF TelInv
<1> QED
  BY <1>1, <1>3, <1>4, <1>5, <1>6, ExportEnds, Zenon

LEMMA RaiseKeeps == ASSUME TelInv, ExporterRaises, UNCHANGED scene PROVE TelInv'
<1> USE DEF TelInv
<1>1. /\ otel \notin Idle /\ todo' = <<>>
      /\ \A x : x \in lost' <=> x \in lost \/ x \in Range(batch)
      /\ \/ otel = "second" /\ otel' \in Idle /\ batch' = <<>>
         \/ otel' = "second" /\ UNCHANGED batch
      /\ UNCHANGED <<scene, ended, queue, pending, shown, dropped, rows, limbo, inserts, now>>
  BY Zenon DEF ExporterRaises, AfterExport, Idle
<1>2. \A i : Kept(i)' <=> Kept(i)
  BY <1>1, Zenon DEF Kept, Gone, WindowAt
<1>3. todo' \in Seq(Windows)
  BY <1>1, NoElements, Zenon
<1>4. CASE otel' \in Idle /\ batch' = <<>>
  <2>1. /\ DOMAIN rows' = Windows /\ DOMAIN limbo' = Windows
        /\ inserts' \in [1 .. MaxSpans -> {0, 1}]
        /\ shown' \in Seq(Nat) /\ Rising(shown')
    BY <1>1, Zenon DEF TelTypes, Numbers, InLine
  <2> HIDE DEF TelInv
  <2> QED
    BY <2>1, <1>1, <1>2, <1>3, <1>4, ExportEnds, Zenon
<1>5. CASE otel' = "second" /\ UNCHANGED batch
  <2>1. TelTypes'
    BY <1>1, <1>3, <1>5, Zenon DEF TelTypes, Numbers, Places
  <2>2. InLine'
    BY <1>1, <1>5, Zenon DEF InLine, Idle
  <2>3. InsertedOnce'
    BY <1>1, <1>5, Zenon DEF InsertedOnce, Storing, Writing
  <2>4. BatchSafe'
    BY <1>1, <1>5, Zenon DEF BatchSafe, Storing, Writing
  <2>5. Accounted'
    BY <1>1, <1>2, <1>5, Zenon DEF Accounted
  <2> QED
    BY <2>1, <2>2, <2>3, <2>4, <2>5, Zenon
<1> QED
  BY <1>1, <1>4, <1>5, Zenon

\* The cancellation: the statement under way is still carried out.
LEMMA CancelKeeps == ASSUME TelInv, CancelArrives, UNCHANGED scene PROVE TelInv'
<1>1. /\ otel' \in Idle /\ batch' = <<>> /\ todo' = <<>>
      /\ \A x : x \in lost' <=> x \in lost \/ x \in Range(batch)
      /\ UNCHANGED <<scene, ended, queue, pending, shown, dropped, now>>
  BY Zenon DEF CancelArrives, Idle
<1>2. \/ otel = "insert" /\ Inserted(Head(todo)) /\ UNCHANGED rows
      \/ otel = "commit" /\ Committed(Head(todo)) /\ UNCHANGED inserts
      \/ UNCHANGED <<rows, limbo, inserts>>
  <2>1. CASE otel = "insert"
    BY <2>1, Zenon DEF CancelArrives
  <2>2. CASE otel = "commit"
    BY <2>2, Zenon DEF CancelArrives
  <2>3. CASE otel # "insert" /\ otel # "commit"
    BY <2>3, Zenon DEF CancelArrives
  <2> QED
    BY <2>1, <2>2, <2>3, Zenon
<1>3. /\ DOMAIN rows = Windows /\ DOMAIN limbo = Windows
      /\ inserts \in [1 .. MaxSpans -> {0, 1}]
      /\ shown' \in Seq(Nat) /\ Rising(shown')
  BY <1>1, Zenon DEF TelInv, TelTypes, Numbers, InLine
<1>4. todo' \in Seq(Windows)
  BY <1>1, NoElements, Zenon
<1>5. /\ DOMAIN rows' = Windows /\ DOMAIN limbo' = Windows
      /\ \A v \in Windows : rows[v] \subseteq rows'[v]
      /\ inserts' \in [1 .. MaxSpans -> {0, 1}]
      /\ \A i \in 1 .. MaxSpans : i \notin Range(batch) => inserts'[i] = inserts[i]
  <2>1. CASE otel = "insert" /\ Inserted(Head(todo)) /\ UNCHANGED rows
    BY <2>1, <1>3, InsertSafe, Zenon
  <2>2. CASE otel = "commit" /\ Committed(Head(todo)) /\ UNCHANGED inserts
    BY <2>2, <1>3, CommitSafe, Zenon
  <2>3. CASE UNCHANGED <<rows, limbo, inserts>>
    BY <2>3, <1>3, Zenon
  <2> QED
    BY <2>1, <2>2, <2>3, <1>2, Zenon
<1>6. ASSUME NEW i \in 1 .. Len(ended), Kept(i) PROVE Kept(i)'
  <2>1. WindowAt(i) \in Windows
    BY SpanWindow, Zenon DEF TelInv
  <2> QED
    BY <2>1, <1>1, <1>5, <1>6, Zenon DEF Kept, Gone, WindowAt
<1> QED
  BY <1>1, <1>3, <1>4, <1>5, <1>6, ExportEnds, Zenon

LEMMA ShutdownKeeps == ASSUME TelInv, Shutdown, UNCHANGED scene PROVE TelInv'
<1>1. /\ otel = "close" /\ otel' \in Idle /\ limbo' = [w \in Windows |-> {}]
      /\ UNCHANGED <<scene, ended, queue, pending, batch, shown, dropped, lost, rows, inserts,
                     todo, now>>
  BY Zenon DEF Shutdown, Idle
<1>2. /\ batch = <<>> /\ Range(batch) = {}
      /\ DOMAIN rows' = Windows /\ DOMAIN limbo' = Windows /\ todo' \in Seq(Windows)
      /\ inserts' \in [1 .. MaxSpans -> {0, 1}] /\ shown' \in Seq(Nat) /\ Rising(shown')
  BY <1>1, NoElements, Zenon DEF TelInv, TelTypes, Numbers, InLine, Idle
<1>3. \A i : Kept(i)' <=> Kept(i)
  BY <1>1, Zenon DEF Kept, Gone, WindowAt
<1> QED
  BY <1>1, <1>2, <1>3, ExportEnds, Zenon

LEMMA TelStep == TelInv /\ [TelNext]_telVars => TelInv'
<1> SUFFICES ASSUME TelInv, [TelNext]_telVars PROVE TelInv'
  BY Zenon
<1>1. CASE UNCHANGED telVars
  BY <1>1, MovesOn, Zenon DEF telVars, pipeVars, diskVars, spanVars
<1>2. CASE UNCHANGED scene /\ (Cancel \/ QueryBegins \/ QueryAttach \/ QueryAnswers \/ QueryRead)
  <2>1. UNCHANGED spanVars /\ otel' = otel
    BY <1>2, Zenon DEF Cancel, QueryBegins, QueryAttach, QueryAnswers, QueryRead,
                       pipeVars, diskVars, spanVars
  <2> QED
    BY <2>1, MovesOn, Zenon
<1>3. CASE UNCHANGED scene /\ (StoreConnect \/ StoreSchema \/ SweepDone)
  <2>1. /\ UNCHANGED spanVars
        /\ \/ otel = "store" /\ todo # <<>> /\ otel' \in {"schema", "insert"}
           \/ otel = "schema" /\ otel' = "insert"
           \/ otel = "sweep" /\ otel' = "second"
    BY <1>3, Zenon DEF StoreConnect, StoreSchema, SweepDone, diskVars, spanVars
  <2> QED
    BY <2>1, MovesOn, Zenon
<1> QED
  BY <1>1, <1>2, <1>3, SpanKeeps, TickKeeps, GetKeeps, IntervalKeeps, DrainKeeps, CancelKeeps,
     InsertKeeps, CommitKeeps, SweepKeeps, SweepFileKeeps, SecondKeeps, RaiseKeeps,
     ShutdownKeeps, Zenon DEF TelNext, OtelNext

\* Every span is somewhere or lost for a reason, and none is exported twice:
\* however many spans end, whatever the sizes of queue, batch and window, and
\* whenever exporters raise, the clock ticks or the task is cancelled.
THEOREM NoSpanVanishes == TelSpec => []SpansAccounted
<1>1. TelInv => SpansAccounted
  <2> SUFFICES ASSUME TelInv PROVE SpansAccounted
    OBVIOUS
  <2>1. DOMAIN ended = 1 .. Len(ended) /\ inserts \in [1 .. MaxSpans -> {0, 1}]
    BY SMT DEF TelInv, TelTypes
  <2>2. \A i \in DOMAIN inserts : inserts[i] <= 1
    BY <2>1, SMT
  <2>3. \A i, s : i \in Range(s) <=> InSeq(i, s)
    BY Zenon DEF Range, InSeq
  <2>4. \A i \in DOMAIN ended :
          \/ InSeq(i, queue) \/ InSeq(i, pending) \/ InSeq(i, batch)
          \/ i \in dropped \cup lost
          \/ InSeq(i, shown) /\ Kept(i)
    BY <2>1, <2>3, Zenon DEF TelInv, Accounted
  <2>5. \A j, k \in DOMAIN shown : j < k => shown[j] < shown[k]
    BY Zenon DEF TelInv, InLine, Rising
  <2> QED
    BY <2>2, <2>4, <2>5, Zenon DEF SpansAccounted, Kept, Gone, WindowAt
<1> QED
  BY <1>1, TelStarts, TelStep, PTL DEF TelSpec
=============================================================================

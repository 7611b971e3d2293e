-------------------------- MODULE RateLimiterProofs --------------------------
(***************************************************************************)
(* Proof of the rate bound, and that sweeps are complete, for any number   *)
(* of workers, addresses, shards and heap cells, any capacity, rate and    *)
(* cost.                                                                   *)
(***************************************************************************)
EXTENDS RateLimiter, TLAPS

\* Two addresses never share a bucket, and what the map points to is allocated.
BucketsDistinct ==
    \A i, j \in Ips : shards_[i] # Null =>
        /\ shards_[i] \in live
        /\ shards_[i] = shards_[j] => i = j

\* A worker about to consume has a cell and an address.
WorkersInv ==
    \A w \in Workers : pc[w] = "consume" => ptr[w] \in Cells /\ ip[w] \in Ips

\* The sweep examines entries that exist.
SweepInv == \A i \in unseen : shards_[i] # Null

\* What address i was granted in the window, related to what its bucket still
\* holds.  A bucket untouched since the window opened has granted nothing in it;
\* an address without a bucket could have a full one.
Budget(i) ==
    LET b == shards_[i] IN
    IF b = Null THEN spent[i] <= rate_ * (now - window)
    ELSE IF last_refill[b] < window THEN spent[i] = 0
    ELSE spent[i] + tokens[b] <= capacity_ + rate_ * (last_refill[b] - window)

BudgetInv == ~undefined => \A i \in Ips : Budget(i)

IndInv == TypeOK /\ BucketsDistinct /\ WorkersInv /\ SweepInv /\ BudgetInv

-----------------------------------------------------------------------------
(* Arithmetic *)

\* Multiplication by the rate is monotonic and distributes over adjacent
\* intervals of time.
LEMMA RateTimes ==
    ASSUME NEW r \in Nat, NEW a \in Int, NEW b \in Int, NEW c \in Int, a <= b, b <= c
    PROVE  /\ r * (c - a) = r * (c - b) + r * (b - a)
           /\ r * (b - a) \in Nat /\ r * (c - b) \in Nat /\ r * (c - a) \in Nat
<1>1. r * (c - a) = r * (c - b) + r * (b - a)
  OBVIOUS
<1>2. \A x \in Nat : r * x \in Nat
  OBVIOUS
<1>3. b - a \in Nat /\ c - b \in Nat /\ c - a \in Nat
  OBVIOUS
<1>. QED
  BY <1>1, <1>2, <1>3

\* The refilled bucket holds between nothing and its capacity, and at most what
\* it held plus the refill.
LEMMA RefilledBounds ==
    ASSUME TypeOK, NEW b \in Cells
    PROVE  /\ Refilled(b) \in 0 .. capacity_
           /\ Refilled(b) <= tokens[b] + rate_ * (now - last_refill[b])
<1>1. tokens[b] \in 0 .. capacity_ /\ last_refill[b] \in 0 .. now /\ now \in Nat
  BY RateLimiterAssumption DEF TypeOK
<1>2. rate_ * (now - last_refill[b]) \in Nat
  BY <1>1, RateTimes, RateLimiterAssumption
<1>. QED
  BY <1>1, <1>2, RateLimiterAssumption DEF Refilled

-----------------------------------------------------------------------------
(* Every step preserves the invariant *)

\* Facts every step uses.
LEMMA Basics ==
    ASSUME TypeOK
    PROVE  /\ now \in Nat /\ window \in Nat /\ window <= now
           /\ sweepNow \in Nat /\ sweepNow <= now
           /\ capacity_ \in Nat /\ rate_ \in Nat /\ Cost \in Nat /\ max_idle \in Nat
           /\ Null \notin Ips /\ Null \notin Cells
           /\ \A b \in Cells : /\ tokens[b] \in Nat /\ tokens[b] <= capacity_
                               /\ last_refill[b] \in Nat /\ last_refill[b] <= now
           /\ \A i \in Ips : spent[i] \in Nat
BY RateLimiterAssumption DEF TypeOK

LEMMA FindPreserves ==
    ASSUME IndInv, NEW w \in Workers, NEW i \in Ips, Find(w, i)
    PROVE  IndInv'
<1>1. /\ ptr' = [ptr EXCEPT ![w] = shards_[i]] /\ ip' = [ip EXCEPT ![w] = i]
      /\ pc' = [pc EXCEPT ![w] = "consume"] /\ shards_[i] \in Cells
      /\ UNCHANGED <<now, bucketVars, sweepVars, undefined, observerVars>>
  BY DEF Find, IndInv, TypeOK
<1>2. TypeOK'
  BY <1>1 DEF IndInv, TypeOK, bucketVars, sweepVars, observerVars
<1>3. WorkersInv'
  BY <1>1 DEF IndInv, TypeOK, WorkersInv
<1>4. BucketsDistinct' /\ SweepInv' /\ BudgetInv'
  BY <1>1 DEF IndInv, BucketsDistinct, SweepInv, BudgetInv, Budget, bucketVars, sweepVars,
              observerVars
<1>. QED
  BY <1>2, <1>3, <1>4 DEF IndInv

LEMMA CreatePreserves ==
    ASSUME IndInv, NEW w \in Workers, NEW i \in Ips, Create(w, i)
    PROVE  IndInv'
<1>1. PICK b \in Cells \ live :
         /\ shards_' = [shards_ EXCEPT ![i] = b] /\ live' = live \cup {b}
         /\ tokens' = [tokens EXCEPT ![b] = capacity_]
         /\ last_refill' = [last_refill EXCEPT ![b] = now]
         /\ ptr' = [ptr EXCEPT ![w] = b]
  BY DEF Create
<1>2. /\ ip' = [ip EXCEPT ![w] = i] /\ pc' = [pc EXCEPT ![w] = "consume"]
      /\ shards_[i] = Null
      /\ UNCHANGED <<now, sweepVars, undefined, observerVars>>
  BY DEF Create
<1>3. TypeOK'
  BY <1>1, <1>2, Basics DEF IndInv, TypeOK, sweepVars, observerVars
<1>4. WorkersInv'
  BY <1>1, <1>2 DEF IndInv, TypeOK, WorkersInv
<1>5. BucketsDistinct'
  BY <1>1, <1>2, Basics DEF IndInv, TypeOK, BucketsDistinct
<1>6. SweepInv'
  BY <1>1, <1>2, Basics DEF IndInv, TypeOK, SweepInv, sweepVars
<1>7. BudgetInv'
  <2> SUFFICES ASSUME ~undefined, NEW j \in Ips PROVE Budget(j)'
    BY <1>2 DEF BudgetInv
  <2>1. Budget(j)
    BY DEF IndInv, BudgetInv
  <2>2. CASE j = i
    <3>1. shards_'[j] = b /\ tokens'[b] = capacity_ /\ last_refill'[b] = now
      BY <1>1, <2>2 DEF IndInv, TypeOK
    <3>2. spent[j] <= rate_ * (now - window) /\ rate_ * (now - window) \in Nat
      BY <1>2, <2>1, <2>2, Basics, RateTimes DEF Budget, IndInv
    <3>3. window' = window /\ spent' = spent /\ now' = now
      BY <1>2 DEF observerVars
    <3>. QED
      BY <3>1, <3>2, <3>3, Basics DEF Budget, IndInv
  <2>3. CASE j # i
    <3>1. /\ shards_'[j] = shards_[j] /\ shards_[j] # b
          /\ shards_[j] # Null => tokens'[shards_[j]] = tokens[shards_[j]]
                                 /\ last_refill'[shards_[j]] = last_refill[shards_[j]]
      BY <1>1, <2>3, Basics DEF IndInv, TypeOK, BucketsDistinct
    <3>. QED
      BY <1>2, <2>1, <3>1 DEF Budget, observerVars
  <2>. QED
    BY <2>2, <2>3
<1>. QED
  BY <1>3, <1>4, <1>5, <1>6, <1>7 DEF IndInv

\* Charging a cell keeps every field in its range.
LEMMA ChargeKeepsTypes ==
    ASSUME IndInv, NEW w \in Workers, pc[w] = "consume", ChargeCell(w)
    PROVE  /\ tokens' \in [Cells -> 0 .. capacity_] /\ last_refill' \in [Cells -> 0 .. now]
           /\ spent' \in [Ips -> Nat]
<1>1. ptr[w] \in Cells /\ ip[w] \in Ips
  BY DEF IndInv, WorkersInv
<1>2. Refilled(ptr[w]) \in 0 .. capacity_
  BY <1>1, RefilledBounds DEF IndInv
<1>3. last_refill' = [last_refill EXCEPT ![ptr[w]] = now] /\ now \in 0 .. now
  BY Basics DEF ChargeCell, IndInv
<1>4. tokens' \in [Cells -> 0 .. capacity_]
  <2>1. CASE Refilled(ptr[w]) >= Cost
    <3>1. Refilled(ptr[w]) - Cost \in 0 .. capacity_
      BY <1>2, <2>1, Basics DEF IndInv
    <3>. QED
      BY <2>1, <3>1 DEF ChargeCell, IndInv, TypeOK
  <2>2. CASE ~(Refilled(ptr[w]) >= Cost)
    BY <1>2, <2>2 DEF ChargeCell, IndInv, TypeOK
  <2>. QED
    BY <2>1, <2>2
<1>5. spent' \in [Ips -> Nat]
  BY <1>1, Basics DEF ChargeCell, Grant, IndInv, TypeOK
<1>. QED
  BY <1>3, <1>4, <1>5 DEF IndInv, TypeOK

LEMMA ConsumePreserves ==
    ASSUME IndInv, NEW w \in Workers, Consume(w)
    PROVE  IndInv'
<1> DEFINE b == ptr[w]
           i == ip[w]
<1>1. /\ b \in Cells /\ i \in Ips /\ b = shards_[i] /\ ChargeCell(w)
      /\ UNCHANGED <<now, shards_, live, sweepVars, undefined, window>>
  BY DEF Consume, IndInv, WorkersInv
<1>2. TypeOK'
  BY <1>1, ChargeKeepsTypes DEF Consume, Returns, IndInv, TypeOK, sweepVars
<1>3. WorkersInv'
  BY DEF Consume, Returns, IndInv, TypeOK, WorkersInv
<1>4. BucketsDistinct' /\ SweepInv'
  BY <1>1 DEF IndInv, BucketsDistinct, SweepInv, sweepVars
<1>5. BudgetInv'
  <2> SUFFICES ASSUME ~undefined, NEW j \in Ips PROVE Budget(j)'
    BY <1>1 DEF BudgetInv
  <2>1. Budget(j)
    BY DEF IndInv, BudgetInv
  <2>2. CASE j = i
    <3>1. /\ shards_'[j] = b /\ last_refill'[b] = now /\ b # Null
      BY <1>1, <2>2, Basics DEF ChargeCell, IndInv, TypeOK
    <3>2. spent'[j] + tokens'[b] = spent[j] + Refilled(b)
      <4>1. CASE Refilled(b) >= Cost
        BY <1>1, <2>2, <4>1, Basics, RefilledBounds DEF ChargeCell, Grant, IndInv, TypeOK
      <4>2. CASE ~(Refilled(b) >= Cost)
        BY <1>1, <2>2, <4>2, Basics, RefilledBounds DEF ChargeCell, IndInv, TypeOK
      <4>. QED
        BY <4>1, <4>2
    <3>3. spent[j] + Refilled(b) <= capacity_ + rate_ * (now - window)
      <4>1. /\ Refilled(b) \in Nat /\ Refilled(b) <= capacity_
            /\ Refilled(b) <= tokens[b] + rate_ * (now - last_refill[b])
        BY <1>1, RefilledBounds, Basics DEF IndInv
      <4>2. CASE last_refill[b] < window
        <5>1. spent[j] = 0
          BY <1>1, <2>1, <2>2, <3>1, <4>2 DEF Budget
        <5>2. rate_ * (now - window) \in Nat
          BY Basics, RateTimes DEF IndInv
        <5>. QED
          BY <4>1, <5>1, <5>2, Basics DEF IndInv
      <4>3. CASE ~(last_refill[b] < window)
        <5>1. spent[j] + tokens[b] <= capacity_ + rate_ * (last_refill[b] - window)
          BY <1>1, <2>1, <2>2, <3>1, <4>3 DEF Budget
        <5>2. /\ rate_ * (now - window)
                   = rate_ * (now - last_refill[b]) + rate_ * (last_refill[b] - window)
              /\ rate_ * (now - last_refill[b]) \in Nat
              /\ rate_ * (last_refill[b] - window) \in Nat
          BY <1>1, <4>3, Basics, RateTimes DEF IndInv
        <5>3. spent[j] \in Nat /\ tokens[b] \in Nat /\ capacity_ \in Nat
          BY <1>1, Basics DEF IndInv
        <5>. QED
          BY <4>1, <5>1, <5>2, <5>3
      <4>. QED
        BY <4>2, <4>3
    <3>4. ~(now < window)
      BY Basics DEF IndInv
    <3>. QED
      BY <1>1, <3>1, <3>2, <3>3, <3>4 DEF Budget
  <2>3. CASE j # i
    <3>1. spent'[j] = spent[j]
      BY <1>1, <2>3 DEF ChargeCell, Grant, IndInv, TypeOK
    <3>2. /\ shards_[j] # b
          /\ shards_[j] # Null => tokens'[shards_[j]] = tokens[shards_[j]]
                                 /\ last_refill'[shards_[j]] = last_refill[shards_[j]]
      <4>1. shards_[j] # b
        BY <1>1, <2>3, Basics DEF IndInv, BucketsDistinct
      <4>. QED
        BY <1>1, <4>1 DEF ChargeCell, IndInv, TypeOK
    <3>. QED
      BY <1>1, <2>1, <3>1, <3>2 DEF Budget
  <2>. QED
    BY <2>2, <2>3
<1>. QED
  BY <1>2, <1>3, <1>4, <1>5 DEF IndInv

LEMMA ConsumeDanglingPreserves ==
    ASSUME IndInv, NEW w \in Workers, ConsumeDangling(w)
    PROVE  IndInv'
<1>1. /\ undefined' = TRUE /\ ptr[w] \in Cells /\ ip[w] \in Ips
      /\ UNCHANGED <<now, shards_, live, sweepVars, window>>
  BY DEF ConsumeDangling, IndInv, WorkersInv
<1>2. /\ tokens' \in [Cells -> 0 .. capacity_] /\ last_refill' \in [Cells -> 0 .. now]
      /\ spent' \in [Ips -> Nat]
  <2>1. CASE ptr[w] \in live
    BY <2>1, ChargeKeepsTypes DEF ConsumeDangling
  <2>2. CASE ptr[w] \notin live
    BY <1>1, <2>2, Basics DEF ConsumeDangling, Grant, IndInv, TypeOK
  <2>. QED
    BY <2>1, <2>2
<1>3. TypeOK'
  BY <1>1, <1>2 DEF ConsumeDangling, Returns, IndInv, TypeOK, sweepVars
<1>4. WorkersInv'
  BY DEF ConsumeDangling, Returns, IndInv, TypeOK, WorkersInv
<1>5. BucketsDistinct' /\ SweepInv' /\ BudgetInv'
  BY <1>1 DEF IndInv, BucketsDistinct, SweepInv, BudgetInv, sweepVars
<1>. QED
  BY <1>3, <1>4, <1>5 DEF IndInv

LEMMA SweepErasesPreserves ==
    ASSUME IndInv, NEW i \in Ips, SweepErases(i)
    PROVE  IndInv'
<1> DEFINE b == shards_[i]
<1>1. /\ i \in unseen /\ Stale(b) /\ b \in Cells
      /\ shards_' = [shards_ EXCEPT ![i] = Null] /\ live' = live \ {b}
      /\ tokens' = [tokens EXCEPT ![b] = 0] /\ last_refill' = [last_refill EXCEPT ![b] = 0]
      /\ unseen' = unseen \ {i} /\ sweep' = "unlock" /\ freed' = b
      /\ UNCHANGED <<now, workerVars, shard, sweepNow, undefined, observerVars>>
  BY DEF SweepErases, AfterErase, IndInv, SweepInv, TypeOK
<1>2. TypeOK'
  BY <1>1, Basics DEF IndInv, TypeOK, workerVars, observerVars
<1>3. WorkersInv'
  BY <1>1 DEF IndInv, WorkersInv, workerVars
<1>4. BucketsDistinct'
  BY <1>1 DEF IndInv, TypeOK, BucketsDistinct
<1>5. SweepInv'
  BY <1>1 DEF IndInv, TypeOK, SweepInv
<1>6. BudgetInv'
  <2> SUFFICES ASSUME ~undefined, NEW j \in Ips PROVE Budget(j)'
    BY <1>1 DEF BudgetInv
  <2>1. Budget(j)
    BY DEF IndInv, BudgetInv
  <2>2. now' = now /\ window' = window /\ spent' = spent
    BY <1>1 DEF observerVars
  <2>3. CASE j = i
    <3>1. shards_'[j] = Null
      BY <1>1, <2>3 DEF IndInv, TypeOK
    <3>2. spent[j] <= rate_ * (now - window)
      <4>1. rate_ * (now - window) \in Nat
        BY Basics, RateTimes DEF IndInv
      <4>2. CASE last_refill[b] < window
        BY <1>1, <2>1, <2>3, <4>1, <4>2, Basics DEF Budget, IndInv
      <4>3. CASE ~(last_refill[b] < window)
        <5> DEFINE l == last_refill[b]
                   full == l + max_idle
        <5>1. /\ l \in Nat /\ full \in Nat /\ window <= l /\ l <= full /\ full <= now
              /\ full - l = max_idle
          BY <1>1, <4>3, Basics DEF Stale, IndInv
        <5>2. spent[j] + tokens[b] <= capacity_ + rate_ * (l - window)
          BY <1>1, <2>1, <2>3, <4>3, Basics DEF Budget, IndInv
        <5>3. capacity_ <= rate_ * (full - l)
          BY <5>1, RateLimiterAssumption
        <5>4. rate_ * (full - window) = rate_ * (full - l) + rate_ * (l - window)
          BY <5>1, Basics, RateTimes DEF IndInv
        <5>5. /\ rate_ * (now - window) = rate_ * (now - full) + rate_ * (full - window)
              /\ rate_ * (now - full) \in Nat /\ rate_ * (full - window) \in Nat
          BY <5>1, Basics, RateTimes DEF IndInv
        <5>6. rate_ * (full - l) \in Nat /\ rate_ * (l - window) \in Nat
          BY <5>1, Basics, RateTimes DEF IndInv
        <5>7. spent[j] \in Nat /\ tokens[b] \in Nat /\ capacity_ \in Nat
          BY <1>1, Basics DEF IndInv
        <5> HIDE DEF l, full
        <5>. QED
          BY <5>2, <5>3, <5>4, <5>5, <5>6, <5>7
      <4>. QED
        BY <4>2, <4>3
    <3>. QED
      BY <2>2, <3>1, <3>2 DEF Budget
  <2>4. CASE j # i
    <3>1. shards_'[j] = shards_[j] /\ (shards_[j] # Null => shards_[j] # b)
      BY <1>1, <2>4 DEF IndInv, TypeOK, BucketsDistinct
    <3>2. shards_[j] # Null => tokens'[shards_[j]] = tokens[shards_[j]]
                               /\ last_refill'[shards_[j]] = last_refill[shards_[j]]
      BY <1>1, <3>1 DEF IndInv, TypeOK
    <3>. QED
      BY <2>1, <2>2, <3>1, <3>2 DEF Budget
  <2>. QED
    BY <2>3, <2>4
<1>. QED
  BY <1>2, <1>3, <1>4, <1>5, <1>6 DEF IndInv

\* The other steps of the sweep leave buckets, clock and observer alone.
LEMMA SweepScansPreserves ==
    ASSUME IndInv,
           SweepBegins \/ SweepUnlocks \/ SweepNextShard \/ \E i \in Ips : SweepKeeps(i)
    PROVE  IndInv'
<1>1. /\ UNCHANGED <<now, bucketVars, workerVars, observerVars>>
      /\ undefined' \in BOOLEAN /\ (~undefined' => ~undefined)
  BY DEF SweepBegins, SweepUnlocks, SweepNextShard, SweepKeeps, IndInv, TypeOK
<1>2. unseen' \subseteq Ips /\ \A i \in unseen' : shards_[i] # Null
  BY DEF SweepBegins, SweepUnlocks, SweepNextShard, SweepKeeps, Entries, IndInv, TypeOK, SweepInv
<1>3. /\ sweep' \in {"idle", "scan", "unlock"} /\ shard' \in 0 .. NUM_SHARDS
      /\ sweepNow' \in 0 .. now /\ freed' \in Cells \cup {Null}
  BY Basics, RateLimiterAssumption
     DEF SweepBegins, SweepUnlocks, SweepNextShard, SweepKeeps, IndInv, TypeOK
<1>4. TypeOK'
  BY <1>1, <1>2, <1>3 DEF IndInv, TypeOK, bucketVars, workerVars, observerVars
<1>5. BucketsDistinct' /\ WorkersInv' /\ SweepInv'
  BY <1>1, <1>2 DEF IndInv, BucketsDistinct, WorkersInv, SweepInv, bucketVars, workerVars
<1>6. BudgetInv'
  BY <1>1 DEF IndInv, BudgetInv, Budget, bucketVars, observerVars
<1>. QED
  BY <1>4, <1>5, <1>6 DEF IndInv

LEMMA TickPreserves ==
    ASSUME IndInv, Tick
    PROVE  IndInv'
<1>1. /\ now' = now + 1 /\ now < MaxTime
      /\ UNCHANGED <<bucketVars, workerVars, sweepVars, undefined, observerVars>>
  BY DEF Tick
<1>2. TypeOK'
  <2>1. now' \in 0 .. MaxTime /\ 0 .. now \subseteq 0 .. now'
    BY <1>1, Basics, RateLimiterAssumption DEF IndInv
  <2>. QED
    BY <1>1, <2>1 DEF IndInv, TypeOK, bucketVars, workerVars, sweepVars, observerVars
<1>3. BucketsDistinct' /\ WorkersInv' /\ SweepInv'
  BY <1>1 DEF IndInv, BucketsDistinct, WorkersInv, SweepInv, bucketVars, workerVars, sweepVars
<1>4. BudgetInv'
  <2>1. rate_ * (now' - window) = rate_ * (now' - now) + rate_ * (now - window)
    BY <1>1, Basics, RateTimes DEF IndInv
  <2>2. rate_ * (now' - now) \in Nat /\ rate_ * (now - window) \in Nat
    BY <1>1, Basics, RateTimes DEF IndInv
  <2>3. \A i \in Ips : spent[i] <= rate_ * (now - window) => spent[i] <= rate_ * (now' - window)
    BY <2>1, <2>2, Basics DEF IndInv
  <2>. QED
    BY <1>1, <2>3 DEF IndInv, BudgetInv, Budget, bucketVars, observerVars
<1>. QED
  BY <1>2, <1>3, <1>4 DEF IndInv

LEMMA OpenWindowPreserves ==
    ASSUME IndInv, OpenWindow
    PROVE  IndInv'
<1>1. /\ window' = now /\ spent' = [i \in Ips |-> 0]
      /\ UNCHANGED <<now, bucketVars, workerVars, sweepVars, undefined>>
  BY DEF OpenWindow
<1>2. TypeOK'
  BY <1>1, Basics DEF IndInv, TypeOK, bucketVars, workerVars, sweepVars
<1>3. BucketsDistinct' /\ WorkersInv' /\ SweepInv'
  BY <1>1 DEF IndInv, BucketsDistinct, WorkersInv, SweepInv, bucketVars, workerVars, sweepVars
<1>4. BudgetInv'
  <2> SUFFICES ASSUME NEW i \in Ips PROVE Budget(i)'
    BY DEF BudgetInv
  <2>1. spent'[i] = 0 /\ now' = now /\ shards_' = shards_ /\ tokens' = tokens
        /\ last_refill' = last_refill
    BY <1>1 DEF bucketVars
  <2>2. rate_ * (now - now) = 0
    BY Basics DEF IndInv
  <2>3. CASE shards_[i] = Null
    BY <1>1, <2>1, <2>2, <2>3 DEF Budget
  <2>4. CASE shards_[i] # Null
    <3>1. shards_[i] \in Cells
      BY <2>4 DEF IndInv, TypeOK
    <3>2. /\ last_refill[shards_[i]] <= now /\ last_refill[shards_[i]] \in Nat /\ now \in Nat
          /\ tokens[shards_[i]] <= capacity_ /\ tokens[shards_[i]] \in Nat /\ capacity_ \in Nat
      BY <3>1, Basics DEF IndInv
    <3>3. ~(last_refill[shards_[i]] < now) => last_refill[shards_[i]] = now
      BY <3>2
    <3>. QED
      BY <1>1, <2>1, <2>2, <2>4, <3>2, <3>3 DEF Budget
  <2>. QED
    BY <2>3, <2>4
<1>. QED
  BY <1>2, <1>3, <1>4 DEF IndInv

\* The invariant holds initially and every step keeps it.
THEOREM Invariance == Spec => []IndInv
<1>1. Init => IndInv
  <2> SUFFICES ASSUME Init PROVE IndInv
    OBVIOUS
  <2>0. /\ 0 \in 0 .. MaxTime
        /\ 0 \in 0 .. NUM_SHARDS
        /\ 0 \in 0 .. capacity_
    BY RateLimiterAssumption
  <2>1. TypeOK
    <3>1. now \in 0 .. MaxTime /\ window \in 0 .. now /\ sweepNow \in 0 .. now
      BY <2>0 DEF Init
    <3>2. tokens \in [Cells -> 0 .. capacity_] /\ last_refill \in [Cells -> 0 .. now]
      BY <2>0, <3>1 DEF Init
    <3>3. /\ shards_ \in [Ips -> Cells \cup {Null}] /\ live \subseteq Cells
          /\ unseen \subseteq Ips /\ freed \in Cells \cup {Null}
          /\ undefined \in BOOLEAN
      BY DEF Init
    <3>4. /\ pc \in [Workers -> {"idle", "consume"}]
          /\ ip \in [Workers -> Ips \cup {Null}] /\ ptr \in [Workers -> Cells \cup {Null}]
      BY DEF Init
    <3>5. sweep \in {"idle", "scan", "unlock"} /\ shard \in 0 .. NUM_SHARDS
      BY <2>0 DEF Init
    <3>6. spent \in [Ips -> Nat]
      BY DEF Init
    <3>. QED
      BY <3>1, <3>2, <3>3, <3>4, <3>5, <3>6 DEF TypeOK
  <2>2. BucketsDistinct /\ WorkersInv /\ SweepInv
    BY RateLimiterAssumption DEF Init, BucketsDistinct, WorkersInv, SweepInv
  <2>3. rate_ * (0 - 0) = 0
    BY RateLimiterAssumption
  <2>4. BudgetInv
    BY <2>3 DEF Init, BudgetInv, Budget
  <2>. QED
    BY <2>1, <2>2, <2>4 DEF IndInv
<1>2. IndInv /\ [Next]_vars => IndInv'
  <2> SUFFICES ASSUME IndInv, [Next]_vars PROVE IndInv'
    OBVIOUS
  <2>1. CASE \E w \in Workers : Allow(w)
    BY <2>1, FindPreserves, CreatePreserves, ConsumePreserves, ConsumeDanglingPreserves DEF Allow
  <2>2. CASE SweepStale
    BY <2>2, SweepScansPreserves, SweepErasesPreserves DEF SweepStale
  <2>3. CASE Tick
    BY <2>3, TickPreserves
  <2>4. CASE OpenWindow
    BY <2>4, OpenWindowPreserves
  <2>5. CASE UNCHANGED vars
    BY <2>5 DEF vars, IndInv, TypeOK, BucketsDistinct, WorkersInv, SweepInv, BudgetInv, Budget,
                bucketVars, workerVars, sweepVars, observerVars
  <2>. QED
    BY <2>1, <2>2, <2>3, <2>4, <2>5 DEF Next
<1>. QED
  BY <1>1, <1>2, PTL DEF Spec

\* Every variable keeps its type, the token count its range.
THEOREM TypeCorrect == Spec => []TypeOK
<1>1. IndInv => TypeOK
  BY DEF IndInv
<1>. QED
  BY <1>1, Invariance, PTL

\* In every window an address is granted at most the burst plus the refill, for
\* any number of workers and any schedule of evictions: a bucket is evicted only
\* when it would have been full, so that creating it full again gives nothing.
THEOREM RateIsBounded == Spec => []RateBound
<1>1. IndInv => RateBound
  <2> SUFFICES ASSUME IndInv, ~undefined, NEW i \in Ips
               PROVE  spent[i] <= capacity_ + rate_ * (now - window)
    BY DEF RateBound
  <2>1. Budget(i)
    BY DEF IndInv, BudgetInv
  <2>2. rate_ * (now - window) \in Nat /\ capacity_ \in Nat /\ spent[i] \in Nat
    BY Basics, RateTimes DEF IndInv
  <2>3. CASE shards_[i] = Null
    BY <2>1, <2>2, <2>3 DEF Budget
  <2>4. CASE shards_[i] # Null
    <3> DEFINE l == last_refill[shards_[i]]
    <3>1. shards_[i] \in Cells
      BY <2>4 DEF IndInv, TypeOK
    <3>2. CASE l < window
      BY <2>1, <2>2, <2>4, <3>2 DEF Budget
    <3>3. CASE ~(l < window)
      <4>1. spent[i] + tokens[shards_[i]] <= capacity_ + rate_ * (l - window)
        BY <2>1, <2>4, <3>3 DEF Budget
      <4>2. /\ rate_ * (now - window) = rate_ * (now - l) + rate_ * (l - window)
            /\ rate_ * (now - l) \in Nat /\ rate_ * (l - window) \in Nat
        BY <3>1, <3>3, Basics, RateTimes DEF IndInv
      <4>3. tokens[shards_[i]] \in Nat
        BY <3>1, Basics DEF IndInv
      <4> HIDE DEF l
      <4>. QED
        BY <2>2, <4>1, <4>2, <4>3
    <3>. QED
      BY <3>2, <3>3
  <2>. QED
    BY <2>3, <2>4
<1>. QED
  BY <1>1, Invariance, PTL

-----------------------------------------------------------------------------
(* A sweep is complete *)

\* The sweep is done with the entry of address i, or none is under way.
Swept(i) ==
    \/ sweep = "idle" \/ shard_for(i) < shard
    \/ shard_for(i) = shard /\ i \notin unseen

\* What the sweep is done with is not stale: it never comes back to it, and
\* allow() only makes buckets younger while erasing leaves the others alone.
SweptInv ==
    /\ sweep # "idle" => shard \in Shards
    /\ \A i \in Ips : Swept(i) /\ shards_[i] # Null => ~Stale(shards_[i])

LEMMA InitSwept == Init => SweptInv
BY DEF Init, SweptInv

\* allow() changes the bucket of an address to one just made, and writes to at
\* most one bucket, with the present time.
LEMMA AllowKeepsSwept ==
    ASSUME IndInv, SweptInv, NEW w \in Workers, Allow(w)
    PROVE  SweptInv'
<1>1. /\ UNCHANGED <<now, sweep, shard, unseen, sweepNow>>
      /\ TypeOK
  BY DEF Allow, Find, Create, Consume, ConsumeDangling, sweepVars, IndInv
<1>2. ASSUME NEW b \in Cells PROVE last_refill'[b] \in {last_refill[b], now}
  <2>1. \/ last_refill' = last_refill
        \/ \E a \in Cells : last_refill' = [last_refill EXCEPT ![a] = now]
    BY DEF Allow, Find, Create, Consume, ConsumeDangling, ChargeCell, bucketVars, IndInv, WorkersInv
  <2>. QED
    BY <1>1, <2>1 DEF TypeOK
<1>3. ASSUME NEW i \in Ips, Swept(i)', shards_'[i] # Null PROVE ~Stale(shards_[i])'
  <2>1. Swept(i)
    BY <1>1, <1>3 DEF Swept
  <2>2. CASE shards_'[i] = shards_[i]
    <3>1. shards_[i] \in Cells /\ ~Stale(shards_[i])
      BY <1>1, <1>3, <2>1, <2>2 DEF TypeOK, SweptInv
    <3>2. CASE last_refill'[shards_[i]] = last_refill[shards_[i]]
      BY <1>1, <2>2, <3>1, <3>2 DEF Stale
    <3>3. CASE last_refill'[shards_[i]] = now
      BY <1>1, <2>2, <3>1, <3>3, Basics DEF Stale
    <3>. QED
      BY <1>2, <3>1, <3>2, <3>3
  <2>3. CASE shards_'[i] # shards_[i]
    <3>1. PICK j \in Ips : Create(w, j)
      BY <2>3 DEF Allow, Find, Consume, ConsumeDangling, bucketVars
    <3>2. shards_'[i] \in Cells /\ last_refill'[shards_'[i]] = now
      BY <1>1, <2>3, <3>1 DEF Create, TypeOK
    <3>. QED
      BY <1>1, <3>2, Basics DEF Stale
  <2>. QED
    BY <2>2, <2>3
<1>. QED
  BY <1>1, <1>3 DEF SweptInv

LEMMA SweepKeepsSwept ==
    ASSUME IndInv, SweptInv, SweepStale
    PROVE  SweptInv'
<1>1. /\ shard \in 0 .. NUM_SHARDS /\ NUM_SHARDS \in Nat \ {0}
      /\ \A i \in Ips : shard_for(i) \in 1 .. NUM_SHARDS
  BY RateLimiterAssumption DEF IndInv, TypeOK, Shards
<1>2. CASE SweepBegins
  <2>1. \A i \in Ips : Swept(i)' => shards_[i] = Null
    BY <1>1, <1>2 DEF SweepBegins, Swept, Entries
  <2>. QED
    BY <1>1, <1>2, <2>1 DEF SweepBegins, SweptInv, bucketVars, Shards
<1>3. CASE SweepUnlocks
  BY <1>3 DEF SweepUnlocks, SweptInv, Swept, Stale, bucketVars
<1>4. CASE SweepNextShard
  <2>1. sweep = "scan" /\ unseen = {} /\ UNCHANGED <<shards_, last_refill, sweepNow>>
    BY <1>4 DEF SweepNextShard, bucketVars
  <2>2. shard \in Shards
    BY <2>1 DEF SweptInv
  <2>3. ASSUME NEW i \in Ips, Swept(i)', shards_[i] # Null PROVE Swept(i)
    <3>1. CASE shard < NUM_SHARDS
      BY <1>1, <1>4, <2>1, <2>3, <3>1 DEF SweepNextShard, Swept, Entries
    <3>2. CASE ~(shard < NUM_SHARDS)
      BY <1>1, <2>1, <3>2 DEF Swept
    <3>. QED
      BY <3>1, <3>2
  <2>4. sweep' # "idle" => shard' \in Shards
    BY <1>1, <1>4, <2>2 DEF SweepNextShard, Shards
  <2>. QED
    BY <2>1, <2>3, <2>4 DEF SweptInv, Stale
<1>5. ASSUME NEW i \in Ips, SweepKeeps(i) PROVE SweptInv'
  BY <1>5 DEF SweepKeeps, SweptInv, Swept, Stale, bucketVars
<1>6. ASSUME NEW i \in Ips, SweepErases(i) PROVE SweptInv'
  <2>1. /\ sweep = "scan" /\ sweep' = "unlock" /\ unseen' = unseen \ {i}
        /\ UNCHANGED <<shard, sweepNow>>
        /\ shards_' = [shards_ EXCEPT ![i] = Null]
        /\ last_refill' = [last_refill EXCEPT ![shards_[i]] = 0]
        /\ shards_[i] \in Cells
    BY <1>6 DEF SweepErases, AfterErase, IndInv, TypeOK, SweepInv
  <2>2. ASSUME NEW j \in Ips, Swept(j)', shards_'[j] # Null PROVE ~Stale(shards_[j])'
    <3>1. j # i /\ shards_'[j] = shards_[j]
      BY <2>1, <2>2 DEF IndInv, TypeOK
    <3>2. shards_[j] # shards_[i] /\ shards_[j] \in Cells
      BY <2>2, <3>1 DEF IndInv, TypeOK, BucketsDistinct
    <3>3. last_refill'[shards_[j]] = last_refill[shards_[j]]
      BY <2>1, <3>2 DEF IndInv, TypeOK
    <3>4. Swept(j)
      BY <2>1, <2>2, <3>1 DEF Swept
    <3>. QED
      BY <2>1, <2>2, <3>1, <3>3, <3>4 DEF SweptInv, Stale
  <2>. QED
    BY <2>1, <2>2 DEF SweptInv
<1>. QED
  BY <1>2, <1>3, <1>4, <1>5, <1>6 DEF SweepStale

\* When sweep_stale() has returned, no bucket that was stale when it began is
\* left, for any number of shards and addresses, whatever allow() creates or
\* refills during the sweep: erasing an entry never makes the iteration skip one.
THEOREM SweepsAreComplete == Spec => []SweepComplete
<1>1. IndInv /\ SweptInv /\ [Next]_vars => SweptInv'
  <2> SUFFICES ASSUME IndInv, SweptInv, [Next]_vars PROVE SweptInv'
    OBVIOUS
  <2>1. CASE Tick \/ OpenWindow \/ UNCHANGED vars
    BY <2>1 DEF Tick, OpenWindow, vars, bucketVars, sweepVars, SweptInv, Swept, Stale
  <2>. QED
    BY <2>1, AllowKeepsSwept, SweepKeepsSwept DEF Next
<1>2. SweptInv => SweepComplete
  BY DEF SweptInv, Swept, SweepComplete
<1>. QED
  BY <1>1, <1>2, InitSwept, Invariance, PTL DEF Spec
=============================================================================

----------------------------- MODULE RateLimiter -----------------------------
(***************************************************************************)
(* The per-address token buckets (RateLimiter.cpp).  Workers call allow(): *)
(* a lookup under the shard's mutex returns a raw pointer, then the bucket *)
(* is refilled and charged under its own mutex.  The event loop calls      *)
(* sweep_stale(), which destroys buckets under the mutex of their shard.   *)
(*                                                                         *)
(* Tokens are counted in integer units: a request costs Cost units and a   *)
(* tick of the clock refills Rate units.  A bucket is a cell of the heap;  *)
(* a freed cell may be allocated again.                                    *)
(***************************************************************************)
EXTENDS Integers, FiniteSets

CONSTANTS Workers,
          Ips,          \* client addresses
          Cells,        \* heap cells a bucket can occupy
          Null,
          NUM_SHARDS,
          shard_for(_), \* the shard of an address
          capacity_,    \* units of a full bucket
          rate_,        \* units refilled per tick
          Cost,         \* units one request takes
          max_idle,     \* ticks after which a bucket is stale
          MaxTime       \* bound on the clock

Shards == 1 .. NUM_SHARDS

ASSUME RateLimiterAssumption ==
    /\ Null \notin Ips \cup Cells
    /\ NUM_SHARDS \in Nat \ {0}
    /\ \A i \in Ips : shard_for(i) \in Shards
    /\ capacity_ \in Nat /\ rate_ \in Nat /\ Cost \in Nat
    /\ max_idle \in Nat /\ MaxTime \in Nat
    /\ rate_ * max_idle >= capacity_     \* a stale bucket would be full again

VARIABLES now,        \* steady_clock
          shards_,    \* the bucket of each address; Null where it has none
          live,       \* allocated cells
          tokens,     \* field of the bucket in each cell
          last_refill,
          pc, ip, ptr,       \* each worker: where it is, its argument, its bucket
          sweep,      \* "idle", "scan" or "unlock": where sweep_stale is
          shard,      \* the shard whose mutex sweep_stale holds
          unseen,     \* addresses of that shard still to be examined
          sweepNow,   \* the time sweep_stale read when it began
          freed,      \* the cell whose mutex the erasing iteration still holds
          undefined,  \* a worker used a cell that is not its bucket any more
          window,     \* observer: start of an arbitrary window of time
          spent       \* observer: units granted to each address in the window

bucketVars == <<shards_, live, tokens, last_refill>>
workerVars == <<pc, ip, ptr>>
sweepVars == <<sweep, shard, unseen, sweepNow, freed>>
observerVars == <<window, spent>>
vars == <<now, bucketVars, workerVars, sweepVars, undefined, observerVars>>

Init ==
    /\ now = 0
    /\ shards_ = [i \in Ips |-> Null]
    /\ live = {}
    /\ tokens = [b \in Cells |-> 0] /\ last_refill = [b \in Cells |-> 0]
    /\ pc = [w \in Workers |-> "idle"]
    /\ ip = [w \in Workers |-> Null] /\ ptr = [w \in Workers |-> Null]
    /\ sweep = "idle" /\ shard = 0 /\ unseen = {} /\ sweepNow = 0 /\ freed = Null
    /\ undefined = FALSE
    /\ window = 0 /\ spent = [i \in Ips |-> 0]

-----------------------------------------------------------------------------
(* allow *)

ShardIsLocked(i) == sweep # "idle" /\ shard_for(i) = shard

\* Step 1: find the bucket, or create a full one, under the shard's mutex.
Find(w, i) ==
    /\ pc[w] = "idle" /\ ~ShardIsLocked(i)
    /\ shards_[i] # Null
    /\ ptr' = [ptr EXCEPT ![w] = shards_[i]]
    /\ ip' = [ip EXCEPT ![w] = i]
    /\ pc' = [pc EXCEPT ![w] = "consume"]
    /\ UNCHANGED <<now, bucketVars, sweepVars, undefined, observerVars>>

Create(w, i) ==
    /\ pc[w] = "idle" /\ ~ShardIsLocked(i)
    /\ shards_[i] = Null
    /\ \E b \in Cells \ live :
          /\ shards_' = [shards_ EXCEPT ![i] = b]
          /\ live' = live \cup {b}
          /\ tokens' = [tokens EXCEPT ![b] = capacity_]
          /\ last_refill' = [last_refill EXCEPT ![b] = now]
          /\ ptr' = [ptr EXCEPT ![w] = b]
    /\ ip' = [ip EXCEPT ![w] = i]
    /\ pc' = [pc EXCEPT ![w] = "consume"]
    /\ UNCHANGED <<now, sweepVars, undefined, observerVars>>

Refilled(b) ==
    LET sum == tokens[b] + rate_ * (now - last_refill[b])
    IN  IF sum < capacity_ THEN sum ELSE capacity_

Returns(w) ==
    /\ pc' = [pc EXCEPT ![w] = "idle"]
    /\ ip' = [ip EXCEPT ![w] = Null] /\ ptr' = [ptr EXCEPT ![w] = Null]

Grant(i) == spent' = [spent EXCEPT ![i] = @ + Cost]

\* Step 2: refill and charge the cell, under the bucket's own mutex.
ChargeCell(w) ==
    LET b == ptr[w] IN
    /\ last_refill' = [last_refill EXCEPT ![b] = now]
    /\ IF Refilled(b) >= Cost
       THEN tokens' = [tokens EXCEPT ![b] = Refilled(b) - Cost] /\ Grant(ip[w])
       ELSE tokens' = [tokens EXCEPT ![b] = Refilled(b)] /\ UNCHANGED spent

Consume(w) ==
    /\ pc[w] = "consume" /\ ptr[w] = shards_[ip[w]]
    /\ ChargeCell(w)
    /\ Returns(w)
    /\ UNCHANGED <<now, shards_, live, sweepVars, undefined, window>>

\* The same on a cell that was freed in between: whatever it holds now decides,
\* and what is written there corrupts the heap or the bucket of another address.
ConsumeDangling(w) ==
    /\ pc[w] = "consume" /\ ptr[w] # shards_[ip[w]]
    /\ undefined' = TRUE
    /\ IF ptr[w] \in live
       THEN ChargeCell(w)
       ELSE UNCHANGED <<tokens, last_refill>> /\ (Grant(ip[w]) \/ UNCHANGED spent)
    /\ Returns(w)
    /\ UNCHANGED <<now, shards_, live, sweepVars, window>>

-----------------------------------------------------------------------------
(* sweep_stale *)

\* Addresses with a bucket in shard s, the entries of its map.
Entries(s) == {i \in Ips : shard_for(i) = s /\ shards_[i] # Null}

SweepBegins ==
    /\ sweep = "idle"
    /\ sweep' = "scan" /\ sweepNow' = now
    /\ shard' = 1 /\ unseen' = Entries(1)
    /\ UNCHANGED <<now, bucketVars, workerVars, freed, undefined, observerVars>>

MutantStale(b) == sweepNow - last_refill[b] >= 1
Stale(b) == sweepNow - last_refill[b] > max_idle

SweepKeeps(i) ==
    /\ sweep = "scan" /\ i \in unseen
    /\ ~Stale(shards_[i])
    /\ unseen' = unseen \ {i}
    /\ UNCHANGED <<now, bucketVars, workerVars, sweep, shard, sweepNow, freed,
                   undefined, observerVars>>

\* map.erase() destroys the bucket while its mutex is held (a free cell's
\* fields are never read, 0 stands for any contents) ...
MutantAfterErase(i) == IF unseen = {i} THEN {} ELSE unseen \ {i, CHOOSE j \in unseen : j # i}
AfterErase(i) == unseen \ {i}

SweepErases(i) ==
    /\ sweep = "scan" /\ i \in unseen
    /\ Stale(shards_[i])
    /\ freed' = shards_[i]
    /\ live' = live \ {shards_[i]}
    /\ shards_' = [shards_ EXCEPT ![i] = Null]
    /\ tokens' = [tokens EXCEPT ![shards_[i]] = 0]
    /\ last_refill' = [last_refill EXCEPT ![shards_[i]] = 0]
    /\ unseen' = AfterErase(i)
    /\ sweep' = "unlock"
    /\ UNCHANGED <<now, workerVars, shard, sweepNow, undefined, observerVars>>

\* ... and the lock_guard then unlocks the destroyed mutex: without effect
\* while nobody has the cell, undefined when a new bucket lives there.
SweepUnlocks ==
    /\ sweep = "unlock"
    /\ sweep' = "scan" /\ freed' = Null
    /\ undefined' = (undefined \/ freed \in live)
    /\ UNCHANGED <<now, bucketVars, workerVars, shard, unseen, sweepNow, observerVars>>

SweepNextShard ==
    /\ sweep = "scan" /\ unseen = {}
    /\ IF shard < NUM_SHARDS
       THEN sweep' = "scan" /\ shard' = shard + 1 /\ unseen' = Entries(shard + 1)
       ELSE sweep' = "idle" /\ shard' = 0 /\ unseen' = {}
    /\ UNCHANGED <<now, bucketVars, workerVars, sweepNow, freed, undefined, observerVars>>

-----------------------------------------------------------------------------

Tick ==
    /\ now < MaxTime
    /\ now' = now + 1
    /\ UNCHANGED <<bucketVars, workerVars, sweepVars, undefined, observerVars>>

\* The observer begins a window at any time.
OpenWindow ==
    /\ window' = now /\ spent' = [i \in Ips |-> 0]
    /\ UNCHANGED <<now, bucketVars, workerVars, sweepVars, undefined>>

Allow(w) ==
    \/ \E i \in Ips : Find(w, i) \/ Create(w, i)
    \/ Consume(w) \/ ConsumeDangling(w)

SweepStale ==
    \/ SweepBegins \/ SweepUnlocks \/ SweepNextShard
    \/ \E i \in Ips : SweepKeeps(i) \/ SweepErases(i)

Next == (\E w \in Workers : Allow(w)) \/ SweepStale \/ Tick \/ OpenWindow

Spec == Init /\ [][Next]_vars

-----------------------------------------------------------------------------
(* Properties *)

\* Every variable keeps its type; a bucket never holds more than its capacity
\* and never less than nothing, and was last refilled in the past.
TypeOK ==
    /\ now \in 0 .. MaxTime /\ window \in 0 .. now /\ sweepNow \in 0 .. now
    /\ shards_ \in [Ips -> Cells \cup {Null}] /\ live \subseteq Cells
    /\ tokens \in [Cells -> 0 .. capacity_]
    /\ last_refill \in [Cells -> 0 .. now]
    /\ pc \in [Workers -> {"idle", "consume"}]
    /\ ip \in [Workers -> Ips \cup {Null}] /\ ptr \in [Workers -> Cells \cup {Null}]
    /\ sweep \in {"idle", "scan", "unlock"} /\ shard \in 0 .. NUM_SHARDS
    /\ unseen \subseteq Ips /\ freed \in Cells \cup {Null}
    /\ undefined \in BOOLEAN
    /\ spent \in [Ips -> Nat]

\* In any window of time an address is granted at most the burst and what the
\* refill rate yields in the window, however its requests are spread over the
\* workers and whether or not its bucket is evicted and made again in between.
RateBound ==
    ~undefined => \A i \in Ips : spent[i] <= capacity_ + rate_ * (now - window)

\* A finished sweep leaves no bucket behind that was stale when it began.
SweepComplete ==
    sweep = "idle" /\ ~undefined =>
        \A i \in Ips : shards_[i] # Null => ~Stale(shards_[i])

\* The raw pointer a worker took from the map stays valid until it is used.
BucketStaysValid == \A w \in Workers : pc[w] = "consume" => ptr[w] = shards_[ip[w]]
=============================================================================

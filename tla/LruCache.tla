------------------------------ MODULE LruCache ------------------------------
(***************************************************************************)
(* cache/lru_cache.go: a cache with a size limit and a time to live, used  *)
(* by goroutines that call Set, Get and Has, and collected by goroutines   *)
(* that every gcInterval-th Set starts.                                    *)
(*                                                                         *)
(* All operations hold the cache's mutex from their first to their last    *)
(* access of the items and are one step, except Set, which reads the clock *)
(* before it takes the mutex (lru_cache.go:72-76) and is two.  What is     *)
(* stored under a key is not modelled: nothing depends on it.              *)
(***************************************************************************)
EXTENDS Integers, FiniteSets

CONSTANTS Keys,          \* keys of items
          Procs,         \* goroutines that use the cache
          maxItemCount,  \* the size limit
          ttl,           \* the time to live
          Intervals,     \* values given to SetGCInterval; one is the initial one
          None,          \* not in a call of Set
          MaxTime,       \* bound on the clock
          MaxSteps       \* bound on the steps of callers

ASSUME ConstantsAssumption ==
  /\ IsFiniteSet(Keys)
  /\ maxItemCount \in Nat
  /\ ttl \in Nat
  /\ Intervals \subseteq Int
  /\ MaxTime \in Nat
  /\ MaxSteps \in Nat

VARIABLES
  held,        \* the keys of LruCache.items
  expires,     \* the expires field of the item of a key, 0 if there is none
  setCounter,  \* Sets since the last collection was started
  gcInterval,  \* the number of Sets that starts one
  gcs,         \* collections that have been started and have not yet run
  call,        \* call[p]: the Set p is in, between its clock and its mutex
  now,         \* the clock
  step,        \* history: number of steps of callers so far
  began,       \* history: step at which the last access of a key began
  ended        \* history: step at which it took effect

itemVars == <<held, expires>>
gcVars == <<setCounter, gcInterval, gcs>>
history == <<step, began, ended>>
vars == <<itemVars, gcVars, call, now, history>>

Calls == [key : Keys, expires : Nat, began : Nat]

Init ==
  /\ held = {}
  /\ expires = [k \in Keys |-> 0]
  /\ setCounter = 0
  /\ gcInterval \in Intervals
  /\ gcs = 0
  /\ call = [p \in Procs |-> None]
  /\ now = 0
  /\ step = 0
  /\ began = [k \in Keys |-> 0]
  /\ ended = [k \in Keys |-> 0]

Tick ==
  /\ now < MaxTime
  /\ now' = now + 1
  /\ UNCHANGED <<itemVars, gcVars, call, history>>

\* A step of a goroutine that uses the cache.
CallerStep == step < MaxSteps /\ step' = step + 1

\* Set, up to its Lock: the new item gets its expiry time.
SetBegins(p, k) ==
  /\ CallerStep
  /\ call[p] = None
  /\ call' = [call EXCEPT ![p] = [key |-> k, expires |-> now + ttl, began |-> step']]
  /\ UNCHANGED <<itemVars, gcVars, now, began, ended>>

\* The counter that paces collections (lru_cache.go:78-86).
CountSet ==
  LET n == IF setCounter + 1 >= gcInterval THEN 0 ELSE setCounter + 1
  IN  /\ setCounter' = n
      /\ gcs' = IF n = 0 THEN gcs + 1 ELSE gcs
      /\ UNCHANGED gcInterval

\* Set, from its Lock to its Unlock.
SetStores(p) ==
  /\ CallerStep
  /\ call[p] # None
  /\ LET c == call[p]
     IN  /\ held' = held \cup {c.key}
         /\ expires' = [expires EXCEPT ![c.key] = c.expires]
         /\ began' = [began EXCEPT ![c.key] = c.began]
         /\ ended' = [ended EXCEPT ![c.key] = step']
  /\ CountSet
  /\ call' = [call EXCEPT ![p] = None]
  /\ UNCHANGED now

\* Mutant of Get: an access does not renew the item.
GetKeepsExpiry(p, k) ==
  /\ CallerStep
  /\ call[p] = None
  /\ k \in held
  /\ began' = [began EXCEPT ![k] = step']
  /\ ended' = [ended EXCEPT ![k] = step']
  /\ UNCHANGED <<itemVars, gcVars, call, now>>

\* Get of a key that is there, expired or not.  (Get of another key, and Has,
\* change nothing.)
Get(p, k) ==
  /\ CallerStep
  /\ call[p] = None
  /\ k \in held
  /\ expires' = [expires EXCEPT ![k] = now + ttl]
  /\ began' = [began EXCEPT ![k] = step']
  /\ ended' = [ended EXCEPT ![k] = step']
  /\ UNCHANGED <<held, gcVars, call, now>>

SetGCInterval(i) ==
  /\ gcInterval' = i
  /\ UNCHANGED <<itemVars, setCounter, gcs, call, now, history>>

Expired(k) == k \in held /\ expires[k] < now

\* Mutant of Evictable: one item too many is kept.
EvictsOneLess(evicted) ==
  LET live == {k \in held : ~ Expired(k)}
      kept == live \ evicted
  IN  /\ evicted \subseteq live
      /\ IF Cardinality(live) > maxItemCount
           THEN /\ Cardinality(kept) = maxItemCount + 1
                /\ \A e \in evicted, k \in kept : expires[e] <= expires[k]
           ELSE evicted = {}

\* What gc evicts because the cache is still too full once the expired items
\* are gone: the oldest of the rest, in an arbitrary order among items that
\* are equally old (sort.Slice is not stable), until the limit is met.
Evictable(evicted) ==
  LET live == {k \in held : ~ Expired(k)}
      kept == live \ evicted
  IN  /\ evicted \subseteq live
      /\ IF Cardinality(live) > maxItemCount
           THEN /\ Cardinality(kept) = maxItemCount
                /\ \A e \in evicted, k \in kept : expires[e] <= expires[k]
           ELSE evicted = {}

\* Mutant of Remaining: only the size limit is enforced.
RemainingUnaged(evicted) == held \ evicted

Remaining(evicted) == {k \in held : ~ Expired(k)} \ evicted

gc ==
  /\ gcs > 0
  /\ gcs' = gcs - 1
  /\ \E evicted \in SUBSET held :
       /\ Evictable(evicted)
       /\ held' = Remaining(evicted)
       /\ expires' = [k \in Keys |-> IF k \in Remaining(evicted) THEN expires[k] ELSE 0]
  /\ UNCHANGED <<setCounter, gcInterval, call, now, history>>

Next ==
  \/ Tick
  \/ \E p \in Procs, k \in Keys : SetBegins(p, k)
  \/ \E p \in Procs : SetStores(p)
  \/ \E p \in Procs, k \in Keys : Get(p, k)
  \/ \E i \in Intervals : SetGCInterval(i)
  \/ gc

Spec == Init /\ [][Next]_vars

\* A collection that has been started runs; a Set that has begun is completed;
\* time passes.  Nobody has to use the cache.
FairSpec ==
  Spec /\ WF_vars(gc) /\ WF_vars(Tick) /\ \A p \in Procs : WF_vars(SetStores(p))

-----------------------------------------------------------------------------
(* Properties *)

TypeOK ==
  /\ held \in SUBSET Keys
  /\ expires \in [Keys -> Nat]
  /\ setCounter \in Nat
  /\ gcInterval \in Intervals
  /\ gcs \in Nat
  /\ call \in [Procs -> Calls \cup {None}]
  /\ now \in 0..MaxTime
  /\ step \in 0..MaxSteps
  /\ began \in [Keys -> Nat]
  /\ ended \in [Keys -> Nat]
  \* nothing outlives the time to live, counted from its last access
  /\ \A k \in Keys : expires[k] <= now + ttl
  /\ \A p \in Procs : call[p] # None => call[p].expires <= now + ttl

\* How approximate the size limit is: unless a collection is about to run, the
\* cache exceeds it by at most the Sets counted since the last one was
\* started, whatever Sets overtook the collector and however often the
\* interval was changed.
SizeBound == gcs = 0 => Cardinality(held) <= maxItemCount + setCounter

\* "More or less in LRU order" means: two accesses that do not overlap leave
\* expiry times in their order, so that the item accessed first is the first
\* to go.  Only a Set that was overtaken between its clock and the mutex can
\* be put in front of a later access.
RealTimeOrder ==
  \A k, l \in held : ended[k] < began[l] => expires[k] <= expires[l]

\* An item that is expired when a collection has been started is collected, or
\* an access renews it.
StartedGcCollects ==
  \A k \in Keys : (Expired(k) /\ gcs > 0) ~> ~ Expired(k)
=============================================================================

----------------------------- MODULE KeyedLocks -----------------------------
(***************************************************************************)
(* The per-key lock table of the cover art cache (src/facades/coverart.rs, *)
(* KeyedLocks and KeyedLockGuard): a map from keys to Arc<tokio::Mutex>,   *)
(* grown by acquire and shrunk by the guard's Drop when the reference      *)
(* count says nobody else needs the entry.                                 *)
(*                                                                         *)
(* A caller is one request task.  A waiting or holding caller has two      *)
(* references to its lock (`entry`, and the clone inside lock_owned or the *)
(* permit), a caller past drop(permit) only `entry`.                       *)
(***************************************************************************)
EXTENDS Integers, FiniteSets

CONSTANTS
  Callers,  \* request tasks
  Keys,     \* cache keys
  Locks,    \* allocations of a tokio mutex
  NoCaller, NoKey, NoLock  \* sentinels

ASSUME KeyedLocksAssumption ==
  /\ IsFiniteSet(Callers) /\ IsFiniteSet(Keys)
  /\ NoCaller \notin Callers /\ NoKey \notin Keys /\ NoLock \notin Locks

VARIABLES
  map,    \* KeyedLocks::map: the lock of each key, or NoLock
  owner,  \* the caller that holds each lock, or NoCaller
  pc,     \* where each caller is
  want,   \* the key each caller acquires
  entry   \* KeyedLockGuard::entry: the lock each caller references, or NoLock

vars == <<map, owner, pc, want, entry>>

Stage == {"idle", "waiting", "holding", "unlocked", "sweeping", "swept"}

Init ==
  /\ map = [k \in Keys |-> NoLock]
  /\ owner = [l \in Locks |-> NoCaller]
  /\ pc = [c \in Callers |-> "idle"]
  /\ want = [c \in Callers |-> NoKey]
  /\ entry = [c \in Callers |-> NoLock]

Goto(c, from, to) == pc[c] = from /\ pc' = [pc EXCEPT ![c] = to]

----------------------------------------------------------------------------
(* Reference counts.                                                       *)

Users(l) == {c \in Callers : entry[c] = l}

\* Mutant of DoubleUsers: the permit is not taken by drop() and goes with the
\* guard's other fields, after the sweep.
DoubleUsersLate(l) == {c \in Users(l) : pc[c] \in {"waiting", "holding", "unlocked", "sweeping"}}

\* Those whose second reference, the lock future or the permit, is still alive.
DoubleUsers(l) == {c \in Users(l) : pc[c] \in {"waiting", "holding", "unlocked"}}

\* Arc::strong_count.
StrongCount(l) ==
  Cardinality(Users(l)) + Cardinality(DoubleUsers(l)) + Cardinality({k \in Keys : map[k] = l})

----------------------------------------------------------------------------
(* acquire.                                                                *)

\* map.entry(key).or_default().clone(), then lock_owned() is awaited.
Lookup(c, k) ==
  /\ Goto(c, "idle", "waiting")
  /\ want' = [want EXCEPT ![c] = k]
  /\ \/ /\ map[k] # NoLock
        /\ entry' = [entry EXCEPT ![c] = map[k]]
        /\ UNCHANGED map
     \/ /\ map[k] = NoLock
        /\ \E l \in Locks :
             /\ Users(l) = {} /\ \A j \in Keys : map[j] # l
             /\ map' = [map EXCEPT ![k] = l]
             /\ entry' = [entry EXCEPT ![c] = l]
  /\ UNCHANGED owner

\* Mutant of Grant: the lock is not awaited.
GrantUnlocked(c) ==
  /\ Goto(c, "waiting", "holding")
  /\ owner' = [owner EXCEPT ![entry[c]] = c]
  /\ UNCHANGED <<map, want, entry>>

\* lock_owned() returns.
Grant(c) ==
  /\ Goto(c, "waiting", "holding")
  /\ owner[entry[c]] = NoCaller
  /\ owner' = [owner EXCEPT ![entry[c]] = c]
  /\ UNCHANGED <<map, want, entry>>

\* The request is dropped while it waits: both references go, nobody sweeps.
Abandon(c) ==
  /\ Goto(c, "waiting", "idle")
  /\ want' = [want EXCEPT ![c] = NoKey]
  /\ entry' = [entry EXCEPT ![c] = NoLock]
  /\ UNCHANGED <<map, owner>>

----------------------------------------------------------------------------
(* Drop for KeyedLockGuard: at the end of the request, or when it is       *)
(* dropped while it holds the lease.                                       *)

\* Mutant of Unlock: the permit outlives the guard's drop.
UnlockNothing(c) ==
  /\ Goto(c, "holding", "unlocked")
  /\ UNCHANGED <<map, owner, want, entry>>

\* drop(permit): first the lock is released ...
Unlock(c) ==
  /\ Goto(c, "holding", "unlocked")
  /\ owner' = [owner EXCEPT ![entry[c]] = NoCaller]
  /\ UNCHANGED <<map, want, entry>>

\* ... then the permit's reference.
DropPermit(c) ==
  /\ Goto(c, "unlocked", "sweeping")
  /\ UNCHANGED <<map, owner, want, entry>>

\* Mutant of Sweep: the entry is removed without a look at its references.
SweepAlways(c) ==
  /\ Goto(c, "sweeping", "swept")
  /\ map' = IF map[want[c]] = entry[c] THEN [map EXCEPT ![want[c]] = NoLock] ELSE map
  /\ UNCHANGED <<owner, want, entry>>

\* The map forgets the entry if only the map and this guard still reference it.
Sweep(c) ==
  /\ Goto(c, "sweeping", "swept")
  /\ map' = IF map[want[c]] = entry[c] /\ StrongCount(entry[c]) = 2
            THEN [map EXCEPT ![want[c]] = NoLock] ELSE map
  /\ UNCHANGED <<owner, want, entry>>

\* The guard's fields are dropped after its drop() returns.
Leave(c) ==
  /\ Goto(c, "swept", "idle")
  /\ want' = [want EXCEPT ![c] = NoKey]
  /\ entry' = [entry EXCEPT ![c] = NoLock]
  /\ UNCHANGED <<map, owner>>

Step(c) == Grant(c) \/ Unlock(c) \/ DropPermit(c) \/ Sweep(c) \/ Leave(c)

Next == \E c \in Callers : Step(c) \/ Abandon(c) \/ \E k \in Keys : Lookup(c, k)

Spec == Init /\ [][Next]_vars

\* Requests end (the HTTP client has a 120 s timeout), tokio runs ready tasks
\* and its mutex is FIFO.
Fairness ==
  \A c \in Callers :
    /\ WF_vars(Unlock(c) \/ DropPermit(c) \/ Sweep(c) \/ Leave(c))
    /\ SF_vars(Grant(c))

FairSpec == Spec /\ Fairness

----------------------------------------------------------------------------
(* Properties.                                                             *)

TypeOK ==
  /\ map \in [Keys -> Locks \union {NoLock}]
  /\ owner \in [Locks -> Callers \union {NoCaller}]
  /\ pc \in [Callers -> Stage]
  /\ want \in [Callers -> Keys \union {NoKey}]
  /\ entry \in [Callers -> Locks \union {NoLock}]

\* From acquire to its own sweep a caller has the lock the map shows to the next
\* caller of its key: no other caller's sweep pulls the entry from under it.
EntryIsCurrent ==
  \A c \in Callers :
    pc[c] \notin {"idle", "swept"} => entry[c] # NoLock /\ entry[c] = map[want[c]]

\* A guard leaves its entry in the table only for somebody who still has the lock:
\* an entry that nobody else uses is pruned by the release ("keyed_locks_prune_on_release"),
\* else the table would keep a lock for every key ever fetched.
LastSweepPrunes ==
  [][\A c \in Callers :
       pc[c] = "sweeping" /\ pc'[c] = "swept" /\ map'[want[c]] = entry[c] =>
         \E d \in Callers \ {c} : entry[d] = entry[c]]_vars

Lease == [c \in Callers |-> IF pc[c] = "holding" THEN want[c] ELSE NoKey]

Promise == INSTANCE KeyLock WITH lease <- Lease

\* Through allocation, sweeping and re-allocation of locks, the table keeps one
\* lease per key: "single-flight per key" of the module's doc.
KeepsLease == Promise!Spec

\* Every waiter gets its lease or its client goes away.
WaitersServed == \A c \in Callers : pc[c] = "waiting" ~> pc[c] # "waiting"
=============================================================================

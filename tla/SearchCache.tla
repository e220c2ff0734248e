---------------------------- MODULE SearchCache ----------------------------
(***************************************************************************)
(* The in-process response cache of the ws/2 search endpoints              *)
(* (src/search_cache.rs) as its callers drive it (handlers.rs,             *)
(* cached_search): a TTL and capacity bounded store of serialised bodies,  *)
(* and a table of in-flight slots that collapses identical concurrent      *)
(* searches into one.                                                      *)
(*                                                                         *)
(* A caller is one request task.  A slot is one Arc<tokio::Mutex<_>>: the  *)
(* map of in-flight searches holds one reference, each caller that cloned  *)
(* it another, and release_inflight reads that reference count.  Each      *)
(* action is what a task does between two points where another task can    *)
(* run: under the std mutex `inner`, or between two awaits.                *)
(***************************************************************************)
EXTENDS Integers, Sequences, FiniteSets, Functions

CONSTANTS
  Callers,     \* request tasks
  Keys,        \* normalised search identities (SearchKey)
  Slots,       \* allocations of an in-flight slot
  Ttl,         \* SearchCache::ttl, in clock ticks; 0 disables storage
  MaxEntries,  \* SearchCache::max_entries; 0 disables storage
  MaxTime,     \* bound on the clock
  NoCaller, NoKey, NoSlot, NoBody, Failed  \* sentinels

Body == [key : Keys, born : Nat]

ASSUME SearchCacheAssumption ==
  /\ Ttl \in Nat /\ MaxEntries \in Nat /\ MaxTime \in Nat
  /\ IsFiniteSet(Callers) /\ IsFiniteSet(Keys)
  /\ NoCaller \notin Callers /\ NoKey \notin Keys
  /\ NoSlot \notin Slots
  /\ NoBody \notin Body /\ Failed \notin Body /\ NoBody # Failed

VARIABLES
  now,       \* the monotonic clock
  entries,   \* stored responses: a function from some of the keys
  order,     \* keys, oldest insertion first
  inflight,  \* the slot of each key, or NoSlot
  guard,     \* the caller that owns each slot's mutex, or NoCaller
  parked,    \* the body inside each slot's mutex, or NoBody
  pc,        \* where each caller is
  want,      \* the key each caller asked for
  mine,      \* the slot each caller holds an Arc of, or NoSlot
  answer,    \* what each caller is about to return
  stamp      \* the clock reading each caller inserts with, 0 outside insert

vars == <<now, entries, order, inflight, guard, parked, pc, want, mine, answer, stamp>>
storeVars == <<entries, order>>
slotVars == <<inflight, guard, parked>>

Stage == {"idle", "missed", "waiting", "computing", "inserting", "releasing", "returning"}

Init ==
  /\ now = 0
  /\ entries = << >>
  /\ order = << >>
  /\ inflight = [k \in Keys |-> NoSlot]
  /\ guard = [s \in Slots |-> NoCaller]
  /\ parked = [s \in Slots |-> NoBody]
  /\ pc = [c \in Callers |-> "idle"]
  /\ want = [c \in Callers |-> NoKey]
  /\ mine = [c \in Callers |-> NoSlot]
  /\ answer = [c \in Callers |-> NoBody]
  /\ stamp = [c \in Callers |-> 0]

----------------------------------------------------------------------------
(* The store: enabled, get and insert, each one critical section.          *)

Enabled == Ttl > 0 /\ MaxEntries > 0

Fresh(k) == k \in DOMAIN entries /\ entries[k].expires_at > now

\* get: a fresh entry is a hit.
Hit(k) == Enabled /\ Fresh(k)

\* get: an expired entry is dropped on the way; its place in `order` stays.
AfterGet(k) ==
  IF Enabled /\ ~Fresh(k) THEN Restrict(entries, DOMAIN entries \ {k}) ELSE entries

\* insert(key, body) reads the clock, t, before it takes the mutex: another insert
\* may get in between, and t may be past by now.  At capacity, the entries that
\* had expired at t are purged first.
Purged(t) ==
  IF Cardinality(DOMAIN entries) >= MaxEntries
  THEN Restrict(entries, {k \in DOMAIN entries : entries[k].expires_at > t})
  ELSE entries

Popped(n) == {order[i] : i \in 1 .. n}

\* Mutant of Evictions: the loop tests `>` instead of `>=`.
EvictionsLate(t) ==
  LET Fits(n) == Cardinality(DOMAIN Purged(t) \ Popped(n)) <= MaxEntries
  IN  CHOOSE n \in 0 .. Len(order) :
        /\ Fits(n) \/ n = Len(order)
        /\ \A m \in 0 .. (n - 1) : ~Fits(m)

\* insert: how many keys the eviction loop pops off the front of `order`.
Evictions(t) ==
  LET Fits(n) == Cardinality(DOMAIN Purged(t) \ Popped(n)) < MaxEntries
  IN  CHOOSE n \in 0 .. Len(order) :
        /\ Fits(n) \/ n = Len(order)
        /\ \A m \in 0 .. (n - 1) : ~Fits(m)

\* order.retain(|k| k != key); a key is in `order` at most once (OrderSound).
Without(q, k) ==
  IF \E i \in 1 .. Len(q) : q[i] = k
  THEN LET i == CHOOSE i \in 1 .. Len(q) : q[i] = k
       IN  SubSeq(q, 1, i - 1) \o SubSeq(q, i + 1, Len(q))
  ELSE q

\* What the eviction loop leaves in `order`.
Unpopped(t) == SubSeq(order, Evictions(t) + 1, Len(order))

\* The map after an insert.  stored_at, the time the entry went in, is history:
\* only OldestFirst reads it.
WithEntry(k, b, t) ==
  [j \in (DOMAIN Purged(t) \ Popped(Evictions(t))) \union {k} |->
     IF j = k THEN [body |-> b, expires_at |-> t + Ttl, stored_at |-> now] ELSE entries[j]]

\* Mutant of Insert: the key is pushed again without order.retain.
InsertWithoutRetain(k, b, t) ==
  IF Enabled
  THEN entries' = WithEntry(k, b, t) /\ order' = Append(Unpopped(t), k)
  ELSE UNCHANGED storeVars

\* Mutant of Insert: a key already queued keeps its old place in `order`.
InsertInPlace(k, b, t) ==
  IF Enabled
  THEN /\ entries' = WithEntry(k, b, t)
       /\ order' = IF Without(Unpopped(t), k) = Unpopped(t)
                   THEN Append(Unpopped(t), k) ELSE Unpopped(t)
  ELSE UNCHANGED storeVars

\* insert under the mutex, a no-op when storage is disabled.
Insert(k, b, t) ==
  IF Enabled
  THEN entries' = WithEntry(k, b, t) /\ order' = Append(Without(Unpopped(t), k), k)
  ELSE UNCHANGED storeVars

----------------------------------------------------------------------------
(* The slots: Arc reference counts.                                        *)

Holders(s) == {c \in Callers : mine[c] = s}

\* Mutant of StrongCount: off by one, the map's own reference is not counted.
StrongCountOfHolders(s) == Cardinality(Holders(s))

\* Arc::strong_count: one reference per holder and one per place in the map.
StrongCount(s) == Cardinality(Holders(s)) + Cardinality({k \in Keys : inflight[k] = s})

\* Dropping caller c's Arc; the last reference frees the slot and its body.
DropArc(c) ==
  /\ mine' = [mine EXCEPT ![c] = NoSlot]
  /\ parked' = [s \in Slots |->
                  IF s = mine[c] /\ StrongCount(s) = 1 THEN NoBody ELSE parked[s]]

----------------------------------------------------------------------------
(* get_or_compute, one request of caller c.                                *)

Goto(c, from, to) == pc[c] = from /\ pc' = [pc EXCEPT ![c] = to]

\* A request arrives and takes the fast path: a hit returns at once.
Request(c, k) ==
  /\ want' = [want EXCEPT ![c] = k]
  /\ entries' = AfterGet(k)
  /\ \/ /\ Hit(k)
        /\ Goto(c, "idle", "returning")
        /\ answer' = [answer EXCEPT ![c] = entries[k].body]
     \/ /\ ~Hit(k)
        /\ Goto(c, "idle", "missed")
        /\ UNCHANGED answer
  /\ UNCHANGED <<now, order, slotVars, mine, stamp>>

\* Mutant of Join: the in-flight table is not keyed by the search.
JoinAny(c) ==
  /\ Goto(c, "missed", "waiting")
  /\ \/ /\ \E k \in Keys : inflight[k] # NoSlot /\ mine' = [mine EXCEPT ![c] = inflight[k]]
        /\ UNCHANGED inflight
     \/ /\ inflight[want[c]] = NoSlot
        /\ \E s \in Slots :
             /\ Holders(s) = {} /\ \A k \in Keys : inflight[k] # s
             /\ inflight' = [inflight EXCEPT ![want[c]] = s]
             /\ mine' = [mine EXCEPT ![c] = s]
  /\ UNCHANGED <<now, storeVars, guard, parked, want, answer, stamp>>

\* inflight.entry(key).or_default().clone(), then lock().await.
Join(c) ==
  /\ Goto(c, "missed", "waiting")
  /\ \/ /\ inflight[want[c]] # NoSlot
        /\ mine' = [mine EXCEPT ![c] = inflight[want[c]]]
        /\ UNCHANGED inflight
     \/ /\ inflight[want[c]] = NoSlot
        /\ \E s \in Slots :
             /\ Holders(s) = {} /\ \A k \in Keys : inflight[k] # s
             /\ inflight' = [inflight EXCEPT ![want[c]] = s]
             /\ mine' = [mine EXCEPT ![c] = s]
  /\ UNCHANGED <<now, storeVars, guard, parked, want, answer, stamp>>

\* The lock is granted and the slot, then the store, hold an answer: the guard
\* is dropped again in the same step.
ShareAnswer(c) ==
  /\ Goto(c, "waiting", "releasing")
  /\ guard[mine[c]] = NoCaller
  /\ \/ /\ parked[mine[c]] # NoBody
        /\ answer' = [answer EXCEPT ![c] = parked[mine[c]]]
     \/ /\ parked[mine[c]] = NoBody /\ Hit(want[c])
        /\ answer' = [answer EXCEPT ![c] = entries[want[c]].body]
  /\ UNCHANGED <<now, storeVars, slotVars, want, mine, stamp>>

\* Mutant of Lead: no second look at the store under the lock.
LeadUnchecked(c) ==
  /\ Goto(c, "waiting", "computing")
  /\ guard[mine[c]] = NoCaller
  /\ parked[mine[c]] = NoBody
  /\ guard' = [guard EXCEPT ![mine[c]] = c]
  /\ UNCHANGED <<now, storeVars, inflight, parked, want, mine, answer, stamp>>

\* The lock is granted and nothing is there: the caller becomes the leader.
Lead(c) ==
  /\ Goto(c, "waiting", "computing")
  /\ guard[mine[c]] = NoCaller
  /\ parked[mine[c]] = NoBody /\ ~Hit(want[c])
  /\ guard' = [guard EXCEPT ![mine[c]] = c]
  /\ entries' = AfterGet(want[c])
  /\ UNCHANGED <<now, order, inflight, parked, want, mine, answer, stamp>>

\* compute() succeeds: the body is parked in the slot, whose guard is still held,
\* and insert reads the clock.
ComputeOk(c) ==
  LET b == [key |-> want[c], born |-> now]
  IN  /\ Goto(c, "computing", "inserting")
      /\ parked' = [parked EXCEPT ![mine[c]] = b]
      /\ answer' = [answer EXCEPT ![c] = b]
      /\ stamp' = [stamp EXCEPT ![c] = now]
      /\ UNCHANGED <<now, storeVars, inflight, guard, want, mine>>

\* insert has the mutex; then the guard is dropped.  No await since compute()
\* returned, so nothing can drop the request in between.
Store(c) ==
  /\ Goto(c, "inserting", "releasing")
  /\ Insert(want[c], answer[c], stamp[c])
  /\ guard' = [guard EXCEPT ![mine[c]] = NoCaller]
  /\ stamp' = [stamp EXCEPT ![c] = 0]
  /\ UNCHANGED <<now, inflight, parked, want, mine, answer>>

\* Mutant of ComputeErr: the failure is parked for the waiters.
ComputeErrParked(c) ==
  /\ Goto(c, "computing", "releasing")
  /\ parked' = [parked EXCEPT ![mine[c]] = Failed]
  /\ guard' = [guard EXCEPT ![mine[c]] = NoCaller]
  /\ answer' = [answer EXCEPT ![c] = Failed]
  /\ UNCHANGED <<now, storeVars, inflight, want, mine, stamp>>

\* Mutant of ComputeErr: the failure is kept from the caller, who queues up for
\* another search.
ComputeErrRetried(c) ==
  /\ Goto(c, "computing", "waiting")
  /\ guard' = [guard EXCEPT ![mine[c]] = NoCaller]
  /\ UNCHANGED <<now, storeVars, inflight, parked, want, mine, answer, stamp>>

\* compute() fails: nothing is stored, the guard is dropped.
ComputeErr(c) ==
  /\ Goto(c, "computing", "releasing")
  /\ guard' = [guard EXCEPT ![mine[c]] = NoCaller]
  /\ answer' = [answer EXCEPT ![c] = Failed]
  /\ UNCHANGED <<now, storeVars, inflight, parked, want, mine, stamp>>

\* Mutant of Release: no reference count test, the slot is always forgotten.
ReleaseAlways(c) ==
  /\ Goto(c, "releasing", "returning")
  /\ inflight' = [inflight EXCEPT ![want[c]] = NoSlot]
  /\ UNCHANGED <<now, storeVars, guard, parked, want, mine, answer, stamp>>

\* release_inflight: the map forgets the slot when only two references are left.
Release(c) ==
  /\ Goto(c, "releasing", "returning")
  /\ inflight' = IF StrongCount(mine[c]) <= 2
                 THEN [inflight EXCEPT ![want[c]] = NoSlot] ELSE inflight
  /\ UNCHANGED <<now, storeVars, guard, parked, want, mine, answer, stamp>>

\* The function returns; its own Arc is dropped only now.
Return(c) ==
  /\ Goto(c, "returning", "idle")
  /\ DropArc(c)
  /\ answer' = [answer EXCEPT ![c] = NoBody]
  /\ want' = [want EXCEPT ![c] = NoKey]
  /\ UNCHANGED <<now, storeVars, inflight, guard, stamp>>

\* The request future is dropped at one of its two awaits (the client is gone):
\* guard and Arc go with it, release_inflight never runs.
Cancel(c) ==
  /\ pc[c] \in {"waiting", "computing"}
  /\ pc' = [pc EXCEPT ![c] = "idle"]
  /\ guard' = [guard EXCEPT ![mine[c]] = IF @ = c THEN NoCaller ELSE @]
  /\ DropArc(c)
  /\ want' = [want EXCEPT ![c] = NoKey]
  /\ UNCHANGED <<now, storeVars, inflight, answer, stamp>>

Tick ==
  /\ now < MaxTime
  /\ now' = now + 1
  /\ UNCHANGED <<storeVars, slotVars, pc, want, mine, answer, stamp>>

Step(c) ==
  \/ Join(c) \/ ShareAnswer(c) \/ Lead(c)
  \/ ComputeOk(c) \/ Store(c) \/ ComputeErr(c) \/ Release(c) \/ Return(c)

Next ==
  \/ \E c \in Callers : Step(c) \/ Cancel(c) \/ \E k \in Keys : Request(c, k)
  \/ Tick

Spec == Init /\ [][Next]_vars

\* tokio runs every ready task, a search ends (statement_timeout) and the tokio
\* mutex is FIFO, so a waiter is granted the lock eventually.
Fairness ==
  \A c \in Callers :
    /\ WF_vars(Join(c) \/ ComputeOk(c) \/ Store(c) \/ ComputeErr(c) \/ Release(c) \/ Return(c))
    /\ SF_vars(ShareAnswer(c) \/ Lead(c))

FairSpec == Spec /\ Fairness

----------------------------------------------------------------------------
(* Properties.                                                             *)

TypeOK ==
  /\ now \in Nat
  /\ DOMAIN entries \subseteq Keys
  /\ \A k \in DOMAIN entries : entries[k] \in [body : Body, expires_at : Nat, stored_at : Nat]
  /\ order \in Seq(Keys)
  /\ inflight \in [Keys -> Slots \union {NoSlot}]
  /\ guard \in [Slots -> Callers \union {NoCaller}]
  /\ parked \in [Slots -> Body \union {NoBody}]
  /\ pc \in [Callers -> Stage]
  /\ want \in [Callers -> Keys \union {NoKey}]
  /\ mine \in [Callers -> Slots \union {NoSlot}]
  /\ answer \in [Callers -> Body \union {NoBody, Failed}]
  /\ stamp \in [Callers -> Nat]

\* Every caller between joining a slot and releasing it holds the slot the map
\* has for its key.  release_inflight removes by key and never compares the
\* slot it finds with its own: this is what makes that safe.
SlotIsCurrent ==
  \A c \in Callers :
    pc[c] \in {"waiting", "computing", "inserting", "releasing"} =>
      mine[c] # NoSlot /\ mine[c] = inflight[want[c]]

\* At most one search per key runs at any time, however requests interleave,
\* fail or are dropped: the module's promise "a miss runs the DB search once".
SingleFlight ==
  \A c, d \in Callers :
    pc[c] = "computing" /\ pc[d] = "computing" /\ want[c] = want[d] => c = d

\* No search runs for a key the store still has a response for: the second look
\* under the lock cannot be overtaken by another caller's insert.
LeaderFindsNothing ==
  \A c \in Callers : pc[c] = "computing" => want[c] \notin DOMAIN entries

\* A caller is answered with a body computed for the key it asked for, through
\* every sharing of slots and re-use of the map.
AnswerForKey ==
  \A c \in Callers : answer[c] \in Body => answer[c].key = want[c]

\* Every stored key is in the eviction queue, and no key is queued twice: else
\* the loop that pops `order` could run dry with the store still full.
OrderSound ==
  /\ DOMAIN entries \subseteq Popped(Len(order))
  /\ \A i, j \in 1 .. Len(order) : order[i] = order[j] => i = j

\* The store never exceeds its configured capacity (SHIRABE_SEARCH_CACHE_MAX_ENTRIES).
CapacityBound == Cardinality(DOMAIN entries) <= MaxEntries

\* An insert sacrifices a fresh response of another key only when every other
\* response it keeps went into the store no earlier ("capacity_evicts_oldest_insert"),
\* although concurrent inserts read the clock in one order and get the mutex in
\* another, so that what went in first need not expire first.
OldestFirst ==
  [][\A j, k \in DOMAIN entries :
       (Fresh(j) /\ j \notin DOMAIN entries' /\ k \in DOMAIN entries' /\ entries'[k] = entries[k])
         => entries[j].stored_at <= entries[k].stored_at]_vars

\* Every request is answered, or dropped by its client: no caller waits forever
\* on a slot whose leader failed, was dropped or forgot it.
EveryRequestEnds == \A c \in Callers : pc[c] # "idle" ~> pc[c] = "idle"
=============================================================================

-------------------------- MODULE KeyedLocksProofs --------------------------
(***************************************************************************)
(* Proofs about KeyedLocks for any number of callers, keys and locks: the  *)
(* lock table implements KeyLock.                                          *)
(***************************************************************************)
EXTENDS KeyedLocks, FiniteSetTheorems, TLAPS

----------------------------------------------------------------------------
(* The inductive invariant.                                                *)

\* A caller has a key and a lock from acquire until its guard is gone.
CallerInv ==
  \A c \in Callers :
    /\ pc[c] = "idle" <=> want[c] = NoKey
    /\ pc[c] = "idle" <=> entry[c] = NoLock

\* The map never has one lock under two keys.
LockUnique ==
  \A j, k \in Keys : map[j] = map[k] /\ map[j] # NoLock => j = k

\* A lock is owned exactly by the caller that holds it.
OwnerInv ==
  /\ \A c \in Callers : pc[c] = "holding" => owner[entry[c]] = c
  /\ \A l \in Locks :
       owner[l] # NoCaller => pc[owner[l]] = "holding" /\ entry[owner[l]] = l

LockInv == TypeOK /\ CallerInv /\ EntryIsCurrent /\ LockUnique /\ OwnerInv

----------------------------------------------------------------------------
(* Lemmas.                                                                 *)

\* When a caller reads a count of two for the lock its key still maps to, it
\* is the only one to reference that lock.
LEMMA LastUser ==
  ASSUME TypeOK, NEW c \in Callers, NEW d \in Callers, NEW k \in Keys,
         entry[c] # NoLock, map[k] = entry[c], entry[d] = entry[c],
         StrongCount(entry[c]) = 2
  PROVE  c = d
<1> DEFINE l == entry[c]
           U == Users(l)
           D == DoubleUsers(l)
           K == {j \in Keys : map[j] = l}
<1>1. IsFiniteSet(U) /\ IsFiniteSet(D) /\ IsFiniteSet(K)
  BY FS_Subset, KeyedLocksAssumption DEF Users, DoubleUsers
<1>2. c \in U /\ d \in U /\ k \in K
  BY DEF Users
<1>3. /\ Cardinality(U) \in Nat /\ Cardinality(D) \in Nat /\ Cardinality(K) \in Nat
      /\ Cardinality(U) # 0 /\ Cardinality(K) # 0
  BY <1>1, <1>2, FS_CardinalityType, FS_EmptySet
<1>4. Cardinality(U) = 1
  BY <1>3 DEF StrongCount
<1>5. PICK x : U = {x}
  BY <1>1, <1>4, FS_Singleton
<1> QED BY <1>2, <1>5

LEMMA InitInv == Init => LockInv
BY KeyedLocksAssumption
   DEF Init, LockInv, TypeOK, CallerInv, EntryIsCurrent, LockUnique, OwnerInv, Stage

\* acquire keeps the invariant: a lock just allocated is new to every caller.
LEMMA LookupInv ==
  ASSUME LockInv, NEW c \in Callers, NEW k \in Keys, Lookup(c, k)
  PROVE  LockInv'
<1> USE KeyedLocksAssumption DEF LockInv, Goto, Stage, Users
<1>1. /\ pc[c] = "idle" /\ pc' = [pc EXCEPT ![c] = "waiting"]
      /\ want' = [want EXCEPT ![c] = k] /\ UNCHANGED owner
  BY DEF Lookup
<1>2. PICK l \in Locks : /\ entry' = [entry EXCEPT ![c] = l]
                         /\ map' = [map EXCEPT ![k] = l]
                         /\ \/ map[k] = l
                            \/ map[k] = NoLock /\ Users(l) = {} /\ \A j \in Keys : map[j] # l
  <2>1. CASE map[k] # NoLock
    <3>1. map[k] \in Locks /\ map = [map EXCEPT ![k] = map[k]]
      BY <2>1 DEF TypeOK
    <3> QED BY <2>1, <3>1 DEF Lookup
  <2>2. CASE map[k] = NoLock
    BY <2>2 DEF Lookup
  <2> QED BY <2>1, <2>2
<1>3. TypeOK'
  BY <1>1, <1>2 DEF TypeOK
<1>4. CallerInv'
  BY <1>1, <1>2 DEF TypeOK, CallerInv
<1>5. EntryIsCurrent'
  <2> SUFFICES ASSUME NEW d \in Callers, pc'[d] \notin {"idle", "swept"}
               PROVE  entry'[d] # NoLock /\ entry'[d] = map'[want'[d]]
    BY DEF EntryIsCurrent
  <2>1. CASE d = c
    BY <1>1, <1>2, <2>1 DEF TypeOK
  <2>2. CASE d # c
    <3>1. /\ pc'[d] = pc[d] /\ want'[d] = want[d] /\ entry'[d] = entry[d]
          /\ want[d] \in Keys
      BY <1>1, <1>2, <2>2 DEF TypeOK, CallerInv
    <3>2. entry[d] # NoLock /\ entry[d] = map[want[d]]
      BY <3>1 DEF EntryIsCurrent
    <3> QED BY <1>2, <3>1, <3>2 DEF TypeOK
  <2> QED BY <2>1, <2>2
<1>6. LockUnique'
  BY <1>2 DEF TypeOK, LockUnique
<1>7. OwnerInv'
  BY <1>1, <1>2 DEF TypeOK, CallerInv, OwnerInv
<1> QED BY <1>3, <1>4, <1>5, <1>6, <1>7

\* Being granted a lock keeps the invariant.
LEMMA GrantInv ==
  ASSUME LockInv, NEW c \in Callers, Grant(c)
  PROVE  LockInv'
<1> USE KeyedLocksAssumption DEF LockInv, Goto, Stage, Grant
<1>1. TypeOK'
  BY DEF TypeOK
<1>2. CallerInv'
  BY DEF TypeOK, CallerInv
<1>3. EntryIsCurrent'
  BY DEF TypeOK, EntryIsCurrent
<1>4. LockUnique'
  BY DEF LockUnique
<1>5. OwnerInv'
  BY DEF TypeOK, CallerInv, EntryIsCurrent, OwnerInv
<1> QED BY <1>1, <1>2, <1>3, <1>4, <1>5

\* A dropped waiter owns nothing, so it leaves nothing locked.
LEMMA AbandonInv ==
  ASSUME LockInv, NEW c \in Callers, Abandon(c)
  PROVE  LockInv'
<1> USE KeyedLocksAssumption DEF LockInv, Goto, Stage, Abandon
<1>1. TypeOK'
  BY DEF TypeOK
<1>2. CallerInv'
  BY DEF TypeOK, CallerInv
<1>3. EntryIsCurrent'
  BY DEF TypeOK, EntryIsCurrent
<1>4. LockUnique'
  BY DEF LockUnique
<1>5. OwnerInv'
  BY DEF TypeOK, OwnerInv
<1> QED BY <1>1, <1>2, <1>3, <1>4, <1>5

\* Releasing the lock keeps the invariant.
LEMMA UnlockInv ==
  ASSUME LockInv, NEW c \in Callers, Unlock(c)
  PROVE  LockInv'
<1> USE KeyedLocksAssumption DEF LockInv, Goto, Stage, Unlock
<1>1. TypeOK'
  BY DEF TypeOK
<1>2. CallerInv'
  BY DEF TypeOK, CallerInv
<1>3. EntryIsCurrent'
  BY DEF TypeOK, EntryIsCurrent
<1>4. LockUnique'
  BY DEF LockUnique
<1>5. OwnerInv'
  BY DEF TypeOK, CallerInv, OwnerInv
<1> QED BY <1>1, <1>2, <1>3, <1>4, <1>5

\* Dropping the permit's reference changes nothing but the count.
LEMMA DropPermitInv ==
  ASSUME LockInv, NEW c \in Callers, DropPermit(c)
  PROVE  LockInv'
<1> USE KeyedLocksAssumption DEF LockInv, Goto, Stage, DropPermit
<1> QED BY DEF TypeOK, CallerInv, EntryIsCurrent, LockUnique, OwnerInv

\* A sweep takes away only an entry nobody else has.
LEMMA SweepInv ==
  ASSUME LockInv, NEW c \in Callers, Sweep(c)
  PROVE  LockInv'
<1> USE KeyedLocksAssumption DEF LockInv, Goto, Stage
<1>1. /\ pc[c] = "sweeping" /\ pc' = [pc EXCEPT ![c] = "swept"]
      /\ UNCHANGED <<owner, want, entry>>
  BY DEF Sweep
<1>2. want[c] \in Keys /\ entry[c] # NoLock /\ entry[c] = map[want[c]]
  BY <1>1 DEF TypeOK, CallerInv, EntryIsCurrent
<1>3. CASE StrongCount(entry[c]) # 2
  <2>1. UNCHANGED map
    BY <1>3 DEF Sweep
  <2> QED BY <1>1, <2>1 DEF TypeOK, CallerInv, EntryIsCurrent, LockUnique, OwnerInv
<1>4. CASE StrongCount(entry[c]) = 2
  <2>1. map' = [map EXCEPT ![want[c]] = NoLock]
    BY <1>2, <1>4 DEF Sweep
  <2>2. TypeOK' /\ CallerInv' /\ OwnerInv'
    BY <1>1, <2>1 DEF TypeOK, CallerInv, OwnerInv
  <2>3. LockUnique'
    BY <1>2, <2>1 DEF TypeOK, LockUnique
  <2>4. EntryIsCurrent'
    <3> SUFFICES ASSUME NEW d \in Callers, pc'[d] \notin {"idle", "swept"}
                 PROVE  entry[d] # NoLock /\ entry[d] = map'[want[d]]
      BY <1>1 DEF EntryIsCurrent
    <3>1. d # c /\ pc[d] = pc'[d]
      BY <1>1 DEF TypeOK
    <3>2. entry[d] # NoLock /\ entry[d] = map[want[d]] /\ want[d] \in Keys
      BY <3>1 DEF EntryIsCurrent, CallerInv, TypeOK
    <3>3. entry[d] # entry[c]
      BY <1>2, <1>4, <3>1, LastUser
    <3> QED BY <1>2, <2>1, <3>2, <3>3 DEF TypeOK
  <2> QED BY <2>2, <2>3, <2>4
<1> QED BY <1>3, <1>4

\* The guard's last reference goes when the caller is done with the table.
LEMMA LeaveInv ==
  ASSUME LockInv, NEW c \in Callers, Leave(c)
  PROVE  LockInv'
<1> USE KeyedLocksAssumption DEF LockInv, Goto, Stage, Leave
<1>1. TypeOK'
  BY DEF TypeOK
<1>2. CallerInv'
  BY DEF TypeOK, CallerInv
<1>3. EntryIsCurrent'
  BY DEF TypeOK, EntryIsCurrent
<1>4. LockUnique'
  BY DEF LockUnique
<1>5. OwnerInv'
  BY DEF TypeOK, OwnerInv
<1> QED BY <1>1, <1>2, <1>3, <1>4, <1>5

LEMMA NextInv == LockInv /\ [Next]_vars => LockInv'
<1> SUFFICES ASSUME LockInv, [Next]_vars PROVE LockInv'
  OBVIOUS
<1>1. CASE UNCHANGED vars
  BY <1>1 DEF vars, LockInv, TypeOK, CallerInv, EntryIsCurrent, LockUnique, OwnerInv
<1>2. ASSUME NEW c \in Callers, Step(c) PROVE LockInv'
  BY <1>2, GrantInv, UnlockInv, DropPermitInv, SweepInv, LeaveInv DEF Step
<1>3. ASSUME NEW c \in Callers, NEW k \in Keys, Lookup(c, k) PROVE LockInv'
  BY <1>3, LookupInv
<1>4. ASSUME NEW c \in Callers, Abandon(c) PROVE LockInv'
  BY <1>4, AbandonInv
<1> QED BY <1>1, <1>2, <1>3, <1>4 DEF Next

\* The lock table's invariant holds always.
THEOREM LocksSound == Spec => []LockInv
BY InitInv, NextInv, PTL DEF Spec

\* Type correctness for any callers, keys and locks.
THEOREM LocksTyped == Spec => []TypeOK
<1>1. LockInv => TypeOK
  BY DEF LockInv
<1> QED BY <1>1, LocksSound, PTL

\* A caller's lock is the one its key maps to from acquire to its own sweep:
\* forgetting an entry by key under the reference count test is safe.
THEOREM EntriesCurrent == Spec => []EntryIsCurrent
<1>1. LockInv => EntryIsCurrent
  BY DEF LockInv
<1> QED BY <1>1, LocksSound, PTL

\* A caller past drop(permit) who alone has its lock reads a count of two.
LEMMA AloneCountsTwo ==
  ASSUME LockInv, NEW c \in Callers, pc[c] = "sweeping",
         \A d \in Callers \ {c} : entry[d] # entry[c]
  PROVE  StrongCount(entry[c]) = 2
<1> DEFINE l == entry[c]
<1>1. want[c] \in Keys /\ map[want[c]] = l /\ l # NoLock
  BY DEF LockInv, TypeOK, CallerInv, EntryIsCurrent
<1>2. Users(l) = {c}
  BY DEF Users
<1>3. DoubleUsers(l) = {}
  BY <1>2 DEF DoubleUsers
<1>4. {k \in Keys : map[k] = l} = {want[c]}
  BY <1>1 DEF LockInv, LockUnique
<1> HIDE DEF l
<1>5. Cardinality(Users(l)) = 1 /\ Cardinality(DoubleUsers(l)) = 0
      /\ Cardinality({k \in Keys : map[k] = l}) = 1
  BY <1>2, <1>3, <1>4, FS_EmptySet, FS_Singleton
<1> QED BY <1>5 DEF StrongCount, l

\* Every release prunes what it is the last to use, so the table does not grow with
\* the keys that were ever fetched.
THEOREM ReleasePrunes == Spec => LastSweepPrunes
<1>1. ASSUME LockInv, [Next]_vars, NEW c \in Callers,
             pc[c] = "sweeping", pc'[c] = "swept", map'[want[c]] = entry[c]
      PROVE  \E d \in Callers \ {c} : entry[d] = entry[c]
  <2>1. Sweep(c)
    <3>1. PICK d \in Callers : Step(d) \/ Abandon(d) \/ \E k \in Keys : Lookup(d, k)
      BY <1>1 DEF Next, vars
    <3>2. d = c
      BY <1>1, <3>1
         DEF Step, Grant, Unlock, DropPermit, Sweep, Leave, Abandon, Lookup, Goto, LockInv, TypeOK
    <3> QED BY <1>1, <3>1, <3>2 DEF Step, Grant, Unlock, DropPermit, Leave, Abandon, Lookup, Goto
  <2>2. want[c] \in Keys /\ entry[c] # NoLock /\ map[want[c]] = entry[c]
    BY <1>1 DEF LockInv, TypeOK, CallerInv, EntryIsCurrent
  <2>3. StrongCount(entry[c]) # 2
    BY <1>1, <2>1, <2>2 DEF Sweep, LockInv, TypeOK
  <2> QED BY <1>1, <2>3, AloneCountsTwo
<1>2. LockInv /\ [Next]_vars =>
        [\A c \in Callers :
           pc[c] = "sweeping" /\ pc'[c] = "swept" /\ map'[want[c]] = entry[c] =>
             \E d \in Callers \ {c} : entry[d] = entry[c]]_vars
  BY <1>1
<1> QED BY <1>2, LocksSound, PTL DEF Spec, LastSweepPrunes

----------------------------------------------------------------------------
(* Refinement.                                                             *)

\* A grant is the abstract Take: two holders of a key would own the same lock.
LEMMA GrantTakes ==
  ASSUME LockInv, NEW c \in Callers, Grant(c)
  PROVE  Promise!Take(c, want[c])
<1>1. pc[c] = "waiting" /\ owner[entry[c]] = NoCaller /\ want[c] \in Keys /\ entry[c] = map[want[c]]
  BY DEF LockInv, Grant, Goto, TypeOK, CallerInv, EntryIsCurrent
<1>2. Lease[c] = NoKey
  BY <1>1 DEF Lease
<1>3. ASSUME NEW d \in Callers, Lease[d] = want[c] PROVE FALSE
  <2>1. pc[d] = "holding" /\ want[d] = want[c]
    BY <1>1, <1>3, KeyedLocksAssumption DEF Lease
  <2>2. owner[entry[d]] = d /\ entry[d] = map[want[d]]
    BY <2>1 DEF LockInv, OwnerInv, EntryIsCurrent
  <2> QED BY <1>1, <2>1, <2>2, KeyedLocksAssumption
<1>4. Lease' = [Lease EXCEPT ![c] = want[c]]
  BY DEF LockInv, TypeOK, Grant, Goto, Lease
<1> QED BY <1>2, <1>3, <1>4 DEF Promise!Take

\* An unlock is the abstract Give.
LEMMA UnlockGives ==
  ASSUME LockInv, NEW c \in Callers, Unlock(c)
  PROVE  Promise!Give(c)
<1>1. pc[c] = "holding" /\ want[c] \in Keys
  BY DEF LockInv, Unlock, Goto, TypeOK, CallerInv
<1>2. Lease[c] # NoKey
  BY <1>1, KeyedLocksAssumption DEF Lease
<1>3. Lease' = [Lease EXCEPT ![c] = NoKey]
  BY DEF LockInv, TypeOK, Unlock, Goto, Lease
<1> QED BY <1>2, <1>3 DEF Promise!Give

\* No other action changes a lease.
LEMMA OthersStutter ==
  ASSUME LockInv, NEW c \in Callers,
         Abandon(c) \/ DropPermit(c) \/ Sweep(c) \/ Leave(c) \/ \E k \in Keys : Lookup(c, k)
  PROVE  UNCHANGED Lease
<1>1. PICK q \in Stage :
        q # "holding" /\ pc[c] # "holding" /\ pc' = [pc EXCEPT ![c] = q]
  BY DEF Abandon, DropPermit, Sweep, Leave, Lookup, Goto, Stage
<1>2. \A d \in Callers : d # c => want'[d] = want[d]
  BY DEF LockInv, TypeOK, Abandon, DropPermit, Sweep, Leave, Lookup
<1> QED BY <1>1, <1>2 DEF LockInv, TypeOK, Lease

\* The lock table implements KeyLock: at most one lease per key, for any number
\* of callers, keys and locks.
THEOREM TableIsKeyLock == Spec => KeepsLease
<1>1. Init => Promise!Init
  BY DEF Init, Promise!Init, Lease
<1>2. ASSUME LockInv, [Next]_vars PROVE [Promise!Next]_Lease
  <2>1. CASE UNCHANGED vars
    BY <2>1 DEF vars, Lease
  <2>2. CASE Next
    <3>1. PICK c \in Callers : Step(c) \/ Abandon(c) \/ \E k \in Keys : Lookup(c, k)
      BY <2>2 DEF Next
    <3>2. CASE Grant(c)
      <4>1. want[c] \in Keys
        BY <1>2, <3>2 DEF LockInv, TypeOK, CallerInv, Grant, Goto
      <4> QED BY <1>2, <3>2, <4>1, GrantTakes DEF Promise!Next
    <3>3. CASE Unlock(c)
      BY <1>2, <3>3, UnlockGives DEF Promise!Next
    <3>4. CASE Abandon(c) \/ DropPermit(c) \/ Sweep(c) \/ Leave(c) \/ \E k \in Keys : Lookup(c, k)
      BY <1>2, <3>4, OthersStutter
    <3> QED BY <3>1, <3>2, <3>3, <3>4 DEF Step
  <2> QED BY <1>2, <2>1, <2>2
<1> QED BY <1>1, <1>2, LocksSound, PTL DEF Spec, KeepsLease, Promise!Spec
=============================================================================

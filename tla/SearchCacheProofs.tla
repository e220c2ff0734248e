------------------------- MODULE SearchCacheProofs -------------------------
(***************************************************************************)
(* Proofs about SearchCache for any number of callers, keys and slots, any *)
(* TTL and any capacity.                                                   *)
(***************************************************************************)
EXTENDS SearchCacheRefinement, FiniteSetTheorems, SequenceTheorems, WellFoundedInduction, TLAPS

----------------------------------------------------------------------------
(* The inductive invariant, one named part per idea.                       *)

\* A caller has a key from request to return, an Arc only after Join, and an
\* answer only at the end.
CallerInv ==
  \A c \in Callers :
    /\ pc[c] = "idle" <=> want[c] = NoKey
    /\ pc[c] \in {"idle", "missed"} => mine[c] = NoSlot
    /\ pc[c] \in {"idle", "missed", "waiting", "computing"} => answer[c] = NoBody

\* The map never has one slot under two keys.
SlotUnique ==
  \A j, k \in Keys : inflight[j] = inflight[k] /\ inflight[j] # NoSlot => j = k

\* The leaders are the owners of the guards.
Leading(c) == pc[c] \in {"computing", "inserting"}

GuardInv ==
  /\ \A c \in Callers : Leading(c) => guard[mine[c]] = c
  /\ \A s \in Slots :
       guard[s] # NoCaller => Leading(guard[s]) /\ mine[guard[s]] = s

\* What a leader is about to insert is already parked in its slot, and the clock
\* was read before.
ParkedInv ==
  \A c \in Callers :
    /\ pc[c] = "inserting" => answer[c] \in Body /\ parked[mine[c]] = answer[c]
    /\ stamp[c] <= now

\* Bodies sit under the key they were computed for; a slot nobody refers to is empty.
BodyInv ==
  /\ \A k \in DOMAIN entries : entries[k].body.key = k
  /\ \A k \in Keys :
       inflight[k] # NoSlot /\ parked[inflight[k]] # NoBody => parked[inflight[k]].key = k
  /\ \A s \in Slots :
       (\A c \in Callers : mine[c] # s) /\ (\A k \in Keys : inflight[k] # s) => parked[s] = NoBody

StoreInv ==
  /\ ~Enabled => DOMAIN entries = {}
  /\ LeaderFindsNothing

SlotInv ==
  TypeOK /\ CallerInv /\ SlotIsCurrent /\ SlotUnique /\ GuardInv /\ ParkedInv /\ BodyInv
    /\ AnswerForKey /\ StoreInv

----------------------------------------------------------------------------
(* Lemmas about the operators of the specification.                        *)

\* A non-empty set of naturals has a least element.
LEMMA LeastNatural ==
  ASSUME NEW T \in SUBSET Nat, T # {}
  PROVE  \E n \in T : \A m \in T : n <= m
<1> DEFINE R == OpToRel(<, Nat)
<1>1. \A x, y \in Nat : <<y, x>> \in R <=> y < x
  BY DEF OpToRel
<1>2. IsWellFoundedOn(R, Nat)
  BY NatLessThanWellFounded DEF R
<1> HIDE DEF R
<1>3. PICK n \in T : \A m \in T : ~ (<<m, n>> \in R)
  BY <1>2, WFMin
<1>4. ASSUME NEW m \in T PROVE ~(m < n)
  BY <1>3, <1>1
<1>5. \A m \in T : n <= m
  BY <1>4
<1> QED BY <1>5

\* The queue has no key twice.
Distinct(q) == \A i, j \in 1 .. Len(q) : q[i] = q[j] => i = j

\* Without skips the place p of the key it removes.
LEMMA WithoutAt ==
  ASSUME NEW q \in Seq(Keys), NEW k, \E i \in 1 .. Len(q) : q[i] = k
  PROVE  \E p \in 1 .. Len(q) :
           /\ q[p] = k
           /\ Without(q, k) \in Seq(Keys) /\ Len(Without(q, k)) = Len(q) - 1
           /\ \A i \in 1 .. Len(Without(q, k)) :
                Without(q, k)[i] = q[IF i < p THEN i ELSE i + 1]
<1> DEFINE p == CHOOSE i \in 1 .. Len(q) : q[i] = k
           w == Without(q, k)
<1>0. p \in 1 .. Len(q) /\ q[p] = k
  OBVIOUS
<1> DEFINE a == SubSeq(q, 1, p - 1)
           b == SubSeq(q, p + 1, Len(q))
<1>1. w = a \o b
  BY DEF Without
<1> HIDE DEF p, w
<1>2. /\ a \in Seq(Keys) /\ Len(a) = p - 1
      /\ \A i \in 1 .. (p - 1) : a[i] = q[i]
  BY <1>0
<1>3. /\ b \in Seq(Keys) /\ Len(b) = Len(q) - p
      /\ \A i \in 1 .. (Len(q) - p) : b[i] = q[p + i]
  BY <1>0
<1> HIDE DEF a, b
<1>4. /\ w \in Seq(Keys) /\ Len(w) = Len(a) + Len(b)
      /\ \A i \in 1 .. Len(a) + Len(b) :
           w[i] = IF i <= Len(a) THEN a[i] ELSE b[i - Len(a)]
  BY <1>1, <1>2, <1>3, ConcatProperties
<1>5. ASSUME NEW i \in 1 .. Len(w)
      PROVE  w[i] = q[IF i < p THEN i ELSE i + 1]
  <2>1. CASE i < p
    <3>1. i \in 1 .. (p - 1) /\ i <= Len(a) /\ i \in 1 .. Len(a) + Len(b)
      BY <1>0, <1>2, <1>3, <1>4, <2>1
    <3>2. w[i] = a[i]
      BY <1>4, <3>1
    <3> QED BY <1>2, <2>1, <3>1, <3>2
  <2>2. CASE i >= p
    <3>0. /\ i \in Int /\ p \in Int /\ Len(q) \in Int
          /\ 1 <= i /\ i <= (p - 1) + (Len(q) - p)
      BY <1>0, <1>2, <1>3, <1>4
    <3>1. i - (p - 1) \in 1 .. (Len(q) - p) /\ p + (i - (p - 1)) = i + 1
      BY <2>2, <3>0
    <3>2. w[i] = b[i - (p - 1)]
      <4>1. i \in 1 .. Len(a) + Len(b) /\ ~ (i <= Len(a))
        BY <1>2, <1>3, <1>4, <2>2, <3>0
      <4> QED BY <1>2, <1>4, <4>1
    <3>3. b[i - (p - 1)] = q[i + 1]
      BY <1>3, <3>1
    <3> QED BY <1>0, <2>2, <3>2, <3>3
  <2>3. i \in Nat /\ p \in Nat
    BY <1>0
  <2> QED BY <2>1, <2>2, <2>3
<1>6. w \in Seq(Keys) /\ Len(w) = Len(q) - 1
  <2>1. p \in Int /\ Len(q) \in Int
    BY <1>0
  <2>2. Len(w) = (p - 1) + (Len(q) - p)
    BY <1>2, <1>3, <1>4
  <2> QED BY <1>4, <2>1, <2>2
<1> QED BY <1>0, <1>5, <1>6 DEF w

\* Removing a key from the queue keeps every other key in it, and the key
\* itself is gone if it was there once.
LEMMA WithoutKeeps ==
  ASSUME NEW q \in Seq(Keys), NEW k
  PROVE  /\ Without(q, k) \in Seq(Keys)
         /\ \A i \in 1 .. Len(q) : q[i] # k =>
              \E j \in 1 .. Len(Without(q, k)) : Without(q, k)[j] = q[i]
         /\ Distinct(q) => /\ Distinct(Without(q, k))
                           /\ \A i \in 1 .. Len(Without(q, k)) : Without(q, k)[i] # k
<1>1. CASE ~ \E i \in 1 .. Len(q) : q[i] = k
  BY <1>1 DEF Without
<1>2. CASE \E i \in 1 .. Len(q) : q[i] = k
  <2> DEFINE w == Without(q, k)
  <2> HIDE DEF w
  <2>1. PICK p \in 1 .. Len(q) :
          /\ q[p] = k /\ w \in Seq(Keys) /\ Len(w) = Len(q) - 1
          /\ \A i \in 1 .. Len(w) : w[i] = q[IF i < p THEN i ELSE i + 1]
    BY <1>2, WithoutAt DEF w
  <2>2. ASSUME NEW i \in 1 .. Len(q), q[i] # k
        PROVE  \E j \in 1 .. Len(w) : w[j] = q[i]
    <3> DEFINE j == IF i < p THEN i ELSE i - 1
    <3>1. i # p
      BY <2>1, <2>2
    <3>2. j \in 1 .. Len(w) /\ (IF j < p THEN j ELSE j + 1) = i
      BY <2>1, <3>1
    <3> QED BY <2>1, <3>2
  <2>3. ASSUME Distinct(q)
        PROVE  /\ Distinct(w)
               /\ \A i \in 1 .. Len(w) : w[i] # k
    <3> DEFINE f(i) == IF i < p THEN i ELSE i + 1
    <3>1. \A i \in 1 .. Len(w) : f(i) \in 1 .. Len(q) /\ f(i) # p /\ w[i] = q[f(i)]
      BY <2>1
    <3>2. \A i, j \in 1 .. Len(w) : f(i) = f(j) => i = j
      BY <2>1
    <3> HIDE DEF f
    <3>3. q[p] = k /\ p \in 1 .. Len(q)
      BY <2>1
    <3> QED BY <2>3, <3>1, <3>2, <3>3 DEF Distinct
  <2> QED BY <2>1, <2>2, <2>3 DEF w
<1> QED BY <1>1, <1>2

\* ... and their order.
LEMMA WithoutOrder ==
  ASSUME NEW q \in Seq(Keys), NEW k,
         NEW i \in 1 .. Len(Without(q, k)), NEW j \in 1 .. Len(Without(q, k)), i < j
  PROVE  \E m, n \in 1 .. Len(q) :
           m < n /\ q[m] = Without(q, k)[i] /\ q[n] = Without(q, k)[j]
<1>1. CASE ~ \E x \in 1 .. Len(q) : q[x] = k
  BY <1>1 DEF Without
<1>2. CASE \E x \in 1 .. Len(q) : q[x] = k
  <2> DEFINE w == Without(q, k)
  <2> HIDE DEF w
  <2>1. PICK p \in 1 .. Len(q) :
          /\ Len(w) = Len(q) - 1
          /\ \A x \in 1 .. Len(w) : w[x] = q[IF x < p THEN x ELSE x + 1]
    BY <1>2, WithoutAt DEF w
  <2>2. i \in 1 .. Len(w) /\ j \in 1 .. Len(w) /\ Len(q) \in Nat
    BY DEF w
  <2> DEFINE m == IF i < p THEN i ELSE i + 1
             n == IF j < p THEN j ELSE j + 1
  <2>3. m \in 1 .. Len(q) /\ n \in 1 .. Len(q) /\ m < n
    BY <2>1, <2>2
  <2>4. q[m] = w[i] /\ q[n] = w[j]
    BY <2>1, <2>2
  <2> QED BY <2>3, <2>4 DEF w
<1> QED BY <1>1, <1>2

\* The eviction loop stops: after a number of pops that fits, or with the
\* queue empty.
LEMMA EvictionsFit ==
  ASSUME order \in Seq(Keys), NEW t
  PROVE  /\ Evictions(t) \in 0 .. Len(order)
         /\ \/ Cardinality(DOMAIN Purged(t) \ Popped(Evictions(t))) < MaxEntries
            \/ Evictions(t) = Len(order)
<1> DEFINE Fits(n) == Cardinality(DOMAIN Purged(t) \ Popped(n)) < MaxEntries
           T == {n \in 0 .. Len(order) : Fits(n) \/ n = Len(order)}
           Stops(n) == (Fits(n) \/ n = Len(order)) /\ \A m \in 0 .. (n - 1) : ~Fits(m)
<1>1. Len(order) \in Nat
  OBVIOUS
<1>2. Evictions(t) = CHOOSE n \in 0 .. Len(order) : Stops(n)
  BY DEF Evictions
<1> HIDE DEF Fits
<1>3. T \in SUBSET Nat /\ T # {}
  <2>1. Len(order) \in T
    BY <1>1
  <2> QED BY <2>1
<1>4. PICK n \in T : \A m \in T : n <= m
  BY <1>3, LeastNatural
<1>5. n \in 0 .. Len(order) /\ Stops(n)
  <2>1. ASSUME NEW m \in 0 .. (n - 1), Fits(m) PROVE FALSE
    <3>1. m \in T
      BY <2>1, <1>1, <1>4
    <3> QED BY <1>1, <1>4, <2>1, <3>1
  <2> QED BY <1>4, <2>1
<1>6. Evictions(t) \in 0 .. Len(order) /\ Stops(Evictions(t))
  <2> HIDE DEF Stops
  <2> QED BY <1>2, <1>5
<1> QED BY <1>6 DEF Fits

\* What an insert may change: the entry of its key; other entries are kept as
\* they are or dropped.
LEMMA InsertEffect ==
  ASSUME TypeOK, NEW k \in Keys, NEW b \in Body, NEW t \in Nat, Insert(k, b, t)
  PROVE  /\ order' \in Seq(Keys)
         /\ DOMAIN entries' \subseteq DOMAIN entries \union {k}
         /\ \A j \in DOMAIN entries' : j # k => entries'[j] = entries[j]
         /\ k \in DOMAIN entries' /\ Enabled =>
              entries'[k] = [body |-> b, expires_at |-> t + Ttl, stored_at |-> now]
         /\ ~Enabled => entries' = entries
<1>1. CASE ~Enabled
  BY <1>1 DEF Insert, storeVars, TypeOK
<1>2. CASE Enabled
  <2> DEFINE kept == DOMAIN Purged(t) \ Popped(Evictions(t))
  <2>1. kept \subseteq DOMAIN entries
    BY DEF Purged, Restrict
  <2>2. /\ entries' = [j \in kept \union {k} |->
                         IF j = k THEN [body |-> b, expires_at |-> t + Ttl, stored_at |-> now]
                         ELSE entries[j]]
        /\ order' = Append(Without(Unpopped(t), k), k)
    BY <1>2 DEF Insert, WithEntry
  <2>3. Evictions(t) \in 0 .. Len(order)
    BY EvictionsFit DEF TypeOK
  <2>4. Unpopped(t) \in Seq(Keys)
    BY <2>3 DEF TypeOK, Unpopped
  <2>5. Without(Unpopped(t), k) \in Seq(Keys)
    BY <2>4, WithoutKeeps
  <2>6. order' \in Seq(Keys)
    BY <2>2, <2>5
  <2> HIDE DEF kept
  <2> QED BY <1>2, <2>1, <2>2, <2>6
<1> QED BY <1>1, <1>2

\* ... which are all the entries there are afterwards.
LEMMA InsertsOne ==
  ASSUME TypeOK, NEW k \in Keys, NEW b \in Body, NEW t \in Nat, Insert(k, b, t)
  PROVE  \A j \in DOMAIN entries' :
           \/ j \in DOMAIN entries /\ entries'[j] = entries[j]
           \/ j = k /\ entries'[j] = [body |-> b, expires_at |-> t + Ttl, stored_at |-> now]
<1> TAKE j \in DOMAIN entries'
<1>1. CASE j # k
  BY <1>1, InsertEffect
<1>2. CASE j = k /\ Enabled
  BY <1>2, InsertEffect
<1>3. CASE ~Enabled
  BY <1>3, InsertEffect
<1> QED BY <1>1, <1>2, <1>3

\* A release that forgets a slot is by its last holder.
LEMMA LastReference ==
  ASSUME TypeOK, NEW s \in Slots, NEW k \in Keys, inflight[k] = s,
         NEW c \in Callers, NEW d \in Callers, mine[c] = s, mine[d] = s,
         StrongCount(s) <= 2
  PROVE  c = d
<1> DEFINE H == Holders(s)
           M == {j \in Keys : inflight[j] = s}
<1>1. IsFiniteSet(H) /\ IsFiniteSet(M)
  BY SearchCacheAssumption, FS_Subset DEF Holders
<1>2. c \in H /\ d \in H /\ k \in M
  BY DEF Holders
<1>3. Cardinality(H) \in Nat /\ Cardinality(M) \in Nat /\ Cardinality(M) # 0
  BY <1>1, <1>2, FS_CardinalityType, FS_EmptySet
<1>4. Cardinality(H) <= 1
  BY <1>3 DEF StrongCount
<1>5. Cardinality(H) = 1
  BY <1>1, <1>2, <1>3, <1>4, FS_EmptySet
<1>6. PICK x : H = {x}
  BY <1>1, <1>5, FS_Singleton
<1> QED BY <1>2, <1>6

\* An Arc dropped by the only one who refers to its slot frees it.
LEMMA OnlyReference ==
  ASSUME TypeOK, NEW s \in Slots, NEW c \in Callers, mine[c] = s,
         \A d \in Callers : mine[d] = s => d = c, \A k \in Keys : inflight[k] # s
  PROVE  StrongCount(s) = 1
<1>1. Holders(s) = {c} /\ {k \in Keys : inflight[k] = s} = {}
  BY DEF Holders
<1>2. Cardinality(Holders(s)) = 1 /\ Cardinality({k \in Keys : inflight[k] = s}) = 0
  BY <1>1, FS_EmptySet, FS_Singleton
<1> QED BY <1>2 DEF StrongCount

----------------------------------------------------------------------------
(* Every action preserves the invariant.                                   *)

LEMMA RequestInv ==
  ASSUME SlotInv, NEW c \in Callers, NEW k \in Keys, Request(c, k)
  PROVE  SlotInv'
<1> USE SearchCacheAssumption DEF SlotInv, storeVars, slotVars, Goto, Stage, Body, Request, Hit, Fresh, AfterGet, Restrict, Enabled
<1>1. TypeOK'
  BY DEF TypeOK, CallerInv, SlotIsCurrent
<1>2. CallerInv'
  BY DEF TypeOK, CallerInv, SlotIsCurrent
<1>3. SlotIsCurrent'
  BY DEF TypeOK, CallerInv, SlotIsCurrent
<1>4. SlotUnique'
  BY DEF TypeOK, CallerInv, SlotIsCurrent, SlotUnique
<1>5. GuardInv'
  <2>1. \A d \in Callers : Leading(d)' <=> Leading(d)
    BY DEF TypeOK, Leading
  <2>2. UNCHANGED <<guard, mine>>
    OBVIOUS
  <2>3. \A s \in Slots : guard[s] # NoCaller => guard[s] \in Callers
    BY DEF TypeOK
  <2> QED BY <2>1, <2>2, <2>3 DEF GuardInv
<1>6. BodyInv'
  BY DEF TypeOK, CallerInv, SlotIsCurrent, SlotUnique, BodyInv
<1>7. AnswerForKey'
  BY DEF TypeOK, CallerInv, SlotIsCurrent, AnswerForKey, BodyInv
<1>8. StoreInv'
  BY DEF TypeOK, CallerInv, StoreInv, LeaderFindsNothing
<1>9. ParkedInv'
  BY DEF TypeOK, CallerInv, SlotIsCurrent, ParkedInv
<1> QED BY <1>1, <1>2, <1>3, <1>4, <1>5, <1>6, <1>7, <1>8, <1>9

LEMMA JoinInv ==
  ASSUME SlotInv, NEW c \in Callers, Join(c)
  PROVE  SlotInv'
<1> USE SearchCacheAssumption DEF SlotInv, storeVars, slotVars, Goto, Stage, Body, Join, Holders
<1>1. TypeOK'
  <2>1. want[c] \in Keys
    BY DEF TypeOK, CallerInv
  <2>2. CASE inflight[want[c]] # NoSlot /\ mine' = [mine EXCEPT ![c] = inflight[want[c]]] /\ UNCHANGED inflight
    BY <2>1, <2>2 DEF TypeOK
  <2>4. CASE \E s \in Slots : /\ inflight' = [inflight EXCEPT ![want[c]] = s]
                              /\ mine' = [mine EXCEPT ![c] = s]
    BY <2>1, <2>4 DEF TypeOK
  <2>3. pc' \in [Callers -> Stage]
    BY DEF TypeOK
  <2> QED BY <2>2, <2>3, <2>4 DEF TypeOK
<1>2. CallerInv'
  BY DEF TypeOK, CallerInv, SlotIsCurrent
<1>3. SlotIsCurrent'
  BY DEF TypeOK, CallerInv, SlotIsCurrent
<1>4. SlotUnique'
  <2>1. CASE UNCHANGED inflight
    BY <2>1 DEF SlotUnique
  <2>2. CASE \E s \in Slots : /\ \A j \in Keys : inflight[j] # s
                              /\ inflight' = [inflight EXCEPT ![want[c]] = s]
    BY <2>2 DEF TypeOK, SlotUnique
  <2> QED BY <2>1, <2>2
<1>5. GuardInv'
  BY DEF TypeOK, CallerInv, SlotIsCurrent, SlotUnique, GuardInv, Leading
<1>6. BodyInv'
  <2>1. ASSUME NEW k \in Keys, inflight'[k] # NoSlot, parked[inflight'[k]] # NoBody
        PROVE  parked[inflight'[k]].key = k
    <3>1. want[c] \in Keys
      BY DEF TypeOK, CallerInv
    <3>2. CASE UNCHANGED inflight
      BY <2>1, <3>2 DEF BodyInv
    <3>3. CASE \E s \in Slots : /\ Holders(s) = {} /\ \A j \in Keys : inflight[j] # s
                                /\ inflight' = [inflight EXCEPT ![want[c]] = s]
      <4>1. PICK s \in Slots : /\ Holders(s) = {} /\ \A j \in Keys : inflight[j] # s
                               /\ inflight' = [inflight EXCEPT ![want[c]] = s]
        BY <3>3
      <4>2. parked[s] = NoBody
        BY <4>1 DEF BodyInv
      <4>3. k # want[c]
        BY <2>1, <3>1, <4>1, <4>2 DEF TypeOK
      <4> QED BY <2>1, <4>1, <4>3 DEF TypeOK, BodyInv
    <3> QED BY <3>2, <3>3
  <2>2. ASSUME NEW s \in Slots, \A d \in Callers : mine'[d] # s, \A k \in Keys : inflight'[k] # s
        PROVE  parked[s] = NoBody
    <3>1. \A d \in Callers : mine[d] # s
      BY <2>2 DEF TypeOK, CallerInv
    <3>2. \A k \in Keys : inflight[k] # s
      BY <2>2 DEF TypeOK, CallerInv
    <3> QED BY <3>1, <3>2 DEF BodyInv
  <2> QED BY <2>1, <2>2 DEF BodyInv
<1>7. AnswerForKey'
  BY DEF TypeOK, CallerInv, SlotIsCurrent, AnswerForKey, BodyInv
<1>8. StoreInv'
  BY DEF TypeOK, CallerInv, StoreInv, LeaderFindsNothing
<1>9. ParkedInv'
  BY DEF TypeOK, CallerInv, SlotIsCurrent, ParkedInv
<1> QED BY <1>1, <1>2, <1>3, <1>4, <1>5, <1>6, <1>7, <1>8, <1>9

LEMMA ShareAnswerInv ==
  ASSUME SlotInv, NEW c \in Callers, ShareAnswer(c)
  PROVE  SlotInv'
<1> USE SearchCacheAssumption DEF SlotInv, storeVars, slotVars, Goto, Stage, Body, ShareAnswer, Hit, Fresh, Enabled
<1>1. TypeOK'
  BY DEF TypeOK, CallerInv, SlotIsCurrent
<1>2. CallerInv'
  BY DEF TypeOK, CallerInv, SlotIsCurrent
<1>3. SlotIsCurrent'
  BY DEF TypeOK, CallerInv, SlotIsCurrent
<1>4. SlotUnique'
  BY DEF TypeOK, CallerInv, SlotIsCurrent, SlotUnique
<1>5. GuardInv'
  BY DEF TypeOK, CallerInv, SlotIsCurrent, SlotUnique, GuardInv, Leading
<1>6. BodyInv'
  BY DEF TypeOK, CallerInv, SlotIsCurrent, SlotUnique, BodyInv
<1>7. AnswerForKey'
  <2>1. want[c] \in Keys /\ mine[c] # NoSlot /\ mine[c] = inflight[want[c]]
    BY DEF TypeOK, CallerInv, SlotIsCurrent
  <2>2. \E b : b.key = want[c] /\ answer' = [answer EXCEPT ![c] = b]
    BY <2>1 DEF BodyInv
  <2> QED BY <2>2 DEF TypeOK, AnswerForKey
<1>8. StoreInv'
  BY DEF TypeOK, CallerInv, StoreInv, LeaderFindsNothing
<1>9. ParkedInv'
  BY DEF TypeOK, CallerInv, SlotIsCurrent, ParkedInv
<1> QED BY <1>1, <1>2, <1>3, <1>4, <1>5, <1>6, <1>7, <1>8, <1>9

LEMMA LeadInv ==
  ASSUME SlotInv, NEW c \in Callers, Lead(c)
  PROVE  SlotInv'
<1> USE SearchCacheAssumption DEF SlotInv, storeVars, slotVars, Goto, Stage, Body, Lead, Hit, Fresh, AfterGet, Restrict
<1>1. TypeOK'
  BY DEF TypeOK, CallerInv, SlotIsCurrent
<1>2. CallerInv'
  BY DEF TypeOK, CallerInv, SlotIsCurrent
<1>3. SlotIsCurrent'
  BY DEF TypeOK, CallerInv, SlotIsCurrent
<1>4. SlotUnique'
  BY DEF TypeOK, CallerInv, SlotIsCurrent, SlotUnique
<1>5. GuardInv'
  BY DEF TypeOK, CallerInv, SlotIsCurrent, SlotUnique, GuardInv, Leading
<1>6. BodyInv'
  BY DEF TypeOK, CallerInv, SlotIsCurrent, SlotUnique, BodyInv
<1>7. AnswerForKey'
  BY DEF TypeOK, CallerInv, SlotIsCurrent, AnswerForKey, BodyInv
<1>8. StoreInv'
  BY DEF TypeOK, CallerInv, StoreInv, LeaderFindsNothing
<1>9. ParkedInv'
  BY DEF TypeOK, CallerInv, SlotIsCurrent, ParkedInv
<1> QED BY <1>1, <1>2, <1>3, <1>4, <1>5, <1>6, <1>7, <1>8, <1>9

LEMMA ComputeErrInv ==
  ASSUME SlotInv, NEW c \in Callers, ComputeErr(c)
  PROVE  SlotInv'
<1> USE SearchCacheAssumption DEF SlotInv, storeVars, slotVars, Goto, Stage, Body, ComputeErr
<1>1. TypeOK'
  BY DEF TypeOK, CallerInv, SlotIsCurrent
<1>2. CallerInv'
  BY DEF TypeOK, CallerInv, SlotIsCurrent
<1>3. SlotIsCurrent'
  BY DEF TypeOK, CallerInv, SlotIsCurrent
<1>4. SlotUnique'
  BY DEF TypeOK, CallerInv, SlotIsCurrent, SlotUnique
<1>5. GuardInv'
  BY DEF TypeOK, CallerInv, SlotIsCurrent, SlotUnique, GuardInv, Leading
<1>6. BodyInv'
  BY DEF TypeOK, CallerInv, SlotIsCurrent, SlotUnique, BodyInv
<1>7. AnswerForKey'
  BY DEF TypeOK, CallerInv, SlotIsCurrent, AnswerForKey, BodyInv
<1>8. StoreInv'
  BY DEF TypeOK, CallerInv, StoreInv, LeaderFindsNothing
<1>9. ParkedInv'
  BY DEF TypeOK, CallerInv, SlotIsCurrent, ParkedInv
<1> QED BY <1>1, <1>2, <1>3, <1>4, <1>5, <1>6, <1>7, <1>8, <1>9

LEMMA ComputeOkInv ==
  ASSUME SlotInv, NEW c \in Callers, ComputeOk(c)
  PROVE  SlotInv'
<1> USE SearchCacheAssumption DEF SlotInv, storeVars, slotVars, Goto, Stage, Body, ComputeOk
<1> DEFINE b == [key |-> want[c], born |-> now]
<1>a. want[c] \in Keys /\ b \in Body /\ mine[c] \in Slots /\ mine[c] = inflight[want[c]]
  BY DEF TypeOK, CallerInv, SlotIsCurrent
<1>1. TypeOK'
  BY <1>a DEF TypeOK
<1>2. CallerInv'
  BY DEF TypeOK, CallerInv, SlotIsCurrent
<1>3. SlotIsCurrent'
  BY DEF TypeOK, CallerInv, SlotIsCurrent
<1>4. SlotUnique'
  BY DEF TypeOK, CallerInv, SlotIsCurrent, SlotUnique
<1>5. GuardInv'
  BY DEF TypeOK, CallerInv, SlotIsCurrent, SlotUnique, GuardInv, Leading
<1>6. BodyInv'
  <2>1. \A k \in DOMAIN entries' : entries'[k].body.key = k
    BY DEF BodyInv
  <2>2. ASSUME NEW k \in Keys, inflight[k] # NoSlot, parked'[inflight[k]] # NoBody
        PROVE  parked'[inflight[k]].key = k
    BY <1>a, <2>2 DEF TypeOK, SlotUnique, BodyInv
  <2>3. ASSUME NEW s \in Slots, \A d \in Callers : mine[d] # s, \A k \in Keys : inflight[k] # s
        PROVE  parked'[s] = NoBody
    BY <2>3 DEF TypeOK, BodyInv
  <2> QED BY <2>1, <2>2, <2>3 DEF BodyInv
<1>7. AnswerForKey'
  BY DEF TypeOK, CallerInv, SlotIsCurrent, AnswerForKey, BodyInv
<1>8. StoreInv'
  BY DEF TypeOK, CallerInv, StoreInv, LeaderFindsNothing, Enabled
<1>9. ParkedInv'
  <2> SUFFICES ASSUME NEW d \in Callers, pc'[d] = "inserting"
               PROVE  answer'[d] \in Body /\ parked'[mine[d]] = answer'[d]
    BY DEF ParkedInv, TypeOK
  <2>1. CASE d = c
    BY <1>a, <2>1 DEF TypeOK
  <2>2. CASE d # c
    <3>1. pc[d] = "inserting" /\ answer'[d] = answer[d]
      BY <2>2 DEF TypeOK
    <3>2. mine[d] # mine[c]
      BY <2>2, <3>1 DEF GuardInv, Leading
    <3> QED BY <1>a, <3>1, <3>2 DEF TypeOK, ParkedInv
  <2> QED BY <2>1, <2>2
<1> QED BY <1>1, <1>2, <1>3, <1>4, <1>5, <1>6, <1>7, <1>8, <1>9

\* Inserting: nobody else leads a search for the key that goes in.
LEMMA StoreStepInv ==
  ASSUME SlotInv, NEW c \in Callers, Store(c)
  PROVE  SlotInv'
<1> USE SearchCacheAssumption DEF SlotInv, slotVars, Goto, Stage, Store
<1> DEFINE b == answer[c]
           t == stamp[c]
<1>a. /\ want[c] \in Keys /\ b \in Body /\ b.key = want[c] /\ t \in Nat
      /\ mine[c] \in Slots /\ mine[c] = inflight[want[c]]
  BY DEF TypeOK, CallerInv, SlotIsCurrent, ParkedInv, AnswerForKey
<1>b. /\ order' \in Seq(Keys)
      /\ DOMAIN entries' \subseteq DOMAIN entries \union {want[c]}
      /\ \A j \in DOMAIN entries' : j # want[c] => entries'[j] = entries[j]
      /\ want[c] \in DOMAIN entries' /\ Enabled =>
           entries'[want[c]] = [body |-> b, expires_at |-> t + Ttl, stored_at |-> now]
      /\ ~Enabled => entries' = entries
  BY <1>a, InsertEffect
<1>c. \A j \in DOMAIN entries' :
        \/ entries'[j] = entries[j] /\ j \in DOMAIN entries
        \/ j = want[c] /\ entries'[j] = [body |-> b, expires_at |-> t + Ttl, stored_at |-> now]
  BY <1>a, InsertsOne
<1>1. TypeOK'
  <2>1. DOMAIN entries' \subseteq Keys
    BY <1>a, <1>b DEF TypeOK
  <2>2. \A j \in DOMAIN entries' :
          entries'[j] \in [body : Body, expires_at : Nat, stored_at : Nat]
    BY <1>a, <1>c DEF TypeOK
  <2>3. guard' \in [Slots -> Callers \union {NoCaller}] /\ pc' \in [Callers -> Stage]
        /\ stamp' \in [Callers -> Nat]
    BY DEF TypeOK
  <2> QED BY <1>b, <2>1, <2>2, <2>3 DEF TypeOK
<1>2. CallerInv'
  BY DEF TypeOK, CallerInv, SlotIsCurrent
<1>3. SlotIsCurrent'
  BY DEF TypeOK, CallerInv, SlotIsCurrent
<1>4. SlotUnique'
  BY DEF TypeOK, CallerInv, SlotIsCurrent, SlotUnique
<1>5. GuardInv'
  BY DEF TypeOK, CallerInv, SlotIsCurrent, SlotUnique, GuardInv, Leading
<1>6. BodyInv'
  BY <1>a, <1>c DEF BodyInv
<1>7. AnswerForKey'
  BY DEF AnswerForKey
<1>8. StoreInv'
  <2>1. ~Enabled => DOMAIN entries' = {}
    BY <1>b DEF StoreInv
  <2>2. ASSUME NEW d \in Callers, pc'[d] = "computing"
        PROVE  want[d] \notin DOMAIN entries'
    <3>1. d # c /\ pc[d] = "computing"
      BY <2>2 DEF TypeOK
    <3>2. want[d] # want[c]
      BY <1>a, <3>1 DEF SlotIsCurrent, GuardInv, Leading
    <3> QED BY <1>b, <3>1, <3>2 DEF StoreInv, LeaderFindsNothing
  <2> QED BY <2>1, <2>2 DEF StoreInv, LeaderFindsNothing, Enabled
<1>9. ParkedInv'
  BY DEF TypeOK, ParkedInv
<1> QED BY <1>1, <1>2, <1>3, <1>4, <1>5, <1>6, <1>7, <1>8, <1>9

LEMMA ReleaseInv ==
  ASSUME SlotInv, NEW c \in Callers, Release(c)
  PROVE  SlotInv'
<1> USE SearchCacheAssumption DEF SlotInv, storeVars, slotVars, Goto, Stage, Body, Release
<1>1. TypeOK'
  BY DEF TypeOK, CallerInv, SlotIsCurrent
<1>2. CallerInv'
  BY DEF TypeOK, CallerInv, SlotIsCurrent
<1>3. SlotIsCurrent'
  <2> SUFFICES ASSUME NEW d \in Callers,
                      pc'[d] \in {"waiting", "computing", "inserting", "releasing"}
               PROVE  mine[d] # NoSlot /\ mine[d] = inflight'[want[d]]
    BY DEF SlotIsCurrent
  <2>1. d # c /\ pc[d] = pc'[d] /\ mine[d] # NoSlot /\ mine[d] = inflight[want[d]]
    BY DEF TypeOK, SlotIsCurrent
  <2>2. /\ mine[c] \in Slots /\ mine[c] = inflight[want[c]] /\ want[c] \in Keys /\ want[d] \in Keys
    BY <2>1 DEF TypeOK, SlotIsCurrent, CallerInv
  <2>3. CASE want[d] # want[c]
    BY <2>1, <2>2, <2>3 DEF TypeOK
  <2>4. CASE want[d] = want[c] /\ StrongCount(mine[c]) <= 2
    BY <2>1, <2>2, <2>4, LastReference
  <2>5. CASE ~(StrongCount(mine[c]) <= 2)
    BY <2>1, <2>5
  <2> QED BY <2>3, <2>4, <2>5
<1>4. SlotUnique'
  BY DEF TypeOK, CallerInv, SlotIsCurrent, SlotUnique
<1>5. GuardInv'
  BY DEF TypeOK, CallerInv, SlotIsCurrent, SlotUnique, GuardInv, Leading
<1>6. BodyInv'
  <2>1. want[c] \in Keys /\ mine[c] # NoSlot /\ mine[c] = inflight[want[c]]
    BY DEF TypeOK, CallerInv, SlotIsCurrent
  <2>2. \A k \in Keys : inflight'[k] # NoSlot => inflight'[k] = inflight[k]
    BY <2>1 DEF TypeOK
  <2>3. \A k \in Keys :
          inflight'[k] # NoSlot /\ parked[inflight'[k]] # NoBody => parked[inflight'[k]].key = k
    BY <2>2 DEF BodyInv
  <2>4. ASSUME NEW s \in Slots, \A d \in Callers : mine[d] # s, \A k \in Keys : inflight'[k] # s
        PROVE  parked[s] = NoBody
    <3>1. \A k \in Keys : inflight[k] # s
      BY <2>1, <2>4 DEF TypeOK
    <3> QED BY <2>4, <3>1 DEF BodyInv
  <2> QED BY <2>3, <2>4 DEF BodyInv
<1>7. AnswerForKey'
  BY DEF TypeOK, CallerInv, SlotIsCurrent, AnswerForKey, BodyInv
<1>8. StoreInv'
  BY DEF TypeOK, CallerInv, StoreInv, LeaderFindsNothing
<1>9. ParkedInv'
  BY DEF TypeOK, CallerInv, SlotIsCurrent, ParkedInv
<1> QED BY <1>1, <1>2, <1>3, <1>4, <1>5, <1>6, <1>7, <1>8, <1>9

LEMMA ReturnInv ==
  ASSUME SlotInv, NEW c \in Callers, Return(c)
  PROVE  SlotInv'
<1> USE SearchCacheAssumption DEF SlotInv, storeVars, slotVars, Goto, Stage, Body, Return, DropArc
<1>1. TypeOK'
  BY DEF TypeOK, CallerInv, SlotIsCurrent
<1>2. CallerInv'
  BY DEF TypeOK, CallerInv, SlotIsCurrent
<1>3. SlotIsCurrent'
  BY DEF TypeOK, CallerInv, SlotIsCurrent
<1>4. SlotUnique'
  BY DEF TypeOK, CallerInv, SlotIsCurrent, SlotUnique
<1>5. GuardInv'
  BY DEF TypeOK, CallerInv, SlotIsCurrent, SlotUnique, GuardInv, Leading
<1>6. BodyInv'
  <2>1. ASSUME NEW s \in Slots, \A d \in Callers : mine'[d] # s, \A k \in Keys : inflight[k] # s
        PROVE  parked'[s] = NoBody
    <3>1. CASE mine[c] = s
      <4>1. \A d \in Callers : mine[d] = s => d = c
        BY <2>1 DEF TypeOK
      <4> QED BY <2>1, <3>1, <4>1, OnlyReference
    <3>2. CASE mine[c] # s
      BY <2>1, <3>2 DEF TypeOK, BodyInv
    <3> QED BY <3>1, <3>2
  <2>2. \A s \in Slots : parked'[s] \in {parked[s], NoBody}
    OBVIOUS
  <2> QED BY <2>1, <2>2 DEF TypeOK, BodyInv
<1>7. AnswerForKey'
  BY DEF TypeOK, CallerInv, SlotIsCurrent, AnswerForKey, BodyInv
<1>8. StoreInv'
  BY DEF TypeOK, CallerInv, StoreInv, LeaderFindsNothing
<1>9. ParkedInv'
  <2> SUFFICES ASSUME NEW d \in Callers, pc'[d] = "inserting"
               PROVE  answer'[d] \in Body /\ parked'[mine'[d]] = answer'[d]
    BY DEF ParkedInv, TypeOK
  <2>1. d # c /\ pc[d] = "inserting" /\ mine'[d] = mine[d] /\ answer'[d] = answer[d]
    BY DEF TypeOK
  <2>2. /\ want[d] \in Keys /\ mine[d] \in Slots /\ inflight[want[d]] = mine[d]
        /\ answer[d] \in Body /\ parked[mine[d]] = answer[d]
    BY <2>1 DEF TypeOK, CallerInv, SlotIsCurrent, ParkedInv
  <2>3. mine[c] = mine[d] => StrongCount(mine[c]) # 1
    BY <2>1, <2>2, LastReference
  <2> QED BY <2>1, <2>2, <2>3 DEF TypeOK
<1> QED BY <1>1, <1>2, <1>3, <1>4, <1>5, <1>6, <1>7, <1>8, <1>9

LEMMA CancelInv ==
  ASSUME SlotInv, NEW c \in Callers, Cancel(c)
  PROVE  SlotInv'
<1> USE SearchCacheAssumption DEF SlotInv, storeVars, slotVars, Goto, Stage, Body, Cancel, DropArc
<1>1. TypeOK'
  BY DEF TypeOK, CallerInv, SlotIsCurrent
<1>2. CallerInv'
  BY DEF TypeOK, CallerInv, SlotIsCurrent
<1>3. SlotIsCurrent'
  BY DEF TypeOK, CallerInv, SlotIsCurrent
<1>4. SlotUnique'
  BY DEF TypeOK, CallerInv, SlotIsCurrent, SlotUnique
<1>5. GuardInv'
  BY DEF TypeOK, CallerInv, SlotIsCurrent, SlotUnique, GuardInv, Leading
<1>6. BodyInv'
  <2>1. ASSUME NEW s \in Slots, \A d \in Callers : mine'[d] # s, \A k \in Keys : inflight[k] # s
        PROVE  parked'[s] = NoBody
    <3>1. CASE mine[c] = s
      <4>1. \A d \in Callers : mine[d] = s => d = c
        BY <2>1 DEF TypeOK
      <4> QED BY <2>1, <3>1, <4>1, OnlyReference
    <3>2. CASE mine[c] # s
      BY <2>1, <3>2 DEF TypeOK, BodyInv
    <3> QED BY <3>1, <3>2
  <2>2. \A s \in Slots : parked'[s] \in {parked[s], NoBody}
    OBVIOUS
  <2> QED BY <2>1, <2>2 DEF TypeOK, BodyInv
<1>7. AnswerForKey'
  BY DEF TypeOK, CallerInv, SlotIsCurrent, AnswerForKey, BodyInv
<1>8. StoreInv'
  BY DEF TypeOK, CallerInv, StoreInv, LeaderFindsNothing
<1>9. ParkedInv'
  <2> SUFFICES ASSUME NEW d \in Callers, pc'[d] = "inserting"
               PROVE  answer'[d] \in Body /\ parked'[mine'[d]] = answer'[d]
    BY DEF ParkedInv, TypeOK
  <2>1. d # c /\ pc[d] = "inserting" /\ mine'[d] = mine[d] /\ answer'[d] = answer[d]
    BY DEF TypeOK
  <2>2. /\ want[d] \in Keys /\ mine[d] \in Slots /\ inflight[want[d]] = mine[d]
        /\ answer[d] \in Body /\ parked[mine[d]] = answer[d]
    BY <2>1 DEF TypeOK, CallerInv, SlotIsCurrent, ParkedInv
  <2>3. mine[c] = mine[d] => StrongCount(mine[c]) # 1
    BY <2>1, <2>2, LastReference
  <2> QED BY <2>1, <2>2, <2>3 DEF TypeOK
<1> QED BY <1>1, <1>2, <1>3, <1>4, <1>5, <1>6, <1>7, <1>8, <1>9

LEMMA TickInv ==
  ASSUME SlotInv, Tick
  PROVE  SlotInv'
<1> USE DEF SlotInv, Tick, storeVars, slotVars
<1>1. TypeOK'
  BY DEF TypeOK
<1>2. CallerInv' /\ SlotIsCurrent' /\ SlotUnique' /\ GuardInv' /\ BodyInv' /\ AnswerForKey' /\ StoreInv'
  BY DEF CallerInv, SlotIsCurrent, SlotUnique, GuardInv, Leading, BodyInv, AnswerForKey, StoreInv,
         LeaderFindsNothing, Enabled
<1>3. ParkedInv'
  BY DEF TypeOK, ParkedInv
<1> QED BY <1>1, <1>2, <1>3

LEMMA InitInv == Init => SlotInv
<1> SUFFICES ASSUME Init PROVE SlotInv
  OBVIOUS
<1>1. TypeOK
  BY DEF Init, TypeOK, Stage
<1>2. CallerInv /\ SlotIsCurrent /\ SlotUnique /\ GuardInv /\ ParkedInv /\ BodyInv
      /\ AnswerForKey /\ StoreInv
  BY SearchCacheAssumption
     DEF Init, CallerInv, SlotIsCurrent, SlotUnique, GuardInv, Leading, ParkedInv, BodyInv, AnswerForKey, StoreInv,
         LeaderFindsNothing
<1> QED BY <1>1, <1>2 DEF SlotInv

LEMMA NextInv == SlotInv /\ [Next]_vars => SlotInv'
<1> SUFFICES ASSUME SlotInv, [Next]_vars PROVE SlotInv'
  OBVIOUS
<1>1. CASE UNCHANGED vars
  BY <1>1 DEF vars, SlotInv, TypeOK, CallerInv, SlotIsCurrent, SlotUnique, GuardInv, Leading,
              ParkedInv, BodyInv, AnswerForKey, StoreInv, LeaderFindsNothing, Enabled
<1>2. ASSUME NEW c \in Callers, Step(c) PROVE SlotInv'
  BY <1>2, JoinInv, ShareAnswerInv, LeadInv, ComputeOkInv, StoreStepInv, ComputeErrInv, ReleaseInv,
         ReturnInv
     DEF Step
<1>3. ASSUME NEW c \in Callers, Cancel(c) PROVE SlotInv'
  BY <1>3, CancelInv
<1>4. ASSUME NEW c \in Callers, NEW k \in Keys, Request(c, k) PROVE SlotInv'
  BY <1>4, RequestInv
<1>5. CASE Tick
  BY <1>5, TickInv
<1> QED BY <1>1, <1>2, <1>3, <1>4, <1>5 DEF Next

----------------------------------------------------------------------------
(* The theorems.                                                           *)

\* Type correctness and everything the slots guarantee, in every reachable state.
THEOREM SlotsSound == Spec => []SlotInv
<1>1. Init => SlotInv
  BY InitInv
<1>2. SlotInv /\ [Next]_vars => SlotInv'
  BY NextInv
<1> QED BY <1>1, <1>2, PTL DEF Spec

\* Every variable keeps its type.
THEOREM TypeCorrect == Spec => []TypeOK
<1>1. SlotInv => TypeOK
  BY DEF SlotInv
<1> QED BY <1>1, SlotsSound, PTL

\* release_inflight, which removes by key, can only remove its caller's own slot.
THEOREM ReleaseIsSafe == Spec => []SlotIsCurrent
<1>1. SlotInv => SlotIsCurrent
  BY DEF SlotInv
<1> QED BY <1>1, SlotsSound, PTL

\* However many identical requests arrive, fail or are dropped, and with storage
\* enabled or disabled, one search per key runs at a time.
THEOREM OneSearchPerKey == Spec => []SingleFlight
<1>1. SlotInv => SingleFlight
  BY DEF SlotInv, SlotIsCurrent, GuardInv, Leading, SingleFlight
<1> QED BY <1>1, SlotsSound, PTL

\* No search is repeated while its result is stored.
THEOREM NoSearchWhileStored == Spec => []LeaderFindsNothing
<1>1. SlotInv => LeaderFindsNothing
  BY DEF SlotInv, StoreInv
<1> QED BY <1>1, SlotsSound, PTL

\* No request is answered with another search's body.
THEOREM AnswersMatch == Spec => []AnswerForKey
<1>1. SlotInv => AnswerForKey
  BY DEF SlotInv
<1> QED BY <1>1, SlotsSound, PTL

----------------------------------------------------------------------------
(* The store: its capacity and its eviction queue.                         *)

StoreBound == OrderSound /\ CapacityBound

\* An insert leaves at most MaxEntries entries, each of them queued once.
LEMMA InsertBound ==
  ASSUME TypeOK, OrderSound, NEW k \in Keys, NEW b \in Body, NEW t \in Nat, Enabled, Insert(k, b, t)
  PROVE  OrderSound' /\ CapacityBound'
<1> DEFINE kept == DOMAIN Purged(t) \ Popped(Evictions(t))
           rest == Unpopped(t)
           left == Without(rest, k)
<1>1. kept \subseteq DOMAIN entries /\ kept \subseteq Keys /\ k \in Keys
  BY DEF Purged, Restrict, TypeOK
<1>2. DOMAIN entries' = kept \union {k} /\ order' = Append(left, k)
  BY DEF Insert, WithEntry
<1>3. /\ order \in Seq(Keys) /\ Evictions(t) \in 0 .. Len(order)
      /\ Cardinality(kept) < MaxEntries \/ Evictions(t) = Len(order)
  BY EvictionsFit DEF TypeOK
<1>4. IsFiniteSet(kept) /\ Cardinality(kept) \in Nat
  BY <1>1, SearchCacheAssumption, FS_Subset, FS_CardinalityType
<1> HIDE DEF kept
<1>5. Cardinality(kept) < MaxEntries
  <2>1. CASE Evictions(t) = Len(order)
    <3>1. kept = {}
      BY <1>1, <2>1 DEF OrderSound, kept
    <3> QED BY <3>1, FS_EmptySet, SearchCacheAssumption DEF Enabled
  <2> QED BY <1>3, <2>1
<1>6. CapacityBound'
  <2>1. Cardinality(kept \union {k}) <= Cardinality(kept) + 1
    <3>1. Cardinality(kept \union {k}) =
            IF k \in kept THEN Cardinality(kept) ELSE Cardinality(kept) + 1
      BY <1>4, FS_AddElement
    <3> QED BY <1>4, <3>1
  <2>2. Cardinality(kept \union {k}) \in Nat
    BY <1>4, FS_AddElement, FS_CardinalityType
  <2>3. Cardinality(kept \union {k}) <= MaxEntries
    BY <1>4, <1>5, <2>1, <2>2, SearchCacheAssumption
  <2> QED BY <1>2, <2>3 DEF CapacityBound
<1>7. /\ rest \in Seq(Keys) /\ Len(rest) = Len(order) - Evictions(t)
      /\ \A i \in 1 .. Len(rest) : rest[i] = order[Evictions(t) + i]
  BY <1>3 DEF Unpopped
<1> HIDE DEF rest
<1>8. Distinct(rest)
  <2> SUFFICES ASSUME NEW i \in 1 .. Len(rest), NEW j \in 1 .. Len(rest), rest[i] = rest[j]
               PROVE  i = j
    BY DEF Distinct
  <2>1. Evictions(t) + i \in 1 .. Len(order) /\ Evictions(t) + j \in 1 .. Len(order)
    BY <1>3, <1>7
  <2>2. Evictions(t) + i = Evictions(t) + j
    BY <1>7, <2>1 DEF OrderSound
  <2> QED BY <1>3, <2>2
<1>9. /\ left \in Seq(Keys) /\ Distinct(left)
      /\ \A i \in 1 .. Len(left) : left[i] # k
      /\ \A i \in 1 .. Len(rest) : rest[i] # k => \E j \in 1 .. Len(left) : left[j] = rest[i]
  <2>1. left \in Seq(Keys) /\ Distinct(left) /\ \A i \in 1 .. Len(left) : left[i] # k
    BY <1>7, <1>8, WithoutKeeps
  <2>2. \A i \in 1 .. Len(rest) : rest[i] # k => \E j \in 1 .. Len(left) : left[j] = rest[i]
    BY <1>7, WithoutKeeps
  <2> QED BY <2>1, <2>2
<1> HIDE DEF left
<1>10. /\ Len(order') = Len(left) + 1 /\ order'[Len(left) + 1] = k
       /\ \A i \in 1 .. Len(left) : order'[i] = left[i]
  BY <1>1, <1>2, <1>9
<1>11. ASSUME NEW j \in kept \union {k}
       PROVE  \E i \in 1 .. Len(order') : order'[i] = j
  <2>1. CASE j = k
    BY <1>9, <1>10, <2>1
  <2>2. CASE j # k
    <3>1. PICK i \in 1 .. Len(order) : order[i] = j
      BY <1>1, <2>2 DEF OrderSound, Popped
    <3>2. i > Evictions(t)
      BY <1>3, <2>2, <3>1 DEF kept, Popped
    <3>3. i - Evictions(t) \in 1 .. Len(rest) /\ rest[i - Evictions(t)] = j
      BY <1>3, <1>7, <3>1, <3>2
    <3>4. PICK m \in 1 .. Len(left) : left[m] = j
      BY <1>9, <2>2, <3>3
    <3> QED BY <1>9, <1>10, <3>4
  <2> QED BY <2>1, <2>2
<1>12. ASSUME NEW i \in 1 .. Len(order'), NEW j \in 1 .. Len(order'), order'[i] = order'[j]
       PROVE  i = j
  BY <1>9, <1>10, <1>12 DEF Distinct
<1>13. OrderSound'
  BY <1>2, <1>11, <1>12 DEF OrderSound, Popped
<1> QED BY <1>6, <1>13

\* Entries only ever drop out, except by an insert.
LEMMA StoreBoundNext == SlotInv /\ StoreBound /\ [Next]_vars => StoreBound'
<1> SUFFICES ASSUME SlotInv, StoreBound, [Next]_vars PROVE StoreBound'
  OBVIOUS
<1> USE DEF SlotInv, StoreBound
<1>1. ASSUME UNCHANGED order, DOMAIN entries' \subseteq DOMAIN entries PROVE StoreBound'
  <2>1. IsFiniteSet(DOMAIN entries)
    BY SearchCacheAssumption, FS_Subset DEF TypeOK
  <2>2. /\ Cardinality(DOMAIN entries') <= Cardinality(DOMAIN entries)
        /\ Cardinality(DOMAIN entries') \in Nat /\ Cardinality(DOMAIN entries) \in Nat
    BY <1>1, <2>1, FS_Subset, FS_CardinalityType
  <2>3. CapacityBound'
    BY <2>2, SearchCacheAssumption DEF CapacityBound
  <2>4. OrderSound'
    BY <1>1 DEF OrderSound, Popped
  <2> QED BY <2>3, <2>4
<1>2. ASSUME NEW c \in Callers, Store(c) PROVE StoreBound'
  <2>1. /\ want[c] \in Keys /\ answer[c] \in Body /\ stamp[c] \in Nat
        /\ Insert(want[c], answer[c], stamp[c])
    BY <1>2 DEF Store, Goto, CallerInv, ParkedInv, TypeOK
  <2>2. CASE Enabled
    BY <2>1, <2>2, InsertBound
  <2>3. CASE ~Enabled
    BY <1>1, <2>1, <2>3 DEF Insert, storeVars
  <2> QED BY <2>2, <2>3
<1>3. ASSUME NEW c \in Callers, NEW k \in Keys, Request(c, k) PROVE StoreBound'
  BY <1>1, <1>3 DEF Request, AfterGet, Restrict
<1>4. ASSUME NEW c \in Callers, Lead(c) PROVE StoreBound'
  BY <1>1, <1>4 DEF Lead, AfterGet, Restrict
<1>5. ASSUME UNCHANGED storeVars PROVE StoreBound'
  BY <1>1, <1>5 DEF storeVars
<1>6. ASSUME NEW c \in Callers, Cancel(c) PROVE UNCHANGED storeVars
  BY <1>6 DEF Cancel, storeVars
<1>7. ASSUME NEW c \in Callers,
             Join(c) \/ ShareAnswer(c) \/ ComputeOk(c) \/ ComputeErr(c) \/ Release(c) \/ Return(c)
      PROVE  UNCHANGED storeVars
  BY <1>7 DEF Join, ShareAnswer, ComputeOk, ComputeErr, Release, Return, storeVars
<1>8. CASE Tick \/ UNCHANGED vars
  BY <1>5, <1>8 DEF Tick, vars, storeVars
<1> QED BY <1>2, <1>3, <1>4, <1>5, <1>6, <1>7, <1>8 DEF Next, Step

\* The store never exceeds its capacity, and each entry is in the eviction
\* queue exactly once, so the eviction loop can always make room.
THEOREM StoreBounded == Spec => [](OrderSound /\ CapacityBound)
<1>1. Init => StoreBound
  BY FS_EmptySet, SearchCacheAssumption DEF Init, StoreBound, OrderSound, CapacityBound, Popped
<1>2. SlotInv /\ StoreBound /\ [Next]_vars => StoreBound'
  BY StoreBoundNext
<1>3. StoreBound => OrderSound /\ CapacityBound
  BY DEF StoreBound
<1> QED BY <1>1, <1>2, <1>3, SlotsSound, PTL DEF Spec

\* Every stored key is in the eviction queue and no key is queued twice, so the loop
\* that pops `order` cannot run dry with the store still full.
THEOREM QueueSound == Spec => []OrderSound
BY StoreBounded, PTL

----------------------------------------------------------------------------
(* The order of eviction.                                                  *)

\* The queue lists the entries by the time they were stored.
QueuedByAge ==
  /\ \A k \in DOMAIN entries : entries[k].stored_at <= now
  /\ \A i, j \in 1 .. Len(order) :
       i < j /\ order[i] \in DOMAIN entries /\ order[j] \in DOMAIN entries =>
         entries[order[i]].stored_at <= entries[order[j]].stored_at

\* What an insert keeps ...
LEMMA InsertKeeps ==
  ASSUME TypeOK, NEW k \in Keys, NEW b \in Body, NEW t \in Nat, Enabled, Insert(k, b, t)
  PROVE  /\ Evictions(t) \in 0 .. Len(order)
         /\ \A j : j \in DOMAIN entries' <=> j = k \/ (j \in DOMAIN Purged(t) /\ j \notin Popped(Evictions(t)))
         /\ entries'[k].stored_at = now
         /\ \A j \in DOMAIN entries' : j # k => entries'[j] = entries[j]
<1> DEFINE kept == DOMAIN Purged(t) \ Popped(Evictions(t))
<1>1. entries' = [j \in kept \union {k} |->
                    IF j = k THEN [body |-> b, expires_at |-> t + Ttl, stored_at |-> now]
                    ELSE entries[j]]
  BY DEF Insert, WithEntry
<1>2. Evictions(t) \in 0 .. Len(order)
  BY EvictionsFit DEF TypeOK
<1> HIDE DEF kept
<1>3. /\ DOMAIN entries' = kept \union {k}
      /\ entries'[k].stored_at = now
      /\ \A j \in DOMAIN entries' : j # k => entries'[j] = entries[j]
  BY <1>1
<1>4. \A j : j \in DOMAIN entries' <=> j = k \/ (j \in DOMAIN Purged(t) /\ j \notin Popped(Evictions(t)))
  BY <1>3 DEF kept
<1> QED BY <1>2, <1>3, <1>4

\* ... and where it leaves its key and the others in the queue.
LEMMA InsertQueue ==
  ASSUME TypeOK, OrderSound, NEW k \in Keys, NEW b \in Body, NEW t \in Nat, Enabled, Insert(k, b, t)
  PROVE  \E n \in Nat :
           /\ Len(order') = n + 1 /\ order'[n + 1] = k
           /\ \A i \in 1 .. n : order'[i] # k
           /\ \A i, j \in 1 .. n : i < j =>
                \E x, y \in 1 .. Len(order) : x < y /\ order[x] = order'[i] /\ order[y] = order'[j]
<1> DEFINE rest == Unpopped(t)
           left == Without(rest, k)
<1>1. order' = Append(left, k)
  BY DEF Insert, WithEntry
<1>2. order \in Seq(Keys) /\ Evictions(t) \in 0 .. Len(order)
  BY EvictionsFit DEF TypeOK
<1>3. /\ rest \in Seq(Keys) /\ Len(rest) = Len(order) - Evictions(t)
      /\ \A i \in 1 .. Len(rest) : rest[i] = order[Evictions(t) + i]
  BY <1>2 DEF Unpopped
<1> HIDE DEF rest
<1>4. \A i \in 1 .. Len(rest) : Evictions(t) + i \in 1 .. Len(order)
  BY <1>2, <1>3
<1>5. Distinct(rest)
  <2> SUFFICES ASSUME NEW i \in 1 .. Len(rest), NEW j \in 1 .. Len(rest), rest[i] = rest[j]
               PROVE  i = j
    BY DEF Distinct
  <2>1. Evictions(t) + i = Evictions(t) + j
    BY <1>3, <1>4 DEF OrderSound
  <2> QED BY <1>2, <2>1
<1>6. left \in Seq(Keys) /\ \A i \in 1 .. Len(left) : left[i] # k
  BY <1>3, <1>5, WithoutKeeps
<1>7. ASSUME NEW i \in 1 .. Len(left), NEW j \in 1 .. Len(left), i < j
      PROVE  \E x, y \in 1 .. Len(order) : x < y /\ order[x] = left[i] /\ order[y] = left[j]
  <2>1. PICK x \in 1 .. Len(rest), y \in 1 .. Len(rest) :
          x < y /\ rest[x] = left[i] /\ rest[y] = left[j]
    <3>1. i \in 1 .. Len(Without(rest, k)) /\ j \in 1 .. Len(Without(rest, k))
      OBVIOUS
    <3> HIDE DEF left
    <3>2. PICK x \in 1 .. Len(rest), y \in 1 .. Len(rest) :
            x < y /\ rest[x] = Without(rest, k)[i] /\ rest[y] = Without(rest, k)[j]
      BY <1>3, <1>7, <3>1, WithoutOrder
    <3> QED BY <3>2 DEF left
  <2>2. Evictions(t) + x < Evictions(t) + y
    BY <1>2, <2>1
  <2> QED BY <1>3, <1>4, <2>1, <2>2
<1> HIDE DEF left
<1> DEFINE n == Len(left)
<1>8. /\ n \in Nat /\ Len(order') = n + 1 /\ order'[n + 1] = k
      /\ \A i \in 1 .. n : order'[i] = left[i]
  BY <1>1, <1>6
<1>9. \A i \in 1 .. n : order'[i] # k
  BY <1>6, <1>8
<1>10. \A i, j \in 1 .. n : i < j =>
         \E x, y \in 1 .. Len(order) : x < y /\ order[x] = order'[i] /\ order[y] = order'[j]
  BY <1>7, <1>8
<1> HIDE DEF n
<1> QED BY <1>8, <1>9, <1>10

LEMMA InsertByAge ==
  ASSUME TypeOK, OrderSound, QueuedByAge, UNCHANGED now,
         NEW k \in Keys, NEW b \in Body, NEW t \in Nat, Enabled, Insert(k, b, t)
  PROVE  QueuedByAge'
<1>1. /\ DOMAIN Purged(t) \subseteq DOMAIN entries /\ now \in Nat
      /\ \A j \in DOMAIN entries : entries[j].stored_at \in Nat
  BY DEF Purged, Restrict, TypeOK
<1>2. \A j \in DOMAIN entries' : j # k => j \in DOMAIN entries /\ entries'[j] = entries[j]
  BY <1>1, InsertKeeps
<1>3. entries'[k].stored_at = now
  BY InsertKeeps
<1>4. \A j \in DOMAIN entries' : entries'[j].stored_at <= now
  BY <1>1, <1>2, <1>3 DEF QueuedByAge
<1>5. PICK n \in Nat :
        /\ Len(order') = n + 1 /\ order'[n + 1] = k
        /\ \A i \in 1 .. n : order'[i] # k
        /\ \A i, j \in 1 .. n : i < j =>
             \E x, y \in 1 .. Len(order) : x < y /\ order[x] = order'[i] /\ order[y] = order'[j]
  BY InsertQueue
<1>6. ASSUME NEW i \in 1 .. Len(order'), NEW j \in 1 .. Len(order'), i < j,
             order'[i] \in DOMAIN entries', order'[j] \in DOMAIN entries'
      PROVE  entries'[order'[i]].stored_at <= entries'[order'[j]].stored_at
  <2>1. CASE j = n + 1
    BY <1>3, <1>4, <1>5, <1>6, <2>1
  <2>2. CASE j # n + 1
    <3>1. i \in 1 .. n /\ j \in 1 .. n
      BY <1>5, <1>6, <2>2
    <3>2. PICK x \in 1 .. Len(order), y \in 1 .. Len(order) :
            x < y /\ order[x] = order'[i] /\ order[y] = order'[j]
      BY <1>5, <1>6, <3>1
    <3>3. order'[i] # k /\ order'[j] # k
      BY <1>5, <3>1
    <3>4. /\ order[x] \in DOMAIN entries /\ entries'[order'[i]] = entries[order[x]]
          /\ order[y] \in DOMAIN entries /\ entries'[order'[j]] = entries[order[y]]
      BY <1>2, <1>6, <3>2, <3>3
    <3> QED BY <3>2, <3>4 DEF QueuedByAge
  <2> QED BY <2>1, <2>2
<1> QED BY <1>4, <1>6 DEF QueuedByAge

\* Which steps touch the store: those that drop an expired entry, and an insert.
LEMMA StoreSteps ==
  ASSUME SlotInv, [Next]_vars
  PROVE  \/ /\ UNCHANGED order /\ now <= now' /\ now' \in Nat
            /\ \E k : entries' \in {entries, AfterGet(k)}
         \/ /\ UNCHANGED now /\ Enabled
            /\ \E k \in Keys, b \in Body, t \in 0 .. now : Insert(k, b, t)
<1> USE DEF SlotInv
<1>1. ASSUME NEW c \in Callers, Store(c)
      PROVE  \/ UNCHANGED <<now, storeVars>>
             \/ UNCHANGED now /\ Enabled /\ \E k \in Keys, b \in Body, t \in 0 .. now : Insert(k, b, t)
  <2>1. /\ want[c] \in Keys /\ answer[c] \in Body /\ stamp[c] \in 0 .. now
        /\ Insert(want[c], answer[c], stamp[c]) /\ UNCHANGED now
    BY <1>1 DEF Store, Goto, CallerInv, ParkedInv, TypeOK
  <2> QED BY <2>1 DEF Insert
<1>2. ASSUME NEW c \in Callers, NEW k \in Keys, Request(c, k)
      PROVE  UNCHANGED <<now, order>> /\ entries' = AfterGet(k)
  BY <1>2 DEF Request
<1>3. ASSUME NEW c \in Callers, Lead(c)
      PROVE  UNCHANGED <<now, order>> /\ entries' = AfterGet(want[c])
  BY <1>3 DEF Lead
<1>4. ASSUME NEW c \in Callers,
             Join(c) \/ ShareAnswer(c) \/ ComputeOk(c) \/ ComputeErr(c) \/ Release(c)
               \/ Return(c) \/ Cancel(c)
      PROVE  UNCHANGED <<now, storeVars>>
  BY <1>4 DEF Join, ShareAnswer, ComputeOk, ComputeErr, Release, Return, Cancel
<1>5. CASE Tick
  BY <1>5 DEF Tick, storeVars, TypeOK
<1>6. CASE UNCHANGED vars
  BY <1>6 DEF vars, TypeOK
<1>7. now \in Nat
  BY DEF TypeOK
<1> QED BY <1>1, <1>2, <1>3, <1>4, <1>5, <1>6, <1>7 DEF Next, Step, storeVars

LEMMA ByAgeNext == SlotInv /\ StoreBound /\ QueuedByAge /\ [Next]_vars => QueuedByAge'
<1> SUFFICES ASSUME SlotInv, StoreBound, QueuedByAge, [Next]_vars PROVE QueuedByAge'
  OBVIOUS
<1> USE DEF SlotInv, StoreBound
<1>1. ASSUME UNCHANGED order, now <= now', now' \in Nat,
             NEW k, entries' \in {entries, AfterGet(k)}
      PROVE  QueuedByAge'
  <2>1. \A j \in DOMAIN entries' : j \in DOMAIN entries /\ entries'[j] = entries[j]
    BY <1>1 DEF AfterGet, Restrict
  <2>2. \A j \in DOMAIN entries : entries[j].stored_at \in Nat
    BY DEF TypeOK
  <2>3. now \in Nat
    BY DEF TypeOK
  <2> QED BY <1>1, <2>1, <2>2, <2>3 DEF QueuedByAge
<1>2. ASSUME UNCHANGED now, Enabled, NEW k \in Keys, NEW b \in Body, NEW t \in Nat, Insert(k, b, t)
      PROVE  QueuedByAge'
  BY <1>2, InsertByAge
<1> QED BY <1>1, <1>2, StoreSteps

\* What an insert drops that was fresh is at the head of the queue.
LEMMA InsertDropsOldest ==
  ASSUME TypeOK, OrderSound, QueuedByAge, NEW k \in Keys, NEW b \in Body, NEW t \in 0 .. now, Enabled, Insert(k, b, t),
         NEW x \in DOMAIN entries, Fresh(x), x \notin DOMAIN entries',
         NEW y \in DOMAIN entries, y \in DOMAIN entries', entries'[y] = entries[y]
  PROVE  entries[x].stored_at <= entries[y].stored_at
<1>1. x \in DOMAIN Purged(t)
  BY DEF Purged, Restrict, Fresh, TypeOK
<1>2. x \in Popped(Evictions(t))
  BY <1>1, InsertKeeps
<1>3. PICK m \in 1 .. Evictions(t) : order[m] = x
  BY <1>2 DEF Popped
<1>4. Evictions(t) \in 0 .. Len(order) /\ Len(order) \in Nat
  BY InsertKeeps DEF TypeOK
<1>5. CASE y = k
  <2>1. entries[y].stored_at = now
    BY <1>5, InsertKeeps
  <2> QED BY <2>1 DEF QueuedByAge
<1>6. CASE y # k
  <2>1. y \notin Popped(Evictions(t))
    BY <1>6, InsertKeeps
  <2>2. PICK n \in 1 .. Len(order) : order[n] = y
    BY DEF OrderSound, Popped
  <2>3. n > Evictions(t)
    BY <1>4, <2>1, <2>2 DEF Popped
  <2>4. m \in 1 .. Len(order) /\ m < n
    BY <1>3, <1>4, <2>2, <2>3
  <2> QED BY <1>3, <2>2, <2>4 DEF QueuedByAge
<1> QED BY <1>5, <1>6

LEMMA EvictsOldest ==
  ASSUME SlotInv, StoreBound, QueuedByAge, [Next]_vars,
         NEW x \in DOMAIN entries, Fresh(x), x \notin DOMAIN entries',
         NEW y \in DOMAIN entries, y \in DOMAIN entries', entries'[y] = entries[y]
  PROVE  entries[x].stored_at <= entries[y].stored_at
<1> USE DEF SlotInv, StoreBound
<1>1. ASSUME NEW k, entries' \in {entries, AfterGet(k)} PROVE FALSE
  BY <1>1 DEF AfterGet, Restrict
<1>2. PICK k \in Keys, b \in Body, t \in 0 .. now : Enabled /\ Insert(k, b, t)
  BY <1>1, StoreSteps
<1> QED BY <1>2, InsertDropsOldest

\* A fresh response is only ever evicted when no response stored before it is kept,
\* in whatever order concurrent inserts read the clock.
THEOREM EvictionIsOldestFirst == Spec => OldestFirst
<1>1. Init => QueuedByAge
  BY DEF Init, QueuedByAge
<1>2. SlotInv /\ StoreBound /\ QueuedByAge /\ [Next]_vars => QueuedByAge'
  BY ByAgeNext
<1>3. Init => StoreBound
  BY FS_EmptySet, SearchCacheAssumption DEF Init, StoreBound, OrderSound, CapacityBound, Popped
<1>4. SlotInv /\ StoreBound /\ [Next]_vars => StoreBound'
  BY StoreBoundNext
<1>5. SlotInv /\ StoreBound /\ QueuedByAge /\ [Next]_vars =>
        [\A j, k \in DOMAIN entries :
           (Fresh(j) /\ j \notin DOMAIN entries' /\ k \in DOMAIN entries' /\ entries'[k] = entries[k])
             => entries[j].stored_at <= entries[k].stored_at]_vars
  BY EvictsOldest
<1> QED BY <1>1, <1>2, <1>3, <1>4, <1>5, SlotsSound, PTL DEF Spec, OldestFirst
----------------------------------------------------------------------------
(* The promise: SearchCache implements SingleFlightStore.                  *)

Bodies == [key : Keys, born : 0 .. MaxTime]

\* Every body in the cache is from the past.
BornInv ==
  /\ now <= MaxTime
  /\ \A k \in DOMAIN entries : entries[k].body.born <= now
  /\ \A s \in Slots : parked[s] # NoBody => parked[s].born <= now

LEMMA BornNext == SlotInv /\ BornInv /\ [Next]_vars => BornInv'
<1> SUFFICES ASSUME SlotInv, BornInv, [Next]_vars PROVE BornInv'
  OBVIOUS
<1> USE SearchCacheAssumption DEF SlotInv
<1>1. ASSUME UNCHANGED now, \E k : entries' \in {entries, AfterGet(k)},
             \A s \in Slots : parked'[s] \in {parked[s], NoBody}
      PROVE  BornInv'
  BY <1>1 DEF BornInv, AfterGet, Restrict
<1>2. ASSUME NEW c \in Callers, ComputeOk(c) PROVE BornInv'
  <2>1. \A s \in Slots : parked'[s] \in {parked[s], [key |-> want[c], born |-> now]}
    BY <1>2 DEF ComputeOk, TypeOK
  <2>2. UNCHANGED <<now, entries>> /\ now \in Nat
    BY <1>2 DEF ComputeOk, storeVars, TypeOK
  <2> QED BY <2>1, <2>2 DEF BornInv
<1>9. ASSUME NEW c \in Callers, Store(c) PROVE BornInv'
  <2>1. /\ want[c] \in Keys /\ answer[c] \in Body /\ stamp[c] \in Nat /\ mine[c] \in Slots
        /\ answer[c] = parked[mine[c]] /\ answer[c] # NoBody
        /\ Insert(want[c], answer[c], stamp[c]) /\ UNCHANGED <<now, parked>>
    BY <1>9 DEF Store, Goto, CallerInv, SlotIsCurrent, ParkedInv, TypeOK
  <2>2. \A j \in DOMAIN entries' :
          \/ j \in DOMAIN entries /\ entries'[j] = entries[j]
          \/ entries'[j].body = answer[c]
    BY <2>1, InsertsOne
  <2>3. \A j \in DOMAIN entries' : entries'[j].body.born <= now
    BY <2>1, <2>2 DEF BornInv
  <2> QED BY <2>1, <2>3 DEF BornInv
<1>3. ASSUME NEW c \in Callers, NEW k \in Keys, Request(c, k) PROVE BornInv'
  BY <1>1, <1>3 DEF Request, slotVars
<1>4. ASSUME NEW c \in Callers, Lead(c) PROVE BornInv'
  BY <1>1, <1>4 DEF Lead
<1>5. ASSUME NEW c \in Callers, Return(c) \/ Cancel(c) PROVE BornInv'
  BY <1>1, <1>5 DEF Return, Cancel, DropArc, storeVars
<1>6. ASSUME NEW c \in Callers, Join(c) \/ ShareAnswer(c) \/ ComputeErr(c) \/ Release(c)
      PROVE  BornInv'
  BY <1>1, <1>6 DEF Join, ShareAnswer, ComputeErr, Release, storeVars, slotVars
<1>7. CASE Tick
  <2>1. /\ \A k \in DOMAIN entries : entries[k].body.born \in Nat
        /\ \A s \in Slots : parked[s] # NoBody => parked[s].born \in Nat
        /\ now \in Nat /\ MaxTime \in Nat
    BY DEF TypeOK, Body
  <2> QED BY <1>7, <2>1 DEF Tick, BornInv, storeVars, slotVars
<1>8. CASE UNCHANGED vars
  BY <1>1, <1>8 DEF vars
<1> QED BY <1>2, <1>3, <1>4, <1>5, <1>6, <1>7, <1>8, <1>9 DEF Next, Step

\* What a key may be answered with, of any store and slots.
Offers(e, i, p, k, b) ==
  \/ k \in DOMAIN e /\ b = e[k].body
  \/ i[k] # NoSlot /\ b = p[i[k]] /\ b # NoBody

LEMMA ServableIs ==
  ASSUME NEW k \in Keys, NEW b
  PROVE  /\ b \in Servable[k] <=> Offers(entries, inflight, parked, k, b)
         /\ b \in Servable'[k] <=> Offers(entries', inflight', parked', k, b)
BY DEF Servable, Offers

LEMMA ServableTyped == SlotInv /\ BornInv => Servable \in [Keys -> SUBSET Bodies]
<1> SUFFICES ASSUME SlotInv, BornInv PROVE Servable \in [Keys -> SUBSET Bodies]
  OBVIOUS
<1>1. ASSUME NEW k \in Keys, NEW b \in Servable[k] PROVE b \in Bodies
  <2>1. b \in Body /\ b.born <= now
    <3>1. ASSUME k \in DOMAIN entries, b = entries[k].body PROVE b \in Body /\ b.born <= now
      BY <3>1 DEF SlotInv, TypeOK, BornInv
    <3>2. ASSUME inflight[k] # NoSlot, b = parked[inflight[k]], b # NoBody
          PROVE  b \in Body /\ b.born <= now
      BY <3>2 DEF SlotInv, TypeOK, BornInv
    <3>3. Offers(entries, inflight, parked, k, b)
      BY ServableIs
    <3> QED BY <3>1, <3>2, <3>3 DEF Offers
  <2> QED BY <2>1, SearchCacheAssumption DEF Body, Bodies, SlotInv, TypeOK, BornInv
<1> QED BY <1>1 DEF Servable

\* The caller that runs a key's search, if there is one.
LEMMA SearchingIs ==
  ASSUME SlotInv
  PROVE  /\ DOMAIN Searching = Keys
         /\ \A k \in Keys :
              /\ \A c \in Callers : Searching[k] = c <=> pc[c] = "computing" /\ want[c] = k
              /\ Searching[k] \in Callers \union {NoCaller}
<1>1. SingleFlight
  BY DEF SlotInv, SlotIsCurrent, GuardInv, Leading, SingleFlight
<1> QED BY <1>1, SearchCacheAssumption DEF Searching, SingleFlight

LEMMA SearchingSame ==
  ASSUME SlotInv, SlotInv',
         \A c \in Callers : (pc[c] = "computing" \/ pc'[c] = "computing") =>
                              pc[c] = pc'[c] /\ want[c] = want'[c]
  PROVE  Searching' = Searching
BY DEF Searching

LEMMA ServableSame ==
  ASSUME \A k \in Keys : \A b : Offers(entries', inflight', parked', k, b)
                                  <=> Offers(entries, inflight, parked, k, b)
  PROVE  Servable' = Servable
<1>1. \A k \in Keys : Servable'[k] = Servable[k]
  BY ServableIs
<1> QED BY <1>1 DEF Servable

LEMMA ServableShrinks ==
  ASSUME SlotInv', BornInv',
         \A k \in Keys : \A b : Offers(entries', inflight', parked', k, b)
                                  => Offers(entries, inflight, parked, k, b)
  PROVE  Promise!Forgets(Promise!Nothing)
<1>1. Servable' \in [Keys -> SUBSET Bodies]
  <2>1. (Servable \in [Keys -> SUBSET Bodies])'
    BY ServableTyped, PTL
  <2> QED BY <2>1 DEF Bodies
<1>2. \A k \in Keys : Servable'[k] \subseteq Servable[k] \union Promise!Nothing[k]
  BY ServableIs DEF Promise!Nothing
<1> QED BY <1>1, <1>2 DEF Promise!Forgets, Bodies

\* The steps of a request, each a step of the store it implements or none.
LEMMA RequestKeeps ==
  ASSUME SlotInv, SlotInv', BornInv', NEW c \in Callers, NEW k \in Keys, Request(c, k)
  PROVE  Promise!Ask(c, k)
<1> USE DEF SlotInv
<1>1. want[c] = NoKey /\ want' = [want EXCEPT ![c] = k] /\ UNCHANGED <<inflight, parked>>
  BY DEF Request, Goto, CallerInv, slotVars
<1>2. Promise!Forgets(Promise!Nothing)
  <2>1. \A j \in DOMAIN entries' : j \in DOMAIN entries /\ entries'[j] = entries[j]
    BY DEF Request, AfterGet, Restrict
  <2> QED BY <1>1, <2>1, ServableShrinks DEF Offers
<1>3. Searching' = Searching
  <2>1. \A d \in Callers : (pc[d] = "computing" \/ pc'[d] = "computing") =>
                             pc[d] = pc'[d] /\ want[d] = want'[d]
    BY DEF Request, Goto, TypeOK
  <2> QED BY <2>1, SearchingSame
<1>4. answer' \in {answer} \union {[answer EXCEPT ![c] = b] : b \in Servable[k]}
  <2>1. Hit(k) => entries[k].body \in Servable[k]
    BY ServableIs DEF Hit, Fresh, Offers
  <2> QED BY <2>1 DEF Request
<1> QED BY <1>1, <1>2, <1>3, <1>4 DEF Promise!Ask

LEMMA JoinKeeps ==
  ASSUME SlotInv, SlotInv', NEW c \in Callers, Join(c)
  PROVE  UNCHANGED Promise!vars
<1> USE DEF SlotInv
<1>1. UNCHANGED <<want, answer, entries, parked>>
  BY DEF Join, storeVars
<1>2. Searching' = Searching
  <2>1. \A d \in Callers : (pc[d] = "computing" \/ pc'[d] = "computing") =>
                             pc[d] = pc'[d] /\ want[d] = want'[d]
    BY DEF Join, Goto, TypeOK
  <2> QED BY <2>1, SearchingSame
<1>3. want[c] \in Keys
  BY DEF Join, Goto, CallerInv, TypeOK
<1>4. CASE UNCHANGED inflight
  BY <1>1, <1>2, <1>4, ServableSame DEF Promise!vars
<1>5. CASE inflight[want[c]] = NoSlot /\
           \E s \in Slots : /\ Holders(s) = {} /\ \A k \in Keys : inflight[k] # s
                            /\ inflight' = [inflight EXCEPT ![want[c]] = s]
  <2>1. PICK s \in Slots : /\ Holders(s) = {} /\ \A k \in Keys : inflight[k] # s
                           /\ inflight' = [inflight EXCEPT ![want[c]] = s]
    BY <1>5
  <2>2. parked[s] = NoBody
    BY <2>1 DEF Holders, BodyInv
  <2>3. \A k \in Keys : inflight'[k] = IF k = want[c] THEN s ELSE inflight[k]
    BY <2>1 DEF TypeOK
  <2>4. \A k \in Keys : \A b : Offers(entries', inflight', parked', k, b)
                                 <=> Offers(entries, inflight, parked, k, b)
    BY <1>1, <1>5, <2>2, <2>3 DEF Offers
  <2> QED BY <1>1, <1>2, <2>4, ServableSame DEF Promise!vars
<1> QED BY <1>4, <1>5 DEF Join

LEMMA ShareAnswerKeeps ==
  ASSUME SlotInv, SlotInv', NEW c \in Callers, ShareAnswer(c)
  PROVE  Promise!Serve(c)
<1> USE DEF SlotInv
<1>1. want[c] \in Keys /\ answer[c] = NoBody /\ mine[c] = inflight[want[c]] /\ mine[c] # NoSlot
  BY DEF ShareAnswer, Goto, CallerInv, SlotIsCurrent, TypeOK
<1>2. Searching' = Searching
  <2>1. \A d \in Callers : (pc[d] = "computing" \/ pc'[d] = "computing") =>
                             pc[d] = pc'[d] /\ want[d] = want'[d]
    BY DEF ShareAnswer, Goto, TypeOK
  <2> QED BY <2>1, SearchingSame
<1>3. Servable' = Servable /\ UNCHANGED want
  BY ServableSame DEF ShareAnswer, storeVars, slotVars
<1>4. \E b \in Servable[want[c]] : answer' = [answer EXCEPT ![c] = b]
  <2>1. parked[mine[c]] # NoBody => parked[mine[c]] \in Servable[want[c]]
    BY <1>1, ServableIs DEF Offers
  <2>2. Hit(want[c]) => entries[want[c]].body \in Servable[want[c]]
    BY <1>1, ServableIs DEF Hit, Fresh, Offers
  <2> QED BY <2>1, <2>2 DEF ShareAnswer
<1> QED BY <1>1, <1>2, <1>3, <1>4, SearchCacheAssumption DEF Promise!Serve, Promise!Unanswered

LEMMA LeadKeeps ==
  ASSUME SlotInv, SlotInv', BornInv', NEW c \in Callers, Lead(c)
  PROVE  Promise!Start(c)
<1> USE DEF SlotInv
<1> DEFINE k == want[c]
<1>1. k \in Keys /\ answer[c] = NoBody /\ mine[c] = inflight[k] /\ mine[c] # NoSlot
      /\ UNCHANGED <<want, answer, inflight, parked>>
  BY DEF Lead, Goto, CallerInv, SlotIsCurrent, TypeOK
<1>2. \A d \in Callers : ~(pc[d] = "computing" /\ want[d] = k)
  BY <1>1, SearchCacheAssumption DEF Lead, Goto, SlotIsCurrent, GuardInv, Leading
<1>3. \A d \in Callers : pc'[d] = IF d = c THEN "computing" ELSE pc[d]
  BY DEF Lead, Goto, TypeOK
<1>4. Searching[k] = NoCaller
  BY <1>1, <1>2, SearchingIs
<1>5. Searching' = [Searching EXCEPT ![k] = c]
  <2>1. DOMAIN Searching = Keys /\ DOMAIN Searching' = Keys
    BY DEF Searching
  <2>2. ASSUME NEW j \in Keys, j # k PROVE Searching'[j] = Searching[j]
    BY <1>1, <1>3, <2>2 DEF Searching
  <2>3. Searching'[k] = c
    BY <1>1, <1>2, <1>3 DEF Searching
  <2> QED BY <2>1, <2>2, <2>3 DEF Searching
<1>6. Promise!Forgets(Promise!Nothing)
  <2>1. \A j \in DOMAIN entries' : j \in DOMAIN entries /\ entries'[j] = entries[j]
    BY DEF Lead, AfterGet, Restrict
  <2> QED BY <1>1, <2>1, ServableShrinks DEF Offers
<1>7. Servable'[k] = {}
  <2>1. k \notin DOMAIN entries'
    BY DEF Lead, AfterGet, Restrict, Hit, StoreInv
  <2>2. parked'[inflight'[k]] = NoBody
    BY <1>1 DEF Lead
  <2> QED BY <1>1, <2>1, <2>2, ServableIs DEF Offers
<1> HIDE DEF k
<1>8. k = want[c] /\ k # NoKey
  BY <1>1, SearchCacheAssumption DEF k
<1> QED BY <1>1, <1>4, <1>5, <1>6, <1>7, <1>8 DEF Promise!Start, Promise!Unanswered

\* The leader's search leaves with it.
LEMMA LeaderLeaves ==
  ASSUME SlotInv, NEW c \in Callers, pc[c] = "computing", pc'[c] # "computing",
         \A d \in Callers : d # c => pc'[d] = pc[d] /\ want'[d] = want[d]
  PROVE  Searching[want[c]] = c /\ Searching' = [Searching EXCEPT ![want[c]] = NoCaller]
<1> DEFINE k == want[c]
<1>1. k \in Keys /\ Searching[k] = c
  BY SearchingIs DEF SlotInv, CallerInv, TypeOK
<1>2. DOMAIN Searching = Keys /\ DOMAIN Searching' = Keys
  BY DEF Searching
<1>3. \A d \in Callers : d # c => ~(pc[d] = "computing" /\ want[d] = k)
  BY <1>1, SearchingIs
<1>4. Searching'[k] = NoCaller
  BY <1>1, <1>3 DEF Searching
<1>5. ASSUME NEW j \in Keys, j # k PROVE Searching'[j] = Searching[j]
  BY <1>5 DEF Searching
<1>6. Searching' = [j \in Keys |-> Searching'[j]]
  BY DEF Searching
<1>7. [Searching EXCEPT ![k] = NoCaller] = [j \in Keys |-> Searching'[j]]
  BY <1>1, <1>2, <1>4, <1>5
<1> QED BY <1>1, <1>6, <1>7

\* Leaving without a search of one's own.
LEMMA OtherLeaves ==
  ASSUME SlotInv, NEW c \in Callers, pc[c] # "computing", pc'[c] # "computing",
         \A d \in Callers : d # c => pc'[d] = pc[d] /\ want'[d] = want[d]
  PROVE  Searching' = Searching /\ \A k \in Keys : Searching[k] # c
<1>1. Searching' = Searching
  BY DEF Searching
<1> QED BY <1>1, SearchingIs

LEMMA ComputeOkKeeps ==
  ASSUME SlotInv, SlotInv', BornInv, BornInv', NEW c \in Callers, ComputeOk(c)
  PROVE  Promise!Finish(c)
<1> USE DEF SlotInv
<1> DEFINE k == want[c]
           b == [key |-> k, born |-> now]
<1>1. /\ k \in Keys /\ answer[c] = NoBody /\ mine[c] \in Slots /\ mine[c] = inflight[k]
      /\ UNCHANGED <<want, inflight, now, entries>>
      /\ answer' = [answer EXCEPT ![c] = b] /\ parked' = [parked EXCEPT ![mine[c]] = b]
  BY DEF ComputeOk, Goto, CallerInv, SlotIsCurrent, TypeOK, storeVars
<1>2. b \in Bodies /\ b \in Body
  BY <1>1, SearchCacheAssumption DEF Bodies, Body, BornInv, TypeOK
<1>3. Searching[k] = c /\ Searching' = [Searching EXCEPT ![k] = NoCaller]
  BY LeaderLeaves DEF ComputeOk, Goto, TypeOK
<1> HIDE DEF b
<1>5. \A s \in Slots : parked'[s] = IF s = mine[c] THEN b ELSE parked[s]
  BY <1>1 DEF TypeOK
<1>6. \A j \in Keys : inflight'[j] = inflight[j]
        /\ (inflight[j] # NoSlot => inflight[j] \in Slots)
        /\ (inflight[j] = mine[c] => j = k)
  BY <1>1, SearchCacheAssumption DEF TypeOK, SlotUnique
<1>7. ASSUME NEW j \in Keys, NEW x \in Servable'[j]
      PROVE  x \in Servable[j] \/ (j = k /\ x = b)
  <2>1. CASE j \in DOMAIN entries' /\ x = entries'[j].body
    BY <1>1, <2>1, ServableIs DEF Offers
  <2>2. CASE inflight'[j] # NoSlot /\ x = parked'[inflight'[j]] /\ x # NoBody
    <3>1. CASE inflight[j] = mine[c]
      BY <1>1, <1>5, <1>6, <2>2, <3>1
    <3>2. CASE inflight[j] # mine[c]
      <4>1. x = parked[inflight[j]] /\ inflight[j] # NoSlot
        BY <1>5, <1>6, <2>2, <3>2
      <4> QED BY <2>2, <4>1, ServableIs DEF Offers
    <3> QED BY <3>1, <3>2
  <2>3. Offers(entries', inflight', parked', j, x)
    BY <1>7, ServableIs
  <2> QED BY <2>1, <2>2, <2>3 DEF Offers
<1>8. Servable' \in [Keys -> SUBSET Bodies]
  <2>1. (Servable \in [Keys -> SUBSET Bodies])'
    BY ServableTyped, PTL
  <2> QED BY <2>1 DEF Bodies
<1>9. Promise!Forgets([Promise!Nothing EXCEPT ![k] = {b}])
  <2> DEFINE new == [Promise!Nothing EXCEPT ![k] = {b}]
  <2>1. \A j \in Keys : new[j] = IF j = k THEN {b} ELSE {}
    BY <1>1 DEF Promise!Nothing
  <2> HIDE DEF new
  <2>2. \A j \in Keys : Servable'[j] \subseteq Servable[j] \union new[j]
    BY <1>7, <2>1
  <2>3. Promise!Forgets(new)
    BY <1>8, <2>2 DEF Promise!Forgets, Bodies
  <2> QED BY <2>3 DEF new
<1>10. k # NoKey
  BY <1>1, SearchCacheAssumption
<1> QED BY <1>1, <1>2, <1>3, <1>9, <1>10 DEF Promise!Finish, Promise!Unanswered, Bodies

\* Inserting a body that the slot already offers, and evicting others, is no more
\* than forgetting.
LEMMA StoreKeeps ==
  ASSUME SlotInv, SlotInv', BornInv', NEW c \in Callers, Store(c)
  PROVE  Promise!Forget
<1> USE DEF SlotInv
<1>1. /\ want[c] \in Keys /\ answer[c] \in Body /\ stamp[c] \in Nat
      /\ mine[c] = inflight[want[c]] /\ mine[c] # NoSlot
      /\ answer[c] = parked[mine[c]] /\ answer[c] # NoBody
      /\ Insert(want[c], answer[c], stamp[c]) /\ UNCHANGED <<want, answer, inflight, parked>>
  BY SearchCacheAssumption DEF Store, Goto, CallerInv, SlotIsCurrent, ParkedInv, TypeOK
<1>2. \A j \in DOMAIN entries' :
        \/ j \in DOMAIN entries /\ entries'[j] = entries[j]
        \/ j = want[c] /\ entries'[j].body = answer[c]
  BY <1>1, InsertsOne
<1>3. Promise!Forgets(Promise!Nothing)
  BY <1>1, <1>2, ServableShrinks DEF Offers
<1>4. Searching' = Searching
  BY OtherLeaves DEF Store, Goto, TypeOK
<1> QED BY <1>1, <1>3, <1>4 DEF Promise!Forget

LEMMA ComputeErrKeeps ==
  ASSUME SlotInv, SlotInv', BornInv', NEW c \in Callers, ComputeErr(c)
  PROVE  Promise!Finish(c)
<1> USE DEF SlotInv
<1>1. /\ want[c] # NoKey /\ answer[c] = NoBody
      /\ UNCHANGED <<want, entries, inflight, parked>>
      /\ answer' = [answer EXCEPT ![c] = Failed]
  BY DEF ComputeErr, Goto, CallerInv, storeVars
<1>2. Searching[want[c]] = c /\ Searching' = [Searching EXCEPT ![want[c]] = NoCaller]
  BY LeaderLeaves DEF ComputeErr, Goto, TypeOK
<1>3. Promise!Forgets(Promise!Nothing)
  BY <1>1, ServableShrinks
<1> QED BY <1>1, <1>2, <1>3 DEF Promise!Finish, Promise!Unanswered

LEMMA ReleaseKeeps ==
  ASSUME SlotInv, SlotInv', BornInv', NEW c \in Callers, Release(c)
  PROVE  Promise!Forget
<1> USE DEF SlotInv
<1>1. UNCHANGED <<want, answer, entries, parked>>
  BY DEF Release, storeVars
<1>2. \A k \in Keys : inflight'[k] \in {inflight[k], NoSlot}
  BY DEF Release, TypeOK
<1>3. Promise!Forgets(Promise!Nothing)
  BY <1>1, <1>2, ServableShrinks DEF Offers
<1>4. Searching' = Searching
  BY OtherLeaves DEF Release, Goto, TypeOK
<1> QED BY <1>1, <1>3, <1>4 DEF Promise!Forget

\* A caller that goes: back with its answer, or dropped.
LEMMA DropForgets ==
  ASSUME SlotInv, SlotInv', BornInv', NEW c \in Callers, DropArc(c), UNCHANGED <<entries, inflight>>
  PROVE  Promise!Forgets(Promise!Nothing)
<1>1. \A s \in Slots : parked'[s] \in {parked[s], NoBody}
  BY DEF DropArc
<1>2. \A k \in Keys : inflight[k] # NoSlot => inflight[k] \in Slots
  BY DEF SlotInv, TypeOK
<1> QED BY <1>1, <1>2, ServableShrinks DEF Offers

LEMMA LeaveKeeps ==
  ASSUME SlotInv, SlotInv', BornInv', NEW c \in Callers, Return(c) \/ Cancel(c)
  PROVE  Promise!Leave(c)
<1> USE DEF SlotInv
<1>1. /\ want[c] \in Keys /\ want' = [want EXCEPT ![c] = NoKey]
      /\ UNCHANGED <<entries, inflight>> /\ DropArc(c)
  BY DEF Return, Cancel, Goto, CallerInv, TypeOK, storeVars
<1>2. answer' = [answer EXCEPT ![c] = NoBody]
  BY DEF Return, Cancel, CallerInv, TypeOK
<1>3. pc'[c] # "computing" /\ \A d \in Callers : d # c => pc'[d] = pc[d] /\ want'[d] = want[d]
  BY DEF Return, Cancel, Goto, TypeOK
<1>4. Searching' = [Searching EXCEPT ![want[c]] = IF @ = c THEN NoCaller ELSE @]
  <2>1. CASE pc[c] = "computing"
    BY <1>3, <2>1, LeaderLeaves
  <2>2. CASE pc[c] # "computing"
    <3>1. Searching' = Searching /\ Searching[want[c]] # c
      BY <1>1, <1>3, <2>2, OtherLeaves
    <3>2. Searching = [Searching EXCEPT ![want[c]] = Searching[want[c]]]
      BY DEF Searching
    <3> QED BY <3>1, <3>2
  <2> QED BY <2>1, <2>2
<1>5. Promise!Forgets(Promise!Nothing)
  BY <1>1, DropForgets
<1>6. want[c] # NoKey
  BY <1>1, SearchCacheAssumption
<1> QED BY <1>1, <1>2, <1>4, <1>5, <1>6 DEF Promise!Leave

LEMMA StepKeeps ==
  ASSUME SlotInv, SlotInv', BornInv, BornInv', [Next]_vars
  PROVE  [Promise!Next]_(Promise!vars)
<1>1. ASSUME NEW c \in Callers, Step(c) PROVE [Promise!Next]_(Promise!vars)
  <2>1. CASE Join(c)
    BY <2>1, JoinKeeps
  <2>2. CASE ShareAnswer(c) \/ Lead(c) \/ ComputeOk(c) \/ ComputeErr(c) \/ Return(c)
    BY <2>2, ShareAnswerKeeps, LeadKeeps, ComputeOkKeeps, ComputeErrKeeps, LeaveKeeps
       DEF Promise!Next
  <2>3. CASE Release(c) \/ Store(c)
    BY <2>3, ReleaseKeeps, StoreKeeps DEF Promise!Next
  <2> QED BY <1>1, <2>1, <2>2, <2>3 DEF Step
<1>2. ASSUME NEW c \in Callers, Cancel(c) PROVE [Promise!Next]_(Promise!vars)
  BY <1>2, LeaveKeeps DEF Promise!Next
<1>3. ASSUME NEW c \in Callers, NEW k \in Keys, Request(c, k) PROVE [Promise!Next]_(Promise!vars)
  BY <1>3, RequestKeeps DEF Promise!Next
<1>4. CASE Tick \/ UNCHANGED vars
  <2>1. UNCHANGED <<want, answer, entries, inflight, parked, pc>>
    BY <1>4 DEF Tick, vars, storeVars, slotVars
  <2>2. Searching' = Searching
    BY <2>1, SearchingSame
  <2>3. Servable' = Servable
    BY <2>1, ServableSame
  <2> QED BY <2>1, <2>2, <2>3 DEF Promise!vars
<1> QED BY <1>1, <1>2, <1>3, <1>4 DEF Next

\* Slots, reference counts, expiry and eviction implement the store that runs one
\* search per key and serves a forgotten body to nobody.
THEOREM PromiseKept == Spec => KeepsPromise
<1>1. Init => BornInv /\ Promise!Init
  BY SearchCacheAssumption DEF Init, BornInv, Promise!Init, Searching, Servable
<1>2. SlotInv /\ BornInv /\ [Next]_vars => BornInv'
  BY BornNext
<1>3. SlotInv /\ SlotInv' /\ BornInv /\ BornInv' /\ [Next]_vars => [Promise!Next]_(Promise!vars)
  BY StepKeeps
<1> QED BY <1>1, <1>2, <1>3, SlotsSound, PTL DEF Spec, KeepsPromise, Promise!Spec
==============================================================================

----------------------------- MODULE Ws2Proofs -----------------------------
(***************************************************************************)
(* Proofs about Ws2 for any versions of the mirror that keep the keys of   *)
(* its schema, any requests and any limits.  First that ORDER BY on keys   *)
(* that tell rows apart has one result, and what is kept of it; then what  *)
(* each statement returns and which statements follow it.  From these, two *)
(* inductive invariants: KnownInv, by which no lookup loses what an answer *)
(* has shown, and GenuineInv, by which no release gets another's parts.    *)
(***************************************************************************)
EXTENDS Ws2, FiniteSetTheorems, WellFoundedInduction, SequenceTheorems, TLAPS

----------------------------------------------------------------------------
(* Rows in the order of their keys.                                        *)

\* The keys of a set put its elements in one order.
Before(key, a, b) == Precedes(key[a], key[b])
Below(S, key, r) == {s \in S : Before(key, s, r)}
Linear(S, key) ==
  /\ IsFiniteSet(S)
  /\ \A a \in S : ~Before(key, a, a)
  /\ \A a, b, c \in S : Before(key, a, b) /\ Before(key, b, c) => Before(key, a, c)
  /\ \A a, b \in S : a = b \/ Before(key, a, b) \/ Before(key, b, a)
\* A sequence that lists a set in the order of its keys.
Lists(f, S, key) ==
  /\ f \in [1..Cardinality(S) -> S]
  /\ \A i, j \in 1..Cardinality(S) : i < j => Before(key, f[i], f[j])

\* Tuples of numbers of one length are in lexicographic order.
LEMMA Lexicographic ==
  ASSUME NEW n \in Nat
  PROVE  /\ \A a \in [1..n -> Int] : ~Precedes(a, a)
         /\ \A a, b, c \in [1..n -> Int] : Precedes(a, b) /\ Precedes(b, c) => Precedes(a, c)
         /\ \A a, b \in [1..n -> Int] : a = b \/ Precedes(a, b) \/ Precedes(b, a)
<1>1. \A a \in [1..n -> Int] : ~Precedes(a, a)
  BY DEF Precedes
<1>2. ASSUME NEW a \in [1..n -> Int], NEW b \in [1..n -> Int], NEW c \in [1..n -> Int],
             Precedes(a, b), Precedes(b, c)
      PROVE  Precedes(a, c)
  <2>1. PICK i \in 1..n : a[i] < b[i] /\ \A k \in 1..(i - 1) : a[k] = b[k]
    BY <1>2 DEF Precedes
  <2>2. PICK j \in 1..n : b[j] < c[j] /\ \A k \in 1..(j - 1) : b[k] = c[k]
    BY <1>2 DEF Precedes
  <2>3. CASE i < j
    <3>1. a[i] < c[i] /\ \A k \in 1..(i - 1) : a[k] = c[k]
      BY <2>1, <2>2, <2>3
    <3>2. QED BY <3>1 DEF Precedes
  <2>4. CASE j < i
    <3>1. a[j] < c[j] /\ \A k \in 1..(j - 1) : a[k] = c[k]
      BY <2>1, <2>2, <2>4
    <3>2. QED BY <3>1 DEF Precedes
  <2>5. CASE i = j
    <3>1. a[i] < c[i] /\ \A k \in 1..(i - 1) : a[k] = c[k]
      BY <2>1, <2>2, <2>5
    <3>2. QED BY <3>1 DEF Precedes
  <2>6. QED BY <2>3, <2>4, <2>5
<1>3. ASSUME NEW a \in [1..n -> Int], NEW b \in [1..n -> Int], a # b
      PROVE  Precedes(a, b) \/ Precedes(b, a)
  <2> DEFINE differ == {i \in 1..n : a[i] # b[i]}
  <2>1. differ # {} /\ differ \subseteq Nat
    BY <1>3
  <2>2. PICK i \in differ : \A j \in differ : ~(<<j, i>> \in OpToRel(<, Nat))
    <3> HIDE DEF differ
    <3>1. QED BY <2>1, NatLessThanWellFounded, WFMin
  <2>3. \A k \in 1..(i - 1) : a[k] = b[k]
    <3> TAKE k \in 1..(i - 1)
    <3>0. i \in 1..n
      BY <2>2
    <3>1. k \in 1..n /\ k \in Nat /\ i \in Nat /\ k < i
      BY <3>0
    <3>2. <<k, i>> \in OpToRel(<, Nat)
      BY <3>1 DEF OpToRel
    <3>3. k \notin differ
      BY <2>2, <3>2
    <3>4. QED BY <3>1, <3>3
  <2>4. i \in 1..n /\ (a[i] < b[i] \/ b[i] < a[i])
    OBVIOUS
  <2>5. QED BY <2>3, <2>4 DEF Precedes
<1>4. QED BY <1>1, <1>2, <1>3

\* Where no two keys are equal, they put a set in one order.
LEMMA KeysOrder ==
  ASSUME NEW S, IsFiniteSet(S), NEW n \in Nat, NEW key, \A r \in S : key[r] \in [1..n -> Int],
         \A r, s \in S : key[r] = key[s] => r = s
  PROVE  Linear(S, key)
BY Lexicographic DEF Linear, Before

\* How many come before an element tells where it is.
LEMMA Ranks ==
  ASSUME NEW S, NEW key, Linear(S, key)
  PROVE  /\ Cardinality(S) \in Nat
         /\ \A r \in S : Cardinality(Below(S, key, r)) \in 0..(Cardinality(S) - 1)
         /\ \A r, s \in S : Before(key, r, s) => Cardinality(Below(S, key, r)) < Cardinality(Below(S, key, s))
         /\ \A r, s \in S : Cardinality(Below(S, key, r)) = Cardinality(Below(S, key, s)) => r = s
<1>1. IsFiniteSet(S) /\ Cardinality(S) \in Nat
  BY FS_CardinalityType DEF Linear
<1>2. ASSUME NEW r \in S
      PROVE  /\ IsFiniteSet(Below(S, key, r)) /\ Cardinality(Below(S, key, r)) \in 0..(Cardinality(S) - 1)
  <2>1. Below(S, key, r) \in SUBSET S /\ r \notin Below(S, key, r)
    BY DEF Below, Linear
  <2>2. IsFiniteSet(Below(S, key, r)) /\ Cardinality(Below(S, key, r)) <= Cardinality(S)
        /\ Cardinality(S) # Cardinality(Below(S, key, r))
    BY <1>1, <2>1, FS_Subset
  <2>3. Cardinality(Below(S, key, r)) \in Nat
    BY <2>2, FS_CardinalityType
  <2>4. QED BY <1>1, <2>2, <2>3
<1>3. ASSUME NEW r \in S, NEW s \in S, Before(key, r, s)
      PROVE  Cardinality(Below(S, key, r)) < Cardinality(Below(S, key, s))
  <2>1. Below(S, key, r) \in SUBSET Below(S, key, s)
    BY <1>3 DEF Below, Linear
  <2>2. r \in Below(S, key, s) /\ r \notin Below(S, key, r)
    BY <1>3 DEF Below, Linear
  <2>3. /\ Cardinality(Below(S, key, r)) <= Cardinality(Below(S, key, s))
        /\ Cardinality(Below(S, key, s)) # Cardinality(Below(S, key, r))
    BY <1>2, <2>1, <2>2, FS_Subset
  <2>4. QED BY <1>2, <2>3
<1>4. ASSUME NEW r \in S, NEW s \in S, Cardinality(Below(S, key, r)) = Cardinality(Below(S, key, s))
      PROVE  r = s
  <2>1. r = s \/ Before(key, r, s) \/ Before(key, s, r)
    BY DEF Linear
  <2>2. QED BY <1>2, <1>3, <1>4, <2>1
<1>5. QED BY <1>1, <1>2, <1>3, <1>4

\* ORDER BY lists each row of a set once, in the order of the rows' keys (queries.rs,
\* wherever the columns it orders by tell the rows apart).
THEOREM Ordered ==
  ASSUME NEW S, NEW key, Linear(S, key)
  PROVE  /\ Lists(OrderBy(S, key), S, key)
         /\ \A r \in S : \E i \in 1..Cardinality(S) : OrderBy(S, key)[i] = r
         /\ \A i \in 1..Cardinality(S) : Cardinality(Below(S, key, OrderBy(S, key)[i])) = i - 1
<1> DEFINE n == Cardinality(S)
           f == OrderBy(S, key)
           rank == [r \in S |-> Cardinality(Below(S, key, r))]
<1>1. n \in Nat /\ IsFiniteSet(S)
  BY Ranks DEF Linear
<1>2. rank \in Injection(S, 0..(n - 1))
  BY Ranks DEF Injection, IsInjective
<1>3. rank \in Surjection(S, 0..(n - 1))
  <2> HIDE DEF rank
  <2>1. IsFiniteSet(0..(n - 1)) /\ Cardinality(0..(n - 1)) = n
    BY <1>1, FS_Interval
  <2>2. QED BY <1>2, <2>1, FS_Injection
<1>4. \A i \in 1..n : \E r \in S : Cardinality(Below(S, key, r)) = i - 1
  <2> TAKE i \in 1..n
  <2>1. i - 1 \in 0..(n - 1)
    BY <1>1
  <2>2. PICK r \in S : rank[r] = i - 1
    BY <1>3, <2>1 DEF Surjection
  <2>3. QED BY <2>2
<1>5. f = [i \in 1..n |-> CHOOSE r \in S : Cardinality(Below(S, key, r)) = i - 1]
  BY DEF OrderBy, Below, Before
<1>6. \A i \in 1..n : f[i] \in S /\ Cardinality(Below(S, key, f[i])) = i - 1
  <2> HIDE DEF f, n
  <2> QED BY <1>4, <1>5
<1>7. f \in [1..n -> S]
  <2> HIDE DEF f
  <2> QED BY <1>5, <1>6
<1>8. ASSUME NEW i \in 1..n, NEW j \in 1..n, i < j PROVE Before(key, f[i], f[j])
  <2> HIDE DEF f
  <2>1. /\ f[i] \in S /\ Cardinality(Below(S, key, f[i])) = i - 1
        /\ f[j] \in S /\ Cardinality(Below(S, key, f[j])) = j - 1
    BY <1>6
  <2>2. f[i] = f[j] \/ Before(key, f[i], f[j]) \/ Before(key, f[j], f[i])
    BY <2>1 DEF Linear
  <2>3. Before(key, f[j], f[i]) => j - 1 < i - 1
    BY <2>1, Ranks
  <2>4. QED BY <1>1, <1>8, <2>1, <2>2, <2>3
<1>9. ASSUME NEW r \in S PROVE \E i \in 1..n : f[i] = r
  <2> DEFINE i == Cardinality(Below(S, key, r)) + 1
  <2>1. i \in 1..n /\ Cardinality(Below(S, key, r)) = i - 1
    BY <1>1, Ranks
  <2> HIDE DEF i, f, n
  <2>2. f[i] \in S /\ Cardinality(Below(S, key, f[i])) = i - 1
    BY <1>6, <2>1
  <2>3. f[i] = r
    BY <2>1, <2>2, Ranks
  <2>4. QED BY <2>1, <2>3
<1> HIDE DEF f, n
<1>10. Lists(f, S, key)
  BY <1>7, <1>8 DEF Lists, n
<1>11. QED BY <1>6, <1>9, <1>10 DEF f, n

\* A sequence that lists a set in order is the only one.
LEMMA OneOrder ==
  ASSUME NEW S, NEW key, Linear(S, key), NEW g, Lists(g, S, key)
  PROVE  g = OrderBy(S, key)
<1> DEFINE n == Cardinality(S)
<1>1. n \in Nat /\ IsFiniteSet(S) /\ g \in [1..n -> S]
  BY Ranks DEF Linear, Lists
<1>2. \A i, j \in 1..n : i < j => Before(key, g[i], g[j])
  BY DEF Lists
<1>3. \A i, j \in 1..n : Before(key, g[i], g[j]) => i < j
  <2> TAKE i, j \in 1..n
  <2>1. g[i] \in S /\ g[j] \in S
    BY <1>1
  <2>2. i = j => ~Before(key, g[i], g[j])
    BY <2>1 DEF Linear
  <2>3. j < i => ~Before(key, g[i], g[j])
    BY <1>2, <2>1 DEF Linear
  <2> HIDE DEF n
  <2>4. QED BY <1>1, <2>2, <2>3
<1>4. \A i, j \in 1..n : g[i] = g[j] => i = j
  <2> TAKE i, j \in 1..n
  <2>1. g[i] \in S /\ g[j] \in S
    BY <1>1
  <2>2. i < j \/ j < i \/ i = j
    BY <1>1
  <2>3. QED BY <1>2, <2>1, <2>2 DEF Linear
<1>5. g \in Surjection(1..n, S)
  <2>1. IsFiniteSet(1..n) /\ Cardinality(1..n) = n
    BY <1>1, FS_Interval
  <2>2. g \in Injection(1..n, S)
    BY <1>1, <1>4 DEF Injection, IsInjective
  <2>3. QED BY <1>1, <2>1, <2>2, FS_Injection
<1>6. ASSUME NEW i \in 1..n PROVE Cardinality(Below(S, key, g[i])) = i - 1
  <2> DEFINE h == [j \in 1..(i - 1) |-> g[j]]
             B == Below(S, key, g[i])
  <2>1. \A j \in 1..(i - 1) : j \in 1..n /\ g[j] \in B
    BY <1>1, <1>2 DEF Below
  <2>2. \A s \in B : \E j \in 1..(i - 1) : g[j] = s
    <3> TAKE s \in B
    <3>1. s \in S /\ Before(key, s, g[i])
      BY DEF Below
    <3>2. PICK j \in 1..n : g[j] = s
      BY <1>5, <3>1 DEF Surjection
    <3>3. j < i
      BY <1>3, <3>1, <3>2
    <3>4. QED BY <1>1, <3>2, <3>3
  <2> HIDE DEF B
  <2>3. h \in Surjection(1..(i - 1), B) /\ h \in Injection(1..(i - 1), B)
    BY <1>4, <2>1, <2>2 DEF Surjection, Injection, IsInjective
  <2> HIDE DEF h, n
  <2>4. i - 1 \in Nat /\ IsFiniteSet(1..(i - 1)) /\ Cardinality(1..(i - 1)) = i - 1
    BY <1>1, FS_Interval
  <2>5. Cardinality(B) = Cardinality(1..(i - 1))
    BY <2>3, <2>4, FS_Surjection
  <2>6. QED BY <2>4, <2>5 DEF B
<1>7. ASSUME NEW i \in 1..n PROVE g[i] = OrderBy(S, key)[i]
  <2> DEFINE f == OrderBy(S, key)
  <2>1. f[i] \in S /\ Cardinality(Below(S, key, f[i])) = i - 1
    <3>1. f \in [1..n -> S]
      BY Ordered DEF Lists
    <3>2. Cardinality(Below(S, key, f[i])) = i - 1
      BY Ordered
    <3> HIDE DEF f, n
    <3>3. QED BY <3>1, <3>2
  <2> HIDE DEF f
  <2>2. g[i] \in S /\ Cardinality(Below(S, key, g[i])) = Cardinality(Below(S, key, f[i]))
    BY <1>1, <1>6, <2>1
  <2>3. g[i] = f[i]
    BY <2>1, <2>2, Ranks
  <2>4. QED BY <2>3 DEF f
<1>8. OrderBy(S, key) \in [1..n -> S]
  BY Ordered DEF Lists
<1>9. QED
  <2> HIDE DEF n
  <2> QED BY <1>1, <1>7, <1>8

\* The order of a set's keys is all that matters of them.
LEMMA SameOrder ==
  ASSUME NEW S, NEW key, NEW other, Linear(S, key),
         \A a, b \in S : Before(key, a, b) <=> Before(other, a, b)
  PROVE  Linear(S, other) /\ OrderBy(S, key) = OrderBy(S, other)
<1>1. Linear(S, other)
  BY DEF Linear
<1>2. Lists(OrderBy(S, key), S, other)
  <2> DEFINE f == OrderBy(S, key)
  <2>1. Lists(f, S, key)
    BY Ordered
  <2> HIDE DEF f
  <2>2. f \in [1..Cardinality(S) -> S]
    BY <2>1 DEF Lists
  <2>3. ASSUME NEW i \in 1..Cardinality(S), NEW j \in 1..Cardinality(S), i < j
        PROVE  Before(other, f[i], f[j])
    <3>1. f[i] \in S /\ f[j] \in S /\ Before(key, f[i], f[j])
      BY <2>1, <2>2, <2>3 DEF Lists
    <3>2. QED BY <3>1
  <2>4. Lists(f, S, other)
    BY <2>2, <2>3 DEF Lists
  <2>5. QED BY <2>4 DEF f
<1>3. QED BY <1>1, <1>2, OneOrder

\* Places are in order.
LEMMA Places ==
  ASSUME NEW n \in Nat, NEW kept \in SUBSET (1..n)
  PROVE  LET key == [i \in kept |-> <<i>>]
         IN  Linear(kept, key) /\ \A i, j \in kept : Before(key, i, j) <=> i < j
<1> DEFINE key == [i \in kept |-> <<i>>]
<1>1. IsFiniteSet(kept)
  <2>1. IsFiniteSet(1..n)
    BY FS_Interval
  <2>2. QED BY <2>1, FS_Subset
<1>2. \A i \in kept : key[i] \in [1..1 -> Int] /\ key[i][1] = i /\ DOMAIN key[i] = 1..1
  OBVIOUS
<1>3. \A i, j \in kept : key[i] = key[j] => i = j
  BY <1>2
<1>4. ASSUME NEW i \in kept, NEW j \in kept PROVE Before(key, i, j) <=> i < j
  <2> DEFINE a == key[i]
             b == key[j]
  <2>1. DOMAIN a = {1} /\ a[1] = i /\ b[1] = j
    OBVIOUS
  <2> HIDE DEF a, b
  <2>2. Precedes(a, b) <=> i < j
    BY <2>1 DEF Precedes
  <2>3. QED BY <2>2 DEF a, b, Before
<1> HIDE DEF key
<1>5. Linear(kept, key)
  <2>1. \A i \in kept : key[i] \in [1..1 -> Int]
    BY <1>2
  <2>2. QED BY <1>1, <2>1, <1>3, KeysOrder
<1>6. QED BY <1>4, <1>5 DEF key

\* What is kept of rows in order is what is kept of their set, in order.
Kept(rows, kept) ==
  LET places == OrderBy(kept, [i \in kept |-> <<i>>])
  IN  [n \in 1..Cardinality(kept) |-> rows[places[n]]]

\* The rows of an ordered list that are in a part of its set are that part, in the same order.
LEMMA KeptOrder ==
  ASSUME NEW S, NEW key, Linear(S, key), NEW T \in SUBSET S, NEW rows, rows = OrderBy(S, key),
         NEW kept, kept = {i \in 1..Cardinality(S) : rows[i] \in T}
  PROVE  Kept(rows, kept) = OrderBy(T, key)
<1> DEFINE n == Cardinality(S)
           pkey == [i \in kept |-> <<i>>]
           places == OrderBy(kept, pkey)
           m == Cardinality(kept)
           g == [k \in 1..m |-> rows[places[k]]]
<1>1. n \in Nat /\ IsFiniteSet(S) /\ IsFiniteSet(T) /\ rows \in [1..n -> S]
  BY Ranks, Ordered, FS_Subset DEF Linear, Lists
<1>2. Linear(T, key)
  BY <1>1 DEF Linear
<1>3. Linear(kept, pkey) /\ \A i, j \in kept : Before(pkey, i, j) <=> i < j
  BY <1>1, Places
<1>4. /\ places \in [1..m -> kept] /\ \A i, j \in 1..m : i < j => Before(pkey, places[i], places[j])
  <2> HIDE DEF pkey
  <2> QED BY <1>3, Ordered DEF Lists
<1>5. Cardinality(T) = m /\ m \in Nat
  <2> DEFINE h == [i \in kept |-> rows[i]]
  <2>1. IsFiniteSet(kept) /\ m \in Nat
    BY <1>3, FS_CardinalityType DEF Linear
  <2>2. \A i, j \in 1..n : rows[i] = rows[j] => i = j
    <3> TAKE i, j \in 1..n
    <3>1. i < j => Before(key, rows[i], rows[j])
      BY Ordered DEF Lists
    <3>2. j < i => Before(key, rows[j], rows[i])
      BY Ordered DEF Lists
    <3>3. rows[i] \in S /\ rows[j] \in S
      BY <1>1
    <3>4. QED BY <1>1, <3>1, <3>2, <3>3 DEF Linear
  <2>3. \A r \in T : \E i \in kept : rows[i] = r
    BY Ordered
  <2>4. h \in Surjection(kept, T) /\ h \in Injection(kept, T)
    BY <2>2, <2>3 DEF Surjection, Injection, IsInjective
  <2> HIDE DEF h
  <2>5. Cardinality(T) = Cardinality(kept)
    BY <2>1, <2>4, FS_Surjection
  <2>6. QED BY <2>1, <2>5
<1>6. Lists(g, T, key)
  <2>1. ASSUME NEW i \in 1..m PROVE places[i] \in 1..n /\ rows[places[i]] \in T
    <3> HIDE DEF places, m
    <3>1. places[i] \in kept
      BY <1>4
    <3>2. QED BY <3>1
  <2>2. g \in [1..m -> T]
    BY <2>1
  <2>3. ASSUME NEW i \in 1..m, NEW j \in 1..m, i < j PROVE Before(key, g[i], g[j])
    <3> HIDE DEF places, m, pkey
    <3>1. places[i] \in kept /\ places[j] \in kept /\ Before(pkey, places[i], places[j])
      BY <1>4, <2>3
    <3>2. places[i] < places[j]
      BY <1>3, <3>1
    <3>3. Before(key, rows[places[i]], rows[places[j]])
      <4> DEFINE a == places[i]
                 b == places[j]
      <4>1. a \in 1..n /\ b \in 1..n /\ a < b
        BY <3>1, <3>2
      <4> HIDE DEF a, b, n
      <4>2. Before(key, rows[a], rows[b])
        BY <4>1, Ordered DEF Lists, n
      <4>3. QED BY <4>2 DEF a, b
    <3>4. QED BY <3>3
  <2> HIDE DEF g, m
  <2>4. QED BY <1>5, <2>2, <2>3 DEF Lists
<1>7. g = OrderBy(T, key)
  <2> HIDE DEF g
  <2> QED BY <1>2, <1>6, OneOrder
<1>8. QED BY <1>7 DEF Kept

\* The rows of a set in some order.
LEMMA Listed ==
  ASSUME NEW S, IsFiniteSet(S)
  PROVE  /\ SetToSeq(S) \in [1..Cardinality(S) -> S] /\ Cardinality(S) \in Nat
         /\ \A r \in S : \E i \in 1..Cardinality(S) : SetToSeq(S)[i] = r
         /\ ToSet(SetToSeq(S)) = S
<1>1. PICK f : f \in Bijection(1..Cardinality(S), S)
  BY FS_CardinalityType DEF ExistsBijection
<1>2. f \in [1..Cardinality(S) -> S] /\ IsInjective(f)
  BY <1>1 DEF Bijection, Injection
<1>3. SetToSeq(S) \in [1..Cardinality(S) -> S] /\ IsInjective(SetToSeq(S))
  BY <1>2 DEF SetToSeq
<1>4. Cardinality(S) \in Nat
  BY FS_CardinalityType
<1>5. SetToSeq(S) \in Surjection(1..Cardinality(S), S)
  <2> DEFINE g == SetToSeq(S)
  <2>1. g \in Injection(1..Cardinality(S), S)
    BY <1>3 DEF Injection
  <2>2. IsFiniteSet(1..Cardinality(S)) /\ Cardinality(1..Cardinality(S)) = Cardinality(S)
    BY <1>4, FS_Interval
  <2> HIDE DEF g
  <2>3. g \in Surjection(1..Cardinality(S), S)
    BY <2>1, <2>2, FS_Injection
  <2>4. QED BY <2>3 DEF g
<1>6. \A r \in S : \E i \in 1..Cardinality(S) : SetToSeq(S)[i] = r
  BY <1>5 DEF Surjection
<1>7. QED BY <1>3, <1>4, <1>6 DEF ToSet

----------------------------------------------------------------------------
(* Lists of rows and of statements.                                        *)

IsList(f) == f \in Seq(ToSet(f))
Gids(S) == {r.gid : r \in S}

\* A function over 1..n is a list.
LEMMA ListOf ==
  ASSUME NEW S, NEW n \in Nat, NEW f \in [1..n -> S]
  PROVE  IsList(f) /\ Len(f) = n /\ DOMAIN f = 1..n /\ ToSet(f) \subseteq S
<1>1. DOMAIN f = 1..n /\ ToSet(f) \subseteq S
  BY DEF ToSet
<1>2. f \in [1..n -> ToSet(f)]
  BY DEF ToSet
<1>3. f \in Seq(ToSet(f)) /\ Len(f) = n
  BY <1>2
<1>4. QED BY <1>1, <1>3 DEF IsList

\* A list is a function over its places.
LEMMA ListFacts ==
  ASSUME NEW f, IsList(f)
  PROVE  /\ Len(f) \in Nat /\ DOMAIN f = 1..Len(f) /\ f \in [1..Len(f) -> ToSet(f)]
         /\ f # <<>> => 1 \in DOMAIN f
         /\ f = <<>> => ToSet(f) = {}
<1>1. Len(f) \in Nat /\ DOMAIN f = 1..Len(f) /\ f \in [1..Len(f) -> ToSet(f)]
  BY LenProperties DEF IsList
<1>2. f # <<>> => 1 \in DOMAIN f
  BY <1>1
<1>3. f = <<>> => ToSet(f) = {}
  BY DEF ToSet
<1>4. QED BY <1>1, <1>2, <1>3

\* The list of nothing, and of one thing.
LEMMA Nothing == IsList(<<>>) /\ ToSet(<<>>) = {}
BY DEF IsList, ToSet

LEMMA OneOnly == ASSUME NEW x PROVE IsList(<<x>>) /\ ToSet(<<x>>) = {x}
<1>1. ToSet(<<x>>) = {x}
  BY DEF ToSet
<1>2. QED BY <1>1 DEF IsList

\* One list after another has what either has.
LEMMA Glued ==
  ASSUME NEW f, NEW g, IsList(f), IsList(g)
  PROVE  IsList(f \o g) /\ ToSet(f \o g) = ToSet(f) \union ToSet(g)
<1> DEFINE S == ToSet(f) \union ToSet(g)
<1>1. f \in Seq(S) /\ g \in Seq(S)
  BY DEF IsList
<1>2. /\ f \o g \in Seq(S) /\ Len(f \o g) = Len(f) + Len(g) /\ Len(f) \in Nat /\ Len(g) \in Nat
      /\ \A i \in 1..(Len(f) + Len(g)) : (f \o g)[i] = IF i <= Len(f) THEN f[i] ELSE g[i - Len(f)]
  BY <1>1, ConcatProperties, LenProperties
<1>3. DOMAIN f = 1..Len(f) /\ DOMAIN g = 1..Len(g) /\ DOMAIN (f \o g) = 1..(Len(f) + Len(g))
  BY <1>1, <1>2, LenProperties
<1>4. ASSUME NEW i \in DOMAIN (f \o g) PROVE (f \o g)[i] \in S
  <2>1. i \in 1..Len(f \o g)
    BY <1>2, <1>3
  <2>2. QED BY <1>2, <2>1, ElementOfSeq
<1>5. ASSUME NEW x \in S PROVE \E i \in DOMAIN (f \o g) : (f \o g)[i] = x
  <2>1. CASE x \in ToSet(f)
    <3>1. PICK i \in DOMAIN f : f[i] = x
      BY <2>1 DEF ToSet
    <3>2. i \in DOMAIN (f \o g) /\ (f \o g)[i] = x
      BY <1>2, <1>3, <3>1
    <3>3. QED BY <3>2
  <2>2. CASE x \in ToSet(g)
    <3>1. PICK i \in DOMAIN g : g[i] = x
      BY <2>2 DEF ToSet
    <3>2. Len(f) + i \in 1..(Len(f) + Len(g)) /\ ~(Len(f) + i <= Len(f)) /\ (Len(f) + i) - Len(f) = i
      BY <1>2, <1>3, <3>1
    <3>3. (f \o g)[Len(f) + i] = x
      BY <1>2, <3>1, <3>2
    <3>4. QED BY <1>3, <3>2, <3>3
  <2>3. QED BY <2>1, <2>2
<1>6. ToSet(f \o g) = S
  <2> HIDE DEF S
  <2> QED BY <1>4, <1>5 DEF ToSet
<1>7. QED BY <1>2, <1>6 DEF IsList

\* The first of a list, and the rest.
LEMMA Tailed ==
  ASSUME NEW f, IsList(f), f # <<>>
  PROVE  /\ IsList(Tail(f)) /\ ToSet(Tail(f)) \subseteq ToSet(f)
         /\ Head(f) \in ToSet(f) /\ Head(f) = f[1] /\ 1 \in DOMAIN f
<1>1. /\ Head(f) \in ToSet(f) /\ Tail(f) \in Seq(ToSet(f)) /\ Len(Tail(f)) = Len(f) - 1
      /\ \A i \in 1..Len(Tail(f)) : Tail(f)[i] = f[i + 1]
  BY HeadTailProperties DEF IsList
<1>2. Tail(f) \in [1..Len(Tail(f)) -> ToSet(f)] /\ Len(Tail(f)) \in Nat
  BY <1>1, LenProperties
<1>3. IsList(Tail(f)) /\ ToSet(Tail(f)) \subseteq ToSet(f)
  BY <1>2, ListOf
<1>4. QED BY <1>1, <1>3, ListFacts

\* LIMIT and OFFSET leave out rows and add none.
LEMMA Sliced ==
  ASSUME NEW f, IsList(f), NEW limit \in Nat, NEW offset \in Nat
  PROVE  IsList(Slice(f, limit, offset)) /\ ToSet(Slice(f, limit, offset)) \subseteq ToSet(f)
<1> DEFINE n == Min({offset + limit, Len(f)})
           g == SubSeq(f, offset + 1, n)
<1>1. Len(f) \in Nat /\ DOMAIN f = 1..Len(f) /\ f \in [1..Len(f) -> ToSet(f)]
  BY ListFacts
<1>2. n \in Nat /\ n <= Len(f)
  <2> DEFINE a == offset + limit
             b == Len(f)
  <2>1. a \in Nat /\ b \in Nat
    BY <1>1
  <2> HIDE DEF a, b
  <2>2. \E x \in {a, b} : \A y \in {a, b} : x <= y
    BY <2>1
  <2>3. Min({a, b}) \in {a, b} /\ \A y \in {a, b} : Min({a, b}) <= y
    BY <2>2 DEF Min
  <2>4. QED BY <2>1, <2>3 DEF a, b
<1> HIDE DEF n
<1>3. \A i \in (offset + 1)..n : f[i] \in ToSet(f)
  BY <1>1, <1>2
<1>4. g \in Seq(ToSet(f))
  BY <1>2, <1>3, SubSeqProperties
<1>5. IsList(g) /\ ToSet(g) \subseteq ToSet(f)
  <2> HIDE DEF g
  <2>1. g \in [1..Len(g) -> ToSet(f)] /\ Len(g) \in Nat
    BY <1>4, LenProperties
  <2>2. QED BY <2>1, ListOf
<1>6. QED BY <1>5 DEF Slice, n

\* The rows of a page are those it is cut from, with the total.
LEMMA CountedRows ==
  ASSUME NEW f, IsList(f), NEW limit \in Nat, NEW offset \in Nat
  PROVE  /\ IsList(Counted(f, limit, offset))
         /\ \A r \in ToSet(Counted(f, limit, offset)) : \E y \in ToSet(f) : \E n : r = With(y, "total", n)
<1> DEFINE page == Slice(f, limit, offset)
           g == Counted(f, limit, offset)
<1>1. IsList(page) /\ ToSet(page) \subseteq ToSet(f)
  BY Sliced
<1>2. Len(page) \in Nat /\ DOMAIN page = 1..Len(page)
  BY <1>1, ListFacts
<1>3. g = [i \in DOMAIN page |-> With(page[i], "total", Len(f))]
  BY DEF Counted
<1> HIDE DEF page, g
<1>4. DOMAIN g = 1..Len(page) /\ g \in [1..Len(page) -> ToSet(g)]
  BY <1>2, <1>3 DEF ToSet
<1>5. IsList(g)
  BY <1>2, <1>4, ListOf
<1>6. ASSUME NEW r \in ToSet(g) PROVE \E y \in ToSet(f) : \E n : r = With(y, "total", n)
  <2>1. PICK i \in DOMAIN page : r = With(page[i], "total", Len(f))
    BY <1>3 DEF ToSet
  <2>2. page[i] \in ToSet(f)
    BY <1>1 DEF ToSet
  <2>3. QED BY <2>1, <2>2
<1>7. QED BY <1>5, <1>6 DEF g

\* A page shows gids of the rows it is of.
LEMMA CountedGids ==
  ASSUME NEW f, IsList(f), NEW limit \in Nat, NEW offset \in Nat,
         \A r \in ToSet(f) : "gid" \in DOMAIN r
  PROVE  Gids(ToSet(Counted(f, limit, offset))) \subseteq Gids(ToSet(f))
<1>1. ASSUME NEW r \in ToSet(Counted(f, limit, offset)) PROVE \E y \in ToSet(f) : r.gid = y.gid
  <2>1. PICK y \in ToSet(f) : \E n : r = With(y, "total", n)
    BY CountedRows
  <2>2. r.gid = y.gid
    BY <2>1 DEF With
  <2>3. QED BY <2>2
<1>2. QED BY <1>1 DEF Gids

\* ORDER BY returns the rows of its table.
LEMMA OrderedList ==
  ASSUME NEW S, NEW key, Linear(S, key)
  PROVE  IsList(OrderBy(S, key)) /\ ToSet(OrderBy(S, key)) = S
<1> DEFINE f == OrderBy(S, key)
<1>1. Cardinality(S) \in Nat /\ f \in [1..Cardinality(S) -> S]
  BY Ranks, Ordered DEF Lists
<1>2. \A r \in S : \E i \in 1..Cardinality(S) : f[i] = r
  BY Ordered
<1> HIDE DEF f
<1>3. IsList(f) /\ ToSet(f) \subseteq S /\ DOMAIN f = 1..Cardinality(S)
  BY <1>1, ListOf
<1>4. S \subseteq ToSet(f)
  BY <1>2, <1>3 DEF ToSet
<1>5. QED BY <1>3, <1>4 DEF f

\* Whatever the keys, ORDER BY returns a list.
LEMMA SomeList ==
  ASSUME NEW S, NEW key, IsFiniteSet(S)
  PROVE  IsList(OrderBy(S, key))
<1> DEFINE f == OrderBy(S, key)
           T == {f[i] : i \in 1..Cardinality(S)}
<1>1. Cardinality(S) \in Nat
  BY FS_CardinalityType
<1>2. f \in [1..Cardinality(S) -> T]
  BY DEF OrderBy
<1> HIDE DEF f, T
<1>3. IsList(f)
  BY <1>1, <1>2, ListOf
<1>4. QED BY <1>3 DEF f

\* So does a statement without an order.
LEMMA SetList ==
  ASSUME NEW S, IsFiniteSet(S)
  PROVE  IsList(SetToSeq(S)) /\ ToSet(SetToSeq(S)) = S /\ (S # {} => SetToSeq(S) # <<>>)
<1>1. SetToSeq(S) \in [1..Cardinality(S) -> S] /\ Cardinality(S) \in Nat /\ ToSet(SetToSeq(S)) = S
  BY Listed
<1>2. IsList(SetToSeq(S))
  BY <1>1, ListOf
<1>3. SetToSeq(S) = <<>> => S = {}
  BY <1>1, Nothing
<1>4. QED BY <1>1, <1>2, <1>3

\* As many rows as there were, or fewer.
LEMMA FiniteImage ==
  ASSUME NEW f, IsFiniteSet(DOMAIN f)
  PROVE  IsFiniteSet({f[x] : x \in DOMAIN f})
<1> DEFINE T == {f[x] : x \in DOMAIN f}
           g == [x \in DOMAIN f |-> f[x]]
<1>1. g \in Surjection(DOMAIN f, T)
  BY DEF Surjection
<1>2. QED BY <1>1, FS_Surjection

\* A finite set of numbers has a greatest.
LEMMA Greatest ==
  ASSUME NEW S \in SUBSET Int, IsFiniteSet(S), S # {}
  PROVE  Max(S) \in S /\ Max(S) \in Int
<1> DEFINE key == [x \in S |-> <<-x>>]
           f == OrderBy(S, key)
<1>1. \A x \in S : key[x] \in [1..1 -> Int] /\ key[x][1] = -x /\ DOMAIN key[x] = {1}
  OBVIOUS
<1>2. \A x, y \in S : key[x] = key[y] => x = y
  <2> HIDE DEF key
  <2> TAKE x, y \in S
  <2>1. key[x][1] = -x /\ key[y][1] = -y /\ x \in Int /\ y \in Int
    BY <1>1
  <2>2. QED BY <2>1
<1>3. \A x, y \in S : Before(key, x, y) <=> -x < -y
  <2> HIDE DEF key
  <2> TAKE x, y \in S
  <2> DEFINE a == key[x]
             b == key[y]
  <2>1. DOMAIN a = {1} /\ a[1] = -x /\ b[1] = -y
    BY <1>1
  <2> HIDE DEF a, b
  <2>2. Precedes(a, b) <=> -x < -y
    BY <2>1 DEF Precedes
  <2>3. QED BY <2>2 DEF Before, a, b
<1> HIDE DEF key
<1>4. Linear(S, key)
  BY <1>1, <1>2, KeysOrder
<1>5. Cardinality(S) \in Nat /\ Cardinality(S) # 0
  BY FS_CardinalityType, FS_EmptySet
<1>6. f[1] \in S /\ \A i \in 1..Cardinality(S) : i > 1 => Before(key, f[1], f[i])
  <2>1. Lists(f, S, key)
    BY <1>4, Ordered
  <2>2. QED BY <1>5, <2>1 DEF Lists
<1>7. \A x \in S : \E i \in 1..Cardinality(S) : f[i] = x
  BY <1>4, Ordered
<1> HIDE DEF f
<1>8. ASSUME NEW x \in S PROVE f[1] >= x
  <2>1. PICK i \in 1..Cardinality(S) : f[i] = x
    BY <1>7
  <2>2. CASE i = 1
    BY <1>6, <2>1, <2>2
  <2>3. CASE i > 1
    <3>1. -f[1] < -x
      BY <1>3, <1>6, <2>1, <2>3
    <3>2. f[1] \in Int /\ x \in Int
      BY <1>6
    <3>3. QED BY <3>1, <3>2
  <2>4. QED BY <2>2, <2>3
<1>9. Max(S) \in S
  BY <1>6, <1>8 DEF Max
<1>10. QED BY <1>9

\* Rows that are told apart by their ids, ranked.
LEMMA RankedList ==
  ASSUME NEW S, IsFiniteSet(S), \A r \in S : r.id \in Int /\ r.rank \in Int,
         \A r, s \in S : r.id = s.id => r = s
  PROVE  IsList(Ranked(S)) /\ ToSet(Ranked(S)) = S
<1> DEFINE key == [r \in S |-> <<-r.rank, r.id>>]
<1>1. \A r \in S : key[r] \in [1..2 -> Int] /\ key[r][2] = r.id
  OBVIOUS
<1>2. \A r, s \in S : key[r] = key[s] => r = s
  <2> HIDE DEF key
  <2> TAKE r, s \in S
  <2>1. key[r][2] = r.id /\ key[s][2] = s.id
    BY <1>1
  <2>2. QED BY <2>1
<1>3. Linear(S, key)
  <2> HIDE DEF key
  <2> QED BY <1>1, <1>2, KeysOrder
<1>4. Ranked(S) = OrderBy(S, key)
  BY DEF Ranked
<1>5. QED BY <1>3, <1>4, OrderedList

\* ORDER BY id.
LEMMA ByIdList ==
  ASSUME NEW S, IsFiniteSet(S), \A r \in S : r.id \in Int,
         \A r, s \in S : r.id = s.id => r = s
  PROVE  IsList(ById(S)) /\ ToSet(ById(S)) = S
<1> DEFINE key == [r \in S |-> <<r.id>>]
<1>1. \A r \in S : key[r] \in [1..1 -> Int] /\ key[r][1] = r.id
  OBVIOUS
<1>2. \A r, s \in S : key[r] = key[s] => r = s
  <2> HIDE DEF key
  <2> TAKE r, s \in S
  <2>1. key[r][1] = r.id /\ key[s][1] = s.id
    BY <1>1
  <2>2. QED BY <2>1
<1>3. Linear(S, key)
  <2> HIDE DEF key
  <2> QED BY <1>1, <1>2, KeysOrder
<1>4. ById(S) = OrderBy(S, key)
  BY DEF ById
<1>5. QED BY <1>3, <1>4, OrderedList

----------------------------------------------------------------------------
(* The statements that answer a page have rows of the table they are of.   *)

\* What the keys of the schema say, column by column.
LEMMA Mirrors ==
  ASSUME NEW d, IsMirror(d)
  PROVE  /\ \A table \in {d.artist, d.alias, d.credit, d.release, d.group, d.recording, d.medium} :
              /\ IsFiniteSet(table) /\ \A r \in table : r.id \in Int
              /\ \A r, s \in table : r.id = s.id => r = s
         /\ \A table \in {d.release, d.group, d.redirect} :
              (\A r \in table : r.gid \in Int) /\ \A r, s \in table : r.gid = s.gid => r = s
         /\ \A r \in d.artist \union d.alias \union d.credit \union d.release \union d.recording : r.sim \in Int
         /\ \A r \in d.artist : r.nameSim \in Int /\ r.sortSim \in Int
         /\ IsFiniteSet(d.creditName) /\ IsFiniteSet(d.track) /\ IsFiniteSet(Dates(d))
         /\ \A n \in d.creditName : n.ac \in Int /\ n.position \in Int
         /\ \A n, m \in d.creditName : n.ac = m.ac /\ n.position = m.position => n = m
         /\ \A t \in d.track : t.gid > 0 /\ t.recording \in Int /\ t.position \in Int
         /\ \A t, u \in d.track : t.medium = u.medium /\ t.position = u.position => t = u
<1>1. ASSUME NEW table \in {d.artist, d.alias, d.credit, d.release, d.group, d.recording, d.medium}
      PROVE  /\ IsFiniteSet(table) /\ \A r \in table : r["id"] \in Int
             /\ \A r, s \in table : r["id"] = s["id"] => r = s
  <2>1. Keyed(table, {"id"})
    BY DEF IsMirror
  <2>2. QED BY <2>1, Zenon DEF Keyed
<1>2. ASSUME NEW table \in {d.release, d.group, d.redirect}
      PROVE  (\A r \in table : r["gid"] \in Int) /\ \A r, s \in table : r["gid"] = s["gid"] => r = s
  <2>1. Keyed(table, {"gid"})
    BY DEF IsMirror
  <2>2. QED BY <2>1, Zenon DEF Keyed
<1>3. /\ IsFiniteSet(d.creditName) /\ \A n \in d.creditName : n["ac"] \in Int /\ n["position"] \in Int
      /\ \A n, m \in d.creditName : n["ac"] = m["ac"] /\ n["position"] = m["position"] => n = m
  <2>1. Keyed(d.creditName, {"ac", "position"})
    BY DEF IsMirror
  <2>2. QED BY <2>1, Zenon DEF Keyed
<1>4. /\ IsFiniteSet(d.track) /\ \A t \in d.track : t["position"] \in Int
      /\ \A t, u \in d.track : t["medium"] = u["medium"] /\ t["position"] = u["position"] => t = u
  <2>1. Keyed(d.track, {"medium", "position"})
    BY DEF IsMirror
  <2>2. QED BY <2>1, Zenon DEF Keyed
<1>5. QED BY <1>1, <1>2, <1>3, <1>4 DEF IsMirror

\* A table of rows with ids of their own, and one row of a page for each row found.
Identified(table) ==
  /\ IsFiniteSet(table) /\ \A r \in table : r.id \in Int
  /\ \A r, s \in table : r.id = s.id => r = s
Drawn(row, table) ==
  /\ DOMAIN row \subseteq table
  /\ \A r \in DOMAIN row : /\ row[r].id = r.id /\ row[r].gid = r.gid /\ row[r].rank \in Int
                          /\ "gid" \in DOMAIN row[r]
Image(row) == {row[r] : r \in DOMAIN row}

\* The page of a request, of the table of what it is about.
IsPage(rows, table) == IsList(rows) /\ Gids(ToSet(rows)) \subseteq Gids(table)

\* Rows that are those of releases.
IsRelease(r, x) == r.id = x.id /\ r.gid = x.gid /\ r.ac = x.ac /\ r.group = x.group
AreReleases(rows, d) == \A r \in ToSet(rows) : \E x \in d.release : IsRelease(r, x)

\* COUNT(*) OVER () leaves a release the one it is.
LEMMA WithTotal ==
  ASSUME NEW d, NEW x \in d.release, NEW rank, NEW n
  PROVE  \E y \in d.release : IsRelease(With(ReleaseRow(d, x, rank), "total", n), y)
BY DEF IsRelease, With, ReleaseRow

\* A ranked page of rows drawn from a table is a page of that table.
LEMMA PageOf ==
  ASSUME NEW table, Identified(table), NEW row, Drawn(row, table),
         NEW limit \in Nat, NEW offset \in Nat
  PROVE  /\ IsPage(Counted(Ranked(Image(row)), limit, offset), table)
         /\ \A r \in ToSet(Counted(Ranked(Image(row)), limit, offset)) :
              \E x \in DOMAIN row : \E n : r = With(row[x], "total", n)
<1> DEFINE S == Image(row)
<1>1. IsFiniteSet(S)
  BY FS_Subset, FiniteImage DEF Identified, Drawn, Image
<1>2. IsList(Ranked(S)) /\ ToSet(Ranked(S)) = S
  <2>1. (\A r \in S : r.id \in Int /\ r.rank \in Int) /\ \A r, s \in S : r.id = s.id => r = s
    BY DEF Identified, Drawn, Image
  <2> HIDE DEF S
  <2>2. QED BY <1>1, <2>1, RankedList
<1>3. (\A r \in S : "gid" \in DOMAIN r) /\ Gids(S) \subseteq Gids(table)
  BY DEF Gids, Drawn, Image
<1>4. QED
  <2> HIDE DEF S
  <2>1. /\ IsList(Counted(Ranked(S), limit, offset))
        /\ Gids(ToSet(Counted(Ranked(S), limit, offset))) \subseteq Gids(ToSet(Ranked(S)))
    BY <1>2, <1>3, CountedGids, CountedRows
  <2>2. \A r \in ToSet(Counted(Ranked(S), limit, offset)) : \E y \in S : \E n : r = With(y, "total", n)
    BY <1>2, CountedRows
  <2>3. QED BY <1>2, <1>3, <2>1, <2>2 DEF S, IsPage, Image

\* The similarity of a credit, the default included, is a number.
LEMMA CreditSimTyped ==
  ASSUME NEW d, IsMirror(d), NEW ac
  PROVE  CreditSim(d, ac) \in Int
<1>1. CASE Having(d.credit, {ac}) = {}
  BY <1>1 DEF CreditSim
<1>2. CASE Having(d.credit, {ac}) # {}
  <2>1. PICK r \in d.credit : r.id = ac
    BY <1>2 DEF Having
  <2>2. TheRow(d.credit, ac) \in d.credit
    BY <2>1 DEF TheRow
  <2>3. TheRow(d.credit, ac).sim \in Int
    BY <2>2, Mirrors
  <2>4. QED BY <1>2, <2>3 DEF CreditSim
<1>3. QED BY <1>1, <1>2

\* The searches for releases and recordings, by title alone or within resolved credits.
LEMMA SearchReleasesPage ==
  ASSUME NEW d, IsMirror(d), NEW q, q.limit \in Nat, q.offset \in Nat, NEW fuzzy
  PROVE  IsPage(SearchReleases(d, q, fuzzy), d.release) /\ AreReleases(SearchReleases(d, q, fuzzy), d)
<1> DEFINE found == {r \in d.release : /\ Matches(r, fuzzy) /\ Filtered(d, r, q)
                                       /\ q.artist # {} => \E c \in Having(d.credit, {r.ac}) : c.like}
           S == {ReleaseRow(d, r, 2 * r.sim + IF q.artist = {} THEN 0 ELSE CreditSim(d, r.ac)) : r \in found}
           row == [r \in found |->
                      ReleaseRow(d, r, 2 * r.sim + IF q.artist = {} THEN 0 ELSE CreditSim(d, r.ac))]
<1>1. SearchReleases(d, q, fuzzy) = Counted(Ranked(S), q.limit, q.offset)
  BY DEF SearchReleases
<1>2. S = Image(row)
  BY DEF Image
<1>3. ASSUME NEW r \in found PROVE (2 * r.sim + IF q.artist = {} THEN 0 ELSE CreditSim(d, r.ac)) \in Int
  <2>1. r.sim \in Int /\ CreditSim(d, r.ac) \in Int
    BY Mirrors, CreditSimTyped
  <2>2. QED BY <2>1
<1>4. Drawn(row, d.release)
  BY <1>3 DEF Drawn, ReleaseRow
<1>5. Identified(d.release)
  BY Mirrors DEF Identified
<1>6. \A x \in DOMAIN row : \A n : \E y \in d.release : IsRelease(With(row[x], "total", n), y)
  BY WithTotal
<1>7. QED
  <2> HIDE DEF row, S, found
  <2> QED BY <1>1, <1>2, <1>4, <1>5, <1>6, PageOf DEF AreReleases

LEMMA SearchReleasesByArtistPage ==
  ASSUME NEW d, IsMirror(d), NEW q, q.limit \in Nat, q.offset \in Nat, NEW credits, NEW fuzzy
  PROVE  /\ IsPage(SearchReleasesByArtist(d, q, credits, fuzzy), d.release)
         /\ AreReleases(SearchReleasesByArtist(d, q, credits, fuzzy), d)
<1> DEFINE found == {r \in d.release : /\ Matches(r, fuzzy) /\ Filtered(d, r, q)
                                       /\ r.ac \in credits /\ Having(d.credit, {r.ac}) # {}}
           S == {ReleaseRow(d, r, 2 * r.sim + CreditSim(d, r.ac)) : r \in found}
           row == [r \in found |-> ReleaseRow(d, r, 2 * r.sim + CreditSim(d, r.ac))]
<1>1. SearchReleasesByArtist(d, q, credits, fuzzy) = Counted(Ranked(S), q.limit, q.offset)
  BY DEF SearchReleasesByArtist
<1>2. S = Image(row)
  BY DEF Image
<1>3. ASSUME NEW r \in found PROVE 2 * r.sim + CreditSim(d, r.ac) \in Int
  <2>1. r.sim \in Int /\ CreditSim(d, r.ac) \in Int
    BY Mirrors, CreditSimTyped
  <2>2. QED BY <2>1
<1>4. Drawn(row, d.release)
  BY <1>3 DEF Drawn, ReleaseRow
<1>5. Identified(d.release)
  BY Mirrors DEF Identified
<1>6. \A x \in DOMAIN row : \A n : \E y \in d.release : IsRelease(With(row[x], "total", n), y)
  BY WithTotal
<1>7. QED
  <2> HIDE DEF row, S, found
  <2> QED BY <1>1, <1>2, <1>4, <1>5, <1>6, PageOf DEF AreReleases

LEMMA SearchRecordingsPage ==
  ASSUME NEW d, IsMirror(d), NEW q, q.limit \in Nat, q.offset \in Nat
  PROVE  IsPage(SearchRecordings(d, q), d.recording)
<1> DEFINE found == {r \in d.recording : /\ r.words
                                         /\ q.artist # {} => \E c \in Having(d.credit, {r.ac}) : c.like}
           S == {RecordingRow(r, 2 * r.sim + IF q.artist = {} THEN 0 ELSE CreditSim(d, r.ac)) : r \in found}
           row == [r \in found |-> RecordingRow(r, 2 * r.sim + IF q.artist = {} THEN 0 ELSE CreditSim(d, r.ac))]
<1>1. SearchRecordings(d, q) = Counted(Ranked(S), q.limit, q.offset)
  BY DEF SearchRecordings
<1>2. S = Image(row)
  BY DEF Image
<1>3. ASSUME NEW r \in found PROVE (2 * r.sim + IF q.artist = {} THEN 0 ELSE CreditSim(d, r.ac)) \in Int
  <2>1. r.sim \in Int /\ CreditSim(d, r.ac) \in Int
    BY Mirrors, CreditSimTyped
  <2>2. QED BY <2>1
<1>4. Drawn(row, d.recording)
  BY <1>3 DEF Drawn, RecordingRow
<1>5. Identified(d.recording)
  BY Mirrors DEF Identified
<1>6. QED
  <2> HIDE DEF row, S, found
  <2> QED BY <1>1, <1>2, <1>4, <1>5, PageOf

LEMMA SearchRecordingsByArtistPage ==
  ASSUME NEW d, IsMirror(d), NEW q, q.limit \in Nat, q.offset \in Nat, NEW credits, NEW fuzzy
  PROVE  IsPage(SearchRecordingsByArtist(d, q, credits, fuzzy), d.recording)
<1> DEFINE found == {r \in d.recording : /\ Matches(r, fuzzy) /\ r.ac \in credits
                                         /\ Having(d.credit, {r.ac}) # {}}
           S == {RecordingRow(r, 2 * r.sim + CreditSim(d, r.ac)) : r \in found}
           row == [r \in found |-> RecordingRow(r, 2 * r.sim + CreditSim(d, r.ac))]
<1>1. SearchRecordingsByArtist(d, q, credits, fuzzy) = Counted(Ranked(S), q.limit, q.offset)
  BY DEF SearchRecordingsByArtist
<1>2. S = Image(row)
  BY DEF Image
<1>3. ASSUME NEW r \in found PROVE 2 * r.sim + CreditSim(d, r.ac) \in Int
  <2>1. r.sim \in Int /\ CreditSim(d, r.ac) \in Int
    BY Mirrors, CreditSimTyped
  <2>2. QED BY <2>1
<1>4. Drawn(row, d.recording)
  BY <1>3 DEF Drawn, RecordingRow
<1>5. Identified(d.recording)
  BY Mirrors DEF Identified
<1>6. QED
  <2> HIDE DEF row, S, found
  <2> QED BY <1>1, <1>2, <1>4, <1>5, PageOf

\* The browse of an artist's releases.
LEMMA BrowseReleasesPage ==
  ASSUME NEW d, IsMirror(d), NEW q, q.limit \in Nat, q.offset \in Nat
  PROVE  IsPage(BrowseReleasesByArtist(d, q), d.release) /\ AreReleases(BrowseReleasesByArtist(d, q), d)
<1> DEFINE found == {r \in d.release : /\ r.ac \in CreditsOf(d, q.gid)
                                       /\ Filtered(d, r, [q EXCEPT !.year = {}])}
           S == {ReleaseRow(d, r, 0) : r \in found}
<1>1. BrowseReleasesByArtist(d, q) = Counted(ById(S), q.limit, q.offset)
  BY DEF BrowseReleasesByArtist
<1>2. IsFiniteSet(S)
  <2> DEFINE row == [r \in found |-> ReleaseRow(d, r, 0)]
  <2>1. S = Image(row) /\ DOMAIN row = found
    BY DEF Image
  <2>2. IsFiniteSet(found)
    BY Mirrors, FS_Subset
  <2> HIDE DEF row, S, found
  <2>3. QED BY <2>1, <2>2, FiniteImage DEF Image
<1>3. /\ \A r \in S : r.id \in Int /\ "gid" \in DOMAIN r
      /\ \A r, s \in S : r.id = s.id => r = s
      /\ Gids(S) \subseteq Gids(d.release)
  BY Mirrors DEF ReleaseRow, Gids
<1>4. \A y \in S : \A n : \E x \in d.release : IsRelease(With(y, "total", n), x)
  BY WithTotal
<1>5. QED
  <2> HIDE DEF S
  <2>1. IsList(ById(S)) /\ ToSet(ById(S)) = S
    BY <1>2, <1>3, ByIdList
  <2>2. /\ IsList(Counted(ById(S), q.limit, q.offset))
        /\ Gids(ToSet(Counted(ById(S), q.limit, q.offset))) \subseteq Gids(S)
    BY <1>3, <2>1, CountedGids, CountedRows
  <2>3. AreReleases(Counted(ById(S), q.limit, q.offset), d)
    BY <1>4, <2>1, CountedRows DEF AreReleases
  <2>4. QED BY <1>1, <1>3, <2>2, <2>3 DEF IsPage

\* The key of a date is four numbers.
LEMMA DateKey ==
  ASSUME NEW e, e.y \union e.m \union e.d \subseteq Int
  PROVE  OrderKey(e) \in [1..4 -> Int]
<1>1. \A column \in SUBSET Int : Component(column) \in Int
  <2> TAKE column \in SUBSET Int
  <2>1. CASE column = {}
    BY <2>1 DEF Component, Missing
  <2>2. CASE column # {}
    <3>1. (CHOOSE x \in column : TRUE) \in column
      BY <2>2
    <3>2. QED BY <2>2, <3>1 DEF Component
  <2>3. QED BY <2>1, <2>2
<1>2. Component(e.y) \in Int /\ Component(e.m) \in Int /\ Component(e.d) \in Int
  BY <1>1
<1>3. (IF e.xw THEN 0 ELSE 1) \in Int
  OBVIOUS
<1>4. QED BY <1>2, <1>3 DEF OrderKey

\* A function over 1..n into S is a sequence of S.
LEMMA IsSequence ==
  ASSUME NEW S, NEW n \in Nat, NEW f \in [1..n -> S]
  PROVE  f \in Seq(S) /\ Len(f) = n
OBVIOUS

\* A date and a gid tell release groups apart.
LEMMA GroupKeys ==
  ASSUME NEW d, IsMirror(d), NEW found \in SUBSET d.group
  PROVE  Linear(found, [g \in found |-> OrderKey(g.first) \o <<g.gid>>])
<1> DEFINE key == [g \in found |-> OrderKey(g.first) \o <<g.gid>>]
<1>1. ASSUME NEW g \in found PROVE key[g] \in [1..5 -> Int] /\ key[g][5] = g.gid
  <2>1. g.gid \in Int /\ OrderKey(g.first) \in [1..4 -> Int]
    <3>1. g.first.y \union g.first.m \union g.first.d \subseteq Int
      BY DEF IsMirror
    <3>2. QED BY <3>1, Mirrors, DateKey
  <2> DEFINE a == OrderKey(g.first)
             b == <<g.gid>>
  <2>2. a \in Seq(Int) /\ Len(a) = 4 /\ b \in Seq(Int) /\ Len(b) = 1 /\ b[1] = g.gid
    <3>1. a \in [1..4 -> Int] /\ b \in [1..1 -> Int] /\ b[1] = g.gid
      BY <2>1
    <3> HIDE DEF a, b
    <3>2. QED BY <3>1, IsSequence
  <2> HIDE DEF a, b
  <2>3. /\ a \o b \in Seq(Int) /\ Len(a \o b) = 5
        /\ (a \o b)[5] = g.gid
    <3>1. /\ a \o b \in Seq(Int) /\ Len(a \o b) = Len(a) + Len(b)
          /\ \A i \in 1..(Len(a) + Len(b)) : (a \o b)[i] = IF i <= Len(a) THEN a[i] ELSE b[i - Len(a)]
      BY <2>2, ConcatProperties
    <3>2. QED BY <2>2, <3>1
  <2>4. a \o b \in [1..5 -> Int]
    BY <2>3, LenProperties
  <2>5. QED BY <2>3, <2>4 DEF a, b
<1>2. \A g, h \in found : key[g] = key[h] => g = h
  <2> HIDE DEF key
  <2> TAKE g, h \in found
  <2>1. key[g] = key[h] => g.gid = h.gid
    BY <1>1
  <2>2. QED BY <2>1, Mirrors
<1>3. IsFiniteSet(found)
  BY Mirrors, FS_Subset
<1> HIDE DEF key
<1>4. Linear(found, key)
  BY <1>1, <1>2, <1>3, KeysOrder
<1>5. QED BY <1>4 DEF key

\* The browse of an artist's release groups.
LEMMA BrowseGroupsPage ==
  ASSUME NEW d, IsMirror(d), NEW q, q.limit \in Nat, q.offset \in Nat
  PROVE  IsPage(BrowseReleaseGroups(d, q), d.group)
<1> DEFINE found == {g \in d.group : g.ac \in CreditsOf(d, q.gid)}
           key == [g \in found |-> OrderKey(g.first) \o <<g.gid>>]
<1>1. BrowseReleaseGroups(d, q) = Slice(OrderBy(found, key), q.limit, q.offset)
  BY DEF BrowseReleaseGroups
<1>2. Linear(found, key) /\ found \subseteq d.group
  BY GroupKeys
<1> HIDE DEF found, key
<1>3. IsList(OrderBy(found, key)) /\ ToSet(OrderBy(found, key)) = found
  BY <1>2, OrderedList
<1>4. QED BY <1>1, <1>2, <1>3, Sliced DEF IsPage, Gids

\* A gid's own row, or the one it was merged into.
LEMMA ByGidPage ==
  ASSUME NEW table, IsFiniteSet(table), NEW redirect, NEW gid
  PROVE  /\ IsPage(ByGid(table, redirect, gid), table)
         /\ ToSet(ByGid(table, redirect, gid)) = Known(table, redirect, gid)
         /\ Known(table, redirect, gid) \subseteq table
         /\ Known(table, redirect, gid) # {} => ByGid(table, redirect, gid) # <<>>
<1> DEFINE S == Known(table, redirect, gid)
<1>1. S \subseteq table
  BY DEF Known, Having
<1>2. IsFiniteSet(S)
  BY <1>1, FS_Subset
<1> HIDE DEF S
<1>3. IsList(SetToSeq(S)) /\ ToSet(SetToSeq(S)) = S /\ (S # {} => SetToSeq(S) # <<>>)
  BY <1>2, SetList
<1>4. QED BY <1>1, <1>3 DEF S, ByGid, IsPage, Gids

\* The best hits of a branch are hits of it.
LEMMA TopHitsOf ==
  ASSUME NEW hits, IsFiniteSet(hits), NEW n \in Nat,
         \A h \in hits : h.key \in Int /\ h.near \in Int, \A g, h \in hits : g.key = h.key => g = h
  PROVE  TopHits(hits, n) \subseteq hits
<1> DEFINE key == [h \in hits |-> <<-h.near, h.key>>]
<1>1. \A h \in hits : key[h] \in [1..2 -> Int] /\ key[h][2] = h.key
  OBVIOUS
<1>2. \A g, h \in hits : key[g] = key[h] => g = h
  <2> HIDE DEF key
  <2> TAKE g, h \in hits
  <2>1. key[g][2] = g.key /\ key[h][2] = h.key
    BY <1>1
  <2>2. QED BY <2>1
<1>3. TopHits(hits, n) = ToSet(Slice(OrderBy(hits, key), n, 0))
  BY DEF TopHits
<1> HIDE DEF key
<1>4. Linear(hits, key)
  BY <1>1, <1>2, KeysOrder
<1>5. QED BY <1>3, <1>4, OrderedList, Sliced

\* The hits of a branch: one for each of some rows.
Branch(hits, table, row) ==
  /\ DOMAIN row \subseteq table /\ hits = Image(row)
  /\ \A r \in DOMAIN row : row[r].key = r.id /\ row[r].near \in Int /\ row[r].score \in Int

\* A branch of the artist search and the best of it, with scores that are numbers.
LEMMA BranchOf ==
  ASSUME NEW hits, NEW table, Identified(table), NEW row, Branch(hits, table, row), NEW n \in Nat
  PROVE  /\ IsFiniteSet(hits) /\ \A h \in hits : h.score \in Int
         /\ TopHits(hits, n) \subseteq hits
<1>1. IsFiniteSet(hits)
  BY FS_Subset, FiniteImage DEF Branch, Image, Identified
<1>2. (\A h \in hits : h.key \in Int /\ h.near \in Int) /\ \A g, h \in hits : g.key = h.key => g = h
  BY DEF Branch, Image, Identified
<1>3. \A h \in hits : h.score \in Int
  BY DEF Branch, Image
<1>4. QED BY <1>1, <1>2, <1>3, TopHitsOf

\* So are those of the three branches together.
LEMMA ArtistHitsTyped ==
  ASSUME NEW d, IsMirror(d), NEW q, q.limit \in Nat, q.offset \in Nat, NEW fuzzy
  PROVE  IsFiniteSet(ArtistHits(d, q, fuzzy)) /\ \A h \in ArtistHits(d, q, fuzzy) : h.score \in Int
<1> DEFINE n == q.limit + q.offset
           A == {x \in d.artist : Matches(x, fuzzy)}
           B == {x \in d.artist : IF fuzzy THEN x.sortLike ELSE x.sortWords}
           C == {x \in d.alias : Matches(x, fuzzy) /\ Having(d.artist, {x.artist}) # {}}
           a == [x \in A |-> [key |-> x.id, id |-> x.id, near |-> x.nameSim, score |-> x.sim]]
           b == [x \in B |-> [key |-> x.id, id |-> x.id, near |-> x.sortSim, score |-> x.sim]]
           c == [x \in C |-> [key |-> x.id, id |-> x.artist, near |-> x.sim, score |-> x.sim]]
           branches == ArtistBranches(d, fuzzy)
           part(i) == IF fuzzy THEN TopHits(branches[i], n) ELSE branches[i]
<1>1. branches[1] = Image(a) /\ branches[2] = Image(b) /\ branches[3] = Image(c)
  BY DEF ArtistBranches, Image
<1>2. Identified(d.artist) /\ Identified(d.alias) /\ n \in Nat
  BY Mirrors DEF Identified
<1>3. /\ \A r \in d.artist \union d.alias : r.sim \in Int
      /\ \A r \in d.artist : r.nameSim \in Int /\ r.sortSim \in Int
  BY Mirrors
<1>4. Branch(branches[1], d.artist, a) /\ Branch(branches[2], d.artist, b) /\ Branch(branches[3], d.alias, c)
  BY <1>1, <1>3 DEF Branch
<1>5. ArtistHits(d, q, fuzzy) = UNION {part(i) : i \in 1..3}
  BY DEF ArtistHits
<1>6. \A i \in 1..3 : /\ IsFiniteSet(branches[i]) /\ \A h \in branches[i] : h.score \in Int
                      /\ TopHits(branches[i], n) \subseteq branches[i]
  <2> HIDE DEF a, b, c, branches, n
  <2>1. \A i \in 1..3 : i = 1 \/ i = 2 \/ i = 3
    OBVIOUS
  <2>2. QED BY <1>2, <1>4, <2>1, BranchOf
<1> HIDE DEF branches, n
<1>7. \A i \in 1..3 : part(i) \subseteq branches[i] /\ IsFiniteSet(part(i))
  BY <1>6, FS_Subset
<1>8. UNION {part(i) : i \in 1..3} = (part(1) \union part(2)) \union part(3)
  <2>1. 1..3 = {1, 2, 3}
    OBVIOUS
  <2> HIDE DEF part
  <2>2. QED BY <2>1
<1> HIDE DEF part
<1>9. IsFiniteSet((part(1) \union part(2)) \union part(3))
  <2>1. IsFiniteSet(part(1)) /\ IsFiniteSet(part(2)) /\ IsFiniteSet(part(3))
    BY <1>7
  <2>2. IsFiniteSet(part(1) \union part(2))
    BY <2>1, FS_Union
  <2>3. QED BY <2>1, <2>2, FS_Union
<1>10. \A h \in (part(1) \union part(2)) \union part(3) : h.score \in Int
  BY <1>6, <1>7
<1>11. QED BY <1>5, <1>8, <1>9, <1>10

\* The artist search, ranked by the best hit of each artist.
LEMMA SearchArtistsPage ==
  ASSUME NEW d, IsMirror(d), NEW q, q.limit \in Nat, q.offset \in Nat, NEW fuzzy
  PROVE  IsPage(SearchArtists(d, q, fuzzy), d.artist)
<1> DEFINE hits == ArtistHits(d, q, fuzzy)
           scores(id) == {h.score : h \in {x \in hits : x.id = id}}
           found == Having(d.artist, {h.id : h \in hits})
           S == {[id |-> a.id, gid |-> a.gid, comment |-> a.comment, rank |-> Max(scores(a.id))] : a \in found}
           row == [a \in found |->
                      [id |-> a.id, gid |-> a.gid, comment |-> a.comment, rank |-> Max(scores(a.id))]]
<1>1. SearchArtists(d, q, fuzzy) = Counted(Ranked(S), q.limit, q.offset)
  BY DEF SearchArtists
<1>2. S = Image(row)
  BY DEF Image
<1>3. IsFiniteSet(hits) /\ \A h \in hits : h.score \in Int
  BY ArtistHitsTyped
<1>4. ASSUME NEW a \in found PROVE Max(scores(a.id)) \in Int
  <2> HIDE DEF hits
  <2> DEFINE own == {x \in hits : x.id = a.id}
             score == [h \in own |-> h.score]
  <2>1. PICK h \in hits : h.id = a.id
    BY DEF Having
  <2>2. IsFiniteSet(own) /\ own # {}
    BY <1>3, <2>1, FS_Subset
  <2>3. scores(a.id) = {score[x] : x \in DOMAIN score} /\ DOMAIN score = own
    OBVIOUS
  <2>4. scores(a.id) \in SUBSET Int /\ scores(a.id) # {}
    BY <1>3, <2>2
  <2> HIDE DEF score, own, scores
  <2>5. IsFiniteSet(scores(a.id))
    BY <2>2, <2>3, FiniteImage
  <2>6. QED BY <2>4, <2>5, Greatest
<1>5. Drawn(row, d.artist)
  <2> HIDE DEF scores, hits
  <2> QED BY <1>4 DEF Drawn, Having
<1>6. Identified(d.artist)
  BY Mirrors DEF Identified
<1>7. QED
  <2> HIDE DEF row, S, found
  <2> QED BY <1>1, <1>2, <1>5, <1>6, PageOf

----------------------------------------------------------------------------
(* Statements and what they call for.                                      *)

\* The statements that lead to the page of a request, by its route.
Leads(q) ==
  CASE q.act = "search" /\ q.kind = "artist" -> {"SearchArtists"}
    [] q.act = "search" /\ q.kind = "release" ->
         {"ResolveArtistCredits", "SearchReleases", "SearchReleasesByArtist"}
    [] q.act = "search" /\ q.kind = "recording" ->
         {"ResolveArtistCredits", "SearchRecordings", "SearchRecordingsByArtist"}
    [] q.act = "browse" /\ q.kind = "release" -> {"BrowseReleasesByArtist"}
    [] q.act = "browse" /\ q.kind = "group" -> {"BrowseReleaseGroupsCount", "BrowseReleaseGroups"}
    [] q.act = "lookup" /\ q.kind = "artist" -> {"LookupArtist"}
    [] q.act = "lookup" /\ q.kind = "release" -> {"LookupRelease"}
    [] q.act = "lookup" /\ q.kind = "group" -> {"LookupReleaseGroup"}
    [] q.act = "lookup" /\ q.kind = "recording" -> {"LookupRecording"}

Lookups == {"LookupArtist", "LookupRelease", "LookupReleaseGroup", "LookupRecording"}
Preludes == {"ResolveArtistCredits", "BrowseReleaseGroupsCount"}
Lead == Lookups \union Preludes
          \union {"SearchArtists", "SearchReleases", "SearchReleasesByArtist", "SearchRecordings",
                  "SearchRecordingsByArtist", "BrowseReleasesByArtist", "BrowseReleaseGroups"}

IsStatement(s) == DOMAIN s = {"q", "of", "ids", "fuzzy"}
Fits(q, s) == IsStatement(s) /\ (s.q \in Lead => s.q \in Leads(q))

\* Statements that hydrate a page.
Hydrate(f) == IsList(f) /\ \A s \in ToSet(f) : IsStatement(s) /\ s.q \notin Lead

IsRequest(q) ==
  /\ <<q.act, q.kind>> \in Routes
  /\ q.limit \in Nat /\ q.offset \in Nat

\* The nine routes.
LEMMA RoutesAre ==
  ASSUME NEW q, IsRequest(q)
  PROVE  \/ q.act = "search" /\ q.kind = "artist"
         \/ q.act = "search" /\ q.kind = "release"
         \/ q.act = "search" /\ q.kind = "recording"
         \/ q.act = "browse" /\ q.kind = "release"
         \/ q.act = "browse" /\ q.kind = "group"
         \/ q.act = "lookup" /\ q.kind = "artist"
         \/ q.act = "lookup" /\ q.kind = "release"
         \/ q.act = "lookup" /\ q.kind = "group"
         \/ q.act = "lookup" /\ q.kind = "recording"
BY DEF IsRequest, Routes

\* What hydrates: lists of statements, one after another, of one, none, or one per row.
LEMMA HydrateGlued ==
  ASSUME NEW f, NEW g, Hydrate(f), Hydrate(g)
  PROVE  Hydrate(f \o g)
BY Glued DEF Hydrate

LEMMA OneHydrates ==
  ASSUME NEW name, name \notin Lead, NEW of, NEW ids
  PROVE  Hydrate(<<Statement(name, of, ids)>>)
BY OneOnly DEF Hydrate, IsStatement, Statement

LEMMA NoneHydrates == Hydrate(<<>>)
BY Nothing DEF Hydrate

LEMMA BatchHydrates ==
  ASSUME NEW name, name \notin Lead, NEW of, NEW ids
  PROVE  Hydrate(Batch(name, of, ids))
BY OneHydrates, NoneHydrates DEF Batch

LEMMA IncludedHydrates ==
  ASSUME NEW q, NEW token, NEW name, name \notin Lead, NEW id
  PROVE  Hydrate(Included(q, token, name, id))
BY OneHydrates, NoneHydrates DEF Included

\* One statement for each of some rows.
LEMMA EachHydrates ==
  ASSUME NEW rows, IsList(rows), NEW f, DOMAIN f = DOMAIN rows, f = [i \in DOMAIN f |-> f[i]],
         \A i \in DOMAIN rows : IsStatement(f[i]) /\ f[i].q \notin Lead
  PROVE  Hydrate(f)
<1>1. Len(rows) \in Nat /\ DOMAIN rows = 1..Len(rows)
  BY ListFacts
<1>2. f \in [1..Len(rows) -> ToSet(f)]
  BY <1>1 DEF ToSet
<1>3. IsList(f)
  BY <1>1, <1>2, ListOf
<1>4. QED BY <1>3 DEF Hydrate, ToSet

\* The statements that hydrate releases, release groups, recordings and lookups lead to no page.
LEMMA ReleasePartsHydrate ==
  ASSUME NEW of, NEW rows
  PROVE  Hydrate(ReleaseParts(of, rows))
<1> DEFINE a == Batch("BatchArtistCredits", of, Acs(rows))
           b == Batch("BatchReleaseGroups", of, {rows[i].group : i \in DOMAIN rows})
           c == Batch("BatchReleaseDates", of, Ids(rows))
           e == Batch("BatchReleaseStatuses", of, Ids(rows))
           f == Batch("BatchReleaseComments", of, Ids(rows))
           g == Batch("BatchReleaseTrackCounts", of, Ids(rows))
<1>1. ReleaseParts(of, rows) = ((((a \o b) \o c) \o e) \o f) \o g
  BY DEF ReleaseParts
<1>2. Hydrate(a) /\ Hydrate(b) /\ Hydrate(c) /\ Hydrate(e) /\ Hydrate(f) /\ Hydrate(g)
  BY BatchHydrates DEF Lead, Lookups, Preludes
<1> HIDE DEF a, b, c, e, f, g
<1>3. Hydrate(a \o b)
  BY <1>2, HydrateGlued
<1>4. Hydrate((a \o b) \o c)
  BY <1>2, <1>3, HydrateGlued
<1>5. Hydrate(((a \o b) \o c) \o e)
  BY <1>2, <1>4, HydrateGlued
<1>6. Hydrate((((a \o b) \o c) \o e) \o f)
  BY <1>2, <1>5, HydrateGlued
<1>7. QED BY <1>1, <1>2, <1>6, HydrateGlued

LEMMA GroupPartsHydrate ==
  ASSUME NEW rows
  PROVE  Hydrate(GroupParts(rows))
<1>1. /\ Hydrate(Batch("BatchArtistCredits", Page, Acs(rows)))
      /\ Hydrate(Batch("BatchSecondaryTypes", Page, Ids(rows)))
  BY BatchHydrates DEF Lead, Lookups, Preludes
<1>2. QED BY <1>1, HydrateGlued DEF GroupParts

LEMMA RecordingPartsHydrate ==
  ASSUME NEW rows
  PROVE  Hydrate(RecordingParts(rows))
<1>1. /\ Hydrate(Batch("BatchArtistCredits", Page, Acs(rows)))
      /\ Hydrate(Batch("BatchRecordingReleases", Page, Ids(rows)))
  BY BatchHydrates DEF Lead, Lookups, Preludes
<1>2. QED BY <1>1, HydrateGlued DEF RecordingParts

LEMMA LookupPartsHydrate ==
  ASSUME NEW q, q.kind \in {"artist", "release", "group", "recording"}, NEW row
  PROVE  Hydrate(LookupParts(q, row))
<1> DEFINE one(name, id) == <<Statement(name, Page, {id})>>
<1>a. \A token, name, id : name \notin Lead => Hydrate(Included(q, token, name, id))
  BY IncludedHydrates
<1>b. \A name, id : name \notin Lead => Hydrate(one(name, id))
  BY OneHydrates
<1>1. CASE q.kind = "artist"
  <2> DEFINE a == Included(q, "url-rels", "LoadArtistUrlRelations", row.id)
             b == Included(q, "genres", "LoadGenres", row.id)
             c == Included(q, "tags", "LoadTags", row.id)
             e == Included(q, "annotation", "LoadArtistAnnotation", row.id)
  <2>1. LookupParts(q, row) = ((a \o b) \o c) \o e
    BY <1>1 DEF LookupParts
  <2>2. Hydrate(a) /\ Hydrate(b) /\ Hydrate(c) /\ Hydrate(e)
    BY <1>a DEF Lead, Lookups, Preludes
  <2> HIDE DEF a, b, c, e
  <2>3. Hydrate(a \o b)
    BY <2>2, HydrateGlued
  <2>4. Hydrate((a \o b) \o c)
    BY <2>2, <2>3, HydrateGlued
  <2>5. QED BY <2>1, <2>2, <2>4, HydrateGlued
<1>2. CASE q.kind = "release"
  <2> DEFINE f == << Statement("LoadArtistCredit", Page, {row.ac}),
                     Statement("LoadReleaseGroup", Page, {row.group}),
                     Statement("ReleaseDate", Page, {row.id}),
                     Statement("LoadReleaseStatus", Page, {row.id}),
                     Statement("LoadReleaseComment", Page, {row.id}),
                     Statement("LoadMedia", Page, {row.id}),
                     Statement("LoadReleaseRelations", Page, {row.id}) >>
  <2>1. LookupParts(q, row) = f
    BY <1>2 DEF LookupParts
  <2>2. ASSUME NEW i \in 1..7 PROVE IsStatement(f[i]) /\ f[i].q \notin Lead
    <3>1. CASE i = 1
      BY <3>1 DEF IsStatement, Statement, Lead, Lookups, Preludes
    <3>2. CASE i = 2
      BY <3>2 DEF IsStatement, Statement, Lead, Lookups, Preludes
    <3>3. CASE i = 3
      BY <3>3 DEF IsStatement, Statement, Lead, Lookups, Preludes
    <3>4. CASE i = 4
      BY <3>4 DEF IsStatement, Statement, Lead, Lookups, Preludes
    <3>5. CASE i = 5
      BY <3>5 DEF IsStatement, Statement, Lead, Lookups, Preludes
    <3>6. CASE i = 6
      BY <3>6 DEF IsStatement, Statement, Lead, Lookups, Preludes
    <3>7. CASE i = 7
      BY <3>7 DEF IsStatement, Statement, Lead, Lookups, Preludes
    <3>8. QED BY <3>1, <3>2, <3>3, <3>4, <3>5, <3>6, <3>7
  <2>3. f \in [1..7 -> ToSet(f)] /\ DOMAIN f = 1..7
    BY DEF ToSet
  <2> HIDE DEF f
  <2>4. IsList(f)
    BY <2>3, ListOf
  <2>5. QED BY <2>1, <2>2, <2>3, <2>4 DEF Hydrate, ToSet
<1>3. CASE q.kind = "group"
  <2> DEFINE a == GroupParts(<<row>>)
             b == Included(q, "genres", "LoadGenres", row.id)
             c == Included(q, "tags", "LoadTags", row.id)
             e == one("LoadReleaseGroupReleases", row.id)
  <2>1. LookupParts(q, row) = ((a \o b) \o c) \o e
    BY <1>3 DEF LookupParts
  <2>2. Hydrate(a) /\ Hydrate(b) /\ Hydrate(c) /\ Hydrate(e)
    BY <1>a, <1>b, GroupPartsHydrate DEF Lead, Lookups, Preludes
  <2> HIDE DEF a, b, c, e
  <2>3. Hydrate(a \o b)
    BY <2>2, HydrateGlued
  <2>4. Hydrate((a \o b) \o c)
    BY <2>2, <2>3, HydrateGlued
  <2>5. QED BY <2>1, <2>2, <2>4, HydrateGlued
<1>4. CASE q.kind = "recording"
  <2> DEFINE f == << Statement("LoadArtistCredit", Page, {row.ac}),
                     Statement("BatchRecordingReleases", Page, {row.id}) >>
  <2>1. LookupParts(q, row) = f
    BY <1>4 DEF LookupParts
  <2>2. ASSUME NEW i \in 1..2 PROVE IsStatement(f[i]) /\ f[i].q \notin Lead
    <3>1. CASE i = 1
      BY <3>1 DEF IsStatement, Statement, Lead, Lookups, Preludes
    <3>2. CASE i = 2
      BY <3>2 DEF IsStatement, Statement, Lead, Lookups, Preludes
    <3>3. QED BY <3>1, <3>2
  <2>3. f \in [1..2 -> ToSet(f)] /\ DOMAIN f = 1..2
    BY DEF ToSet
  <2> HIDE DEF f
  <2>4. IsList(f)
    BY <2>3, ListOf
  <2>5. QED BY <2>1, <2>2, <2>3, <2>4 DEF Hydrate, ToSet
<1>5. QED BY <1>1, <1>2, <1>3, <1>4

\* The tracks with a credit of their own are a list.
LEMMA WhereList ==
  ASSUME NEW rows, IsList(rows)
  PROVE  IsList(Where(rows, LAMBDA t : t.ac # {}))
<1> DEFINE kept == {i \in DOMAIN rows : rows[i].ac # {}}
           places == OrderBy(kept, [i \in kept |-> <<i>>])
           g == [n \in 1..Cardinality(kept) |-> rows[places[n]]]
<1>1. Where(rows, LAMBDA t : t.ac # {}) = g
  BY DEF Where
<1>2. IsFiniteSet(kept)
  BY ListFacts, FS_Interval, FS_Subset
<1>3. Cardinality(kept) \in Nat
  BY <1>2, FS_CardinalityType
<1>4. g \in [1..Cardinality(kept) -> ToSet(g)]
  BY DEF ToSet
<1> HIDE DEF g, kept
<1>5. QED BY <1>1, <1>3, <1>4, ListOf

\* Whatever a statement answers, what follows are parts, but for the statements on the
\* way to a page.
LEMMA FollowFits ==
  ASSUME NEW q, IsRequest(q), NEW s, Fits(q, s), NEW rows,
         s.q \in {"LoadArtistCredit", "LoadMedia", "LoadTracks"} => IsList(rows)
  PROVE  /\ IsList(Follow(q, s, rows))
         /\ \A t \in ToSet(Follow(q, s, rows)) : Fits(q, t) /\ t.q \notin Lookups
<1> DEFINE F == Follow(q, s, rows)
<1>a. Hydrate(F) => IsList(F) /\ \A t \in ToSet(F) : Fits(q, t) /\ t.q \notin Lookups
  BY DEF Hydrate, Fits, Lead
<1>b. \A name, of, ids : name \notin Lead => Hydrate(Batch(name, of, ids))
  BY BatchHydrates
<1>1. CASE s.q = "SearchArtists"
  <2>1. Hydrate(F)
    BY <1>1, <1>b DEF Follow, Lead, Lookups, Preludes
  <2>2. QED BY <2>1, <1>a
<1>2. CASE s.q = "ResolveArtistCredits"
  <2> DEFINE name == IF q.kind = "release" THEN "SearchReleasesByArtist" ELSE "SearchRecordingsByArtist"
  <2>1. F = Batch(name, Page, Ids(rows))
    BY <1>2 DEF Follow
  <2>2. q.act = "search" /\ q.kind \in {"release", "recording"}
    BY <1>2, RoutesAre DEF Fits, Lead, Preludes, Leads
  <2>3. name \in Leads(q) /\ name \notin Lookups
    BY <2>2 DEF Leads, Lookups
  <2> HIDE DEF name
  <2>4. Fits(q, Statement(name, Page, Ids(rows))) /\ Statement(name, Page, Ids(rows)).q \notin Lookups
    BY <2>3 DEF Fits, IsStatement, Statement
  <2>5. QED BY <2>1, <2>4, OneOnly, Nothing DEF Batch
<1>3. CASE s.q \in {"SearchReleases", "SearchReleasesByArtist", "BrowseReleasesByArtist"}
  <2>1. F = ReleaseParts(Page, rows)
    BY <1>3 DEF Follow
  <2>2. QED BY <2>1, <1>a, ReleasePartsHydrate
<1>4. CASE s.q \in {"SearchRecordings", "SearchRecordingsByArtist"}
  <2>1. F = RecordingParts(rows)
    BY <1>4 DEF Follow
  <2>2. QED BY <2>1, <1>a, RecordingPartsHydrate
<1>5. CASE s.q = "BrowseReleaseGroupsCount"
  <2>1. F = <<Statement("BrowseReleaseGroups", Page, {})>>
    BY <1>5 DEF Follow
  <2>2. q.act = "browse" /\ q.kind = "group"
    BY <1>5, RoutesAre DEF Fits, Lead, Preludes, Leads
  <2>3. Fits(q, Statement("BrowseReleaseGroups", Page, {}))
    BY <2>2 DEF Fits, Leads, IsStatement, Statement
  <2>4. Statement("BrowseReleaseGroups", Page, {}).q \notin Lookups
    BY DEF Lookups, Statement
  <2>5. QED BY <2>1, <2>3, <2>4, OneOnly
<1>6. CASE s.q = "BrowseReleaseGroups"
  <2>1. F = GroupParts(rows)
    BY <1>6 DEF Follow
  <2>2. QED BY <2>1, <1>a, GroupPartsHydrate
<1>7. CASE s.q \in Lookups
  <2>1. F = IF rows = <<>> THEN <<>> ELSE LookupParts(q, rows[1])
    BY <1>7 DEF Follow, Lookups
  <2>2. q.kind \in {"artist", "release", "group", "recording"}
    BY RoutesAre
  <2>3. QED BY <2>1, <2>2, <1>a, LookupPartsHydrate, NoneHydrates
<1>8. CASE s.q = "BatchArtistCredits"
  <2>1. F = <<>> \/ F = Batch("BatchArtistAliases", Page, {rows[i].artist : i \in DOMAIN rows})
    BY <1>8 DEF Follow
  <2>2. Hydrate(F)
    BY <2>1, <1>b, NoneHydrates DEF Lead, Lookups, Preludes
  <2>3. QED BY <2>2, <1>a
<1>9. CASE s.q = "LoadArtistCredit"
  <2> DEFINE f == [i \in DOMAIN rows |-> Statement("LoadArtistAliases", rows[i].position, {rows[i].artist})]
  <2>1. F = <<>> \/ F = f
    BY <1>9 DEF Follow
  <2>2. \A i \in DOMAIN rows : IsStatement(f[i]) /\ f[i].q \notin Lead
    BY DEF IsStatement, Statement, Lead, Lookups, Preludes
  <2>3. DOMAIN f = DOMAIN rows /\ f = [i \in DOMAIN f |-> f[i]]
    OBVIOUS
  <2> HIDE DEF f
  <2>4. Hydrate(f)
    BY <1>9, <2>2, <2>3, EachHydrates
  <2>5. QED BY <2>1, <2>4, <1>a, NoneHydrates
<1>10. CASE s.q = "BatchRecordingReleases"
  <2> DEFINE a == IF q.act = "search" THEN Batch("BatchRecordingMedia", Page, s.ids) ELSE <<>>
             b == ReleaseParts(Releases, rows)
  <2>1. F = a \o b
    BY <1>10 DEF Follow
  <2>2. Hydrate(a) /\ Hydrate(b)
    BY <1>b, NoneHydrates, ReleasePartsHydrate DEF Lead, Lookups, Preludes
  <2> HIDE DEF a, b
  <2>3. QED BY <2>1, <2>2, <1>a, HydrateGlued
<1>11. CASE s.q = "BatchRecordingMedia"
  <2>1. F = Batch("BatchArtistCredits", Tracks, UNION {rows[i].track.ac : i \in DOMAIN rows})
    BY <1>11 DEF Follow
  <2>2. Hydrate(F)
    BY <2>1, <1>b DEF Lead, Lookups, Preludes
  <2>3. QED BY <2>2, <1>a
<1>12. CASE s.q = "LoadMedia"
  <2> DEFINE f == [i \in DOMAIN rows |-> Statement("LoadTracks", rows[i].id, {rows[i].id})]
  <2>1. F = f
    BY <1>12 DEF Follow
  <2>2. \A i \in DOMAIN rows : IsStatement(f[i]) /\ f[i].q \notin Lead
    BY DEF IsStatement, Statement, Lead, Lookups, Preludes
  <2>3. DOMAIN f = DOMAIN rows /\ f = [i \in DOMAIN f |-> f[i]]
    OBVIOUS
  <2> HIDE DEF f
  <2>4. Hydrate(f)
    BY <1>12, <2>2, <2>3, EachHydrates
  <2>5. QED BY <2>1, <2>4, <1>a
<1>13. CASE s.q = "LoadTracks"
  <2> DEFINE own == Where(rows, LAMBDA t : t.ac # {})
             f == [i \in DOMAIN own |-> Statement("LoadArtistCredit", own[i].gid, own[i].ac)]
  <2>1. F = f
    BY <1>13 DEF Follow
  <2>2. IsList(own)
    BY <1>13, WhereList
  <2> HIDE DEF own
  <2>3. \A i \in DOMAIN own : IsStatement(f[i]) /\ f[i].q \notin Lead
    BY DEF IsStatement, Statement, Lead, Lookups, Preludes
  <2>4. DOMAIN f = DOMAIN own /\ f = [i \in DOMAIN f |-> f[i]]
    OBVIOUS
  <2> HIDE DEF f
  <2>5. Hydrate(f)
    BY <2>2, <2>3, <2>4, EachHydrates
  <2>6. QED BY <2>1, <2>5, <1>a
<1>14. CASE s.q = "LoadReleaseGroupReleases"
  <2>1. F = Batch("BatchReleaseDates", Releases, Ids(rows))
    BY <1>14 DEF Follow
  <2>2. Hydrate(F)
    BY <2>1, <1>b DEF Lead, Lookups, Preludes
  <2>3. QED BY <2>2, <1>a
<1>15. CASE s.q \notin Lead \union {"BatchArtistCredits", "LoadArtistCredit", "BatchRecordingReleases",
                                    "BatchRecordingMedia", "LoadMedia", "LoadTracks",
                                    "LoadReleaseGroupReleases"}
  <2>1. F = <<>>
    BY <1>15 DEF Follow, Lead, Lookups, Preludes
  <2>2. QED BY <2>1, <1>a, NoneHydrates
<1>16. QED
  BY <1>1, <1>2, <1>3, <1>4, <1>5, <1>6, <1>7, <1>8, <1>9, <1>10, <1>11, <1>12, <1>13, <1>14, <1>15
     DEF Lead, Preludes

\* The statements that are followed row by row return lists.
LEMMA SelectList ==
  ASSUME NEW d, IsMirror(d), NEW q, IsRequest(q), NEW s
  PROVE  s.q \in {"LoadArtistCredit", "LoadMedia", "LoadTracks"} => IsList(Select(d, q, s))
<1> DEFINE id == CHOOSE x \in s.ids : TRUE
<1>0. IsFiniteSet(d.creditName) /\ IsFiniteSet(d.track) /\ IsFiniteSet(d.medium)
  BY Mirrors
<1>1. CASE s.q = "LoadArtistCredit"
  <2> DEFINE names == {x \in {n \in d.creditName : n.ac = id} : Having(d.artist, {x.artist}) # {}}
             named == [n \in names |-> Named(d, n)]
             S == Joined(d, {n \in d.creditName : n.ac = id})
  <2>1. Select(d, q, s) = OrderBy(S, [r \in S |-> <<r.position>>])
    BY <1>1 DEF Select, LoadArtistCredit, ByPosition
  <2>2. S = {named[n] : n \in DOMAIN named} /\ DOMAIN named = names
    BY DEF Joined
  <2>3. IsFiniteSet(names)
    BY <1>0, FS_Subset
  <2> HIDE DEF named, names, S
  <2>4. IsFiniteSet(S)
    BY <2>2, <2>3, FiniteImage
  <2>5. QED BY <2>1, <2>4, SomeList
<1>2. CASE s.q = "LoadMedia"
  <2> DEFINE S == {m \in d.medium : m.release = id}
  <2>1. Select(d, q, s) = OrderBy(S, [r \in S |-> <<r.position>>])
    BY <1>2 DEF Select, LoadMedia, ByPosition
  <2>2. IsFiniteSet(S)
    BY <1>0, FS_Subset
  <2> HIDE DEF S
  <2>3. QED BY <2>1, <2>2, SomeList
<1>3. CASE s.q = "LoadTracks"
  <2> DEFINE S == {t \in d.track : t.medium = id /\ Having(d.recording, {t.recording}) # {}}
  <2>1. Select(d, q, s) = OrderBy(S, [r \in S |-> <<r.position>>])
    BY <1>3 DEF Select, LoadTracks, ByPosition
  <2>2. IsFiniteSet(S)
    BY <1>0, FS_Subset
  <2> HIDE DEF S
  <2>3. QED BY <2>1, <2>2, SomeList
<1>4. QED BY <1>1, <1>2, <1>3

\* What leads to a page and is not its page itself has the rows of the page.
LEMMA SelectPage ==
  ASSUME NEW d, IsMirror(d), NEW q, IsRequest(q), NEW s, s.q \in Lead \ Preludes, s.q \in Leads(q)
  PROVE  IsPage(Select(d, q, s), Table(d, q.kind))
<1>0. q.limit \in Nat /\ q.offset \in Nat
  BY DEF IsRequest
<1>1. CASE s.q = "SearchArtists"
  <2>1. q.kind = "artist"
    BY <1>1, RoutesAre DEF Leads
  <2>2. Select(d, q, s) = SearchArtists(d, q, s.fuzzy)
    BY <1>1 DEF Select
  <2>3. QED BY <2>1, <2>2, <1>0, SearchArtistsPage DEF Table
<1>2. CASE s.q = "SearchReleases"
  <2>1. q.kind = "release"
    BY <1>2, RoutesAre DEF Leads
  <2>2. Select(d, q, s) = SearchReleases(d, q, s.fuzzy)
    BY <1>2 DEF Select
  <2>3. QED BY <2>1, <2>2, <1>0, SearchReleasesPage DEF Table
<1>3. CASE s.q = "SearchReleasesByArtist"
  <2>1. q.kind = "release"
    BY <1>3, RoutesAre DEF Leads
  <2>2. Select(d, q, s) = SearchReleasesByArtist(d, q, s.ids, s.fuzzy)
    BY <1>3 DEF Select
  <2>3. QED BY <2>1, <2>2, <1>0, SearchReleasesByArtistPage DEF Table
<1>4. CASE s.q = "SearchRecordings"
  <2>1. q.kind = "recording"
    BY <1>4, RoutesAre DEF Leads
  <2>2. Select(d, q, s) = SearchRecordings(d, q)
    BY <1>4 DEF Select
  <2>3. QED BY <2>1, <2>2, <1>0, SearchRecordingsPage DEF Table
<1>5. CASE s.q = "SearchRecordingsByArtist"
  <2>1. q.kind = "recording"
    BY <1>5, RoutesAre DEF Leads
  <2>2. Select(d, q, s) = SearchRecordingsByArtist(d, q, s.ids, s.fuzzy)
    BY <1>5 DEF Select
  <2>3. QED BY <2>1, <2>2, <1>0, SearchRecordingsByArtistPage DEF Table
<1>6. CASE s.q = "BrowseReleasesByArtist"
  <2>1. q.kind = "release"
    BY <1>6, RoutesAre DEF Leads
  <2>2. Select(d, q, s) = BrowseReleasesByArtist(d, q)
    BY <1>6 DEF Select
  <2>3. QED BY <2>1, <2>2, <1>0, BrowseReleasesPage DEF Table
<1>7. CASE s.q = "BrowseReleaseGroups"
  <2>1. q.kind = "group"
    BY <1>7, RoutesAre DEF Leads
  <2>2. Select(d, q, s) = BrowseReleaseGroups(d, q)
    BY <1>7 DEF Select
  <2>3. QED BY <2>1, <2>2, <1>0, BrowseGroupsPage DEF Table
<1>8. CASE s.q \in Lookups
  <2>1. Select(d, q, s) = ByGid(Table(d, q.kind), d.redirect, q.gid)
    BY <1>8, RoutesAre DEF Leads, Lookups, Select, Table, LookupArtist, LookupRelease, LookupReleaseGroup,
                           LookupRecording
  <2>2. IsFiniteSet(Table(d, q.kind))
    BY RoutesAre, Mirrors DEF Table
  <2>3. QED BY <2>1, <2>2, ByGidPage
<1>9. QED BY <1>1, <1>2, <1>3, <1>4, <1>5, <1>6, <1>7, <1>8 DEF Lead, Preludes

\* The rows of a page of releases are releases.
LEMMA SelectReleases ==
  ASSUME NEW d, IsMirror(d), NEW q, IsRequest(q), q.kind = "release",
         NEW s, s.q \in Leads(q), s.q # "ResolveArtistCredits"
  PROVE  AreReleases(Select(d, q, s), d)
<1>0. q.limit \in Nat /\ q.offset \in Nat
  BY DEF IsRequest
<1>1. CASE s.q = "SearchReleases"
  <2>1. Select(d, q, s) = SearchReleases(d, q, s.fuzzy)
    BY <1>1 DEF Select
  <2>2. QED BY <2>1, <1>0, SearchReleasesPage
<1>2. CASE s.q = "SearchReleasesByArtist"
  <2>1. Select(d, q, s) = SearchReleasesByArtist(d, q, s.ids, s.fuzzy)
    BY <1>2 DEF Select
  <2>2. QED BY <2>1, <1>0, SearchReleasesByArtistPage
<1>3. CASE s.q = "BrowseReleasesByArtist"
  <2>1. Select(d, q, s) = BrowseReleasesByArtist(d, q)
    BY <1>3 DEF Select
  <2>2. QED BY <2>1, <1>0, BrowseReleasesPage
<1>4. CASE s.q = "LookupRelease"
  <2>1. Select(d, q, s) = ByGid(d.release, d.redirect, q.gid)
    BY <1>4 DEF Select, LookupRelease
  <2>2. ToSet(Select(d, q, s)) \subseteq d.release
    BY <2>1, Mirrors, ByGidPage
  <2>3. QED BY <2>2 DEF AreReleases, IsRelease
<1>5. QED BY <1>1, <1>2, <1>3, <1>4, RoutesAre DEF Leads

\* A lookup finds a gid that has a row or a redirect.
LEMMA SelectKnown ==
  ASSUME NEW d, IsMirror(d), NEW q, IsRequest(q), NEW s, s.q \in Lookups, s.q \in Leads(q),
         Known(Table(d, q.kind), d.redirect, q.gid) # {}
  PROVE  Select(d, q, s) # <<>>
<1>1. Select(d, q, s) = ByGid(Table(d, q.kind), d.redirect, q.gid)
  BY RoutesAre DEF Leads, Lookups, Select, Table, LookupArtist, LookupRelease, LookupReleaseGroup,
                   LookupRecording
<1>2. IsFiniteSet(Table(d, q.kind))
  BY RoutesAre, Mirrors DEF Table
<1>3. QED BY <1>1, <1>2, ByGidPage

\* The first statement of a request is one of its route, and a lookup's looks up.
LEMMA FirstLeads ==
  ASSUME NEW q, IsRequest(q)
  PROVE  \E name \in Leads(q) :
           /\ First(q) = <<Statement(name, Page, {})>>
           /\ q.act = "lookup" => name \in Lookups
<1> DEFINE P(name) == First(q) = <<Statement(name, Page, {})>> /\ name \in Leads(q)
                      /\ (q.act = "lookup" => name \in Lookups)
<1> SUFFICES \E name : P(name)
  OBVIOUS
<1>1. CASE q.act = "search" /\ q.kind = "artist"
  <2>1. P("SearchArtists")
    BY <1>1 DEF First, Leads
  <2>2. QED BY <2>1
<1>2. CASE q.act = "search" /\ q.kind = "release"
  <2>1. P(IF ScopingArtist(q) THEN "ResolveArtistCredits" ELSE "SearchReleases")
    BY <1>2 DEF First, Leads
  <2>2. QED BY <2>1
<1>3. CASE q.act = "search" /\ q.kind = "recording"
  <2>1. P(IF ScopingArtist(q) THEN "ResolveArtistCredits" ELSE "SearchRecordings")
    BY <1>3 DEF First, Leads
  <2>2. QED BY <2>1
<1>4. CASE q.act = "browse" /\ q.kind = "release"
  <2>1. P("BrowseReleasesByArtist")
    BY <1>4 DEF First, Leads
  <2>2. QED BY <2>1
<1>5. CASE q.act = "browse" /\ q.kind = "group"
  <2>1. P("BrowseReleaseGroupsCount")
    BY <1>5 DEF First, Leads
  <2>2. QED BY <2>1
<1>6. CASE q.act = "lookup" /\ q.kind = "artist"
  <2>1. P("LookupArtist")
    BY <1>6 DEF First, Leads, Lookups
  <2>2. QED BY <2>1
<1>7. CASE q.act = "lookup" /\ q.kind = "release"
  <2>1. P("LookupRelease")
    BY <1>7 DEF First, Leads, Lookups
  <2>2. QED BY <2>1
<1>8. CASE q.act = "lookup" /\ q.kind = "group"
  <2>1. P("LookupReleaseGroup")
    BY <1>8 DEF First, Leads, Lookups
  <2>2. QED BY <2>1
<1>9. CASE q.act = "lookup" /\ q.kind = "recording"
  <2>1. P("LookupRecording")
    BY <1>9 DEF First, Leads, Lookups
  <2>2. QED BY <2>1
<1>10. QED BY <1>1, <1>2, <1>3, <1>4, <1>5, <1>6, <1>7, <1>8, <1>9, RoutesAre

\* A request with its paging resolved is of the route it came by, its limit and offset not negative.
LEMMA ResolvedTyped ==
  ASSUME NEW r \in Requests
  PROVE  /\ IsRequest(Resolved(r)) /\ Resolved(r).act = r.act /\ Resolved(r).kind = r.kind
         /\ Resolved(r).gid = r.gid /\ Resolved(r) # NoRequest
<1>1. r \in [act : STRING, kind : STRING, gid : Nat, titled : BOOLEAN, artist : SUBSET STRING,
             year : SUBSET Int, type : SUBSET STRING, status : SUBSET STRING,
             limit : SUBSET Int, offset : SUBSET Int, inc : SUBSET STRING]
      /\ <<r.act, r.kind>> \in Routes
  BY Ws2Assumption
<1>2. \A a, b \in Int : /\ Min({a, b}) \in {a, b} /\ Min({a, b}) <= a /\ Min({a, b}) <= b
                        /\ Max({a, b}) \in {a, b} /\ Max({a, b}) >= a /\ Max({a, b}) >= b
  <2> TAKE a, b \in Int
  <2>1. (\E x \in {a, b} : \A y \in {a, b} : x <= y) /\ \E x \in {a, b} : \A y \in {a, b} : x >= y
    OBVIOUS
  <2>2. Min({a, b}) \in {a, b} /\ \A y \in {a, b} : Min({a, b}) <= y
    BY <2>1 DEF Min
  <2>3. Max({a, b}) \in {a, b} /\ \A y \in {a, b} : Max({a, b}) >= y
    BY <2>1 DEF Max
  <2>4. QED BY <2>2, <2>3
<1>3. ResolveLimit(r) \in Nat
  <2> DEFINE asked == IF r.limit = {} THEN DefaultLimit ELSE CHOOSE n \in r.limit : TRUE
             least == Max({asked, 1})
  <2>1. asked \in Int
    <3>1. CASE r.limit = {}
      BY <3>1, Ws2Assumption
    <3>2. CASE r.limit # {}
      BY <3>2, <1>1
    <3>3. QED BY <3>1, <3>2
  <2>2. MaxLimit \in Nat /\ MaxLimit >= 1
    BY Ws2Assumption
  <2>3. least \in Int /\ least >= 1
    <3> HIDE DEF asked
    <3> QED BY <1>2, <2>1
  <2>4. Min({least, MaxLimit}) \in Nat
    <3> HIDE DEF least
    <3> QED BY <1>2, <2>2, <2>3
  <2>5. QED BY <2>4 DEF ResolveLimit
<1>4. ResolveOffset(r) \in Nat
  <2>1. CASE r.offset = {}
    BY <2>1 DEF ResolveOffset
  <2>2. CASE r.offset # {}
    <3> DEFINE n == CHOOSE n \in r.offset : TRUE
    <3>1. n \in Int
      BY <2>2, <1>1
    <3> HIDE DEF n
    <3>2. Max({0, n}) \in Nat
      <4>1. Max({0, n}) \in {0, n} /\ Max({0, n}) >= 0
        BY <1>2, <3>1, 0 \in Int
      <4>2. QED BY <3>1, <4>1
    <3>3. QED BY <2>2, <3>2 DEF ResolveOffset, n
  <2>3. QED BY <2>1, <2>2
<1>5. /\ Resolved(r).act = r.act /\ Resolved(r).kind = r.kind /\ Resolved(r).gid = r.gid
      /\ Resolved(r).limit = ResolveLimit(r) /\ Resolved(r).offset = ResolveOffset(r)
  BY <1>1 DEF Resolved
<1>6. Resolved(r) # NoRequest
  <2>1. r.act # "none"
    BY <1>1 DEF Routes
  <2>2. QED BY <1>5, <2>1 DEF NoRequest
<1>7. QED BY <1>1, <1>3, <1>4, <1>5, <1>6 DEF IsRequest

----------------------------------------------------------------------------
(* What an answer has shown stays known.                                   *)

\* A version of the mirror up to the n-th has had a thing of this kind and gid.
Existed(n, kind, gid) == \E v \in 1..n : gid \in Gids(Table(Databases[v], kind))

\* The rows on the way to the page are of the request's kind.
PagesExisted ==
  \A k \in DOMAIN got : k[1] \in Lead =>
    /\ k[1] \in Leads(request)
    /\ k[1] \notin Preludes => \A r \in ToSet(got[k]) : Existed(db, request.kind, r.gid)

LookupKey == <<First(request)[1].q, Page>>

\* A lookup has yet to look for its gid, or has found it if an answer had shown it.
LookedUp ==
  answer = Pending /\ request.act = "lookup" =>
    \/ todo = First(request)
    \/ /\ \A s \in ToSet(todo) : s.q \notin Lookups
       /\ LookupKey \in DOMAIN got
       /\ <<request.kind, request.gid>> \in shown => got[LookupKey] # <<>>

KnownInv ==
  /\ db \in 1..Len(Databases)
  /\ \A x \in shown : \E kind \in {"artist", "release", "group", "recording"} : \E gid :
       x = <<kind, gid>> /\ Existed(db, kind, gid)
  /\ \/ request = NoRequest /\ todo = <<>> /\ answer = Status(204)
     \/ IsRequest(request)
  /\ IsList(todo) /\ \A s \in ToSet(todo) : Fits(request, s)
  /\ todo # <<>> => answer = Pending
  /\ PagesExisted
  /\ LookedUp
  /\ answer.status = 404 => <<request.kind, request.gid>> \notin shown
  /\ answer.status = 200 => \A i \in DOMAIN answer.items : Existed(db, request.kind, answer.items[i].gid)

\* Every version of the mirror has the keys of the schema.
LEMMA VersionsAre ==
  /\ Len(Databases) \in Nat /\ Len(Databases) >= 1
  /\ \A v \in 1..Len(Databases) : IsMirror(Databases[v])
BY Ws2Assumption

\* KnownInv holds at first, and each action keeps it.
LEMMA KnownInit == Init => KnownInv
<1> SUFFICES ASSUME Init PROVE KnownInv
  OBVIOUS
<1>1. db = 1 /\ request = NoRequest /\ todo = <<>> /\ got = <<>> /\ answer = Status(204) /\ shown = {}
  BY DEF Init
<1>2. db \in 1..Len(Databases)
  BY <1>1, VersionsAre
<1>3. IsList(todo) /\ ToSet(todo) = {}
  BY <1>1, Nothing
<1>4. answer.status = 204 /\ answer # Pending
  BY <1>1 DEF Status, Pending
<1>5. PagesExisted /\ LookedUp
  BY <1>1, <1>4 DEF PagesExisted, LookedUp
<1>6. QED BY <1>1, <1>2, <1>3, <1>4, <1>5 DEF KnownInv

\* What existed up to a version existed up to a later one.
LEMMA StillExisted ==
  ASSUME NEW n \in Nat, NEW m \in Nat, n <= m, NEW kind, NEW gid, Existed(n, kind, gid)
  PROVE  Existed(m, kind, gid)
BY DEF Existed

LEMMA AcceptKnown ==
  ASSUME KnownInv, NEW r \in Requests, Accept(r)
  PROVE  KnownInv'
<1>1. /\ shown' = ShownBy(request.kind, answer) /\ request' = Resolved(r)
      /\ got' = <<>> /\ db' = db
      /\ \/ todo' = <<>> /\ answer' = Status(400)
         \/ todo' = First(Resolved(r)) /\ answer' = Pending
  BY DEF Accept
<1>2. IsRequest(request') /\ answer'.status # 404 /\ answer'.status # 200
  BY <1>1, ResolvedTyped DEF Status, Pending
<1>3. ASSUME NEW x \in shown'
      PROVE  \E kind \in {"artist", "release", "group", "recording"} : \E gid :
               x = <<kind, gid>> /\ Existed(db, kind, gid)
  <2>1. answer.status = 200
    BY <1>1, <1>3 DEF ShownBy
  <2>2. PICK i \in DOMAIN answer.items : x = <<request.kind, answer.items[i].gid>>
    BY <1>1, <1>3, <2>1 DEF ShownBy
  <2>3. Existed(db, request.kind, answer.items[i].gid)
    BY <2>1 DEF KnownInv
  <2>4. IsRequest(request)
    BY <2>1 DEF KnownInv, Status
  <2>5. request.kind \in {"artist", "release", "group", "recording"}
    BY <2>4, RoutesAre
  <2>6. QED BY <2>2, <2>3, <2>5
<1>4. IsList(todo') /\ \A s \in ToSet(todo') : Fits(request', s)
  <2>1. CASE todo' = <<>>
    BY <2>1, Nothing
  <2>2. CASE todo' = First(request')
    <3>1. PICK name \in Leads(request') : First(request') = <<Statement(name, Page, {})>>
      BY <1>2, FirstLeads
    <3>2. Fits(request', Statement(name, Page, {}))
      BY <3>1 DEF Fits, IsStatement, Statement
    <3>3. QED BY <2>2, <3>1, <3>2, OneOnly
  <2>3. QED BY <1>1, <2>1, <2>2
<1>5. PagesExisted'
  BY <1>1 DEF PagesExisted
<1>6. LookedUp'
  <2>1. answer' = Pending => todo' = First(request')
    BY <1>1 DEF Status, Pending
  <2>2. QED BY <2>1 DEF LookedUp
<1>7. (db \in 1..Len(Databases))'
  BY <1>1 DEF KnownInv
<1>8. (\A x \in shown : \E kind \in {"artist", "release", "group", "recording"} : \E gid :
         x = <<kind, gid>> /\ Existed(db, kind, gid))'
  BY <1>1, <1>3
<1>9. QED BY <1>1, <1>2, <1>4, <1>5, <1>6, <1>7, <1>8 DEF KnownInv

\* What a statement leaves behind, whatever rows it returned: a list, a page of things that
\* exist if it leads to one, and something if it looks up what an answer has shown.
LEMMA RanKnown ==
  ASSUME KnownInv, todo # <<>>, NEW rows, Ran(Head(todo), rows),
         Head(todo).q \in {"LoadArtistCredit", "LoadMedia", "LoadTracks"} => IsList(rows),
         Head(todo).q \in Lead \ Preludes => \A r \in ToSet(rows) : Existed(db, request.kind, r.gid),
         Head(todo).q \in Lookups /\ <<request.kind, request.gid>> \in shown => rows # <<>>
  PROVE  KnownInv'
<1> DEFINE s == Head(todo)
           next == IF FallsBack(s, rows) THEN <<[s EXCEPT !.fuzzy = TRUE]>> ELSE Follow(request, s, rows)
<1>1. /\ got' = [k \in DOMAIN got \union {<<s.q, s.of>>} |-> IF k = <<s.q, s.of>> THEN rows ELSE got[k]]
      /\ todo' = next \o Tail(todo)
      /\ UNCHANGED <<db, request, answer, seen, shown>>
  BY DEF Ran
<1>2. /\ IsRequest(request) /\ IsList(todo) /\ \A t \in ToSet(todo) : Fits(request, t)
  BY DEF KnownInv
<1>3. /\ IsList(Tail(todo)) /\ ToSet(Tail(todo)) \subseteq ToSet(todo) /\ s \in ToSet(todo)
  BY <1>2, Tailed
<1>4. Fits(request, s)
  BY <1>2, <1>3
<1> HIDE DEF s
<1>5. IsList(next) /\ \A t \in ToSet(next) : Fits(request, t) /\ (s.q \notin Lookups => t.q \notin Lookups)
                                           /\ (~FallsBack(s, rows) => t.q \notin Lookups)
  <2>1. CASE FallsBack(s, rows)
    <3> DEFINE t == [s EXCEPT !.fuzzy = TRUE]
    <3>1. t.q = s.q /\ IsStatement(t)
      BY <1>4 DEF Fits, IsStatement
    <3>2. Fits(request, t)
      BY <1>4, <3>1 DEF Fits
    <3> HIDE DEF t
    <3>3. IsList(<<t>>) /\ ToSet(<<t>>) = {t}
      BY OneOnly
    <3>4. QED BY <2>1, <3>1, <3>2, <3>3 DEF t
  <2>2. CASE ~FallsBack(s, rows)
    <3>1. IsList(Follow(request, s, rows))
          /\ \A t \in ToSet(Follow(request, s, rows)) : Fits(request, t) /\ t.q \notin Lookups
      BY <1>2, <1>4, FollowFits DEF s
    <3>2. QED BY <2>2, <3>1
  <2>3. QED BY <2>1, <2>2
<1> HIDE DEF next
<1>6. IsList(todo') /\ ToSet(todo') = ToSet(next) \union ToSet(Tail(todo))
  BY <1>1, <1>3, <1>5, Glued
<1>7. \A t \in ToSet(todo') : Fits(request', t)
  BY <1>1, <1>2, <1>3, <1>5, <1>6
<1>8. PagesExisted'
  <2> SUFFICES ASSUME NEW k \in DOMAIN got', k[1] \in Lead
               PROVE  /\ k[1] \in Leads(request)
                      /\ k[1] \notin Preludes => \A r \in ToSet(got'[k]) : Existed(db, request.kind, r.gid)
    BY <1>1 DEF PagesExisted
  <2>1. CASE k = <<s.q, s.of>>
    <3>1. k[1] = s.q /\ got'[k] = rows
      BY <1>1, <2>1
    <3>2. QED BY <1>4, <3>1 DEF Fits, s
  <2>2. CASE k # <<s.q, s.of>>
    <3>1. k \in DOMAIN got /\ got'[k] = got[k]
      BY <1>1, <2>2
    <3>2. QED BY <3>1 DEF KnownInv, PagesExisted
  <2>3. QED BY <2>1, <2>2
<1>9. LookedUp'
  <2> SUFFICES ASSUME answer = Pending, request.act = "lookup"
               PROVE  /\ \A t \in ToSet(todo') : t.q \notin Lookups
                      /\ LookupKey \in DOMAIN got'
                      /\ <<request.kind, request.gid>> \in shown => got'[LookupKey] # <<>>
    BY <1>1 DEF LookedUp, LookupKey
  <2>1. PICK name \in Leads(request) : First(request) = <<Statement(name, Page, {})>> /\ name \in Lookups
    BY <1>2, FirstLeads
  <2>2. LookupKey = <<name, Page>>
    BY <2>1 DEF LookupKey, Statement
  <2>3. CASE todo = First(request)
    <3>1. s = Statement(name, Page, {}) /\ Tail(todo) = <<>>
      BY <2>1, <2>3 DEF s
    <3>2. s.q = name /\ s.of = Page
      BY <3>1 DEF Statement
    <3>3. ~FallsBack(s, rows)
      BY <2>1, <3>2 DEF FallsBack, Lookups
    <3>4. \A t \in ToSet(todo') : t.q \notin Lookups
      BY <1>5, <1>6, <3>1, <3>3, Nothing
    <3>5. LookupKey \in DOMAIN got' /\ got'[LookupKey] = rows
      BY <1>1, <2>2, <3>2
    <3>6. <<request.kind, request.gid>> \in shown => rows # <<>>
      BY <2>1, <3>2 DEF s
    <3>7. QED BY <3>4, <3>5, <3>6
  <2>4. CASE /\ \A t \in ToSet(todo) : t.q \notin Lookups
             /\ LookupKey \in DOMAIN got
             /\ <<request.kind, request.gid>> \in shown => got[LookupKey] # <<>>
    <3>1. s.q \notin Lookups
      BY <1>3, <2>4
    <3>2. \A t \in ToSet(todo') : t.q \notin Lookups
      BY <1>3, <1>5, <1>6, <2>4, <3>1
    <3>3. LookupKey # <<s.q, s.of>>
      BY <2>1, <2>2, <3>1
    <3>4. LookupKey \in DOMAIN got' /\ got'[LookupKey] = got[LookupKey]
      BY <1>1, <2>4, <3>3
    <3>5. QED BY <2>4, <3>2, <3>4
  <2>5. QED BY <2>3, <2>4 DEF KnownInv, LookedUp
<1>10. QED
  BY <1>1, <1>6, <1>7, <1>8, <1>9 DEF KnownInv

LEMMA RunKnown ==
  ASSUME KnownInv, Run
  PROVE  KnownInv'
<1> DEFINE s == Head(todo)
           d == Databases[db]
           rows == Select(d, request, s)
<1>1. todo # <<>> /\ Ran(s, rows)
  BY DEF Run
<1>2. IsRequest(request) /\ IsMirror(d) /\ db \in Nat
  BY <1>1, VersionsAre DEF KnownInv
<1>3. Fits(request, s)
  BY <1>1, Tailed DEF KnownInv
<1> HIDE DEF d
<1>4. s.q \in {"LoadArtistCredit", "LoadMedia", "LoadTracks"} => IsList(rows)
  BY <1>2, SelectList
<1>5. ASSUME s.q \in Lead \ Preludes, NEW r \in ToSet(rows)
      PROVE  Existed(db, request.kind, r.gid)
  <2>1. IsPage(rows, Table(d, request.kind))
    BY <1>2, <1>3, <1>5, SelectPage DEF Fits
  <2>2. r.gid \in Gids(Table(d, request.kind))
    BY <1>5, <2>1 DEF IsPage, Gids
  <2>3. db \in 1..db
    BY <1>2 DEF KnownInv
  <2>4. QED BY <2>2, <2>3 DEF Existed, d
<1>6. ASSUME s.q \in Lookups, <<request.kind, request.gid>> \in shown
      PROVE  rows # <<>>
  <2>1. Existed(db, request.kind, request.gid)
    <3>1. PICK kind \in {"artist", "release", "group", "recording"} : \E gid :
            <<request.kind, request.gid>> = <<kind, gid>> /\ Existed(db, kind, gid)
      BY <1>6 DEF KnownInv
    <3>2. QED BY <3>1
  <2>2. PICK v \in 1..db : request.gid \in Gids(Table(Databases[v], request.kind))
    BY <2>1 DEF Existed
  <2>3. PICK r \in Table(Databases[v], request.kind) : r.gid = request.gid
    BY <2>2 DEF Gids
  <2>4. Known(Table(d, request.kind), d.redirect, request.gid) # {}
    <3>1. request.kind \in {"artist", "release", "group", "recording"} /\ db \in 1..Len(Databases)
      BY <1>2, RoutesAre DEF KnownInv
    <3>2. QED BY <2>3, <3>1, Ws2Assumption DEF d
  <2>5. s.q \in Leads(request)
    BY <1>3, <1>6 DEF Fits, Lead
  <2>6. QED BY <1>2, <1>6, <2>4, <2>5, SelectKnown
<1> HIDE DEF rows
<1>7. QED BY <1>1, <1>4, <1>5, <1>6, RanKnown

LEMMA TimesOutKnown ==
  ASSUME KnownInv, TimesOut
  PROVE  KnownInv'
<1>1. todo # <<>> /\ Bounded(Head(todo)) /\ Ran(Head(todo), <<>>)
  BY DEF TimesOut
<1>2. ASSUME Head(todo).q \in Lookups PROVE FALSE
  <2> DEFINE s == Head(todo)
  <2>1. s \in ToSet(todo) /\ Fits(request, s) /\ IsRequest(request) /\ answer = Pending
    <3>1. IsList(todo) /\ IsRequest(request) /\ answer = Pending /\ \A t \in ToSet(todo) : Fits(request, t)
      BY <1>1 DEF KnownInv
    <3>2. s \in ToSet(todo)
      BY <1>1, <3>1, Tailed
    <3>3. QED BY <3>1, <3>2
  <2>2. s.q \in Leads(request)
    BY <1>2, <2>1 DEF Fits, Lead
  <2>3. request.act = "lookup"
    BY <1>2, <2>1, <2>2, RoutesAre DEF Leads, Lookups
  <2>4. todo = First(request)
    BY <1>2, <2>1, <2>3 DEF KnownInv, LookedUp
  <2>5. PICK name \in Leads(request) : First(request) = <<Statement(name, Page, {})>>
    BY <2>1, FirstLeads
  <2>6. s.fuzzy = FALSE
    BY <2>4, <2>5 DEF Statement
  <2>7. QED BY <1>1, <1>2, <2>6 DEF Bounded, Lookups
<1>3. IsList(<<>>) /\ ToSet(<<>>) = {}
  BY Nothing
<1>4. QED BY <1>1, <1>2, <1>3, RanKnown

\* The rows of the page, by the request's kind.
LEMMA PageRowsExisted ==
  ASSUME KnownInv, IsRequest(request), request.act # "browse" \/ request.kind # "group"
  PROVE  \A i \in DOMAIN PageRows : Existed(db, request.kind, PageRows[i].gid)
<1>1. PICK name \in Leads(request) : First(request) = <<Statement(name, Page, {})>>
  BY FirstLeads
<1>2. First(request)[1].q = name
  BY <1>1 DEF Statement
<1>3. \A n \in Leads(request) : n \in Lead
  BY RoutesAre DEF Leads, Lead, Lookups, Preludes
<1>4. ASSUME NEW n \in Lead \ Preludes, NEW i \in DOMAIN Got(n, Page)
      PROVE  Existed(db, request.kind, Got(n, Page)[i].gid)
  <2>1. <<n, Page>> \in DOMAIN got /\ Got(n, Page) = got[<<n, Page>>]
    BY <1>4 DEF Got
  <2>2. \A r \in ToSet(got[<<n, Page>>]) : Existed(db, request.kind, r.gid)
    BY <1>4, <2>1 DEF KnownInv, PagesExisted
  <2>3. QED BY <1>4, <2>1, <2>2 DEF ToSet
<1>5. \A n \in {"SearchReleasesByArtist", "SearchRecordingsByArtist"} : n \in Lead \ Preludes
  BY DEF Lead, Preludes, Lookups
<1>6. PageRows = <<>> \/ \E n \in Lead \ Preludes : PageRows = Got(n, Page)
  <2>1. CASE <<"SearchReleasesByArtist", Page>> \in DOMAIN got
    BY <2>1, <1>5 DEF PageRows
  <2>2. CASE /\ <<"SearchReleasesByArtist", Page>> \notin DOMAIN got
             /\ <<"SearchRecordingsByArtist", Page>> \in DOMAIN got
    BY <2>2, <1>5 DEF PageRows
  <2>3. CASE /\ <<"SearchReleasesByArtist", Page>> \notin DOMAIN got
             /\ <<"SearchRecordingsByArtist", Page>> \notin DOMAIN got
    <3>1. PageRows = IF name = "ResolveArtistCredits" THEN <<>> ELSE Got(name, Page)
      BY <2>3, <1>2 DEF PageRows
    <3>2. name # "BrowseReleaseGroupsCount"
      BY <1>1, RoutesAre DEF Leads
    <3>3. QED BY <3>1, <3>2, <1>1, <1>3 DEF Preludes
  <2>4. QED BY <2>1, <2>2, <2>3
<1>7. QED BY <1>4, <1>6

\* The page of a lookup is what the lookup returned.
LEMMA LookupRows ==
  ASSUME KnownInv, IsRequest(request), request.act = "lookup"
  PROVE  PageRows = Got(LookupKey[1], Page) /\ LookupKey = <<LookupKey[1], Page>>
<1>1. PICK name \in Leads(request) : First(request) = <<Statement(name, Page, {})>> /\ name \in Lookups
  BY FirstLeads
<1>2. First(request)[1].q = name /\ LookupKey = <<name, Page>>
  BY <1>1 DEF Statement, LookupKey
<1>3. /\ "SearchReleasesByArtist" \notin Leads(request) /\ "SearchRecordingsByArtist" \notin Leads(request)
      /\ "SearchReleasesByArtist" \in Lead /\ "SearchRecordingsByArtist" \in Lead
  BY RoutesAre DEF Leads, Lead
<1>4. /\ <<"SearchReleasesByArtist", Page>> \notin DOMAIN got
      /\ <<"SearchRecordingsByArtist", Page>> \notin DOMAIN got
  BY <1>3 DEF KnownInv, PagesExisted
<1>5. QED BY <1>1, <1>2, <1>4 DEF PageRows, Lookups

\* An item has the gid of its row.
LEMMA ItemGids ==
  ASSUME NEW row
  PROVE  /\ AssembleArtist(row).gid = row.gid /\ AssembleGroup(row).gid = row.gid
         /\ AssembleRecording(row).gid = row.gid /\ LookedUpArtist(row).gid = row.gid
         /\ LookedUpRelease(row).gid = row.gid
         /\ \A of, media : AssembleRelease(of, row, media).gid = row.gid
BY DEF AssembleArtist, AssembleGroup, AssembleRecording, LookedUpArtist, LookedUpRelease, AssembleRelease

LEMMA RespondKnown ==
  ASSUME KnownInv, Respond
  PROVE  KnownInv'
<1>1. /\ todo = <<>> /\ answer = Pending /\ answer' = Answer /\ got' = <<>>
      /\ UNCHANGED <<db, request, todo, seen, shown>>
  BY DEF Respond
<1>2. IsRequest(request)
  BY <1>1 DEF KnownInv, Status, Pending
<1>3. ASSUME Answer.status = 200, NEW i \in DOMAIN Answer.items
      PROVE  Existed(db, request.kind, Answer.items[i].gid)
  <2>1. CASE request.act = "browse" /\ request.kind = "group"
    <3> DEFINE rows == Got("BrowseReleaseGroups", Page)
    <3>1. Answer.items = [j \in DOMAIN rows |-> AssembleGroup(rows[j])]
      BY <2>1 DEF Answer, Answered, Items
    <3>2. i \in DOMAIN rows /\ Answer.items[i].gid = rows[i].gid
      BY <1>3, <3>1, ItemGids
    <3>3. <<"BrowseReleaseGroups", Page>> \in DOMAIN got /\ rows = got[<<"BrowseReleaseGroups", Page>>]
      BY <3>2 DEF Got
    <3>4. \A r \in ToSet(rows) : Existed(db, request.kind, r.gid)
      BY <3>3 DEF KnownInv, PagesExisted, Lead, Preludes
    <3> HIDE DEF rows
    <3>5. QED BY <3>2, <3>4 DEF ToSet
  <2>2. CASE request.act # "browse" \/ request.kind # "group"
    <3> DEFINE rows == PageRows
    <3>1. \E item : /\ Answer.items = [j \in DOMAIN rows |-> item[j]]
                   /\ \A j \in DOMAIN rows : item[j].gid = rows[j].gid
      <4>1. CASE request.act = "search" /\ request.kind = "artist"
        <5> DEFINE item == [j \in DOMAIN rows |-> AssembleArtist(rows[j])]
        <5>1. Answer.items = [j \in DOMAIN rows |-> item[j]]
          BY <1>3, <4>1 DEF Answer, Answered, Items, Status
        <5>2. \A j \in DOMAIN rows : item[j].gid = rows[j].gid
          BY ItemGids
        <5>3. QED BY <5>1, <5>2
      <4>2. CASE request.act \in {"search", "browse"} /\ request.kind = "release"
        <5> DEFINE item == [j \in DOMAIN rows |-> AssembleRelease(Page, rows[j], <<>>)]
        <5>1. Answer.items = [j \in DOMAIN rows |-> item[j]]
          BY <1>3, <4>2 DEF Answer, Answered, Items, Status
        <5>2. \A j \in DOMAIN rows : item[j].gid = rows[j].gid
          BY ItemGids
        <5>3. QED BY <5>1, <5>2
      <4>3. CASE request.act = "search" /\ request.kind = "recording"
        <5> DEFINE item == [j \in DOMAIN rows |-> AssembleRecording(rows[j])]
        <5>1. Answer.items = [j \in DOMAIN rows |-> item[j]]
          BY <1>3, <4>3 DEF Answer, Answered, Items, Status
        <5>2. \A j \in DOMAIN rows : item[j].gid = rows[j].gid
          BY ItemGids
        <5>3. QED BY <5>1, <5>2
      <4>4. CASE request.act = "lookup" /\ request.kind = "artist"
        <5> DEFINE item == [j \in DOMAIN rows |-> LookedUpArtist(rows[j])]
        <5>1. Answer.items = [j \in DOMAIN rows |-> item[j]]
          BY <1>3, <4>4 DEF Answer, Answered, Items, Status
        <5>2. \A j \in DOMAIN rows : item[j].gid = rows[j].gid
          BY ItemGids
        <5>3. QED BY <5>1, <5>2
      <4>5. CASE request.act = "lookup" /\ request.kind = "release"
        <5> DEFINE item == [j \in DOMAIN rows |-> LookedUpRelease(rows[j])]
        <5>1. Answer.items = [j \in DOMAIN rows |-> item[j]]
          BY <1>3, <4>5 DEF Answer, Answered, Items, Status
        <5>2. \A j \in DOMAIN rows : item[j].gid = rows[j].gid
          BY ItemGids
        <5>3. QED BY <5>1, <5>2
      <4>6. CASE request.act = "lookup" /\ request.kind = "group"
        <5> DEFINE item == [j \in DOMAIN rows |-> AssembleGroup(rows[j])]
        <5>1. Answer.items = [j \in DOMAIN rows |-> item[j]]
          BY <1>3, <4>6 DEF Answer, Answered, Items, Status
        <5>2. \A j \in DOMAIN rows : item[j].gid = rows[j].gid
          BY ItemGids
        <5>3. QED BY <5>1, <5>2
      <4>7. CASE request.act = "lookup" /\ request.kind = "recording"
        <5> DEFINE item == [j \in DOMAIN rows |-> AssembleRecording(rows[j])]
        <5>1. Answer.items = [j \in DOMAIN rows |-> item[j]]
          BY <1>3, <4>7 DEF Answer, Answered, Items, Status
        <5>2. \A j \in DOMAIN rows : item[j].gid = rows[j].gid
          BY ItemGids
        <5>3. QED BY <5>1, <5>2
      <4>8. QED BY <1>2, <2>2, RoutesAre, <4>1, <4>2, <4>3, <4>4, <4>5, <4>6, <4>7
    <3>2. i \in DOMAIN rows /\ Answer.items[i].gid = rows[i].gid
      BY <1>3, <3>1
    <3>3. QED BY <1>2, <2>2, <3>2, PageRowsExisted
  <2>3. QED BY <2>1, <2>2
<1>4. ASSUME Answer.status = 404 PROVE <<request.kind, request.gid>> \notin shown
  <2>1. request.act = "lookup" /\ PageRows = <<>>
    BY <1>2, <1>4, RoutesAre DEF Answer, Answered, Status
  <2>2. First(request) # <<>>
    BY <1>2, FirstLeads
  <2>3. LookupKey \in DOMAIN got /\ (<<request.kind, request.gid>> \in shown => got[LookupKey] # <<>>)
    BY <1>1, <2>1, <2>2 DEF KnownInv, LookedUp
  <2>4. PageRows = got[LookupKey]
    BY <1>2, <2>1, <2>3, LookupRows DEF Got
  <2>5. QED BY <2>1, <2>3, <2>4
<1>5. IsList(todo') /\ ToSet(todo') = {}
  BY <1>1, Nothing
<1>6. PagesExisted'
  BY <1>1 DEF PagesExisted
<1>7. LookedUp'
  <2>1. answer' # Pending
    BY <1>1, <1>2, RoutesAre DEF Answer, Answered, Status, Pending
  <2>2. QED BY <2>1 DEF LookedUp
<1>8. QED BY <1>1, <1>2, <1>3, <1>4, <1>5, <1>6, <1>7 DEF KnownInv

LEMMA FailsKnown ==
  ASSUME KnownInv, Fails
  PROVE  KnownInv'
<1>1. /\ todo # <<>> /\ todo' = <<>> /\ got' = <<>> /\ answer' = Status(500)
      /\ UNCHANGED <<db, request, seen, shown>>
  BY DEF Fails
<1>2. IsRequest(request)
  BY <1>1 DEF KnownInv
<1>3. IsList(todo') /\ ToSet(todo') = {}
  BY <1>1, Nothing
<1>4. answer'.status = 500 /\ answer' # Pending
  BY <1>1 DEF Status, Pending
<1>5. PagesExisted' /\ LookedUp'
  BY <1>1, <1>4 DEF PagesExisted, LookedUp
<1>6. QED BY <1>1, <1>2, <1>3, <1>4, <1>5 DEF KnownInv

LEMMA ReplicateKnown ==
  ASSUME KnownInv, Replicate
  PROVE  KnownInv'
<1>1. /\ db' = db + 1 /\ db < Len(Databases)
      /\ UNCHANGED <<request, todo, got, answer, shown>>
  BY DEF Replicate
<1>2. db \in 1..Len(Databases) /\ Len(Databases) \in Nat
  BY VersionsAre DEF KnownInv
<1>3. db \in Nat /\ db' \in Nat /\ db <= db' /\ db' \in 1..Len(Databases)
  BY <1>1, <1>2
<1>4. \A kind, gid : Existed(db, kind, gid) => Existed(db', kind, gid)
  BY <1>3, StillExisted
<1>5. PagesExisted'
  BY <1>1, <1>4 DEF KnownInv, PagesExisted
<1>6. LookedUp'
  BY <1>1 DEF KnownInv, LookedUp, LookupKey
<1>7. QED BY <1>1, <1>3, <1>4, <1>5, <1>6 DEF KnownInv

\* No lookup answers 404 for a gid the answer before it has shown: the COALESCE of a
\* lookup over the redirects (queries.rs) finds what a merge has replaced meanwhile.
THEOREM ShownStaysKnown == Spec => []KnownStaysKnown
<1>1. KnownInv /\ [Next]_vars => KnownInv'
  <2> SUFFICES ASSUME KnownInv, [Next]_vars PROVE KnownInv'
    OBVIOUS
  <2>1. ASSUME NEW r \in Requests, Accept(r) PROVE KnownInv'
    BY <2>1, AcceptKnown
  <2>2. CASE Run
    BY <2>2, RunKnown
  <2>3. CASE TimesOut
    BY <2>3, TimesOutKnown
  <2>4. CASE Fails
    BY <2>4, FailsKnown
  <2>5. CASE Respond
    BY <2>5, RespondKnown
  <2>6. CASE Replicate
    BY <2>6, ReplicateKnown
  <2>7. CASE UNCHANGED vars
    BY <2>7 DEF vars, KnownInv, PagesExisted, LookedUp, LookupKey
  <2>8. QED BY <2>1, <2>2, <2>3, <2>4, <2>5, <2>6, <2>7 DEF Next
<1>2. KnownInv => KnownStaysKnown
  BY DEF KnownInv, KnownStaysKnown
<1>3. QED BY KnownInit, <1>1, <1>2, PTL DEF Spec

----------------------------------------------------------------------------
(* What a batch has of one row is what the row's own loader has.           *)

\* What is kept of a list is a list of its rows.
LEMMA KeptList ==
  ASSUME NEW rows, IsList(rows), NEW kept \in SUBSET DOMAIN rows
  PROVE  IsList(Kept(rows, kept)) /\ ToSet(Kept(rows, kept)) \subseteq ToSet(rows)
<1> DEFINE key == [i \in kept |-> <<i>>]
           places == OrderBy(kept, key)
           n == Cardinality(kept)
           g == Kept(rows, kept)
<1>1. Len(rows) \in Nat /\ DOMAIN rows = 1..Len(rows)
  BY ListFacts
<1>2. Linear(kept, key)
  BY <1>1, Places
<1>3. n \in Nat /\ places \in [1..n -> kept]
  <2> HIDE DEF key
  <2> QED BY <1>2, Ranks, Ordered DEF Lists
<1>4. g = [i \in 1..n |-> rows[places[i]]]
  BY DEF Kept
<1> HIDE DEF places, n, g
<1>5. g \in [1..n -> ToSet(rows)]
  BY <1>3, <1>4 DEF ToSet
<1>6. QED BY <1>3, <1>5, ListOf DEF g

NameKey(S) == [n \in S |-> <<n.ac, n.position>>]

\* The names of credits have an order: by credit, then by position.
LEMMA NamesOrdered ==
  ASSUME NEW d, IsMirror(d), NEW names \in SUBSET d.creditName
  PROVE  Linear(Joined(d, names), NameKey(Joined(d, names)))
<1> DEFINE S == Joined(d, names)
           with == {x \in names : Having(d.artist, {x.artist}) # {}}
           named == [n \in with |-> Named(d, n)]
           key == NameKey(S)
<1>1. S = {named[n] : n \in DOMAIN named}
  BY DEF Joined
<1>2. IsFiniteSet(S)
  <2>1. IsFiniteSet(DOMAIN named)
    BY Mirrors, FS_Subset
  <2> HIDE DEF named, S
  <2>2. QED BY <1>1, <2>1, FiniteImage
<1>3. \A n \in S : n.ac \in Int /\ n.position \in Int
  <2> TAKE n \in S
  <2>1. PICK x \in with : n = Named(d, x)
    BY DEF Joined
  <2>2. n.ac = x.ac /\ n.position = x.position /\ x \in d.creditName
    BY <2>1 DEF Named
  <2> HIDE DEF with
  <2>3. QED BY <2>2, Mirrors
<1>4. \A n, m \in S : n.ac = m.ac /\ n.position = m.position => n = m
  <2> TAKE n, m \in S
  <2>1. PICK x \in with : n = Named(d, x)
    BY DEF Joined
  <2>2. PICK y \in with : m = Named(d, y)
    BY DEF Joined
  <2>3. n.ac = m.ac /\ n.position = m.position => x = y
    BY <2>1, <2>2, Mirrors DEF Named
  <2>4. QED BY <2>1, <2>2, <2>3
<1> HIDE DEF S, named
<1>5. \A n \in S : key[n] \in [1..2 -> Int] /\ key[n][1] = n.ac /\ key[n][2] = n.position
  BY <1>3 DEF NameKey
<1>6. \A n, m \in S : key[n] = key[m] => n = m
  BY <1>4, <1>5
<1> HIDE DEF key
<1>7. Linear(S, key)
  BY <1>2, <1>5, <1>6, KeysOrder
<1>8. QED BY <1>7 DEF S, key

\* A credit's rows in a batch are those its own loader reads, in the same order.
LEMMA BatchedCredits ==
  ASSUME NEW d, IsMirror(d), NEW ids, NEW ac \in ids
  PROVE  Where(BatchArtistCredits(d, ids), LAMBDA n : n.ac = ac) = LoadArtistCredit(d, ac)
<1> DEFINE S == Joined(d, {n \in d.creditName : n.ac \in ids})
           T == Joined(d, {n \in d.creditName : n.ac = ac})
           key == NameKey(S)
           own == [n \in T |-> <<n.position>>]
           rows == OrderBy(S, key)
           kept == {i \in 1..Cardinality(S) : rows[i] \in T}
<1>1. Linear(S, key) /\ Linear(T, NameKey(T))
  BY NamesOrdered
<1>2. T = {n \in S : n.ac = ac}
  <2>1. \A x : Named(d, x).ac = x.ac
    BY DEF Named
  <2>2. QED BY <2>1 DEF Joined
<1>3. \A n \in S : key[n] = <<n.ac, n.position>>
  BY DEF NameKey
<1>4. \A n \in T : NameKey(T)[n] = <<n.ac, n.position>> /\ own[n] = <<n.position>>
  BY DEF NameKey
<1>5. \A n \in T : n.ac = ac /\ n.ac \in Int /\ n.position \in Int
  <2> TAKE n \in T
  <2>1. PICK x \in d.creditName : n = Named(d, x) /\ x.ac = ac
    BY DEF Joined
  <2>2. n.ac = x.ac /\ n.position = x.position
    BY <2>1 DEF Named
  <2>3. QED BY <2>1, <2>2, Mirrors
<1>6. BatchArtistCredits(d, ids) = rows /\ LoadArtistCredit(d, ac) = OrderBy(T, own)
  BY DEF BatchArtistCredits, LoadArtistCredit, ByPosition, NameKey
<1> HIDE DEF S, T, key, own
<1>7. ASSUME NEW n \in T, NEW m \in T
      PROVE  /\ Before(key, n, m) <=> n.position < m.position
             /\ Before(own, n, m) <=> n.position < m.position
  <2> DEFINE a == <<n.ac, n.position>>
             b == <<m.ac, m.position>>
             e == <<n.position>>
             f == <<m.position>>
  <2>1. DOMAIN a = {1, 2} /\ a[1] = b[1] /\ a[1] \in Int /\ a[2] = n.position /\ b[2] = m.position
    BY <1>5
  <2>2. DOMAIN e = {1} /\ e[1] = n.position /\ f[1] = m.position
    OBVIOUS
  <2>3. key[n] = a /\ key[m] = b /\ own[n] = e /\ own[m] = f
    BY <1>2, <1>3, <1>4
  <2> HIDE DEF a, b, e, f
  <2>4. Precedes(a, b) <=> n.position < m.position
    BY <2>1 DEF Precedes
  <2>5. Precedes(e, f) <=> n.position < m.position
    BY <2>2 DEF Precedes
  <2>6. QED BY <2>3, <2>4, <2>5 DEF Before
<1>8. Linear(T, key)
  BY <1>1, <1>2, FS_Subset DEF Linear
<1>9. OrderBy(T, key) = OrderBy(T, own)
  BY <1>7, <1>8, SameOrder
<1>10. Kept(rows, kept) = OrderBy(T, key)
  BY <1>1, <1>2, KeptOrder
<1>11. {i \in DOMAIN rows : rows[i].ac = ac} = kept
  <2>1. DOMAIN rows = 1..Cardinality(S) /\ \A i \in 1..Cardinality(S) : rows[i] \in S
    BY <1>1, Ordered DEF Lists
  <2> HIDE DEF rows
  <2>2. QED BY <1>2, <2>1
<1>12. Where(rows, LAMBDA n : n.ac = ac) = Kept(rows, {i \in DOMAIN rows : rows[i].ac = ac})
  BY DEF Where, Kept
<1>13. QED BY <1>6, <1>9, <1>10, <1>11, <1>12

\* A release's rows in a batch are those its own loaders read.
LEMMA BatchedRows ==
  ASSUME NEW d, IsMirror(d), NEW ids, NEW id \in ids
  PROVE  /\ Found(BatchReleaseGroups(d, ids), id) = ToSet(LoadReleaseGroup(d, id))
         /\ {e \in ToSet(BatchReleaseDates(d, ids)) : e.release = id} = ToSet(ReleaseDate(d, id))
         /\ Found(BatchReleaseStatuses(d, ids), id) = ToSet(LoadReleaseStatus(d, id))
         /\ Found(BatchReleaseComments(d, ids), id) = ToSet(LoadReleaseComment(d, id))
<1>1. IsFiniteSet(d.group) /\ IsFiniteSet(d.release) /\ IsFiniteSet(Dates(d))
  BY Mirrors
<1>2. \A S : IsFiniteSet(S) => ToSet(SetToSeq(S)) = S
  BY SetList
<1>3. ASSUME NEW S, IsFiniteSet(S), NEW T \in SUBSET S, NEW U \in SUBSET T
      PROVE  ToSet(SetToSeq(T)) = T /\ ToSet(SetToSeq(U)) = U
  BY <1>2, <1>3, FS_Subset
<1>4. Found(BatchReleaseGroups(d, ids), id) = ToSet(LoadReleaseGroup(d, id))
  <2> DEFINE T == Having(d.group, ids)
             U == {g \in d.group : g.id = id}
  <2>1. T \in SUBSET d.group /\ U \in SUBSET T /\ U = {g \in T : g.id = id}
    BY DEF Having
  <2> HIDE DEF T, U
  <2>2. ToSet(SetToSeq(T)) = T /\ ToSet(SetToSeq(U)) = U
    BY <1>1, <1>3, <2>1
  <2>3. QED BY <2>1, <2>2 DEF Found, BatchReleaseGroups, LoadReleaseGroup, T, U
<1>5. {e \in ToSet(BatchReleaseDates(d, ids)) : e.release = id} = ToSet(ReleaseDate(d, id))
  <2> DEFINE T == {e \in Dates(d) : e.release \in ids}
             U == {e \in Dates(d) : e.release = id}
  <2>1. T \in SUBSET Dates(d) /\ U \in SUBSET T /\ U = {e \in T : e.release = id}
    OBVIOUS
  <2> HIDE DEF T, U
  <2>2. ToSet(SetToSeq(T)) = T /\ ToSet(SetToSeq(U)) = U
    BY <1>1, <1>3, <2>1
  <2>3. QED BY <2>1, <2>2 DEF BatchReleaseDates, ReleaseDate, T, U
<1>6. Found(BatchReleaseStatuses(d, ids), id) = ToSet(LoadReleaseStatus(d, id))
  <2> DEFINE T == {r \in Having(d.release, ids) : r.status # {}}
             U == {r \in d.release : r.id = id /\ r.status # {}}
  <2>1. T \in SUBSET d.release /\ U \in SUBSET T /\ U = {r \in T : r.id = id}
    BY DEF Having
  <2> HIDE DEF T, U
  <2>2. ToSet(SetToSeq(T)) = T /\ ToSet(SetToSeq(U)) = U
    BY <1>1, <1>3, <2>1
  <2>3. QED BY <2>1, <2>2 DEF Found, BatchReleaseStatuses, LoadReleaseStatus, T, U
<1>7. Found(BatchReleaseComments(d, ids), id) = ToSet(LoadReleaseComment(d, id))
  <2> DEFINE T == Having(d.release, ids)
             U == {r \in d.release : r.id = id}
  <2>1. T \in SUBSET d.release /\ U \in SUBSET T /\ U = {r \in T : r.id = id}
    BY DEF Having
  <2> HIDE DEF T, U
  <2>2. ToSet(SetToSeq(T)) = T /\ ToSet(SetToSeq(U)) = U
    BY <1>1, <1>3, <2>1
  <2>3. QED BY <2>1, <2>2 DEF Found, BatchReleaseComments, LoadReleaseComment, T, U
<1>8. QED BY <1>4, <1>5, <1>6, <1>7

----------------------------------------------------------------------------
(* The parts of the releases of a request.                                 *)

\* The statements whose rows are releases, those that lead to them, and those that
\* have the parts of these releases.
RowNames(q) ==
  IF q.kind = "release"
  THEN {"SearchReleases", "SearchReleasesByArtist", "BrowseReleasesByArtist", "LookupRelease"}
  ELSE {"BatchRecordingReleases"}
Writers(q) == Leads(q) \union RowNames(q)
BatchParts ==
  { <<"BatchArtistCredits", "credit">>, <<"BatchReleaseGroups", "group">>, <<"BatchReleaseDates", "date">>,
    <<"BatchReleaseStatuses", "status">>, <<"BatchReleaseComments", "comment">> }
LoadParts ==
  { <<"LoadArtistCredit", "credit">>, <<"LoadReleaseGroup", "group">>, <<"ReleaseDate", "date">>,
    <<"LoadReleaseStatus", "status">>, <<"LoadReleaseComment", "comment">> }
Parts(q) == IF q.kind = "release" /\ q.act = "lookup" THEN LoadParts ELSE BatchParts
PartNames(q) == {p[1] : p \in Parts(q)}
Home(q) == IF q.kind = "release" THEN Page ELSE Releases
IsPart(q, s) == s.of = Home(q) /\ s.q \in PartNames(q)

\* The statement that has a part of some releases.
IdsFor(name, rows) ==
  CASE name \in {"BatchArtistCredits", "LoadArtistCredit"} -> Acs(rows)
    [] name \in {"BatchReleaseGroups", "LoadReleaseGroup"} -> {rows[i].group : i \in DOMAIN rows}
    [] OTHER -> Ids(rows)
Wanted(q, name, rows) == Statement(name, Home(q), IdsFor(name, rows))

\* A release put together from batches has each part (credit, release group, date,
\* status, comment) as its own loader reads it from the same version, whatever else the
\* batch is over (repo.rs, SHIB-17: the batched maps of assemble_release against the
\* row-by-row loaders of a lookup).
THEOREM AssembledPart ==
  ASSUME NEW rows, NEW row \in ToSet(rows), NEW x, IsRelease(row, x), NEW d, IsMirror(d),
         NEW of, NEW media, NEW name, NEW part, <<name, part>> \in BatchParts, NEW q,
         Got(name, of) = Select(d, q, Statement(name, of, IdsFor(name, rows)))
  PROVE  AssembleRelease(of, row, media)[part] = ReleaseIn(d, x)[part]
<1> DEFINE s == Statement(name, of, IdsFor(name, rows))
           item == AssembleRelease(of, row, media)
<1>1. row.ac \in Acs(rows) /\ row.id \in Ids(rows) /\ row.group \in {rows[i].group : i \in DOMAIN rows}
  BY DEF ToSet, Acs, Ids
<1>2. row.id = x.id /\ row.gid = x.gid /\ row.ac = x.ac /\ row.group = x.group
  BY DEF IsRelease
<1>3. s.q = name /\ s.ids = IdsFor(name, rows)
  BY DEF Statement
<1>4. CASE name = "BatchArtistCredits" /\ part = "credit"
  <2> DEFINE g == BatchArtistCredits(d, Acs(rows))
  <2>1. Got("BatchArtistCredits", of) = g
    BY <1>3, <1>4 DEF Select, IdsFor
  <2>2. CreditRows(of, row.ac) = Where(g, LAMBDA n : n.ac = row.ac)
    BY <2>1 DEF CreditRows
  <2>3. Where(g, LAMBDA n : n.ac = row.ac) = LoadArtistCredit(d, row.ac)
    BY <1>1, BatchedCredits
  <2>4. item.credit = BatchedCredit(of, row.ac)
    BY DEF AssembleRelease
  <2>5. BatchedCredit(of, row.ac) = Credits(LoadArtistCredit(d, row.ac), NoAliases)
    BY <2>2, <2>3 DEF BatchedCredit, Credits
  <2>6. ReleaseIn(d, x).credit = Credits(LoadArtistCredit(d, x.ac), NoAliases)
    BY DEF ReleaseIn, CreditIn, Credits
  <2>7. QED BY <1>2, <1>4, <2>4, <2>5, <2>6
<1>5. CASE name = "BatchReleaseGroups" /\ part = "group"
  <2>1. Got("BatchReleaseGroups", of) = BatchReleaseGroups(d, {rows[i].group : i \in DOMAIN rows})
    BY <1>3, <1>5 DEF Select, IdsFor
  <2>2. item.group = GroupOf(Found(Got("BatchReleaseGroups", of), row.group))
    BY DEF AssembleRelease
  <2>3. ReleaseIn(d, x).group = GroupOf(ToSet(LoadReleaseGroup(d, x.group)))
    BY DEF ReleaseIn
  <2>4. Found(Got("BatchReleaseGroups", of), row.group) = ToSet(LoadReleaseGroup(d, row.group))
    BY <1>1, <2>1, BatchedRows
  <2>5. QED BY <1>2, <1>5, <2>2, <2>3, <2>4
<1>6. CASE name = "BatchReleaseDates" /\ part = "date"
  <2>1. Got("BatchReleaseDates", of) = BatchReleaseDates(d, Ids(rows))
    BY <1>3, <1>6 DEF Select, IdsFor
  <2>2. item.date = SelectReleaseDate({e \in ToSet(Got("BatchReleaseDates", of)) : e.release = row.id})
    BY DEF AssembleRelease
  <2>3. ReleaseIn(d, x).date = SelectReleaseDate(ToSet(ReleaseDate(d, x.id)))
    BY DEF ReleaseIn
  <2>4. {e \in ToSet(Got("BatchReleaseDates", of)) : e.release = row.id} = ToSet(ReleaseDate(d, row.id))
    BY <1>1, <2>1, BatchedRows
  <2>5. QED BY <1>2, <1>6, <2>2, <2>3, <2>4
<1>7. CASE name = "BatchReleaseStatuses" /\ part = "status"
  <2>1. Got("BatchReleaseStatuses", of) = BatchReleaseStatuses(d, Ids(rows))
    BY <1>3, <1>7 DEF Select, IdsFor
  <2>2. item.status = UNION {r.status : r \in Found(Got("BatchReleaseStatuses", of), row.id)}
    BY DEF AssembleRelease
  <2>3. ReleaseIn(d, x).status = UNION {r.status : r \in ToSet(LoadReleaseStatus(d, x.id))}
    BY DEF ReleaseIn
  <2>4. Found(Got("BatchReleaseStatuses", of), row.id) = ToSet(LoadReleaseStatus(d, row.id))
    BY <1>1, <2>1, BatchedRows
  <2>5. QED BY <1>2, <1>7, <2>2, <2>3, <2>4
<1>8. CASE name = "BatchReleaseComments" /\ part = "comment"
  <2>1. Got("BatchReleaseComments", of) = BatchReleaseComments(d, Ids(rows))
    BY <1>3, <1>8 DEF Select, IdsFor
  <2>2. item.comment = NonEmpty({r.comment : r \in Found(Got("BatchReleaseComments", of), row.id)})
    BY DEF AssembleRelease
  <2>3. ReleaseIn(d, x).comment = NonEmpty({r.comment : r \in ToSet(LoadReleaseComment(d, x.id))})
    BY DEF ReleaseIn
  <2>4. Found(Got("BatchReleaseComments", of), row.id) = ToSet(LoadReleaseComment(d, row.id))
    BY <1>1, <2>1, BatchedRows
  <2>5. QED BY <1>2, <1>8, <2>2, <2>3, <2>4
<1>9. QED BY <1>4, <1>5, <1>6, <1>7, <1>8 DEF BatchParts

\* A release that is looked up has each part as its loader reads it.
LEMMA LookedUpPart ==
  ASSUME NEW rows, NEW row \in ToSet(rows), \A r \in ToSet(rows) : r = row,
         NEW x, IsRelease(row, x), NEW d,
         NEW name, NEW part, <<name, part>> \in LoadParts, NEW q,
         Got(name, Page) = Select(d, q, Statement(name, Page, IdsFor(name, rows)))
  PROVE  LookedUpRelease(row)[part] = ReleaseIn(d, x)[part]
<1> DEFINE s == Statement(name, Page, IdsFor(name, rows))
           item == LookedUpRelease(row)
           id == CHOOSE y \in s.ids : TRUE
<1>1. /\ Acs(rows) = {row.ac} /\ Ids(rows) = {row.id} /\ {rows[i].group : i \in DOMAIN rows} = {row.group}
  BY DEF ToSet, Acs, Ids
<1>2. row.id = x.id /\ row.gid = x.gid /\ row.ac = x.ac /\ row.group = x.group
  BY DEF IsRelease
<1>3. s.q = name /\ s.ids = IdsFor(name, rows)
  BY DEF Statement
<1>4. CASE name = "LoadArtistCredit" /\ part = "credit"
  <2>1. s.ids = {row.ac}
    BY <1>1, <1>3, <1>4 DEF IdsFor
  <2>2. id = row.ac
    BY <2>1
  <2>3. Got("LoadArtistCredit", Page) = LoadArtistCredit(d, row.ac)
    BY <1>3, <1>4, <2>2 DEF Select
  <2>4. item.credit = Credits(LoadArtistCredit(d, row.ac), NoAliases)
    BY <2>3 DEF LookedUpRelease, Credits
  <2>5. ReleaseIn(d, x).credit = Credits(LoadArtistCredit(d, x.ac), NoAliases)
    BY DEF ReleaseIn, CreditIn, Credits
  <2>6. QED BY <1>2, <1>4, <2>4, <2>5
<1>5. CASE name = "LoadReleaseGroup" /\ part = "group"
  <2>1. s.ids = {row.group}
    BY <1>1, <1>3, <1>5 DEF IdsFor
  <2>2. id = row.group
    BY <2>1
  <2>3. Got("LoadReleaseGroup", Page) = LoadReleaseGroup(d, row.group)
    BY <1>3, <1>5, <2>2 DEF Select
  <2>4. item.group = GroupOf(ToSet(LoadReleaseGroup(d, row.group)))
    BY <2>3 DEF LookedUpRelease
  <2>5. ReleaseIn(d, x).group = GroupOf(ToSet(LoadReleaseGroup(d, x.group)))
    BY DEF ReleaseIn
  <2>6. QED BY <1>2, <1>5, <2>4, <2>5
<1>6. CASE name = "ReleaseDate" /\ part = "date"
  <2>1. s.ids = {row.id}
    BY <1>1, <1>3, <1>6 DEF IdsFor
  <2>2. id = row.id
    BY <2>1
  <2>3. Got("ReleaseDate", Page) = ReleaseDate(d, row.id)
    BY <1>3, <1>6, <2>2 DEF Select
  <2>4. item.date = SelectReleaseDate(ToSet(ReleaseDate(d, row.id)))
    BY <2>3 DEF LookedUpRelease
  <2>5. ReleaseIn(d, x).date = SelectReleaseDate(ToSet(ReleaseDate(d, x.id)))
    BY DEF ReleaseIn
  <2>6. QED BY <1>2, <1>6, <2>4, <2>5
<1>7. CASE name = "LoadReleaseStatus" /\ part = "status"
  <2>1. s.ids = {row.id}
    BY <1>1, <1>3, <1>7 DEF IdsFor
  <2>2. id = row.id
    BY <2>1
  <2>3. Got("LoadReleaseStatus", Page) = LoadReleaseStatus(d, row.id)
    BY <1>3, <1>7, <2>2 DEF Select
  <2>4. item.status = UNION {r.status : r \in ToSet(LoadReleaseStatus(d, row.id))}
    BY <2>3 DEF LookedUpRelease
  <2>5. ReleaseIn(d, x).status = UNION {r.status : r \in ToSet(LoadReleaseStatus(d, x.id))}
    BY DEF ReleaseIn
  <2>6. QED BY <1>2, <1>7, <2>4, <2>5
<1>8. CASE name = "LoadReleaseComment" /\ part = "comment"
  <2>1. s.ids = {row.id}
    BY <1>1, <1>3, <1>8 DEF IdsFor
  <2>2. id = row.id
    BY <2>1
  <2>3. Got("LoadReleaseComment", Page) = LoadReleaseComment(d, row.id)
    BY <1>3, <1>8, <2>2 DEF Select
  <2>4. item.comment = NonEmpty({r.comment : r \in ToSet(LoadReleaseComment(d, row.id))})
    BY <2>3 DEF LookedUpRelease
  <2>5. ReleaseIn(d, x).comment = NonEmpty({r.comment : r \in ToSet(LoadReleaseComment(d, x.id))})
    BY DEF ReleaseIn
  <2>6. QED BY <1>2, <1>8, <2>4, <2>5
<1>9. QED BY <1>4, <1>5, <1>6, <1>7, <1>8 DEF LoadParts

\* The tracks of a medium are a list, with gids that are numbers above 0.
LEMMA TracksNumbered ==
  ASSUME NEW d, IsMirror(d), NEW medium
  PROVE  IsList(LoadTracks(d, medium)) /\ \A t \in ToSet(LoadTracks(d, medium)) : t.gid > 0
<1> DEFINE S == {t \in d.track : t.medium = medium /\ Having(d.recording, {t.recording}) # {}}
           key == [t \in S |-> <<t.position>>]
<1>1. IsFiniteSet(S)
  BY Mirrors, FS_Subset
<1>2. \A t \in S : t.position \in Int /\ t.gid > 0
  BY Mirrors
<1>3. \A t, u \in S : t.position = u.position => t = u
  BY Mirrors
<1>4. LoadTracks(d, medium) = OrderBy(S, key)
  BY DEF LoadTracks, ByPosition
<1> HIDE DEF S
<1>5. \A t \in S : key[t] \in [1..1 -> Int] /\ key[t][1] = t.position
  BY <1>2
<1>6. \A t, u \in S : key[t] = key[u] => t = u
  BY <1>3, <1>5
<1> HIDE DEF key
<1>7. Linear(S, key)
  BY <1>1, <1>5, <1>6, KeysOrder
<1>8. QED BY <1>2, <1>4, <1>7, OrderedList

\* The releases of some recordings are releases.
LEMMA RecordingReleases ==
  ASSUME NEW d, IsMirror(d), NEW ids
  PROVE  IsList(BatchRecordingReleases(d, ids)) /\ AreReleases(BatchRecordingReleases(d, ids), d)
<1> DEFINE tracks == {t \in d.track : t.recording \in ids /\ Having(d.medium, {t.medium}) # {}}
           at == [t \in tracks |-> Placed(d, t)]
           placed == {p \in PlacedTracks(d, ids) : Having(d.release, {p.release}) # {}}
           row == [p \in placed |->
                      With(ReleaseRow(d, TheRow(d.release, p.release), 0), "recording", p.recording)]
           rows == {row[p] : p \in placed}
           key == [r \in rows |-> <<r.recording, r.id>>]
<1>1. IsFiniteSet(rows)
  <2>1. PlacedTracks(d, ids) = {at[t] : t \in DOMAIN at}
    BY DEF PlacedTracks
  <2>2. IsFiniteSet(DOMAIN at)
    BY Mirrors, FS_Subset
  <2> HIDE DEF at
  <2>3. IsFiniteSet(PlacedTracks(d, ids))
    BY <2>1, <2>2, FiniteImage
  <2>4. IsFiniteSet(placed) /\ DOMAIN row = placed
    BY <2>3, FS_Subset
  <2> HIDE DEF row, placed
  <2>5. QED BY <2>4, FiniteImage
<1>2. \A p \in placed : p.recording \in Int
  <2> TAKE p \in placed
  <2>1. PICK t \in d.track : p = Placed(d, t)
    BY DEF PlacedTracks
  <2>2. p.recording = t.recording
    BY <2>1 DEF Placed
  <2>3. QED BY <2>2, Mirrors
<1>3. ASSUME NEW p \in placed
      PROVE  LET x == TheRow(d.release, p.release)
             IN  /\ x \in d.release /\ x.id = p.release
                 /\ row[p].id = p.release /\ row[p].recording = p.recording /\ IsRelease(row[p], x)
  <2> DEFINE x == TheRow(d.release, p.release)
  <2>1. \E y \in d.release : y.id = p.release
    BY DEF Having
  <2>2. x \in d.release /\ x.id = p.release
    BY <2>1 DEF TheRow
  <2> HIDE DEF x
  <2>3. row[p] = With(ReleaseRow(d, x, 0), "recording", p.recording)
    BY DEF x
  <2> HIDE DEF row
  <2>4. row[p].id = x.id /\ row[p].recording = p.recording /\ IsRelease(row[p], x)
    BY <2>3 DEF With, ReleaseRow, IsRelease
  <2>5. QED BY <2>2, <2>4 DEF x
<1>4. BatchRecordingReleases(d, ids) = OrderBy(rows, key)
  BY DEF BatchRecordingReleases
<1>5. \A r \in rows : r.recording \in Int /\ r.id \in Int /\ \E x \in d.release : IsRelease(r, x)
  <2> TAKE r \in rows
  <2>1. PICK p \in placed : r = row[p]
    OBVIOUS
  <2>2. TheRow(d.release, p.release).id \in Int
    BY <1>3, Mirrors
  <2> HIDE DEF row, placed
  <2>3. QED BY <1>2, <1>3, <2>1, <2>2
<1>6. \A r, s \in rows : r.recording = s.recording /\ r.id = s.id => r = s
  <2> TAKE r, s \in rows
  <2>1. PICK p \in placed : r = row[p]
    OBVIOUS
  <2>2. PICK o \in placed : s = row[o]
    OBVIOUS
  <2>3. row[p] = With(ReleaseRow(d, TheRow(d.release, p.release), 0), "recording", p.recording)
        /\ row[o] = With(ReleaseRow(d, TheRow(d.release, o.release), 0), "recording", o.recording)
    OBVIOUS
  <2> HIDE DEF row, placed
  <2>4. r.recording = s.recording /\ r.id = s.id => p.recording = o.recording /\ p.release = o.release
    BY <1>3, <2>1, <2>2
  <2>5. QED BY <2>1, <2>2, <2>3, <2>4
<1> HIDE DEF rows, row, placed
<1>7. \A r \in rows : key[r] \in [1..2 -> Int] /\ key[r][1] = r.recording /\ key[r][2] = r.id
  BY <1>5
<1>8. \A r, s \in rows : key[r] = key[s] => r = s
  BY <1>6, <1>7
<1> HIDE DEF key
<1>9. Linear(rows, key)
  BY <1>1, <1>7, <1>8, KeysOrder
<1>10. QED BY <1>4, <1>5, <1>9, OrderedList DEF AreReleases

\* At most one row has a gid.
LEMMA OneRelease ==
  ASSUME NEW d, IsMirror(d), NEW gid
  PROVE  LET rows == ByGid(d.release, d.redirect, gid)
         IN  IsList(rows) /\ \A r, s \in ToSet(rows) : r = s
<1> DEFINE S == Known(d.release, d.redirect, gid)
<1>1. \A r, s \in S : r = s
  <2>1. CASE {r \in d.release : r.gid = gid} # {}
    BY <2>1, Mirrors DEF Known
  <2>2. CASE {r \in d.release : r.gid = gid} = {}
    <3>1. S = Having(d.release, {x.new : x \in {y \in d.redirect : y.gid = gid}})
      BY <2>2 DEF Known
    <3>2. \A x, y \in d.redirect : x.gid = y.gid => x = y
      BY Mirrors
    <3>3. \A r, s \in d.release : r.id = s.id => r = s
      BY Mirrors
    <3>4. QED BY <3>1, <3>2, <3>3 DEF Having
  <2>3. QED BY <2>1, <2>2
<1>2. QED BY <1>1, Mirrors, ByGidPage DEF IsPage

----------------------------------------------------------------------------
(* The order statements wait in.                                           *)

\* Of some statements only the last may be one of these.
LastOnly(f, names) == \A i \in DOMAIN f : f[i].q \in names => i = Len(f)

\* After statements none of which is one of these, the last may still be.
LEMMA LastGlued ==
  ASSUME NEW f, NEW g, IsList(f), IsList(g), NEW names,
         \A s \in ToSet(f) : s.q \notin names, LastOnly(g, names)
  PROVE  LastOnly(f \o g, names)
<1> SUFFICES ASSUME NEW i \in DOMAIN (f \o g), (f \o g)[i].q \in names PROVE i = Len(f \o g)
  BY DEF LastOnly
<1>1. /\ Len(f) \in Nat /\ Len(g) \in Nat /\ DOMAIN f = 1..Len(f) /\ DOMAIN g = 1..Len(g)
      /\ f \in Seq(ToSet(f)) /\ g \in Seq(ToSet(g))
  BY ListFacts DEF IsList
<1>2. /\ Len(f \o g) = Len(f) + Len(g) /\ DOMAIN (f \o g) = 1..(Len(f) + Len(g))
      /\ (f \o g)[i] = IF i <= Len(f) THEN f[i] ELSE g[i - Len(f)]
  BY <1>1
<1>3. CASE i <= Len(f)
  BY <1>1, <1>2, <1>3 DEF ToSet
<1>4. CASE ~(i <= Len(f))
  <2>1. i - Len(f) \in DOMAIN g /\ g[i - Len(f)].q \in names
    BY <1>1, <1>2, <1>4
  <2>2. i - Len(f) = Len(g)
    BY <2>1 DEF LastOnly
  <2>3. QED BY <1>1, <1>2, <2>2
<1>5. QED BY <1>3, <1>4

\* When the first is one of these, it is the only one.
LEMMA LastTail ==
  ASSUME NEW f, IsList(f), f # <<>>, NEW names, LastOnly(f, names)
  PROVE  /\ LastOnly(Tail(f), names)
         /\ Head(f).q \in names => Tail(f) = <<>> /\ ToSet(Tail(f)) = {}
<1>1. Len(f) \in Nat /\ DOMAIN f = 1..Len(f) /\ f \in Seq(ToSet(f)) /\ Len(f) # 0
  BY ListFacts DEF IsList
<1>2. /\ Len(Tail(f)) = Len(f) - 1 /\ DOMAIN Tail(f) = 1..(Len(f) - 1)
      /\ \A i \in 1..(Len(f) - 1) : Tail(f)[i] = f[i + 1]
  BY <1>1
<1>3. LastOnly(Tail(f), names)
  <2> SUFFICES ASSUME NEW i \in 1..(Len(f) - 1), f[i + 1].q \in names PROVE i = Len(f) - 1
    BY <1>2 DEF LastOnly
  <2>1. i + 1 \in DOMAIN f
    BY <1>1
  <2>2. i + 1 = Len(f)
    BY <2>1 DEF LastOnly
  <2>3. i \in Int /\ Len(f) \in Int
    BY <1>1
  <2>4. QED BY <2>2, <2>3
<1>4. Head(f).q \in names => Tail(f) = <<>>
  <2>1. Head(f) = f[1] /\ 1 \in DOMAIN f
    BY <1>1
  <2>2. Head(f).q \in names => Len(f) = 1
    BY <2>1 DEF LastOnly
  <2>3. Tail(f) # <<>> => 1 \in DOMAIN Tail(f)
    BY Tailed, ListFacts
  <2>4. QED BY <1>1, <1>2, <2>2, <2>3
<1>5. QED BY <1>3, <1>4, Nothing

\* Of one statement or none it is so.
LEMMA LastOne ==
  ASSUME NEW s, NEW names
  PROVE  LastOnly(<<s>>, names) /\ LastOnly(<<>>, names)
BY DEF LastOnly

----------------------------------------------------------------------------
(* What follows a statement: the parts of releases once there are releases. *)

\* A batch is one statement, unless it is over no ids.
LEMMA BatchOf ==
  ASSUME NEW name, NEW of, NEW ids
  PROVE  /\ IsList(Batch(name, of, ids))
         /\ \A s \in ToSet(Batch(name, of, ids)) : s = Statement(name, of, ids)
         /\ ids # {} => Statement(name, of, ids) \in ToSet(Batch(name, of, ids))
BY OneOnly, Nothing DEF Batch

\* The statements that have the parts of some releases, and their track counts.
PartsAsked(of, rows) ==
  {Statement(p[1], of, IdsFor(p[1], rows)) : p \in BatchParts}
    \union {Statement("BatchReleaseTrackCounts", of, Ids(rows))}

\* The statements that follow releases have their parts, all of them if there are releases.
LEMMA ReleasePartsAre ==
  ASSUME NEW of, NEW rows
  PROVE  /\ ToSet(ReleaseParts(of, rows)) \subseteq PartsAsked(of, rows)
         /\ IsList(rows) /\ rows # <<>> =>
              \A p \in BatchParts : Statement(p[1], of, IdsFor(p[1], rows)) \in ToSet(ReleaseParts(of, rows))
<1> DEFINE groups == {rows[i].group : i \in DOMAIN rows}
           a == Batch("BatchArtistCredits", of, Acs(rows))
           b == Batch("BatchReleaseGroups", of, groups)
           c == Batch("BatchReleaseDates", of, Ids(rows))
           e == Batch("BatchReleaseStatuses", of, Ids(rows))
           f == Batch("BatchReleaseComments", of, Ids(rows))
           g == Batch("BatchReleaseTrackCounts", of, Ids(rows))
           all == ToSet(a) \union ToSet(b) \union ToSet(c) \union ToSet(e) \union ToSet(f) \union ToSet(g)
<1>1. ReleaseParts(of, rows) = ((((a \o b) \o c) \o e) \o f) \o g
  BY DEF ReleaseParts
<1>2. IsList(a) /\ IsList(b) /\ IsList(c) /\ IsList(e) /\ IsList(f) /\ IsList(g)
  BY BatchOf
<1>3. /\ \A s \in ToSet(a) : s = Statement("BatchArtistCredits", of, Acs(rows))
      /\ \A s \in ToSet(b) : s = Statement("BatchReleaseGroups", of, groups)
      /\ \A s \in ToSet(c) : s = Statement("BatchReleaseDates", of, Ids(rows))
      /\ \A s \in ToSet(e) : s = Statement("BatchReleaseStatuses", of, Ids(rows))
      /\ \A s \in ToSet(f) : s = Statement("BatchReleaseComments", of, Ids(rows))
      /\ \A s \in ToSet(g) : s = Statement("BatchReleaseTrackCounts", of, Ids(rows))
  BY BatchOf
<1>4. ASSUME IsList(rows), rows # <<>>
      PROVE  /\ Statement("BatchArtistCredits", of, Acs(rows)) \in ToSet(a)
             /\ Statement("BatchReleaseGroups", of, groups) \in ToSet(b)
             /\ Statement("BatchReleaseDates", of, Ids(rows)) \in ToSet(c)
             /\ Statement("BatchReleaseStatuses", of, Ids(rows)) \in ToSet(e)
             /\ Statement("BatchReleaseComments", of, Ids(rows)) \in ToSet(f)
  <2>1. 1 \in DOMAIN rows
    BY <1>4, ListFacts
  <2>2. Acs(rows) # {} /\ Ids(rows) # {} /\ groups # {}
    BY <2>1 DEF Acs, Ids
  <2>3. QED BY <2>2, BatchOf
<1>5. /\ IdsFor("BatchArtistCredits", rows) = Acs(rows) /\ IdsFor("BatchReleaseGroups", rows) = groups
      /\ IdsFor("BatchReleaseDates", rows) = Ids(rows) /\ IdsFor("BatchReleaseStatuses", rows) = Ids(rows)
      /\ IdsFor("BatchReleaseComments", rows) = Ids(rows)
  BY DEF IdsFor
<1> HIDE DEF a, b, c, e, f, g, groups
<1>6. ToSet(ReleaseParts(of, rows)) = all
  <2>1. IsList(a \o b) /\ ToSet(a \o b) = ToSet(a) \union ToSet(b)
    BY <1>2, Glued
  <2>2. IsList((a \o b) \o c) /\ ToSet((a \o b) \o c) = ToSet(a \o b) \union ToSet(c)
    BY <1>2, <2>1, Glued
  <2>3. IsList(((a \o b) \o c) \o e) /\ ToSet(((a \o b) \o c) \o e) = ToSet((a \o b) \o c) \union ToSet(e)
    BY <1>2, <2>2, Glued
  <2>4. /\ IsList((((a \o b) \o c) \o e) \o f)
        /\ ToSet((((a \o b) \o c) \o e) \o f) = ToSet(((a \o b) \o c) \o e) \union ToSet(f)
    BY <1>2, <2>3, Glued
  <2>5. ToSet(ReleaseParts(of, rows)) = ToSet((((a \o b) \o c) \o e) \o f) \union ToSet(g)
    BY <1>1, <1>2, <2>4, Glued
  <2>6. QED BY <2>1, <2>2, <2>3, <2>4, <2>5
<1>7. ToSet(ReleaseParts(of, rows)) \subseteq PartsAsked(of, rows)
  BY <1>3, <1>5, <1>6 DEF PartsAsked, BatchParts
<1>8. ASSUME IsList(rows), rows # <<>>, NEW p \in BatchParts
      PROVE  Statement(p[1], of, IdsFor(p[1], rows)) \in ToSet(ReleaseParts(of, rows))
  <2>1. /\ ToSet(a) \subseteq all /\ ToSet(b) \subseteq all /\ ToSet(c) \subseteq all
        /\ ToSet(e) \subseteq all /\ ToSet(f) \subseteq all
    OBVIOUS
  <2>2. CASE p[1] = "BatchArtistCredits"
    BY <1>4, <1>5, <1>6, <1>8, <2>1, <2>2
  <2>3. CASE p[1] = "BatchReleaseGroups"
    BY <1>4, <1>5, <1>6, <1>8, <2>1, <2>3
  <2>4. CASE p[1] = "BatchReleaseDates"
    BY <1>4, <1>5, <1>6, <1>8, <2>1, <2>4
  <2>5. CASE p[1] = "BatchReleaseStatuses"
    BY <1>4, <1>5, <1>6, <1>8, <2>1, <2>5
  <2>6. CASE p[1] = "BatchReleaseComments"
    BY <1>4, <1>5, <1>6, <1>8, <2>1, <2>6
  <2>7. QED BY <2>2, <2>3, <2>4, <2>5, <2>6 DEF BatchParts
<1>9. QED BY <1>7, <1>8

IsRelating(q) == IsRequest(q) /\ q.kind \in {"release", "recording"}

\* Neither leads to releases nor is a part of theirs.
IsAside(q, s) == s.q \notin Writers(q) /\ ~IsPart(q, s) /\ s.q # "LoadReleaseGroupReleases"

\* Statements with parts are none of those that lead to releases.
LEMMA NamesApart ==
  ASSUME NEW q, IsRelating(q)
  PROVE  /\ Writers(q) \subseteq Lead \union {"BatchRecordingReleases"}
         /\ PartNames(q) \intersect Writers(q) = {}
         /\ PartNames(q) \intersect (Lead \union {"BatchRecordingReleases", "BatchRecordingMedia",
              "BatchArtistAliases", "LoadArtistAliases", "LoadTracks", "LoadMedia", "LoadReleaseRelations",
              "BatchReleaseTrackCounts", "LoadReleaseGroupReleases"}) = {}
         /\ Home(q) \in {Page, Releases}
         /\ q.kind = "recording" => PartNames(q) = {p[1] : p \in BatchParts} /\ Home(q) = Releases
         /\ q.kind = "release" => Home(q) = Page /\ "BatchRecordingReleases" \notin Writers(q)
<1>1. Writers(q) \subseteq Lead \union {"BatchRecordingReleases"}
  BY RoutesAre DEF IsRelating, Writers, Leads, Lead, Lookups, Preludes, RowNames
<1>2. PartNames(q) \subseteq {"BatchArtistCredits", "BatchReleaseGroups", "BatchReleaseDates",
        "BatchReleaseStatuses", "BatchReleaseComments", "LoadArtistCredit", "LoadReleaseGroup", "ReleaseDate",
        "LoadReleaseStatus", "LoadReleaseComment"}
  BY DEF PartNames, Parts, BatchParts, LoadParts
<1>3. Home(q) \in {Page, Releases}
  BY DEF Home
<1>4. q.kind = "recording" => PartNames(q) = {p[1] : p \in BatchParts} /\ Home(q) = Releases
  BY DEF PartNames, Parts, Home
<1>5. q.kind = "release" => Home(q) = Page /\ "BatchRecordingReleases" \notin Writers(q)
  BY RoutesAre DEF IsRelating, Writers, Leads, RowNames, Home
<1>6. QED BY <1>1, <1>2, <1>3, <1>4, <1>5 DEF Lead, Lookups, Preludes

\* Releases are followed by all of their parts.
LEMMA FollowReleases ==
  ASSUME NEW q, IsRelating(q), NEW s, s.q \in RowNames(q), q.kind = "release" => s.q \in Leads(q),
         NEW rows, IsList(rows), q.act = "lookup" /\ q.kind = "release" => \A r, t \in ToSet(rows) : r = t
  PROVE  /\ \A t \in ToSet(Follow(q, s, rows)) :
              /\ t.q \notin Writers(q) /\ t.q # "LoadReleaseGroupReleases"
              /\ IsPart(q, t) => t = Wanted(q, t.q, rows)
         /\ rows # <<>> => \A name \in PartNames(q) : Wanted(q, name, rows) \in ToSet(Follow(q, s, rows))
<1> DEFINE F == Follow(q, s, rows)
<1>1. ASSUME NEW of, of = Home(q), Parts(q) = BatchParts, NEW a, IsList(a), F = a \o ReleaseParts(of, rows),
             \A t \in ToSet(a) : t.q = "BatchRecordingMedia"
      PROVE  /\ \A t \in ToSet(F) :
                  /\ t.q \notin Writers(q) /\ t.q # "LoadReleaseGroupReleases"
                  /\ IsPart(q, t) => t = Wanted(q, t.q, rows)
             /\ rows # <<>> => \A name \in PartNames(q) : Wanted(q, name, rows) \in ToSet(F)
  <2>1. IsList(ReleaseParts(of, rows))
    BY ReleasePartsHydrate DEF Hydrate
  <2>2. ToSet(F) = ToSet(a) \union ToSet(ReleaseParts(of, rows))
    BY <1>1, <2>1, Glued
  <2> HIDE DEF F
  <2>3. ASSUME NEW t \in ToSet(F)
        PROVE  /\ t.q \notin Writers(q) /\ t.q # "LoadReleaseGroupReleases"
               /\ IsPart(q, t) => t = Wanted(q, t.q, rows)
    <3>1. CASE t \in ToSet(a)
      <4>1. t.q = "BatchRecordingMedia"
        BY <1>1, <3>1
      <4>2. "BatchRecordingMedia" \notin PartNames(q)
        BY NamesApart
      <4>3. "BatchRecordingMedia" \notin Writers(q)
        BY NamesApart DEF Lead, Lookups, Preludes
      <4>4. QED BY <4>1, <4>2, <4>3 DEF IsPart
    <3>2. CASE t \in ToSet(ReleaseParts(of, rows))
      <4>1. t \in PartsAsked(of, rows)
        BY <3>2, ReleasePartsAre
      <4>2. CASE t = Statement("BatchReleaseTrackCounts", of, Ids(rows))
        <5>1. t.q = "BatchReleaseTrackCounts"
          BY <4>2 DEF Statement
        <5>2. "BatchReleaseTrackCounts" \notin PartNames(q)
          BY NamesApart
        <5>3. "BatchReleaseTrackCounts" \notin Writers(q)
          BY NamesApart DEF Lead, Lookups, Preludes
        <5>4. QED BY <5>1, <5>2, <5>3 DEF IsPart
      <4>3. CASE \E p \in BatchParts : t = Statement(p[1], of, IdsFor(p[1], rows))
        <5>1. PICK p \in BatchParts : t = Statement(p[1], of, IdsFor(p[1], rows))
          BY <4>3
        <5>2. t.q = p[1]
          BY <5>1 DEF Statement
        <5>3. p[1] \in PartNames(q)
          BY <1>1 DEF PartNames
        <5>4. p[1] \notin Writers(q) /\ p[1] # "LoadReleaseGroupReleases"
          BY <5>3, NamesApart
        <5>5. t = Wanted(q, p[1], rows)
          BY <1>1, <5>1 DEF Wanted
        <5>6. QED BY <5>2, <5>4, <5>5
      <4>4. QED BY <4>1, <4>2, <4>3 DEF PartsAsked
    <3>3. QED BY <2>2, <3>1, <3>2
  <2>4. ASSUME rows # <<>>, NEW name \in PartNames(q)
        PROVE  Wanted(q, name, rows) \in ToSet(F)
    <3>1. PICK p \in BatchParts : name = p[1]
      BY <1>1 DEF PartNames
    <3>2. Statement(p[1], of, IdsFor(p[1], rows)) \in ToSet(ReleaseParts(of, rows))
      BY <2>4, ReleasePartsAre
    <3>3. QED BY <1>1, <2>2, <3>1, <3>2 DEF Wanted
  <2>5. QED BY <2>3, <2>4
<1>2. CASE q.kind = "release" /\ q.act # "lookup"
  <2>1. s.q \in {"SearchReleases", "SearchReleasesByArtist", "BrowseReleasesByArtist"}
    BY <1>2, RoutesAre DEF IsRelating, RowNames, Leads
  <2>2. F = ReleaseParts(Page, rows)
    BY <2>1 DEF Follow
  <2>3. F = <<>> \o ReleaseParts(Page, rows)
    <3>1. ReleaseParts(Page, rows) \in Seq(ToSet(ReleaseParts(Page, rows)))
      BY ReleasePartsHydrate DEF Hydrate, IsList
    <3>2. QED BY <2>2, <3>1
  <2>4. Home(q) = Page /\ Parts(q) = BatchParts
    BY <1>2 DEF Home, Parts
  <2> HIDE DEF F
  <2>5. QED BY <1>1, <2>3, <2>4, Nothing DEF F
<1>3. CASE q.kind = "recording"
  <2> DEFINE a == IF q.act = "search" THEN Batch("BatchRecordingMedia", Page, s.ids) ELSE <<>>
  <2>1. s.q = "BatchRecordingReleases"
    BY <1>3 DEF RowNames
  <2>2. F = a \o ReleaseParts(Releases, rows)
    BY <2>1 DEF Follow
  <2>3. IsList(a) /\ \A t \in ToSet(a) : t.q = "BatchRecordingMedia"
    <3>1. CASE q.act = "search"
      <4>1. \A t \in ToSet(a) : t = Statement("BatchRecordingMedia", Page, s.ids)
        BY <3>1, BatchOf
      <4>2. IsList(a)
        BY <3>1, BatchOf
      <4> HIDE DEF a
      <4>3. Statement("BatchRecordingMedia", Page, s.ids).q = "BatchRecordingMedia"
        BY DEF Statement
      <4>4. QED BY <4>1, <4>2, <4>3
    <3>2. CASE q.act # "search"
      BY <3>2, Nothing
    <3>3. QED BY <3>1, <3>2
  <2>4. Home(q) = Releases /\ Parts(q) = BatchParts
    BY <1>3 DEF Home, Parts
  <2> HIDE DEF F, a
  <2>5. QED BY <1>1, <2>2, <2>3, <2>4 DEF F
<1>4. CASE q.kind = "release" /\ q.act = "lookup"
  <2>1. s.q = "LookupRelease"
    BY <1>4, RoutesAre DEF IsRelating, RowNames, Leads
  <2>2. CASE rows = <<>>
    <3>1. F = <<>>
      BY <2>1, <2>2 DEF Follow
    <3>2. QED BY <2>2, <3>1, Nothing
  <2>3. CASE rows # <<>>
    <3> DEFINE row == rows[1]
               f == << Statement("LoadArtistCredit", Page, {row.ac}),
                       Statement("LoadReleaseGroup", Page, {row.group}),
                       Statement("ReleaseDate", Page, {row.id}),
                       Statement("LoadReleaseStatus", Page, {row.id}),
                       Statement("LoadReleaseComment", Page, {row.id}),
                       Statement("LoadMedia", Page, {row.id}),
                       Statement("LoadReleaseRelations", Page, {row.id}) >>
    <3>1. F = f
      BY <1>4, <2>1, <2>3 DEF Follow, LookupParts
    <3>2. 1 \in DOMAIN rows /\ \A i \in DOMAIN rows : rows[i] = row
      BY <1>4, <2>3, ListFacts DEF ToSet
    <3>3. Acs(rows) = {row.ac} /\ Ids(rows) = {row.id} /\ {rows[i].group : i \in DOMAIN rows} = {row.group}
      <4> HIDE DEF row
      <4> QED BY <3>2 DEF Acs, Ids
    <3>4. Parts(q) = LoadParts /\ Home(q) = Page
      BY <1>4 DEF Parts, Home
    <3>5. /\ Wanted(q, "LoadArtistCredit", rows) = Statement("LoadArtistCredit", Page, {row.ac})
          /\ Wanted(q, "LoadReleaseGroup", rows) = Statement("LoadReleaseGroup", Page, {row.group})
          /\ Wanted(q, "ReleaseDate", rows) = Statement("ReleaseDate", Page, {row.id})
          /\ Wanted(q, "LoadReleaseStatus", rows) = Statement("LoadReleaseStatus", Page, {row.id})
          /\ Wanted(q, "LoadReleaseComment", rows) = Statement("LoadReleaseComment", Page, {row.id})
      <4> HIDE DEF row
      <4> QED BY <3>3, <3>4 DEF Wanted, IdsFor
    <3> HIDE DEF row
    <3>6. ToSet(f) = {f[1], f[2], f[3], f[4], f[5], f[6], f[7]}
      BY DEF ToSet
    <3>7. ASSUME NEW t \in ToSet(f)
          PROVE  /\ t.q \notin Writers(q) /\ t.q # "LoadReleaseGroupReleases"
                 /\ IsPart(q, t) => t = Wanted(q, t.q, rows)
      <4>1. CASE t \in {f[6], f[7]}
        <5>1. t.q \in {"LoadMedia", "LoadReleaseRelations"}
          BY <4>1 DEF Statement
        <5>2. t.q \notin PartNames(q)
          BY <5>1, NamesApart
        <5>3. t.q \notin Writers(q)
          BY <5>1, NamesApart DEF Lead, Lookups, Preludes
        <5>4. QED BY <5>1, <5>2, <5>3 DEF IsPart
      <4>2. CASE t \notin {f[6], f[7]}
        <5>1. /\ f[1].q = "LoadArtistCredit" /\ f[2].q = "LoadReleaseGroup" /\ f[3].q = "ReleaseDate"
              /\ f[4].q = "LoadReleaseStatus" /\ f[5].q = "LoadReleaseComment"
          BY DEF Statement
        <5>2. t = Wanted(q, t.q, rows)
          BY <3>5, <3>6, <4>2, <5>1
        <5>3. t.q \in PartNames(q)
          <6>1. t.q \in {"LoadArtistCredit", "LoadReleaseGroup", "ReleaseDate", "LoadReleaseStatus",
                         "LoadReleaseComment"}
            BY <3>6, <4>2, <5>1
          <6>2. PartNames(q) = {p[1] : p \in LoadParts}
            BY <3>4 DEF PartNames
          <6>3. {"LoadArtistCredit", "LoadReleaseGroup", "ReleaseDate", "LoadReleaseStatus",
                 "LoadReleaseComment"} \subseteq {p[1] : p \in LoadParts}
            BY DEF LoadParts
          <6>4. QED BY <6>1, <6>2, <6>3
        <5>4. t.q \notin Writers(q) /\ t.q # "LoadReleaseGroupReleases"
          BY <5>3, NamesApart
        <5>5. QED BY <5>2, <5>4
      <4>3. QED BY <4>1, <4>2
    <3>8. ASSUME NEW name \in PartNames(q) PROVE Wanted(q, name, rows) \in ToSet(f)
      <4>1. name \in {"LoadArtistCredit", "LoadReleaseGroup", "ReleaseDate", "LoadReleaseStatus",
                      "LoadReleaseComment"}
        BY <3>4 DEF PartNames, LoadParts
      <4>2. QED BY <3>5, <3>6, <4>1
    <3> HIDE DEF f
    <3>9. QED BY <3>1, <3>7, <3>8
  <2>4. QED BY <2>2, <2>3
<1>5. QED BY <1>2, <1>3, <1>4, RoutesAre DEF IsRelating

\* What leads to releases is followed by what leads to them or returns them, last.
LEMMA FollowLeads ==
  ASSUME NEW q, IsRelating(q), NEW s, s.q \in Leads(q), s.q \notin RowNames(q), NEW rows
  PROVE  /\ LastOnly(Follow(q, s, rows), Writers(q))
         /\ \A t \in ToSet(Follow(q, s, rows)) :
              /\ ~IsPart(q, t) /\ t.q # "LoadReleaseGroupReleases"
              /\ t.q \in Writers(q) => t.of = Page
<1> DEFINE F == Follow(q, s, rows)
<1>1. CASE s.q = "ResolveArtistCredits"
  <2> DEFINE name == IF q.kind = "release" THEN "SearchReleasesByArtist" ELSE "SearchRecordingsByArtist"
             t == Statement(name, Page, Ids(rows))
  <2>1. F = Batch(name, Page, Ids(rows))
    BY <1>1 DEF Follow
  <2>2. name \in Lead /\ name # "LoadReleaseGroupReleases"
    BY DEF Lead
  <2> HIDE DEF name
  <2>3. t.q = name /\ t.of = Page
    BY DEF Statement
  <2>4. ~IsPart(q, t)
    BY <2>2, <2>3, NamesApart DEF IsPart
  <2> HIDE DEF t
  <2>5. F = <<>> \/ F = <<t>>
    BY <2>1 DEF Batch, t
  <2> HIDE DEF F
  <2>6. CASE F = <<>>
    BY <2>6, Nothing, LastOne DEF F
  <2>7. CASE F = <<t>>
    <3>1. ToSet(F) = {t} /\ LastOnly(F, Writers(q))
      BY <2>7, OneOnly, LastOne
    <3>2. QED BY <2>2, <2>3, <2>4, <3>1 DEF F
  <2>8. QED BY <2>5, <2>6, <2>7
<1>2. ASSUME q.kind = "recording", NEW a, NEW b, IsList(a), IsList(b), F = a \o b,
             \A t \in ToSet(a) : t.of = Page /\ t.q \in {"BatchArtistCredits", "LoadArtistCredit"},
             b = <<>> \/ \E t : b = <<t>> /\ t.of = Page /\ t.q = "BatchRecordingReleases"
      PROVE  /\ LastOnly(F, Writers(q))
             /\ \A t \in ToSet(F) :
                  /\ ~IsPart(q, t) /\ t.q # "LoadReleaseGroupReleases"
                  /\ t.q \in Writers(q) => t.of = Page
  <2>1. ToSet(F) = ToSet(a) \union ToSet(b)
    BY <1>2, Glued
  <2>2. \A t \in ToSet(b) : t.of = Page /\ t.q = "BatchRecordingReleases"
    BY <1>2, OneOnly, Nothing
  <2>3. \A t \in ToSet(a) : t.q \notin Writers(q)
    <3>1. {"BatchArtistCredits", "LoadArtistCredit"} \intersect Writers(q) = {}
      BY NamesApart DEF Lead, Lookups, Preludes
    <3>2. QED BY <1>2, <3>1
  <2>4. LastOnly(b, Writers(q))
    BY <1>2, LastOne
  <2>5. LastOnly(a \o b, Writers(q))
    BY <1>2, <2>3, <2>4, LastGlued
  <2>6. Home(q) = Releases /\ Releases # Page
    BY <1>2, NamesApart DEF Releases, Page
  <2>7. QED BY <1>2, <2>1, <2>2, <2>5, <2>6 DEF IsPart
<1>3. CASE s.q \in {"SearchRecordings", "SearchRecordingsByArtist"}
  <2> DEFINE a == Batch("BatchArtistCredits", Page, Acs(rows))
             b == Batch("BatchRecordingReleases", Page, Ids(rows))
  <2>1. F = a \o b
    BY <1>3 DEF Follow, RecordingParts
  <2>2. q.kind = "recording"
    BY <1>3, RoutesAre DEF IsRelating, Leads
  <2>3. IsList(a) /\ IsList(b) /\ \A t \in ToSet(a) : t.of = Page /\ t.q = "BatchArtistCredits"
    <3>1. \A t \in ToSet(a) : t = Statement("BatchArtistCredits", Page, Acs(rows))
      BY BatchOf
    <3>2. IsList(a) /\ IsList(b)
      BY BatchOf
    <3> HIDE DEF a, b
    <3>3. LET t == Statement("BatchArtistCredits", Page, Acs(rows))
          IN  t.of = Page /\ t.q = "BatchArtistCredits"
      BY DEF Statement
    <3>4. QED BY <3>1, <3>2, <3>3
  <2>4. b = <<>> \/ \E t : b = <<t>> /\ t.of = Page /\ t.q = "BatchRecordingReleases"
    BY DEF Batch, Statement
  <2> HIDE DEF a, b, F
  <2>5. QED BY <1>2, <2>1, <2>2, <2>3, <2>4 DEF F
<1>4. CASE s.q = "LookupRecording"
  <2> DEFINE a == <<Statement("LoadArtistCredit", Page, {rows[1].ac})>>
             t == Statement("BatchRecordingReleases", Page, {rows[1].id})
  <2>1. q.kind = "recording"
    BY <1>4, RoutesAre DEF IsRelating, Leads
  <2>2. CASE rows = <<>>
    <3>1. F = <<>> \o <<>>
      BY <1>4, <2>2 DEF Follow
    <3> HIDE DEF F
    <3>2. QED BY <1>2, <2>1, <3>1, Nothing DEF F
  <2>3. CASE rows # <<>>
    <3>1. F = a \o <<t>>
      BY <1>4, <2>1, <2>3 DEF Follow, LookupParts
    <3>2. \A x \in ToSet(a) : x.of = Page /\ x.q = "LoadArtistCredit"
      BY OneOnly DEF Statement
    <3>3. t.of = Page /\ t.q = "BatchRecordingReleases"
      BY DEF Statement
    <3>4. IsList(a) /\ IsList(<<t>>)
      BY OneOnly
    <3> HIDE DEF F, a, t
    <3>5. QED BY <1>2, <2>1, <3>1, <3>2, <3>3, <3>4 DEF F
  <2>4. QED BY <2>2, <2>3
<1>5. QED BY <1>1, <1>3, <1>4, RoutesAre DEF IsRelating, Leads, RowNames

\* What is neither releases nor leads to them is followed by nothing that is, nor by parts.
LEMMA FollowAside ==
  ASSUME NEW q, IsRelating(q), NEW s, Fits(q, s), s.q \notin Writers(q), s.q # "LoadReleaseGroupReleases",
         NEW rows, s.q = "LoadTracks" => IsList(rows) /\ \A t \in ToSet(rows) : t.gid > 0
  PROVE  \A t \in ToSet(Follow(q, s, rows)) : IsAside(q, t)
<1> DEFINE F == Follow(q, s, rows)
<1>1. s.q \notin Lead
  BY DEF Fits, Writers
<1>2. ASSUME NEW t, t.q \notin Lead \union {"BatchRecordingReleases", "LoadReleaseGroupReleases"},
             t.q \notin PartNames(q) \/ t.of # Home(q)
      PROVE  IsAside(q, t)
  BY <1>2, NamesApart DEF IsAside, IsPart
<1>3. ASSUME NEW name, NEW of, NEW ids,
             name \notin Lead \union {"BatchRecordingReleases", "LoadReleaseGroupReleases"},
             name \notin PartNames(q) \/ of # Home(q)
      PROVE  \A t \in ToSet(Batch(name, of, ids)) : IsAside(q, t)
  <2> DEFINE t == Statement(name, of, ids)
  <2>1. t.q = name /\ t.of = of
    BY DEF Statement
  <2> HIDE DEF t
  <2>2. IsAside(q, t)
    BY <1>2, <1>3, <2>1
  <2>3. QED BY <2>2, BatchOf DEF t
<1>4. ASSUME F = <<>> PROVE \A t \in ToSet(F) : IsAside(q, t)
  BY <1>4, Nothing
<1>5. CASE s.q = "BatchArtistCredits" /\ q.kind = "recording" /\ s.of = Page
  <2>1. F = Batch("BatchArtistAliases", Page, {rows[i].artist : i \in DOMAIN rows})
    BY <1>5 DEF Follow
  <2>2. "BatchArtistAliases" \notin Lead /\ "BatchArtistAliases" \notin PartNames(q)
    BY NamesApart DEF Lead, Lookups, Preludes
  <2> HIDE DEF F
  <2>3. QED BY <1>3, <2>1, <2>2 DEF F
<1>6. CASE s.q = "LoadArtistCredit" /\ q.kind = "recording"
  <2> DEFINE f == [i \in DOMAIN rows |-> Statement("LoadArtistAliases", rows[i].position, {rows[i].artist})]
  <2>1. F = f
    BY <1>6 DEF Follow
  <2>2. "LoadArtistAliases" \notin Lead /\ "LoadArtistAliases" \notin PartNames(q)
    BY NamesApart DEF Lead, Lookups, Preludes
  <2>3. \A i \in DOMAIN f : f[i].q = "LoadArtistAliases"
    BY DEF Statement
  <2> HIDE DEF F, f
  <2>4. \A i \in DOMAIN f : IsAside(q, f[i])
    BY <1>2, <2>2, <2>3
  <2>5. QED BY <2>1, <2>4 DEF ToSet, F
<1>7. CASE s.q = "BatchRecordingReleases"
  <2> DEFINE a == IF q.act = "search" THEN Batch("BatchRecordingMedia", Page, s.ids) ELSE <<>>
             b == ReleaseParts(Releases, rows)
  <2>1. F = a \o b
    BY <1>7 DEF Follow
  <2>2. "BatchRecordingMedia" \notin Lead /\ "BatchRecordingMedia" \notin PartNames(q)
    BY NamesApart DEF Lead, Lookups, Preludes
  <2>3. IsList(a) /\ \A t \in ToSet(a) : IsAside(q, t)
    BY <1>3, <2>2, BatchOf, Nothing
  <2>4. q.kind = "release" /\ Home(q) = Page
    <3>1. q.kind # "recording"
      BY <1>7 DEF Writers, RowNames
    <3>2. QED BY <3>1, NamesApart DEF IsRelating
  <2>5. IsList(b) /\ \A t \in ToSet(b) : t.q \notin Lead
    BY ReleasePartsHydrate DEF Hydrate
  <2>6. \A t \in ToSet(b) : t.of = Releases /\ t.q # "BatchRecordingReleases" /\ t.q # "LoadReleaseGroupReleases"
    <3> TAKE t \in ToSet(b)
    <3>1. t \in PartsAsked(Releases, rows)
      BY ReleasePartsAre
    <3>2. CASE t = Statement("BatchReleaseTrackCounts", Releases, Ids(rows))
      BY <3>2 DEF Statement
    <3>3. CASE \E p \in BatchParts : t = Statement(p[1], Releases, IdsFor(p[1], rows))
      <4>1. PICK p \in BatchParts : t = Statement(p[1], Releases, IdsFor(p[1], rows))
        BY <3>3
      <4>2. t.of = Releases /\ t.q = p[1]
        BY <4>1 DEF Statement
      <4>3. QED BY <4>2 DEF BatchParts
    <3>4. QED BY <3>1, <3>2, <3>3 DEF PartsAsked
  <2>7. \A t \in ToSet(b) : IsAside(q, t)
    BY <1>2, <2>4, <2>5, <2>6 DEF Releases, Page
  <2> HIDE DEF F, a, b
  <2>8. QED BY <2>1, <2>3, <2>5, <2>7, Glued DEF F
<1>8. CASE s.q = "BatchRecordingMedia"
  <2>1. F = Batch("BatchArtistCredits", Tracks, UNION {rows[i].track.ac : i \in DOMAIN rows})
    BY <1>8 DEF Follow
  <2>2. "BatchArtistCredits" \notin Lead /\ Tracks # Home(q)
    BY NamesApart DEF Lead, Lookups, Preludes, Tracks, Releases, Page
  <2> HIDE DEF F
  <2>3. QED BY <1>3, <2>1, <2>2 DEF F
<1>9. CASE s.q = "LoadMedia"
  <2> DEFINE f == [i \in DOMAIN rows |-> Statement("LoadTracks", rows[i].id, {rows[i].id})]
  <2>1. F = f
    BY <1>9 DEF Follow
  <2>2. "LoadTracks" \notin Lead /\ "LoadTracks" \notin PartNames(q)
    BY NamesApart DEF Lead, Lookups, Preludes
  <2>3. \A i \in DOMAIN f : f[i].q = "LoadTracks"
    BY DEF Statement
  <2> HIDE DEF F, f
  <2>4. \A i \in DOMAIN f : IsAside(q, f[i])
    BY <1>2, <2>2, <2>3
  <2>5. QED BY <2>1, <2>4 DEF ToSet, F
<1>10. CASE s.q = "LoadTracks"
  <2> DEFINE own == Where(rows, LAMBDA t : t.ac # {})
             f == [i \in DOMAIN own |-> Statement("LoadArtistCredit", own[i].gid, own[i].ac)]
             kept == {i \in DOMAIN rows : rows[i].ac # {}}
  <2>1. F = f
    BY <1>10 DEF Follow
  <2>2. own = Kept(rows, kept)
    BY DEF Where, Kept
  <2>3. ToSet(own) \subseteq ToSet(rows)
    <3> HIDE DEF own
    <3>1. QED BY <1>10, <2>2, KeptList
  <2> HIDE DEF own
  <2>4. \A i \in DOMAIN own : own[i].gid > 0
    BY <1>10, <2>3 DEF ToSet
  <2>5. \A i \in DOMAIN f : f[i].q = "LoadArtistCredit" /\ f[i].of = own[i].gid /\ i \in DOMAIN own
    BY DEF Statement
  <2>6. "LoadArtistCredit" \notin Lead /\ (Home(q) = Page \/ Home(q) = Releases)
    BY NamesApart DEF Lead, Lookups, Preludes
  <2> HIDE DEF F, f
  <2>7. \A i \in DOMAIN f : f[i].of # Home(q)
    BY <2>4, <2>5, <2>6 DEF Page, Releases
  <2>8. \A i \in DOMAIN f : IsAside(q, f[i])
    BY <1>2, <2>5, <2>6, <2>7
  <2>9. QED BY <2>1, <2>8 DEF ToSet, F
<1>11. CASE /\ s.q \notin Lead \union {"BatchRecordingReleases", "BatchRecordingMedia", "LoadMedia", "LoadTracks",
                                      "LoadReleaseGroupReleases"}
            /\ ~(s.q = "BatchArtistCredits" /\ q.kind = "recording" /\ s.of = Page)
            /\ ~(s.q = "LoadArtistCredit" /\ q.kind = "recording")
  <2>1. F = <<>>
    BY <1>11 DEF Follow, Lead, Lookups, Preludes
  <2>2. QED BY <1>4, <2>1
<1>12. QED BY <1>1, <1>5, <1>6, <1>7, <1>8, <1>9, <1>10, <1>11

----------------------------------------------------------------------------
(* Releases put together from several versions of the mirror.              *)

Held(g, n) == IF <<n, Page>> \in DOMAIN g THEN g[<<n, Page>>] ELSE <<>>

\* Some rows are releases of versions in S, and each part of theirs is among the
\* statements f still to run or was read, into g, from a version in S.
Hydrating(rows, q, f, g, S) ==
  /\ IsList(rows) /\ \A r \in ToSet(rows) : \E v \in S : \E x \in Databases[v].release : IsRelease(r, x)
  /\ q.act = "lookup" /\ q.kind = "release" => \A r, t \in ToSet(rows) : r = t
  /\ \A s \in ToSet(f) : IsPart(q, s) => s = Wanted(q, s.q, rows)
  /\ \A name \in PartNames(q) :
       LET want == Wanted(q, name, rows)
       IN  \/ want \in ToSet(f)
           \/ /\ <<name, Home(q)>> \in DOMAIN g
              /\ \E w \in S : g[<<name, Home(q)>>] = Select(Databases[w], q, want)

\* What leads to releases is the last to run; until it has there are none, nor parts of theirs.
Building(q, f, g, S) ==
  /\ LastOnly(f, Writers(q))
  /\ \A s \in ToSet(f) : s.q # "LoadReleaseGroupReleases" /\ (s.q \in Writers(q) => s.of = Page)
  /\ (\E s \in ToSet(f) : s.q \in Writers(q)) =>
       (\A n \in RowNames(q) : Held(g, n) = <<>>) /\ \A s \in ToSet(f) : ~IsPart(q, s)
  /\ \A n \in RowNames(q) : Held(g, n) # <<>> => Hydrating(Held(g, n), q, f, g, S)

GenuineInv ==
  /\ KnownInv
  /\ seen \subseteq 1..Len(Databases)
  /\ answer = Pending /\ request.kind \in {"release", "recording"} =>
       db \in seen /\ Building(request, todo, got, seen)
  /\ PartsAreGenuine

\* The rows of a statement for releases.
LEMMA SelectRows ==
  ASSUME NEW d, IsMirror(d), NEW q, IsRelating(q), NEW s, Fits(q, s), s.q \in RowNames(q)
  PROVE  /\ IsList(Select(d, q, s)) /\ AreReleases(Select(d, q, s), d)
         /\ q.act = "lookup" /\ q.kind = "release" => \A r, t \in ToSet(Select(d, q, s)) : r = t
         /\ q.kind = "release" => s.q \in Leads(q)
<1>1. CASE q.kind = "release"
  <2>1. s.q \in Leads(q) /\ s.q \in Lead \ Preludes /\ s.q # "ResolveArtistCredits"
    BY <1>1 DEF RowNames, Fits, Lead, Lookups, Preludes
  <2>2. IsList(Select(d, q, s)) /\ AreReleases(Select(d, q, s), d)
    BY <1>1, <2>1, SelectPage, SelectReleases DEF IsPage, IsRelating
  <2>3. ASSUME q.act = "lookup" PROVE \A r, t \in ToSet(Select(d, q, s)) : r = t
    <3>1. s.q = "LookupRelease"
      BY <1>1, <2>1, <2>3 DEF Leads
    <3>2. Select(d, q, s) = ByGid(d.release, d.redirect, q.gid)
      BY <3>1 DEF Select, LookupRelease
    <3>3. QED BY <3>2, OneRelease
  <2>4. QED BY <2>1, <2>2, <2>3
<1>2. CASE q.kind = "recording"
  <2>1. s.q = "BatchRecordingReleases"
    BY <1>2 DEF RowNames
  <2>2. Select(d, q, s) = BatchRecordingReleases(d, s.ids)
    BY <2>1 DEF Select
  <2>3. QED BY <1>2, <2>2, RecordingReleases
<1>3. QED BY <1>1, <1>2 DEF IsRelating

\* A list has its first and the rest.
LEMMA HeadOrTail ==
  ASSUME NEW f, IsList(f), f # <<>>, NEW x \in ToSet(f)
  PROVE  x = Head(f) \/ x \in ToSet(Tail(f))
<1>1. PICK i \in DOMAIN f : x = f[i]
  BY DEF ToSet
<1>2. Len(f) \in Nat /\ DOMAIN f = 1..Len(f) /\ f \in Seq(ToSet(f)) /\ Len(f) # 0
  BY ListFacts DEF IsList
<1>3. /\ DOMAIN Tail(f) = 1..(Len(f) - 1) /\ \A j \in 1..(Len(f) - 1) : Tail(f)[j] = f[j + 1]
      /\ Head(f) = f[1]
  BY <1>2
<1>4. i # 1 => i - 1 \in 1..(Len(f) - 1) /\ Tail(f)[i - 1] = f[i]
  BY <1>2, <1>3
<1>5. QED BY <1>1, <1>3, <1>4 DEF ToSet

\* More versions of the mirror are in reach of a request.
LEMMA StillBuilding ==
  ASSUME NEW q, NEW f, NEW g, NEW S, NEW T, S \subseteq T, Building(q, f, g, S)
  PROVE  Building(q, f, g, T)
<1>1. ASSUME NEW rows, Hydrating(rows, q, f, g, S) PROVE Hydrating(rows, q, f, g, T)
  BY <1>1 DEF Hydrating
<1>2. QED BY <1>1 DEF Building

\* A statement for releases has run, or one that leads to them, or fell back.
LEMMA WriterRan ==
  ASSUME NEW q, IsRelating(q), NEW f, IsList(f), f # <<>>, NEW g, NEW S, Building(q, f, g, S),
         Fits(q, Head(f)), Head(f).q \in Writers(q),
         NEW n \in S, IsMirror(Databases[n]), NEW rows,
         rows = Select(Databases[n], q, Head(f)) \/ rows = <<>>
  PROVE  LET s == Head(f)
             next == IF FallsBack(s, rows) THEN <<[s EXCEPT !.fuzzy = TRUE]>> ELSE Follow(q, s, rows)
             h == [k \in DOMAIN g \union {<<s.q, s.of>>} |-> IF k = <<s.q, s.of>> THEN rows ELSE g[k]]
         IN  Building(q, next \o Tail(f), h, S)
<1> DEFINE s == Head(f)
           next == IF FallsBack(s, rows) THEN <<[s EXCEPT !.fuzzy = TRUE]>> ELSE Follow(q, s, rows)
           h == [k \in DOMAIN g \union {<<s.q, s.of>>} |-> IF k = <<s.q, s.of>> THEN rows ELSE g[k]]
<1>1. s \in ToSet(f) /\ s.of = Page /\ (\A m \in RowNames(q) : Held(g, m) = <<>>)
  BY Tailed DEF Building
<1>2. Tail(f) = <<>>
  BY LastTail DEF Building
<1>3. \A m : Held(h, m) = IF m = s.q THEN rows ELSE Held(g, m)
  BY <1>1 DEF Held
<1>4. s.q \in {"LoadArtistCredit", "LoadMedia", "LoadTracks"} => IsList(rows)
  BY SelectList, Nothing DEF IsRelating
<1>5. IsList(next)
  <2>1. IsList(Follow(q, s, rows))
    BY <1>4, FollowFits DEF IsRelating
  <2>2. QED BY <2>1, OneOnly
<1>6. next \o Tail(f) = next
  <2>1. next \in Seq(ToSet(next))
    BY <1>5 DEF IsList
  <2>2. next \o <<>> = next
    BY <2>1, ConcatEmptySeq
  <2>3. QED BY <1>2, <2>2
<1> HIDE DEF h
<1>7. CASE FallsBack(s, rows)
  <2> DEFINE t == [s EXCEPT !.fuzzy = TRUE]
  <2>1. t.q = s.q /\ t.of = s.of
    BY DEF Fits, IsStatement
  <2>2. next = <<t>> /\ rows = <<>>
    BY <1>7 DEF FallsBack
  <2> HIDE DEF t, next, s
  <2>3. ToSet(next) = {t} /\ LastOnly(next, Writers(q))
    BY <2>2, OneOnly, LastOne
  <2>4. \A m \in RowNames(q) : Held(h, m) = <<>>
    BY <1>1, <1>3, <2>2
  <2>5. t.q \in Writers(q)
    BY <2>1 DEF s
  <2>6. ~IsPart(q, t) /\ t.q # "LoadReleaseGroupReleases"
    BY <2>5, NamesApart DEF IsPart, Lead, Lookups, Preludes
  <2>7. Building(q, next, h, S)
    BY <1>1, <2>1, <2>3, <2>4, <2>6 DEF Building
  <2>8. QED BY <1>6, <2>7 DEF h, next, s
<1>8. CASE ~FallsBack(s, rows) /\ s.q \in RowNames(q)
  <2>1. next = Follow(q, s, rows)
    BY <1>8
  <2>2. /\ IsList(rows) /\ \A r \in ToSet(rows) : \E x \in Databases[n].release : IsRelease(r, x)
        /\ q.act = "lookup" /\ q.kind = "release" => \A r, t \in ToSet(rows) : r = t
        /\ q.kind = "release" => s.q \in Leads(q)
    BY <1>8, SelectRows, Nothing DEF AreReleases
  <2> HIDE DEF next, s
  <2>3. /\ \A t \in ToSet(next) :
             /\ t.q \notin Writers(q) /\ t.q # "LoadReleaseGroupReleases"
             /\ IsPart(q, t) => t = Wanted(q, t.q, rows)
        /\ rows # <<>> => \A name \in PartNames(q) : Wanted(q, name, rows) \in ToSet(next)
    BY <1>8, <2>1, <2>2, FollowReleases
  <2>4. LastOnly(next, Writers(q))
    BY <2>3 DEF LastOnly, ToSet
  <2>5. rows # <<>> => Hydrating(rows, q, next, h, S)
    BY <2>2, <2>3 DEF Hydrating
  <2>6. \A m \in RowNames(q) : Held(h, m) = <<>> \/ Held(h, m) = rows
    BY <1>1, <1>3
  <2>7. Building(q, next, h, S)
    BY <2>3, <2>4, <2>5, <2>6 DEF Building
  <2>8. QED BY <1>6, <2>7 DEF h, next, s
<1>9. CASE ~FallsBack(s, rows) /\ s.q \notin RowNames(q)
  <2>1. next = Follow(q, s, rows)
    BY <1>9
  <2>2. s.q \in Leads(q)
    BY <1>9 DEF Writers
  <2> HIDE DEF next, s
  <2>3. /\ LastOnly(next, Writers(q))
        /\ \A t \in ToSet(next) :
             /\ ~IsPart(q, t) /\ t.q # "LoadReleaseGroupReleases"
             /\ t.q \in Writers(q) => t.of = Page
    BY <1>9, <2>1, <2>2, FollowLeads
  <2>4. \A m \in RowNames(q) : Held(h, m) = <<>>
    BY <1>1, <1>3, <1>9
  <2>5. Building(q, next, h, S)
    BY <2>3, <2>4 DEF Building
  <2>6. QED BY <1>6, <2>5 DEF h, next, s
<1>10. QED BY <1>7, <1>8, <1>9

\* Any other statement has run: a part of the releases, or none of theirs.
LEMMA AsideRan ==
  ASSUME NEW q, IsRelating(q), NEW f, IsList(f), f # <<>>, NEW g, NEW S, Building(q, f, g, S),
         Fits(q, Head(f)), Head(f).q \notin Writers(q),
         NEW n \in S, IsMirror(Databases[n]), NEW rows,
         rows = Select(Databases[n], q, Head(f)) \/ (Bounded(Head(f)) /\ rows = <<>>)
  PROVE  LET s == Head(f)
             next == IF FallsBack(s, rows) THEN <<[s EXCEPT !.fuzzy = TRUE]>> ELSE Follow(q, s, rows)
             h == [k \in DOMAIN g \union {<<s.q, s.of>>} |-> IF k = <<s.q, s.of>> THEN rows ELSE g[k]]
         IN  Building(q, next \o Tail(f), h, S)
<1> DEFINE s == Head(f)
           next == IF FallsBack(s, rows) THEN <<[s EXCEPT !.fuzzy = TRUE]>> ELSE Follow(q, s, rows)
           h == [k \in DOMAIN g \union {<<s.q, s.of>>} |-> IF k = <<s.q, s.of>> THEN rows ELSE g[k]]
           all == next \o Tail(f)
<1>1. /\ s \in ToSet(f) /\ s.q # "LoadReleaseGroupReleases"
      /\ IsList(Tail(f)) /\ ToSet(Tail(f)) \subseteq ToSet(f)
  BY Tailed DEF Building
<1>2. s.q \notin Lead
  BY DEF Fits, Writers
<1>3. next = Follow(q, s, rows)
  BY <1>2 DEF FallsBack, Lead, Lookups, Preludes
<1>4. ~s.fuzzy => rows = Select(Databases[n], q, s)
  BY <1>2 DEF Bounded, Lead, Lookups, Preludes
<1>5. ASSUME s.q = "LoadTracks" PROVE IsList(rows) /\ \A t \in ToSet(rows) : t.gid > 0
  <2>1. CASE rows = <<>>
    BY <2>1, Nothing
  <2>2. CASE rows = Select(Databases[n], q, s)
    <3>1. rows = LoadTracks(Databases[n], CHOOSE x \in s.ids : TRUE)
      BY <1>5, <2>2 DEF Select
    <3>2. QED BY <3>1, TracksNumbered
  <2>3. QED BY <2>1, <2>2
<1>6. IsList(next)
  <2>1. s.q \in {"LoadArtistCredit", "LoadMedia", "LoadTracks"} => IsList(rows)
    BY SelectList, Nothing DEF IsRelating
  <2>2. IsList(Follow(q, s, rows))
    BY <2>1, FollowFits DEF IsRelating
  <2>3. QED BY <1>3, <2>2
<1>7. \A t \in ToSet(next) : IsAside(q, t)
  BY <1>1, <1>3, <1>5, FollowAside
<1>8. ToSet(all) = ToSet(next) \union ToSet(Tail(f))
  BY <1>1, <1>6, Glued
<1>9. LastOnly(all, Writers(q))
  <2>1. LastOnly(Tail(f), Writers(q))
    BY LastTail DEF Building
  <2>2. \A t \in ToSet(next) : t.q \notin Writers(q)
    BY <1>7 DEF IsAside
  <2> HIDE DEF next
  <2>3. QED BY <1>1, <1>6, <2>1, <2>2, LastGlued
<1>10. \A m \in RowNames(q) : Held(h, m) = Held(g, m)
  <2> TAKE m \in RowNames(q)
  <2>1. m # s.q
    BY DEF Writers
  <2>2. <<m, Page>> # <<s.q, s.of>>
    BY <2>1
  <2>3. QED BY <2>2 DEF Held
<1> HIDE DEF next, all
<1>11. ASSUME NEW m \in RowNames(q), Held(g, m) # <<>>
       PROVE  Hydrating(Held(g, m), q, all, h, S)
  <2> DEFINE r == Held(g, m)
  <2>1. Hydrating(r, q, f, g, S)
    BY <1>11 DEF Building
  <2> HIDE DEF r
  <2>2. \A t \in ToSet(all) : IsPart(q, t) => t = Wanted(q, t.q, r)
    BY <1>1, <1>7, <1>8, <2>1 DEF Hydrating, IsAside
  <2>3. ASSUME NEW name \in PartNames(q)
        PROVE  \/ Wanted(q, name, r) \in ToSet(all)
               \/ /\ <<name, Home(q)>> \in DOMAIN h
                  /\ \E w \in S : h[<<name, Home(q)>>] = Select(Databases[w], q, Wanted(q, name, r))
    <3> DEFINE want == Wanted(q, name, r)
    <3>1. want.q = name /\ want.of = Home(q) /\ want.fuzzy = FALSE
      BY DEF Wanted, Statement
    <3>2. CASE s = want
      <4>1. rows = Select(Databases[n], q, want)
        BY <1>4, <3>1, <3>2
      <4>2. <<name, Home(q)>> = <<s.q, s.of>>
        BY <3>1, <3>2
      <4> HIDE DEF s, want
      <4>3. <<name, Home(q)>> \in DOMAIN h /\ h[<<name, Home(q)>>] = rows
        BY <4>2
      <4>4. QED BY <4>1, <4>3 DEF want
    <3>3. CASE want \in ToSet(f) /\ s # want
      <4>1. want \in ToSet(Tail(f))
        BY <3>3, HeadOrTail
      <4>2. QED BY <1>8, <4>1
    <3>4. CASE /\ <<name, Home(q)>> \in DOMAIN g
               /\ \E w \in S : g[<<name, Home(q)>>] = Select(Databases[w], q, want)
      <4>1. CASE <<name, Home(q)>> = <<s.q, s.of>>
        <5>1. IsPart(q, s) /\ s.q = name
          BY <2>3, <4>1 DEF IsPart
        <5>2. s = want
          BY <1>1, <2>1, <5>1 DEF Hydrating
        <5>3. QED BY <3>2, <5>2
      <4>2. CASE <<name, Home(q)>> # <<s.q, s.of>>
        <5>1. <<name, Home(q)>> \in DOMAIN h /\ h[<<name, Home(q)>>] = g[<<name, Home(q)>>]
          BY <3>4, <4>2
        <5>2. QED BY <3>4, <5>1
      <4>3. QED BY <4>1, <4>2
    <3>5. QED BY <2>1, <3>2, <3>3, <3>4 DEF Hydrating
  <2>4. QED BY <2>1, <2>2, <2>3 DEF Hydrating, r
<1>12. ASSUME NEW t \in ToSet(all)
       PROVE  t.q # "LoadReleaseGroupReleases" /\ (t.q \in Writers(q) => t.of = Page /\ t \in ToSet(f))
  BY <1>1, <1>7, <1>8, <1>12 DEF IsAside, Building
<1>13. ASSUME NEW t \in ToSet(all), t.q \in Writers(q)
       PROVE  (\A m \in RowNames(q) : Held(h, m) = <<>>) /\ \A u \in ToSet(all) : ~IsPart(q, u)
  <2>1. t \in ToSet(f)
    BY <1>12, <1>13
  <2>2. (\A m \in RowNames(q) : Held(g, m) = <<>>) /\ \A u \in ToSet(f) : ~IsPart(q, u)
    BY <1>13, <2>1 DEF Building
  <2>3. QED BY <1>1, <1>7, <1>8, <1>10, <2>2 DEF IsAside
<1>14. \A m \in RowNames(q) : Held(h, m) # <<>> => Hydrating(Held(h, m), q, all, h, S)
  BY <1>10, <1>11
<1> HIDE DEF h, s
<1>15. Building(q, all, h, S)
  BY <1>9, <1>12, <1>13, <1>14 DEF Building
<1>16. QED BY <1>15 DEF all, next, h, s

\* A release as an answer shows it.
Built(q, row, media) ==
  IF q.kind = "release" /\ q.act = "lookup" THEN LookedUpRelease(row) ELSE AssembleRelease(Home(q), row, media)

\* It is a release of a version in S, its part as in a version in S.
IsGenuine(item, part, S) ==
  \E v, w \in S : \E r \in Databases[v].release :
    r.gid = item.gid /\ item[part] = ReleaseIn(Databases[w], r)[part]

\* A release put together once nothing is left to run has genuine parts.
LEMMA BuiltPart ==
  ASSUME NEW q, NEW rows, Hydrating(rows, q, <<>>, got, seen), seen \subseteq 1..Len(Databases),
         NEW row \in ToSet(rows), NEW part \in {"credit", "group", "date", "status", "comment"}, NEW media
  PROVE  IsGenuine(Built(q, row, media), part, seen)
<1> DEFINE of == Home(q)
           item == IF q.kind = "release" /\ q.act = "lookup" THEN LookedUpRelease(row)
                   ELSE AssembleRelease(of, row, media)
<1>1. \E name : <<name, part>> \in Parts(q)
  <2>1. \E name : <<name, part>> \in BatchParts
    BY DEF BatchParts
  <2>2. \E name : <<name, part>> \in LoadParts
    BY DEF LoadParts
  <2>3. QED BY <2>1, <2>2 DEF Parts
<1>2. PICK name : <<name, part>> \in Parts(q)
  BY <1>1
<1>3. name \in PartNames(q) /\ Wanted(q, name, rows) \notin ToSet(<<>>)
  <2>1. <<name, part>>[1] = name
    OBVIOUS
  <2>2. QED BY <1>2, <2>1, Nothing DEF PartNames
<1>4. \E w \in seen : Got(name, of) = Select(Databases[w], q, Statement(name, of, IdsFor(name, rows)))
  BY <1>3 DEF Hydrating, Got, Wanted
<1>5. \E d : /\ IsMirror(d) /\ (\E w \in seen : d = Databases[w])
             /\ Got(name, of) = Select(d, q, Statement(name, of, IdsFor(name, rows)))
  BY <1>4, VersionsAre
<1>6. PICK d : /\ IsMirror(d) /\ (\E w \in seen : d = Databases[w])
               /\ Got(name, of) = Select(d, q, Statement(name, of, IdsFor(name, rows)))
  BY <1>5
<1>7. \E x : IsRelease(row, x) /\ \E v \in seen : x \in Databases[v].release
  BY DEF Hydrating
<1>8. PICK x : IsRelease(row, x) /\ \E v \in seen : x \in Databases[v].release
  BY <1>7
<1>9. q.act = "lookup" /\ q.kind = "release" => \A r \in ToSet(rows) : r = row
  BY DEF Hydrating
<1> HIDE DEF of
<1>10. item.gid = x.gid
  BY <1>8 DEF IsRelease, LookedUpRelease, AssembleRelease
<1>11. item[part] = ReleaseIn(d, x)[part]
  <2>1. CASE q.kind = "release" /\ q.act = "lookup"
    <3>1. <<name, part>> \in LoadParts /\ of = Page
      BY <1>2, <2>1 DEF Parts, Home, of
    <3>2. LookedUpRelease(row)[part] = ReleaseIn(d, x)[part]
      BY <1>6, <1>8, <1>9, <2>1, <3>1, LookedUpPart
    <3>3. QED BY <2>1, <3>2
  <2>2. CASE ~(q.kind = "release" /\ q.act = "lookup")
    <3>1. <<name, part>> \in BatchParts
      BY <1>2, <2>2 DEF Parts
    <3>2. AssembleRelease(of, row, media)[part] = ReleaseIn(d, x)[part]
      BY <1>6, <1>8, <3>1, AssembledPart
    <3>3. QED BY <2>2, <3>2
  <2>3. QED BY <2>1, <2>2
<1> HIDE DEF item
<1>12. \E v, w \in seen : \E r \in Databases[v].release :
        r.gid = item.gid /\ item[part] = ReleaseIn(Databases[w], r)[part]
  BY <1>6, <1>8, <1>10, <1>11
<1>13. QED BY <1>12 DEF item, of, Built, IsGenuine

\* GenuineInv holds at first, and each action keeps it.
LEMMA GenuineInit == Init => GenuineInv
<1> SUFFICES ASSUME Init PROVE GenuineInv
  OBVIOUS
<1>1. answer = Status(204) /\ seen = {}
  BY DEF Init
<1>2. answer # Pending /\ answer.status # 200
  BY <1>1 DEF Status, Pending
<1>3. QED BY <1>1, <1>2, KnownInit DEF GenuineInv, PartsAreGenuine

LEMMA AcceptGenuine ==
  ASSUME GenuineInv, NEW r \in Requests, Accept(r)
  PROVE  GenuineInv'
<1>1. /\ request' = Resolved(r) /\ got' = <<>> /\ seen' = {db} /\ db' = db
      /\ \/ answer' = Status(400)
         \/ todo' = First(request') /\ answer' = Pending
  BY DEF Accept
<1>2. KnownInv'
  BY AcceptKnown DEF GenuineInv
<1>3. answer'.status # 200
  BY <1>1 DEF Status, Pending
<1>4. seen' \subseteq 1..Len(Databases)
  BY <1>1 DEF GenuineInv, KnownInv
<1>5. ASSUME answer' = Pending, request'.kind \in {"release", "recording"}
      PROVE  Building(request', todo', got', seen')
  <2> DEFINE q == Resolved(r)
  <2>1. IsRelating(q) /\ todo' = First(q) /\ request' = q
    BY <1>1, <1>5, ResolvedTyped DEF IsRelating, Status, Pending
  <2>2. PICK name \in Leads(q) : First(q) = <<Statement(name, Page, {})>>
    BY <2>1, FirstLeads DEF IsRelating
  <2> DEFINE t == Statement(name, Page, {})
  <2>3. t.q = name /\ t.of = Page /\ name \in Writers(q)
    BY <2>2 DEF Statement, Writers
  <2> HIDE DEF t, q
  <2>4. ToSet(todo') = {t} /\ LastOnly(todo', Writers(q))
    BY <2>1, <2>2, OneOnly, LastOne DEF t
  <2>5. ~IsPart(q, t) /\ t.q # "LoadReleaseGroupReleases"
    BY <2>1, <2>3, NamesApart DEF IsPart, Lead, Lookups, Preludes
  <2>6. \A n \in RowNames(q) : Held(got', n) = <<>>
    BY <1>1 DEF Held
  <2>7. QED BY <2>1, <2>3, <2>4, <2>5, <2>6 DEF Building
<1>6. db' \in seen'
  BY <1>1
<1>7. PartsAreGenuine'
  BY <1>3 DEF PartsAreGenuine
<1>8. QED BY <1>2, <1>4, <1>5, <1>6, <1>7 DEF GenuineInv

\* The statement at work has run, or timed out.
LEMMA RanGenuine ==
  ASSUME GenuineInv, KnownInv', todo # <<>>, NEW rows, Ran(Head(todo), rows),
         rows = Select(Databases[db], request, Head(todo)) \/ (Bounded(Head(todo)) /\ rows = <<>>)
  PROVE  GenuineInv'
<1> DEFINE s == Head(todo)
           next == IF FallsBack(s, rows) THEN <<[s EXCEPT !.fuzzy = TRUE]>> ELSE Follow(request, s, rows)
           h == [k \in DOMAIN got \union {<<s.q, s.of>>} |-> IF k = <<s.q, s.of>> THEN rows ELSE got[k]]
<1>1. got' = h /\ todo' = next \o Tail(todo) /\ UNCHANGED <<db, request, answer, seen, shown>>
  BY DEF Ran
<1>2. /\ answer = Pending /\ IsRequest(request) /\ IsList(todo) /\ (\A t \in ToSet(todo) : Fits(request, t))
      /\ db \in 1..Len(Databases)
  BY DEF GenuineInv, KnownInv
<1>3. answer'.status # 200
  BY <1>1, <1>2 DEF Pending
<1>4. Fits(request, s) /\ IsMirror(Databases[db])
  BY <1>2, Tailed, VersionsAre
<1>5. ASSUME request.kind \in {"release", "recording"}
      PROVE  Building(request, next \o Tail(todo), h, seen)
  <2>1. IsRelating(request) /\ db \in seen /\ Building(request, todo, got, seen)
    BY <1>2, <1>5 DEF IsRelating, GenuineInv
  <2>2. CASE s.q \in Writers(request)
    BY <1>2, <1>4, <2>1, <2>2, WriterRan
  <2>3. CASE s.q \notin Writers(request)
    BY <1>2, <1>4, <2>1, <2>3, AsideRan
  <2>4. QED BY <2>2, <2>3
<1> HIDE DEF next, h
<1>6. answer' = Pending /\ request'.kind \in {"release", "recording"} =>
        db' \in seen' /\ Building(request', todo', got', seen')
  BY <1>1, <1>2, <1>5 DEF GenuineInv
<1>7. PartsAreGenuine'
  BY <1>3 DEF PartsAreGenuine
<1>8. seen' \subseteq 1..Len(Databases)
  BY <1>1 DEF GenuineInv
<1>9. QED BY <1>6, <1>7, <1>8 DEF GenuineInv

\* The releases of a page that is of releases.
LEMMA ReleasePage ==
  ASSUME KnownInv, IsRequest(request), request.kind = "release"
  PROVE  PageRows = <<>> \/ \E n \in RowNames(request) : PageRows = Held(got, n)
<1>1. PICK name \in Leads(request) : First(request) = <<Statement(name, Page, {})>>
  BY FirstLeads
<1>2. First(request)[1].q = name
  BY <1>1 DEF Statement
<1>3. name = "ResolveArtistCredits" \/ name \in RowNames(request)
  BY <1>1, RoutesAre DEF Leads, RowNames
<1>4. "SearchReleasesByArtist" \in RowNames(request)
  BY DEF RowNames
<1>5. \A n : Got(n, Page) = Held(got, n)
  BY DEF Got, Held
<1>6. CASE <<"SearchReleasesByArtist", Page>> \in DOMAIN got
  BY <1>4, <1>5, <1>6 DEF PageRows
<1>7. CASE /\ <<"SearchReleasesByArtist", Page>> \notin DOMAIN got
           /\ <<"SearchRecordingsByArtist", Page>> \in DOMAIN got
  <2>1. "SearchRecordingsByArtist" \in Lead /\ "SearchRecordingsByArtist" \notin Leads(request)
    BY RoutesAre DEF Leads, Lead
  <2>2. QED BY <1>7, <2>1 DEF KnownInv, PagesExisted
<1>8. CASE /\ <<"SearchReleasesByArtist", Page>> \notin DOMAIN got
           /\ <<"SearchRecordingsByArtist", Page>> \notin DOMAIN got
  BY <1>2, <1>3, <1>5, <1>8 DEF PageRows
<1>9. QED BY <1>6, <1>7, <1>8

\* The releases of a recording's answer.
LEMMA RecordingItem ==
  ASSUME NEW row, IsList(Held(got, "BatchRecordingReleases")),
         NEW item \in ToSet(AssembleRecording(row).releases)
  PROVE  \E r \in ToSet(Held(got, "BatchRecordingReleases")) :
           \E media : item = AssembleRelease(Releases, r, media)
<1> DEFINE all == Held(got, "BatchRecordingReleases")
           rows == Where(all, LAMBDA r : r.recording = row.id)
           kept == {i \in DOMAIN all : all[i].recording = row.id}
           f == [i \in DOMAIN rows |-> AssembleRelease(Releases, rows[i], RecordingMedia(row.id, rows[i].id))]
<1>1. AssembleRecording(row).releases = f
  BY DEF AssembleRecording, Got, Held
<1>2. rows = Kept(all, kept)
  BY DEF Where, Kept
<1> HIDE DEF rows, all
<1>3. ToSet(rows) \subseteq ToSet(all)
  BY <1>2, KeptList DEF all
<1>4. PICK i \in DOMAIN rows : item = AssembleRelease(Releases, rows[i], RecordingMedia(row.id, rows[i].id))
  BY <1>1 DEF ToSet
<1>5. rows[i] \in ToSet(all)
  BY <1>3, <1>4 DEF ToSet
<1>6. QED BY <1>4, <1>5 DEF all

\* Answers: of releases, and of recordings with releases under them.
LEMMA RespondGenuine ==
  ASSUME GenuineInv, KnownInv', Respond
  PROVE  GenuineInv'
<1>1. /\ todo = <<>> /\ answer = Pending /\ answer' = Answer
      /\ UNCHANGED <<db, request, todo, seen, shown>>
  BY DEF Respond
<1>2. IsRequest(request) /\ KnownInv /\ seen \subseteq 1..Len(Databases)
  BY <1>1 DEF GenuineInv, KnownInv, Status, Pending
<1>3. answer' # Pending
  BY <1>1, <1>2, RoutesAre DEF Answer, Answered, Status, Pending
<1>4. ASSUME request.kind \in {"release", "recording"}, NEW n \in RowNames(request), Held(got, n) # <<>>
      PROVE  Hydrating(Held(got, n), request, <<>>, got, seen)
  BY <1>1, <1>4 DEF GenuineInv, Building
<1>5. ASSUME Answer.status = 200, NEW i \in DOMAIN Answer.items, NEW item \in ReleasesOf(Answer.items[i]),
             NEW part \in {"credit", "group", "date", "status", "comment"}
      PROVE  \E v, w \in seen : \E r \in Databases[v].release :
               r.gid = item.gid /\ item[part] = ReleaseIn(Databases[w], r)[part]
  <2>1. CASE request.kind = "release"
    <3> DEFINE rows == PageRows
               built(r) == IF request.act = "lookup" THEN LookedUpRelease(r) ELSE AssembleRelease(Page, r, <<>>)
    <3>1. Answer.items = [j \in DOMAIN rows |-> built(rows[j])]
      <4>1. CASE request.act = "lookup"
        BY <1>5, <2>1, <4>1 DEF Answer, Answered, Items, Status
      <4>2. CASE request.act \in {"search", "browse"}
        BY <1>5, <2>1, <4>2 DEF Answer, Answered, Items, Status
      <4>3. QED BY <1>2, <2>1, <4>1, <4>2, RoutesAre
    <3>2. item = Answer.items[i]
      BY <1>5, <2>1 DEF ReleasesOf
    <3> HIDE DEF rows, built
    <3>3. i \in DOMAIN rows /\ item = built(rows[i])
      BY <1>5, <3>1, <3>2
    <3>4. rows # <<>>
      BY <3>3
    <3>5. PICK n \in RowNames(request) : rows = Held(got, n)
      BY <1>2, <2>1, <3>4, ReleasePage DEF rows
    <3>6. Hydrating(rows, request, <<>>, got, seen)
      BY <1>4, <2>1, <3>4, <3>5
    <3>7. rows[i] \in ToSet(rows)
      BY <3>3 DEF ToSet
    <3>8. Home(request) = Page
      BY <2>1 DEF Home
    <3>9. item = Built(request, rows[i], <<>>)
      BY <2>1, <3>3, <3>8 DEF built, Built
    <3>10. IsGenuine(Built(request, rows[i], <<>>), part, seen)
      BY <1>2, <3>6, <3>7, BuiltPart
    <3>11. QED BY <3>9, <3>10 DEF IsGenuine
  <2>2. CASE request.kind = "recording"
    <3> DEFINE rows == PageRows
               all == Held(got, "BatchRecordingReleases")
    <3>1. Answer.items = [j \in DOMAIN rows |-> AssembleRecording(rows[j])]
      <4>1. CASE request.act = "lookup"
        BY <1>5, <2>2, <4>1 DEF Answer, Answered, Items, Status
      <4>2. CASE request.act = "search"
        BY <1>5, <2>2, <4>2 DEF Answer, Answered, Items, Status
      <4>3. QED BY <1>2, <2>2, <4>1, <4>2, RoutesAre
    <3>2. item \in ToSet(Answer.items[i].releases)
      BY <1>5, <2>2 DEF ReleasesOf
    <3> HIDE DEF rows
    <3>3. item \in ToSet(AssembleRecording(rows[i]).releases)
      BY <1>5, <3>1, <3>2
    <3>4. all = <<>> \/ Hydrating(all, request, <<>>, got, seen)
      BY <1>4, <2>2 DEF RowNames
    <3>5. IsList(all)
      BY <3>4, Nothing DEF Hydrating
    <3>6. PICK r, media : r \in ToSet(all) /\ item = AssembleRelease(Releases, r, media)
      BY <3>3, <3>5, RecordingItem
    <3>7. Hydrating(all, request, <<>>, got, seen)
      BY <3>4, <3>6, Nothing
    <3>8. Home(request) = Releases
      BY <2>2 DEF Home
    <3> HIDE DEF all
    <3>9. item = Built(request, r, media)
      BY <2>2, <3>6, <3>8 DEF Built
    <3>10. IsGenuine(Built(request, r, media), part, seen)
      BY <1>2, <3>6, <3>7, BuiltPart
    <3>11. QED BY <3>9, <3>10 DEF IsGenuine
  <2>3. QED BY <1>5, <2>1, <2>2 DEF ReleasesOf
<1>6. PartsAreGenuine'
  <2> SUFFICES ASSUME answer'.status = 200, NEW i \in DOMAIN answer'.items,
                      NEW item \in ReleasesOf(answer.items[i])',
                      NEW part \in {"credit", "group", "date", "status", "comment"}
               PROVE  (\E v, w \in seen : \E r \in Databases[v].release :
                         r.gid = item.gid /\ item[part] = ReleaseIn(Databases[w], r)[part])'
    BY DEF PartsAreGenuine
  <2>1. item \in ReleasesOf(Answer.items[i])
    BY <1>1 DEF ReleasesOf
  <2>2. QED BY <1>1, <1>5, <2>1
<1>7. QED BY <1>1, <1>2, <1>3, <1>6 DEF GenuineInv

LEMMA FailsGenuine ==
  ASSUME GenuineInv, KnownInv', Fails
  PROVE  GenuineInv'
<1>1. answer' = Status(500) /\ seen' = seen
  BY DEF Fails
<1>2. answer' # Pending /\ answer'.status # 200
  BY <1>1 DEF Status, Pending
<1>3. QED BY <1>1, <1>2 DEF GenuineInv, PartsAreGenuine

LEMMA ReplicateGenuine ==
  ASSUME GenuineInv, KnownInv', Replicate
  PROVE  GenuineInv'
<1>1. /\ UNCHANGED <<request, todo, got, answer, shown>>
      /\ seen' = IF answer = Pending THEN seen \union {db'} ELSE seen
  BY DEF Replicate
<1>2. seen \subseteq seen' /\ seen' \subseteq 1..Len(Databases)
  BY <1>1 DEF GenuineInv, KnownInv
<1>3. CASE answer = Pending
  <2>1. db' \in seen' /\ answer'.status # 200
    BY <1>1, <1>3 DEF Pending
  <2>2. ASSUME request.kind \in {"release", "recording"} PROVE Building(request, todo, got, seen')
    BY <1>2, <1>3, <2>2, StillBuilding DEF GenuineInv
  <2>3. QED BY <1>1, <1>2, <2>1, <2>2 DEF GenuineInv, PartsAreGenuine
<1>4. CASE answer # Pending
  BY <1>1, <1>2, <1>4 DEF GenuineInv, PartsAreGenuine, ReleasesOf
<1>5. QED BY <1>3, <1>4

\* However the mirror replicates between the statements of a request (repo.rs runs them
\* outside a transaction), each release in its answer has its own parts: one of a version
\* the request spans, each part as that release has it in such a version.
THEOREM PartsStayGenuine == Spec => []PartsAreGenuine
<1>1. GenuineInv /\ [Next]_vars => GenuineInv'
  <2> SUFFICES ASSUME GenuineInv, [Next]_vars PROVE GenuineInv'
    OBVIOUS
  <2>1. ASSUME NEW r \in Requests, Accept(r) PROVE GenuineInv'
    BY <2>1, AcceptGenuine
  <2>2. CASE Run
    <3>1. KnownInv'
      BY <2>2, RunKnown DEF GenuineInv
    <3>2. QED BY <2>2, <3>1, RanGenuine DEF Run
  <2>3. CASE TimesOut
    <3>1. KnownInv'
      BY <2>3, TimesOutKnown DEF GenuineInv
    <3>2. QED BY <2>3, <3>1, RanGenuine DEF TimesOut
  <2>4. CASE Fails
    BY <2>4, FailsKnown, FailsGenuine DEF GenuineInv
  <2>5. CASE Respond
    BY <2>5, RespondKnown, RespondGenuine DEF GenuineInv
  <2>6. CASE Replicate
    BY <2>6, ReplicateKnown, ReplicateGenuine DEF GenuineInv
  <2>7. CASE UNCHANGED vars
    BY <2>7 DEF vars, GenuineInv, PartsAreGenuine, ReleasesOf, KnownInv, PagesExisted, LookedUp, LookupKey
  <2>8. QED BY <2>1, <2>2, <2>3, <2>4, <2>5, <2>6, <2>7 DEF Next
<1>2. GenuineInv => PartsAreGenuine
  BY DEF GenuineInv
<1>3. QED BY GenuineInit, <1>1, <1>2, PTL DEF Spec
=============================================================================

-------------------------- MODULE TmdbFacadeProofs --------------------------
(***************************************************************************)
(* Proofs about TmdbFacade for any titles, queries, sections and callers   *)
(* and any TTL: whatever requests overwrite each other's rows, an answer   *)
(* carries its sections, and staleness adds up to no more than the TTLs it *)
(* went through.                                                           *)
(***************************************************************************)
EXTENDS TmdbFacade, WellFoundedInduction, TLAPS

----------------------------------------------------------------------------
(* The oldest of some times.                                               *)

\* Natural numbers have a least one, and Min is it.
LEMMA MinOfTimes ==
  ASSUME NEW S \in SUBSET Nat, S # {}
  PROVE  Min(S) \in S /\ \A y \in S : Min(S) <= y
<1>1. PICK x \in S : \A y \in S : ~ (<<y, x>> \in OpToRel(<, Nat))
  BY NatLessThanWellFounded, WFMin
<1>2. \A y \in S : x <= y
  <2> TAKE y \in S
  <2>1. x \in Nat /\ y \in Nat
    OBVIOUS
  <2>2. ~ (y < x)
    BY <1>1, <2>1 DEF OpToRel
  <2> QED BY <2>1, <2>2
<1> QED BY <1>2 DEF Min

----------------------------------------------------------------------------
(* The inductive invariant.                                                *)

\* The payloads of a row, and how much older than its request's miss one may be.
PayloadOf(k) == IF k \in Queries THEN Found ELSE Detail
Spent(k) == IF k \in Queries THEN CacheTtl + Patience ELSE 0

\* What each stage of a request is about: details and seasons, or searches.
WantInv ==
  \A c \in Callers :
    /\ pc[c] = "idle" => cached[c] = NoRow
    /\ pc[c] \in {"fetching", "degraded", "linking"} => want[c] \in Titles
    /\ pc[c] \in {"local", "searching"} => want[c] \in Queries
    /\ pc[c] = "linking" => want[c] \in Linked
    /\ pc[c] = "storing" => want[c] \in Rows /\ payload[c] \in PayloadOf(want[c])
    /\ pc[c] = "done" => want[c] \in Rows
    /\ pc[c] = "searching" => payload[c] \in Found
    /\ pc[c] \in {"linking", "done"} => answer[c] \in PayloadOf(want[c]) \union {NoRow}
    /\ want[c] \in Queries => cached[c] = NoRow
    /\ want[c] \in Titles \ Linked => appends[c] = {}

\* How long before its fetched_at the oldest part of a row may have been taken.
Lag(k) == IF k \in Queries THEN CacheTtl + 2 * Patience ELSE Patience

RowInv ==
  \A k \in Rows : row[k] # NoRow => row[k].fetched_at <= row[k].taken + Lag(k)

\* A request lives for Patience after its miss. Until it is answered it holds what
\* was fetched since, or what was fresh when it missed.
AgeInv ==
  \A c \in Callers :
    /\ pc[c] \notin {"idle", "done"} => now <= since[c] + Patience
    /\ pc[c] \in {"fetching", "degraded"} /\ cached[c] # NoRow =>
         since[c] <= cached[c].taken + CacheTtl + Patience
    /\ pc[c] \in {"searching", "storing"} => since[c] <= payload[c].taken + Spent(want[c])
    /\ pc[c] = "linking" /\ answer[c] # NoRow => since[c] <= answer[c].taken

\* What is stored or sent on has the sections that were asked for.
SectionInv ==
  \A c \in Callers :
    /\ pc[c] = "storing" /\ want[c] \in Titles =>
         appends[c] \intersect Sections \subseteq payload[c].sections
    /\ pc[c] = "linking" /\ answer[c] # NoRow =>
         appends[c] \intersect Sections \subseteq answer[c].sections

TmdbInv == TypeOK /\ WantInv /\ RowInv /\ AgeInv /\ SectionInv /\ AnswerCarries /\ BoundedStaleness

\* A row or payload that is one is of a kind that knows its times.
LEMMA TimesTyped ==
  ASSUME NEW k, NEW p \in PayloadOf(k)
  PROVE  /\ p # NoRow /\ p.taken \in 0 .. MaxTime /\ p.fetched_at \in 0 .. MaxTime
         /\ k \in Queries => p \in Found
         /\ k \notin Queries => p \in Detail
BY TmdbAssumption DEF PayloadOf, Detail, Found

LEMMA RowTyped ==
  ASSUME TypeOK, NEW k \in Rows, row[k] # NoRow
  PROVE  row[k] \in PayloadOf(k)
BY TmdbAssumption DEF TypeOK, Rows, PayloadOf

LEMMA InitInv == Init => TmdbInv
<1> SUFFICES ASSUME Init PROVE TmdbInv
  OBVIOUS
<1> USE TmdbAssumption DEF Init
<1>1. TypeOK
  BY DEF TypeOK, Stage, Rows, Payload
<1>2. WantInv /\ RowInv /\ AgeInv /\ SectionInv
  BY DEF WantInv, RowInv, AgeInv, SectionInv, Rows
<1>3. AnswerCarries /\ BoundedStaleness
  BY DEF AnswerCarries, BoundedStaleness
<1> QED BY <1>1, <1>2, <1>3 DEF TmdbInv

----------------------------------------------------------------------------
(* One lemma per action.                                                   *)

\* What a lookup finds was taken within the TTL and a request.
LEMMA LookupFinds ==
  ASSUME TmdbInv, NEW k \in Rows, NEW r \in LookedUp(k), r # NoRow
  PROVE  /\ r = row[k] /\ r \in PayloadOf(k)
         /\ r.taken \in 0 .. MaxTime
         /\ now <= r.taken + CacheTtl + Lag(k)
<1> USE TmdbAssumption DEF TmdbInv
<1>1. Fresh(k) /\ r = row[k]
  BY DEF LookedUp, CacheGet
<1>2. row[k] # NoRow /\ row[k].fetched_at >= now - CacheTtl /\ now \in 0 .. MaxTime
  BY <1>1 DEF Fresh, TypeOK
<1>3. r \in PayloadOf(k)
  BY <1>1, <1>2, RowTyped
<1>4. r.taken \in 0 .. MaxTime /\ r.fetched_at \in 0 .. MaxTime
  BY <1>1, <1>2, RowTyped, TimesTyped
<1>5. Lag(k) \in Nat
  BY DEF Lag
<1> QED BY <1>1, <1>2, <1>3, <1>4, <1>5 DEF RowInv

LEMMA LookupInv ==
  ASSUME TmdbInv, NEW c \in Callers, NEW t \in Titles, NEW A \in Appends, Lookup(c, t, A)
  PROVE  TmdbInv'
<1> USE TmdbAssumption DEF TmdbInv, TypeOK, Goto
<1>1. PICK r \in LookedUp(t) :
        \/ /\ Satisfies(r, A)
           /\ Goto(c, "idle", "done")
           /\ answer' = [answer EXCEPT ![c] = r]
           /\ UNCHANGED <<cached, since>>
        \/ /\ ~Satisfies(r, A)
           /\ Goto(c, "idle", IF Configured THEN "fetching" ELSE "degraded")
           /\ cached' = [cached EXCEPT ![c] = r]
           /\ since' = [since EXCEPT ![c] = now]
           /\ UNCHANGED answer
  BY DEF Lookup
<1>2. /\ want' = [want EXCEPT ![c] = t] /\ appends' = [appends EXCEPT ![c] = A]
      /\ UNCHANGED <<now, row, links, payload>> /\ (t \notin Linked => A = {})
  BY DEF Lookup
<1>3. t \in Rows /\ t \notin Queries /\ Lag(t) = Patience /\ t # NoRow
  BY DEF Rows, Lag
<1>4. r = NoRow \/ (/\ r \in Detail /\ r.taken \in 0 .. MaxTime
                    /\ now <= r.taken + CacheTtl + Patience)
  BY <1>3, LookupFinds DEF PayloadOf
<1>5. r \in Detail \union {NoRow}
  BY <1>4
<1>6. TypeOK'
  BY <1>1, <1>2, <1>3, <1>5 DEF Stage, Rows, Payload
<1>7. WantInv'
  BY <1>1, <1>2, <1>3, <1>5 DEF WantInv, PayloadOf, Rows
<1>8. RowInv'
  BY <1>2 DEF RowInv
<1>9. AgeInv'
  BY <1>1, <1>2, <1>3, <1>4 DEF AgeInv, WantInv, Spent
<1>10. SectionInv'
  BY <1>1, <1>2, <1>3 DEF SectionInv, WantInv
<1>11. AnswerCarries'
  BY <1>1, <1>2, <1>3 DEF AnswerCarries, SectionInv, WantInv, Satisfies
<1>12. BoundedStaleness'
  BY <1>1, <1>2, <1>3, <1>4 DEF BoundedStaleness
<1> QED BY <1>6, <1>7, <1>8, <1>9, <1>10, <1>11, <1>12

LEMMA FetchedInv ==
  ASSUME TmdbInv, NEW c \in Callers, Fetched(c)
  PROVE  TmdbInv'
<1> USE TmdbAssumption DEF TmdbInv, TypeOK, Fetched, Goto, Union
<1>1. TypeOK'
  BY DEF Stage, Rows, Payload, Detail, WantInv
<1>2. WantInv'
  BY DEF WantInv, PayloadOf, Rows, Detail
<1>3. RowInv'
  BY DEF RowInv
<1>4. AgeInv'
  BY DEF AgeInv, WantInv, Spent
<1>5. SectionInv'
  BY DEF SectionInv, WantInv
<1>6. AnswerCarries'
  BY DEF AnswerCarries, SectionInv, WantInv
<1>7. BoundedStaleness'
  BY DEF BoundedStaleness, AgeInv, WantInv
<1> QED BY <1>1, <1>2, <1>3, <1>4, <1>5, <1>6, <1>7

LEMMA FetchFailsInv ==
  ASSUME TmdbInv, NEW c \in Callers, FetchFails(c)
  PROVE  TmdbInv'
<1> USE TmdbAssumption DEF TmdbInv, TypeOK, FetchFails, Goto
<1>1. TypeOK'
  BY DEF Stage, Rows, Payload
<1>2. WantInv'
  BY DEF WantInv, PayloadOf, Rows
<1>3. RowInv'
  BY DEF RowInv
<1>4. AgeInv'
  BY DEF AgeInv, WantInv, Spent
<1>5. SectionInv'
  BY DEF SectionInv, WantInv
<1>6. AnswerCarries'
  BY DEF AnswerCarries, SectionInv, WantInv
<1>7. BoundedStaleness'
  BY DEF BoundedStaleness, AgeInv, WantInv
<1> QED BY <1>1, <1>2, <1>3, <1>4, <1>5, <1>6, <1>7

LEMMA DegradeInv ==
  ASSUME TmdbInv, NEW c \in Callers, Degrade(c)
  PROVE  TmdbInv'
<1> USE TmdbAssumption DEF TmdbInv, TypeOK, Degrade, Goto
<1>1. TypeOK'
  BY DEF Stage, Rows, Payload
<1>2. WantInv'
  BY DEF WantInv, PayloadOf, Rows
<1>3. RowInv'
  BY DEF RowInv
<1>4. AgeInv'
  BY DEF AgeInv, WantInv, Spent
<1>5. SectionInv'
  BY DEF SectionInv, WantInv
<1>6. AnswerCarries'
  BY DEF AnswerCarries, SectionInv, WantInv
<1>7. BoundedStaleness'
  <2>1. want[c] \in Titles /\ want[c] \notin Queries
    BY DEF WantInv
  <2>2. cached[c] # NoRow => now - cached[c].taken <= CacheTtl + 2 * Patience
    BY <2>1 DEF AgeInv, Detail
  <2> QED BY <2>1, <2>2 DEF BoundedStaleness
<1> QED BY <1>1, <1>2, <1>3, <1>4, <1>5, <1>6, <1>7

LEMMA LinkInv ==
  ASSUME TmdbInv, NEW c \in Callers, Link(c)
  PROVE  TmdbInv'
<1> USE TmdbAssumption DEF TmdbInv, TypeOK, Link, Goto
<1>1. TypeOK'
  BY DEF Stage, WantInv
<1>2. WantInv'
  BY DEF WantInv, PayloadOf, Rows
<1>3. RowInv'
  BY DEF RowInv
<1>4. AgeInv'
  BY DEF AgeInv, WantInv, Spent
<1>5. SectionInv'
  BY DEF SectionInv, WantInv
<1>6. AnswerCarries'
  BY DEF AnswerCarries, SectionInv, WantInv
<1>7. BoundedStaleness'
  <2>1. want[c] \in Titles /\ want[c] \notin Queries
    BY DEF WantInv
  <2>2. answer[c] # NoRow => now - answer[c].taken <= CacheTtl + 2 * Patience
    BY <2>1 DEF AgeInv, WantInv, PayloadOf, Detail
  <2> QED BY <2>1, <2>2 DEF BoundedStaleness
<1> QED BY <1>1, <1>2, <1>3, <1>4, <1>5, <1>6, <1>7

LEMMA SearchInv ==
  ASSUME TmdbInv, NEW c \in Callers, NEW q \in Queries, Search(c, q)
  PROVE  TmdbInv'
<1> USE TmdbAssumption DEF TmdbInv, TypeOK, Goto
<1>1. PICK r \in LookedUp(q) :
        \/ /\ r # NoRow
           /\ Goto(c, "idle", "done")
           /\ answer' = [answer EXCEPT ![c] = r]
           /\ UNCHANGED since
        \/ /\ r = NoRow
           /\ Goto(c, "idle", "local")
           /\ since' = [since EXCEPT ![c] = now]
           /\ UNCHANGED answer
  BY DEF Search
<1>2. want' = [want EXCEPT ![c] = q] /\ UNCHANGED <<now, row, links, appends, cached, payload>>
  BY DEF Search
<1>3. q \in Rows /\ q \notin Titles /\ Lag(q) = CacheTtl + 2 * Patience
  BY DEF Rows, Lag
<1>4. r # NoRow => /\ r \in PayloadOf(q) /\ r \in Found /\ r.taken \in 0 .. MaxTime
                   /\ now <= r.taken + 2 * CacheTtl + 2 * Patience
  BY <1>3, LookupFinds DEF PayloadOf
<1>5. TypeOK'
  BY <1>1, <1>2, <1>3, <1>4 DEF Stage, Rows, Payload
<1>6. WantInv'
  BY <1>1, <1>2, <1>3, <1>4 DEF WantInv, PayloadOf
<1>7. RowInv'
  BY <1>2 DEF RowInv
<1>8. AgeInv'
  BY <1>1, <1>2, <1>3 DEF AgeInv, WantInv, Spent
<1>9. SectionInv'
  BY <1>1, <1>2, <1>3 DEF SectionInv, WantInv
<1>10. AnswerCarries'
  BY <1>1, <1>2, <1>3 DEF AnswerCarries, SectionInv, WantInv
<1>11. BoundedStaleness'
  BY <1>1, <1>2, <1>3, <1>4 DEF BoundedStaleness
<1> QED BY <1>5, <1>6, <1>7, <1>8, <1>9, <1>10, <1>11

\* The oldest of the donors was taken within the TTL and a request of the miss.
LEMMA DonorsAreRecent ==
  ASSUME TmdbInv, NEW c \in Callers, pc[c] = "local", NEW donors \in SUBSET CacheGetMany(want[c]),
         NEW m, m = Min({row[t].taken : t \in donors} \union {now})
  PROVE  m \in 0 .. now /\ since[c] <= m + CacheTtl + Patience
<1> USE TmdbAssumption DEF TmdbInv
<1> DEFINE times == {row[t].taken : t \in donors} \union {now}
<1>1. now \in 0 .. MaxTime /\ since[c] \in 0 .. now /\ want[c] \in Queries
  BY DEF TypeOK, WantInv
<1>2. ASSUME NEW t \in donors
      PROVE  row[t].taken \in 0 .. MaxTime /\ now <= row[t].taken + CacheTtl + Patience
  <2>1. t \in Titles /\ t \in Rows /\ t \notin Queries /\ Fresh(t) /\ Lag(t) = Patience
    BY <1>1, <1>2 DEF CacheGetMany, Rows, Lag
  <2>2. row[t] # NoRow /\ row[t].fetched_at >= now - CacheTtl
    BY <2>1 DEF Fresh
  <2>3. row[t].taken \in 0 .. MaxTime /\ row[t].fetched_at \in 0 .. MaxTime
    BY <2>1, <2>2, RowTyped, TimesTyped
  <2>4. row[t].fetched_at <= row[t].taken + Patience
    BY <2>1, <2>2 DEF RowInv
  <2> QED BY <1>1, <2>2, <2>3, <2>4
<1>3. times \in SUBSET Nat /\ times # {}
  BY <1>1, <1>2
<1>4. m \in times /\ \A y \in times : m <= y
  BY <1>3, MinOfTimes
<1>5. m \in Nat /\ m <= now
  BY <1>1, <1>3, <1>4
<1>6. now <= m + CacheTtl + Patience
  BY <1>1, <1>2, <1>4
<1> QED BY <1>1, <1>5, <1>6

LEMMA LocalInv ==
  ASSUME TmdbInv, NEW c \in Callers, Local(c)
  PROVE  TmdbInv'
<1> USE TmdbAssumption DEF TmdbInv
<1>a. PICK donors \in {CacheGetMany(want[c]), {}}, full \in BOOLEAN :
        /\ pc' = [pc EXCEPT ![c] = IF full \/ ~Configured THEN "storing" ELSE "searching"]
        /\ payload' = [payload EXCEPT ![c] =
             [full |-> full, taken |-> Min({row[t].taken : t \in donors} \union {now}),
              fetched_at |-> now]]
  BY DEF Local
<1> DEFINE m == Min({row[t].taken : t \in donors} \union {now})
<1>1. pc[c] = "local" /\ want[c] \in Queries /\ now \in 0 .. MaxTime
  BY DEF Local, WantInv, TypeOK
<1>2. m \in 0 .. now /\ since[c] <= m + CacheTtl + Patience
  BY <1>1, DonorsAreRecent
<1>3. payload' = [payload EXCEPT ![c] = [full |-> full, taken |-> m, fetched_at |-> now]]
  BY <1>a
<1>4. PICK to \in {"storing", "searching"} : pc' = [pc EXCEPT ![c] = to]
  BY <1>a
<1>5. UNCHANGED <<now, row, links, want, appends, cached, since, answer>>
  BY DEF Local
<1> HIDE DEF m
<1>6. [full |-> full, taken |-> m, fetched_at |-> now] \in Found
  BY <1>1, <1>2 DEF Found
<1> USE <1>1, <1>2, <1>3, <1>4, <1>5 DEF TypeOK
<1>7. TypeOK'
  BY <1>6 DEF Stage, Payload
<1>8. WantInv'
  BY <1>6 DEF WantInv, PayloadOf, Rows
<1>9. RowInv'
  BY DEF RowInv
<1>10. AgeInv'
  BY DEF AgeInv, Spent
<1>11. SectionInv' /\ AnswerCarries'
  BY DEF SectionInv, AnswerCarries
<1>12. BoundedStaleness'
  BY DEF BoundedStaleness
<1> QED BY <1>7, <1>8, <1>9, <1>10, <1>11, <1>12

LEMMA MergedInv ==
  ASSUME TmdbInv, NEW c \in Callers, Merged(c)
  PROVE  TmdbInv'
<1> USE TmdbAssumption DEF TmdbInv
<1> DEFINE p == [payload[c] EXCEPT !.full = TRUE]
<1>1. /\ pc[c] = "searching" /\ pc' = [pc EXCEPT ![c] = "storing"]
      /\ payload' = [payload EXCEPT ![c] = p]
      /\ UNCHANGED <<now, row, links, want, appends, cached, since, answer>>
  BY DEF Merged, Goto
<1>2. want[c] \in Queries /\ payload[c] \in Found
  BY <1>1 DEF WantInv
<1>3. p \in Found /\ p.taken = payload[c].taken
  BY <1>2 DEF Found
<1> HIDE DEF p
<1> USE <1>1, <1>2, <1>3 DEF TypeOK
<1>4. TypeOK'
  BY DEF Stage, Payload
<1>5. WantInv'
  BY DEF WantInv, PayloadOf, Rows
<1>6. RowInv'
  BY DEF RowInv
<1>7. AgeInv'
  BY DEF AgeInv
<1>8. SectionInv' /\ AnswerCarries'
  BY DEF SectionInv, AnswerCarries
<1>9. BoundedStaleness'
  BY DEF BoundedStaleness
<1> QED BY <1>4, <1>5, <1>6, <1>7, <1>8, <1>9

LEMMA SearchFailsInv ==
  ASSUME TmdbInv, NEW c \in Callers, SearchFails(c)
  PROVE  TmdbInv'
<1> USE TmdbAssumption DEF TmdbInv, TypeOK, SearchFails, Goto
<1>1. TypeOK'
  BY DEF Stage, Rows, Payload
<1>2. WantInv'
  BY DEF WantInv, PayloadOf, Rows
<1>3. RowInv'
  BY DEF RowInv
<1>4. AgeInv'
  BY DEF AgeInv, WantInv, Spent
<1>5. SectionInv'
  BY DEF SectionInv, WantInv
<1>6. AnswerCarries'
  BY DEF AnswerCarries, SectionInv, WantInv
<1>7. BoundedStaleness'
  BY DEF BoundedStaleness, AgeInv, WantInv
<1> QED BY <1>1, <1>2, <1>3, <1>4, <1>5, <1>6, <1>7

\* What is stored is of the row's kind and not older than its lag.
LEMMA StoredIsRecent ==
  ASSUME TmdbInv, NEW c \in Callers, pc[c] = "storing"
  PROVE  /\ want[c] \in Rows /\ payload[c] \in PayloadOf(want[c])
         /\ [payload[c] EXCEPT !.fetched_at = now] \in PayloadOf(want[c])
         /\ [payload[c] EXCEPT !.fetched_at = now].fetched_at = now
         /\ [payload[c] EXCEPT !.fetched_at = now].taken = payload[c].taken
         /\ payload[c].taken \in 0 .. MaxTime
         /\ since[c] <= payload[c].taken + Spent(want[c])
         /\ now <= payload[c].taken + Lag(want[c])
         /\ Lag(want[c]) <= (IF want[c] \in Queries THEN 2 * CacheTtl ELSE CacheTtl) + 2 * Patience
<1> USE TmdbAssumption DEF TmdbInv
<1>1. want[c] \in Rows /\ payload[c] \in PayloadOf(want[c])
  BY DEF WantInv
<1>2. payload[c].taken \in 0 .. MaxTime /\ now \in 0 .. MaxTime /\ since[c] \in 0 .. now
  BY <1>1, TimesTyped DEF TypeOK
<1>3. /\ [payload[c] EXCEPT !.fetched_at = now] \in PayloadOf(want[c])
      /\ [payload[c] EXCEPT !.fetched_at = now].fetched_at = now
      /\ [payload[c] EXCEPT !.fetched_at = now].taken = payload[c].taken
  <2>1. CASE want[c] \in Queries
    BY <1>1, <1>2, <2>1 DEF PayloadOf, Found
  <2>2. CASE want[c] \notin Queries
    BY <1>1, <1>2, <2>2 DEF PayloadOf, Detail
  <2> QED BY <2>1, <2>2
<1>4. now <= since[c] + Patience /\ since[c] <= payload[c].taken + Spent(want[c])
  BY DEF AgeInv
<1> QED BY <1>1, <1>2, <1>3, <1>4 DEF Spent, Lag

LEMMA PutInv ==
  ASSUME TmdbInv, NEW c \in Callers, Put(c)
  PROVE  TmdbInv'
<1> USE TmdbAssumption DEF TmdbInv
<1> DEFINE k == want[c]
           p == payload[c]
           r == [p EXCEPT !.fetched_at = now]
<1>1. pc[c] = "storing" /\ now \in 0 .. MaxTime
  BY DEF Put, Goto, TypeOK
<1>2. /\ k \in Rows /\ p \in PayloadOf(k) /\ r \in PayloadOf(k)
      /\ r.fetched_at = now /\ r.taken = p.taken /\ p.taken \in 0 .. MaxTime
      /\ since[c] <= p.taken + Spent(k) /\ now <= p.taken + Lag(k)
      /\ Lag(k) <= (IF k \in Queries THEN 2 * CacheTtl ELSE CacheTtl) + 2 * Patience
  BY <1>1, StoredIsRecent
<1>3. row' = [row EXCEPT ![k] = r] \/ row' = row
  BY DEF Put
<1>4. /\ pc' = [pc EXCEPT ![c] = IF k \in Linked THEN "linking" ELSE "done"]
      /\ answer' = [answer EXCEPT ![c] = p] /\ payload' = [payload EXCEPT ![c] = NoRow]
      /\ UNCHANGED <<now, links, want, appends, cached, since>>
  BY DEF Put, Goto
<1>5. p \in Payload /\ p # NoRow
  BY <1>2, TimesTyped DEF PayloadOf, Payload
<1>6. \A q \in Rows : row'[q] = row[q] \/ (q = k /\ row'[q] = r)
  BY <1>2, <1>3 DEF TypeOK
<1> HIDE DEF k, p, r
<1>7. TypeOK'
  <2>1. \A t \in Titles : row'[t] \in Detail \union {NoRow}
    BY <1>2, <1>6 DEF TypeOK, Rows, PayloadOf
  <2>2. \A q \in Queries : row'[q] \in Found \union {NoRow}
    BY <1>2, <1>6 DEF TypeOK, Rows, PayloadOf
  <2>3. row' \in [Rows -> Payload]
    BY <1>2, <1>3, TimesTyped DEF TypeOK, Payload
  <2> QED BY <1>4, <1>5, <2>1, <2>2, <2>3 DEF TypeOK, Stage, Payload
<1>8. WantInv'
  BY <1>1, <1>2, <1>4 DEF WantInv, TypeOK, k, Rows
<1>9. RowInv'
  BY <1>2, <1>4, <1>6 DEF RowInv
<1>10. AgeInv'
  BY <1>1, <1>2, <1>4 DEF AgeInv, Spent, TypeOK, k
<1>11. SectionInv' /\ AnswerCarries'
  BY <1>1, <1>2, <1>4 DEF SectionInv, AnswerCarries, TypeOK, k, p
<1>12. BoundedStaleness'
  <2>1. now - p.taken <= (IF k \in Queries THEN 2 * CacheTtl ELSE CacheTtl) + 2 * Patience
    <3>1. Lag(k) \in Int
      BY DEF Lag
    <3>2. (IF k \in Queries THEN 2 * CacheTtl ELSE CacheTtl) \in Int
      OBVIOUS
    <3> QED BY <1>1, <1>2, <3>1, <3>2
  <2> QED BY <1>4, <2>1 DEF BoundedStaleness, TypeOK, k
<1> QED BY <1>7, <1>8, <1>9, <1>10, <1>11, <1>12

LEMMA ForgetInv ==
  ASSUME TmdbInv, NEW c \in Callers, pc[c] # "idle", Forget(c), UNCHANGED <<now, row, links>>
  PROVE  TmdbInv'
<1> USE TmdbAssumption DEF TmdbInv, TypeOK, Forget
<1>1. TypeOK'
  BY DEF Stage, Rows, Payload
<1>2. WantInv'
  BY DEF WantInv, PayloadOf, Rows
<1>3. RowInv'
  BY DEF RowInv
<1>4. AgeInv'
  BY DEF AgeInv, WantInv, Spent
<1>5. SectionInv'
  BY DEF SectionInv, WantInv
<1>6. AnswerCarries'
  BY DEF AnswerCarries, SectionInv, WantInv
<1>7. BoundedStaleness'
  BY DEF BoundedStaleness, AgeInv, WantInv
<1> QED BY <1>1, <1>2, <1>3, <1>4, <1>5, <1>6, <1>7

LEMMA TickInv ==
  ASSUME TmdbInv, Tick
  PROVE  TmdbInv'
<1> USE TmdbAssumption DEF TmdbInv, TypeOK, Tick
<1>1. TypeOK'
  BY DEF Stage, Rows, Payload
<1>2. WantInv'
  BY DEF WantInv, PayloadOf, Rows
<1>3. RowInv'
  BY DEF RowInv
<1>4. AgeInv'
  BY DEF AgeInv, WantInv, Spent
<1>5. SectionInv'
  BY DEF SectionInv, WantInv
<1>6. AnswerCarries'
  BY DEF AnswerCarries, SectionInv, WantInv
<1>7. BoundedStaleness'
  BY DEF BoundedStaleness, AgeInv, WantInv
<1> QED BY <1>1, <1>2, <1>3, <1>4, <1>5, <1>6, <1>7

LEMMA NextInv == TmdbInv /\ [Next]_vars => TmdbInv'
<1> SUFFICES ASSUME TmdbInv, [Next]_vars
             PROVE  TmdbInv'
  OBVIOUS
<1>1. CASE Next
  BY <1>1, LookupInv, FetchedInv, FetchFailsInv, DegradeInv, LinkInv, SearchInv, LocalInv,
     MergedInv, SearchFailsInv, PutInv, ForgetInv, TickInv DEF Next, Respond, Cancel
<1>2. CASE UNCHANGED vars
  BY <1>2 DEF vars, TmdbInv, TypeOK, WantInv, RowInv, AgeInv, SectionInv, AnswerCarries,
              BoundedStaleness
<1> QED BY <1>1, <1>2

THEOREM TmdbSound == Spec => []TmdbInv
BY InitInv, NextInv, PTL DEF Spec

----------------------------------------------------------------------------
(* The properties.                                                         *)

\* The typing invariant, for any instance.
THEOREM TmdbTyped == Spec => []TypeOK
<1>1. TmdbInv => TypeOK
  BY DEF TmdbInv
<1> QED BY <1>1, TmdbSound, PTL

\* Whatever other requests store in a title's one row meanwhile, a request whose
\* call succeeded is answered with the sections it asked for.
THEOREM AnswersCarrySections == Spec => []AnswerCarries
<1>1. TmdbInv => AnswerCarries
  BY DEF TmdbInv
<1> QED BY <1>1, TmdbSound, PTL

\* The staleness of a detail is the TTL and two requests; a search adds the TTL of
\* the details that completed it, once, in any order of stores.
THEOREM StalenessAddsUp == Spec => []BoundedStaleness
<1>1. TmdbInv => BoundedStaleness
  BY DEF TmdbInv
<1> QED BY <1>1, TmdbSound, PTL
=============================================================================

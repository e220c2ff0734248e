------------------------ MODULE SearchCacheRefinement ------------------------
(* SearchCache implements SingleFlightStore. *)
EXTENDS SearchCache

\* The leader of a key is whoever runs its search.
Searching ==
  [k \in Keys |->
     IF \E c \in Callers : pc[c] = "computing" /\ want[c] = k
     THEN CHOOSE c \in Callers : pc[c] = "computing" /\ want[c] = k
     ELSE NoCaller]

\* What a key may be answered with: its entry, and what its slot holds.
Servable ==
  [k \in Keys |->
     {entries[j].body : j \in {k} \intersect DOMAIN entries}
       \union ({parked[s] : s \in {inflight[k]} \ {NoSlot}} \ {NoBody})]

Promise == INSTANCE SingleFlightStore WITH
             Bodies <- [key : Keys, born : 0 .. MaxTime],
             searching <- Searching,
             servable <- Servable

\* Slots, guards, reference counts, expiry and eviction keep the promise: one
\* search per key, only when nothing is left to serve, and no forgotten body
\* is ever served again.
KeepsPromise == Promise!Spec
=============================================================================

---------------------------- MODULE MCSearchCache ----------------------------
(* SearchCache on two small instances for TLC: a race of all callers over two *)
(* keys that both fit the store, and one caller at a time over more keys than *)
(* fit, with the clock running on; what overlaps there are the inserts, whose *)
(* clock readings and whose turns at the mutex may come in different orders.  *)
EXTENDS SearchCache, TLC

CONSTANTS RaceTime, RaceKeys

VARIABLE instance

\* The keys that are stored, queued, asked for or in flight.
KeysInPlay ==
  DOMAIN entries \union Popped(Len(order)) \union {k \in Keys : inflight[k] # NoSlot}
    \union ({want[c] : c \in Callers} \ {NoKey})

Racing == Cardinality(KeysInPlay) <= RaceKeys /\ now <= RaceTime
Alone == Cardinality({c \in Callers : pc[c] \notin {"idle", "inserting"}}) <= 1

MCInit == Init /\ instance \in {"race", "alone"}
MCNext ==
  \/ instance = "race" /\ Next /\ Racing' /\ UNCHANGED instance
  \/ instance = "alone" /\ Next /\ Alone' /\ UNCHANGED instance
MCSpec == MCInit /\ [][MCNext]_<<vars, instance>>

\* Requests, keys and slot allocations are interchangeable.
Symmetry == Permutations(Callers) \union Permutations(Keys) \union Permutations(Slots)
=============================================================================

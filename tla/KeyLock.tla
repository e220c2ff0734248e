------------------------------ MODULE KeyLock ------------------------------
(***************************************************************************)
(* What a table of keyed locks promises: a caller holds at most one lease, *)
(* and a key is leased to at most one caller.                              *)
(***************************************************************************)
CONSTANTS Callers, Keys, NoKey

VARIABLE lease  \* the key each caller has leased, or NoKey

Init == lease = [c \in Callers |-> NoKey]

Take(c, k) ==
  /\ lease[c] = NoKey
  /\ \A d \in Callers : lease[d] # k
  /\ lease' = [lease EXCEPT ![c] = k]

Give(c) ==
  /\ lease[c] # NoKey
  /\ lease' = [lease EXCEPT ![c] = NoKey]

Next == \E c \in Callers : Give(c) \/ \E k \in Keys : Take(c, k)

Spec == Init /\ [][Next]_lease
=============================================================================

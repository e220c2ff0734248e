--------------------------- MODULE MCCoverArtCache ---------------------------
(* CoverArtCache on two small instances for TLC: three callers of one key with *)
(* everything that can go wrong, and two undisturbed callers of two keys.      *)
EXTENDS CoverArtCache, TLC

CONSTANTS HazardFetches, HazardKeys, CalmCallers

Symmetry == Permutations(Callers) \union Permutations(Keys)

\* Bodies that differ in length, and the TTLs of 200 and 404.
Lengths == [n \in Fetches |-> n]
Ttls == (200 :> 1) @@ (404 :> 0)

KeysInPlay ==
  {f[1] : f \in {g \in Keys \X Kinds : file[g] # NoFile}}
    \union ({want[c] : c \in Callers} \ {NoKey})
Hazardous == Cardinality(KeysInPlay) <= HazardKeys /\ fetches <= HazardFetches
Calm == Cardinality({c \in Callers : pc[c] # "idle"}) <= CalmCallers

MCNext == Next /\ IF calm THEN Calm' ELSE Hazardous'
MCSpec == Init /\ [][MCNext]_vars
=============================================================================

---------------------------- MODULE MCTvdbFacade ----------------------------
(* The two facades with one row per id for TLC, each on an instance of its   *)
(* own: TvdbFacade, and FanartFacade through a restart that may change its   *)
(* configuration.                                                            *)
EXTENDS TvdbFacade, FanartFacade, TLC

VARIABLE instance

\* With a cache, without a key, without a pool, and with the cache switched off.
AllConfigs ==
  {[pool |-> TRUE, key |-> k, ttl |-> CacheTtl] : k \in BOOLEAN}
    \union {[pool |-> FALSE, key |-> TRUE, ttl |-> CacheTtl], [pool |-> TRUE, key |-> TRUE, ttl |-> 0]}

MCInit ==
  /\ instance \in {"tvdb", "fanart"}
  /\ Init /\ FanartInit
  /\ instance = "tvdb" => art = {} /\ ~config.pool

MCNext ==
  \/ instance = "tvdb" /\ Next /\ UNCHANGED <<instance, fvars>>
  \/ instance = "fanart" /\ FanartNext /\ UNCHANGED <<instance, vars>>

MCSpec == MCInit /\ [][MCNext]_<<vars, fvars, instance>>

\* Request tasks are interchangeable.
Symmetry == Permutations(Callers)
=============================================================================

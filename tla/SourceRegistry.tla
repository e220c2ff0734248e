--------------------------- MODULE SourceRegistry ---------------------------
(***************************************************************************)
(* The source registry (src/sources/mod.rs) around the refreshes: a job's  *)
(* report becomes the source's row in shirabe.source, which                *)
(* /health/sources merges with a live probe of every source.               *)
(***************************************************************************)
EXTENDS ImdbIndex, TmdbIngest

CONSTANT Watched \* the sources whose health an instance looks at

VARIABLE row \* the status in shirabe.source, or None

RegistryInit == row = [s \in Watched |-> None]

data == <<live, staging, index, search, id_index>>

\* upsert_refresh, or its failure, which is only logged; then the process ends.
Persist(j) ==
  /\ job[j].pc = "persist"
  /\ \E saved \in BOOLEAN :
       row' = [s \in Watched |-> IF saved /\ s = job[j].source
                                 THEN (IF job[j].ok THEN "ok" ELSE "error") ELSE row[s]]
  /\ Become(j, NoJob)
  /\ UNCHANGED <<scheduled, upstream, data>>

\* The process dies; an open COPY is rolled back.
Crash(j) ==
  /\ job[j].pc # "idle"
  /\ Become(j, NoJob)
  /\ UNCHANGED <<scheduled, upstream, data, row>>

\* health() of an index source whose database answers.
Reachable(s) == \A n \in Expected(s) : n \in DOMAIN index /\ index[n]

\* merge_source_health, with the row and the probe of one moment.
Healthy(s) == Reachable(s) /\ row[s] # "error"
==============================================================================

----------------------------- MODULE ShirabeSync -----------------------------
(***************************************************************************)
(* The sync jobs of every source over one set of databases, with           *)
(* migrations, upstream publications and health reports in between.        *)
(***************************************************************************)
EXTENDS SourceRegistry

vars == <<scheduled, job, upstream, live, staging, index, search, id_index, row>>

Init == JobInit /\ IngestInit /\ IndexInit /\ TmdbInit /\ RegistryInit

JobStep ==
  /\ \E j \in Jobs :
       \/ \E s \in Sources : Start(j, s)
       \/ StatementFails(j)
       \/ Parse(j)
       \/ ParserEnds(j)
  /\ UNCHANGED <<data, row>>

IngestStep ==
  /\ \E j \in Jobs :
       \/ DropStaging(j)
       \/ CreateStaging(j)
       \/ Get(j)
       \/ OpenCopy(j)
       \/ Send(j)
       \/ FinishCopy(j)
       \/ StageIndexes(j)
       \/ Swap(j)
  /\ UNCHANGED <<search, id_index, row>>

IndexStep ==
  /\ \E j \in Jobs :
       \/ Prerequisites(j)
       \/ CreateSearchTable(j)
       \/ Truncate(j)
       \/ Insert(j)
       \/ List(j)
       \/ Prune(j)
       \/ Ensure(j)
  /\ UNCHANGED <<id_index, row>>

TmdbStep ==
  /\ \E j \in Jobs : GetExport(j) \/ Upsert(j) \/ EndExport(j)
  /\ UNCHANGED <<live, staging, index, search, row>>

Next ==
  \/ JobStep
  \/ IngestStep
  \/ IndexStep
  \/ TmdbStep
  \/ \E j \in Jobs : Persist(j)
  \/ \E j \in Jobs : Crash(j)
  \/ Migrate /\ UNCHANGED <<id_index, row>>
  \/ Publish /\ UNCHANGED <<data, row>>

Spec == Init /\ [][Next]_vars

----------------------------------------------------------------------------
\* "Atomically swapped into place so live reads never observe a half-loaded set"
\* (imdb.rs): a live table is what the migrations left or one complete load of one
\* version, with its structural index.
LiveWhole ==
  \A t \in Tables :
    live[t].ver # 0 => live[t].rows = Chunks /\ (t \in Structural => live[t].indexed)

\* A sync of imdb that reports success, with no other ingest since it began, left
\* every live table with a version no older than it started from.
OkMeansLoaded ==
  \A j \in Jobs : At(j, "imdb", "persist") /\ job[j].ok /\ job[j].clean => \A t \in Tables : live[t].ver >= job[j].began

\* An index job that reports success, with no swap since it began, left all its
\* indexes valid and, for imdb-fts, every title in the derived table once, from
\* the tables as they are.
OkMeansIndexed ==
  \A j \in Jobs :
    job[j].source \in IndexSets /\ job[j].pc = "persist" /\ job[j].ok /\ job[j].clean =>
      /\ \A n \in Expected(job[j].source) : n \in DOMAIN index /\ index[n]
      /\ job[j].source = "imdb-fts" => search = <<Derived>>

\* A tmdb job that reports success, the only one since it began, left every id of
\* every export from the files of one day, the one it began on: not of the days its
\* later requests were made on, nor of the runs that failed half-way before it.
OkMeansEnumerated ==
  \A j \in Jobs :
    At(j, "tmdb", "persist") /\ job[j].ok =>
      \A kind \in Kinds, b \in 1 .. Chunks : id_index[kind][b] = job[j].began

\* "A stale or errored source is immediately visible as healthy: false" (the
\* `healthy` field's doc in sources/mod.rs): while no job runs, a healthy imdb-fts
\* has its derived table filled from the tables as they are.
HealthyMeansFresh ==
  (\A j \in Jobs : job[j].pc = "idle") /\ Healthy("imdb-fts") => search = <<Derived>>
==============================================================================

----------------------------- MODULE ImdbIngest -----------------------------
(***************************************************************************)
(* The IMDb bulk ingest (src/sources/imdb.rs).  Each dataset is COPYed into*)
(* a staging table, given its structural indexes and swapped into place in *)
(* one transaction, one dataset after the other.  A table is its version,  *)
(* the chunks committed to it and whether its structural index is there.   *)
(***************************************************************************)
EXTENDS SyncJob

CONSTANTS
  Datasets,   \* the live tables, in load order
  Structural  \* those with an index built inline

ASSUME IngestAssumption ==
  Datasets \in Seq(STRING) \ {<<>>} /\ \A t \in Structural : \E k \in DOMAIN Datasets : Datasets[k] = t

VARIABLES
  live,    \* the tables queries read: version, rows (in chunks), structurally indexed
  staging, \* <table>_new, or None
  index    \* the search indexes in pg_index: name to indisvalid

Tables == {Datasets[k] : k \in DOMAIN Datasets}

\* What the migrations leave behind: empty tables with their indexes.
IngestInit ==
  /\ live = [t \in Tables |-> [ver |-> 0, rows |-> 0, indexed |-> t \in Structural]]
  /\ staging = [t \in Tables |-> None]

Loading(j) == Datasets[job[j].at]

\* COPY holds its lock on the staging table until it ends, so DDL waits.
Copying(t) == \E i \in Running("imdb") : job[i].pc = "copy" /\ Loading(i) = t

\* DROP TABLE IF EXISTS <table>_new
DropStaging(j) ==
  /\ At(j, "imdb", "drop") /\ ~Copying(Loading(j))
  /\ staging' = [staging EXCEPT ![Loading(j)] = None]
  /\ Goto(j, "create")
  /\ UNCHANGED <<scheduled, upstream, live, index>>

\* CREATE TABLE <table>_new
CreateStaging(j) ==
  /\ At(j, "imdb", "create") /\ staging[Loading(j)] = None
  /\ staging' = [staging EXCEPT ![Loading(j)] = [ver |-> 0, rows |-> 0, indexed |-> FALSE]]
  /\ Goto(j, "get")
  /\ UNCHANGED <<scheduled, upstream, live, index>>

\* The download's response arrives.
Get(j) ==
  /\ At(j, "imdb", "get")
  /\ Become(j, [job[j] EXCEPT !.ver = upstream, !.pc = "open"])
  /\ UNCHANGED <<scheduled, upstream, live, staging, index>>

\* COPY <table>_new FROM STDIN, and the parser thread.
OpenCopy(j) ==
  /\ At(j, "imdb", "open") /\ staging[Loading(j)] # None /\ ~Copying(Loading(j))
  /\ Become(j, [WithParser(job[j]) EXCEPT !.pc = "copy"])
  /\ UNCHANGED <<scheduled, upstream, live, staging, index>>

\* copy.send
Send(j) ==
  /\ At(j, "imdb", "copy") /\ Received(j)
  /\ Become(j, [job[j] EXCEPT !.sent = @ + 1])
  /\ UNCHANGED <<scheduled, upstream, live, staging, index>>

\* copy.finish, which commits whatever was sent, and only then the parser's result.
\* A second load of the same rows breaks the table's primary key.
FinishCopy(j) ==
  LET t == Loading(j) IN
  /\ At(j, "imdb", "copy") /\ Drained(j) /\ staging[t].rows = 0
  /\ staging' = [staging EXCEPT ![t].ver = job[j].ver, ![t].rows = job[j].sent]
  /\ Become(j, Joined(job[j], [job[j] EXCEPT !.pc = IF t \in Structural THEN "stage" ELSE "swap"]))
  /\ UNCHANGED <<scheduled, upstream, live, index>>

\* CREATE INDEX tmp<i>_<name> ON <table>_new
StageIndexes(j) ==
  LET t == Loading(j) IN
  /\ At(j, "imdb", "stage") /\ Goto(j, "swap")
  /\ staging[t] # None /\ ~staging[t].indexed /\ ~Copying(t)
  /\ staging' = [staging EXCEPT ![t].indexed = TRUE]
  /\ UNCHANGED <<scheduled, upstream, live, index>>

\* The search indexes of a table are dropped with it.
IndexesWithout(t) == [name \in {n \in DOMAIN index : n[2] # t} |-> index[name]]

\* Every other job sees its tables replaced.
Disturbed(state, t) ==
  [state EXCEPT !.clean = @ /\ state.source \in {"tmdb", None}]

\* Mutant of Advance: the loop stops one dataset early.
AdvanceShort(state) ==
  IF state.at + 1 < Len(Datasets)
  THEN [state EXCEPT !.at = @ + 1, !.pc = "drop"]
  ELSE Succeeded(state)

\* The next dataset, or the report.
Advance(state) ==
  IF state.at < Len(Datasets)
  THEN [state EXCEPT !.at = @ + 1, !.pc = "drop"]
  ELSE Succeeded(state)

\* swap_into_place: one transaction.
Swap(j) ==
  LET t == Loading(j) IN
  /\ At(j, "imdb", "swap") /\ staging[t] # None /\ ~Copying(t)
  /\ t \in Structural => staging[t].indexed
  /\ live' = [live EXCEPT ![t] = staging[t]]
  /\ staging' = [staging EXCEPT ![t] = None]
  /\ index' = IndexesWithout(t)
  /\ job' = [i \in Jobs |-> IF i = j THEN Advance(job[j]) ELSE Disturbed(job[i], t)]
  /\ UNCHANGED <<scheduled, upstream>>
==============================================================================

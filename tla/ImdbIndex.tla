------------------------------ MODULE ImdbIndex ------------------------------
(***************************************************************************)
(* IMDb search-index maintenance (src/sources/imdb_index.rs): imdb-fts     *)
(* rebuilds the derived search table and the full-text indexes, imdb-trgm  *)
(* the trigram indexes.  `shirabe migrate imdb` creates the indexes of the *)
(* base tables too.  An index is named by its set and its table; the two   *)
(* the code has on some tables are one.                                    *)
(***************************************************************************)
EXTENDS ImdbIngest

VARIABLE
  search  \* imdb_search_titles: the loads inserted since it was empty, or None

\* FTS_INDEXES and TRGM_INDEXES, in build order.
IndexesOf(s) ==
  IF s = "imdb-fts"
  THEN << <<s, "imdb_search_titles">>, <<s, "imdb_title_basics">>, <<s, "imdb_title_akas">> >>
  ELSE << <<s, "imdb_title_basics">>, <<s, "imdb_title_akas">> >>

IndexSets == scheduled \intersect {"imdb-fts", "imdb-trgm"}

Expected(s) == {IndexesOf(s)[k] : k \in DOMAIN IndexesOf(s)}

Names == UNION {Expected(s) : s \in IndexSets}

\* What a search over the derived table can find.
Derived == [t \in Tables \intersect {"imdb_title_basics", "imdb_title_akas"} |-> live[t]]

\* The migrations built the base tables' indexes; one may since have been left
\* INVALID by an operator's CREATE INDEX CONCURRENTLY.
IndexInit ==
  /\ search = None
  /\ index \in [{n \in Names : n[2] # "imdb_search_titles"} -> BOOLEAN]

Maintaining(j, pc) == job[j].source \in IndexSets /\ job[j].pc = pc

Unchanged == UNCHANGED <<scheduled, upstream, live, staging>>

\* The idempotent prerequisites; only imdb-fts has build steps.
Prerequisites(j) ==
  /\ Maintaining(j, "prereqs")
  /\ Goto(j, IF job[j].source = "imdb-fts" THEN "table" ELSE "list")
  /\ Unchanged /\ UNCHANGED <<index, search>>

\* CREATE TABLE IF NOT EXISTS imdb_search_titles
CreateSearchTable(j) ==
  /\ Maintaining(j, "table") /\ Goto(j, "truncate")
  /\ search' = IF search = None THEN <<>> ELSE search
  /\ Unchanged /\ UNCHANGED index

\* TRUNCATE imdb_search_titles, in autocommit.
Truncate(j) ==
  /\ Maintaining(j, "truncate") /\ Goto(j, "insert")
  /\ search' = <<>>
  /\ Unchanged /\ UNCHANGED index

\* INSERT ... SELECT DISTINCT ON: nothing keeps two loads apart.
Insert(j) ==
  /\ Maintaining(j, "insert") /\ Goto(j, "list")
  /\ search' = Append(search, Derived)
  /\ Unchanged /\ UNCHANGED index

Invalid(s) == {n \in Expected(s) \intersect DOMAIN index : ~index[n]}

\* Mutant of List: an INVALID index is taken for one that exists.
ListPresent(j) ==
  /\ Maintaining(j, "list")
  /\ Goto(j, "ensure")
  /\ Unchanged /\ UNCHANGED <<index, search>>

\* existing_indexes, and which of them are INVALID.
List(j) ==
  LET invalid == Invalid(job[j].source) IN
  /\ Maintaining(j, "list")
  /\ Become(j, [job[j] EXCEPT !.pc = IF invalid = {} THEN "ensure" ELSE "prune", !.listed = invalid])
  /\ Unchanged /\ UNCHANGED <<index, search>>

\* DROP INDEX of one listed after the other; it fails if a swap took it away.
Prune(j) ==
  \E n \in job[j].listed \intersect DOMAIN index :
    /\ Maintaining(j, "prune")
    /\ index' = [m \in DOMAIN index \ {n} |-> index[m]]
    /\ Become(j, [job[j] EXCEPT !.listed = @ \ {n},
                                !.pc = IF job[j].listed = {n} THEN "ensure" ELSE "prune"])
    /\ Unchanged /\ UNCHANGED search

\* CREATE INDEX IF NOT EXISTS of one index after the other.
Ensure(j) ==
  LET names == IndexesOf(job[j].source)
      name  == names[job[j].at] IN
  /\ Maintaining(j, "ensure")
  /\ name[2] = "imdb_search_titles" => search # None
  /\ index' = IF name \in DOMAIN index THEN index ELSE [n \in DOMAIN index \union {name} |-> n = name \/ index[n]]
  /\ Become(j, IF job[j].at < Len(names) THEN [job[j] EXCEPT !.at = @ + 1] ELSE Succeeded(job[j]))
  /\ Unchanged /\ UNCHANGED search

\* shirabe migrate imdb: every file is applied again, and restores the indexes of
\* the base tables that are missing.
Migrate ==
  LET missing == {n \in Names \ DOMAIN index : n[2] # "imdb_search_titles"} IN
  /\ missing # {}
  /\ index' = [n \in DOMAIN index \union missing |-> n \in missing \/ index[n]]
  /\ UNCHANGED <<scheduled, job, upstream, live, staging, search>>
==============================================================================

----------------------------- MODULE TmdbFacade -----------------------------
(***************************************************************************)
(* The TMDB facade (src/facades/tmdb.rs): detail and tv_season read        *)
(* through tmdb_cache, where one row per title holds whatever sections     *)
(* were appended when it was fetched; search answers from the local index, *)
(* enriched with cached details and, when that is thin or incomplete,      *)
(* merged with the live API, and caches what it answered.                  *)
(*                                                                         *)
(* A caller is one request task.  Nothing collapses concurrent requests:   *)
(* each reads its row, calls the upstream and overwrites the row on its    *)
(* own.                                                                    *)
(***************************************************************************)
EXTENDS Integers, FiniteSetsExt

CONSTANTS
  Callers,    \* request tasks
  Titles,     \* rows of details and seasons
  Linked,     \* those whose handler links external ids: movies and series
  Queries,    \* search rows
  Hits,       \* the titles the local index has for each query
  Thin,       \* queries whose local hits are too few or too weak
  Sections,   \* append_to_response sections the upstream knows
  Appends,    \* what clients ask to be appended: known sections or not
  Own,        \* facade_appends
  Configured, \* whether TMDB_API_KEY is set
  CacheTtl,   \* tmdb_cache_ttl_days; 0 disables the cache
  Patience,   \* the longest a request spends after a miss
  MaxTime,    \* bound on the clock
  NoRow       \* sentinel

Detail == [sections : SUBSET Sections, taken : 0 .. MaxTime, fetched_at : 0 .. MaxTime]

\* A search payload: whether every result is complete or merged with the live
\* API, and when its oldest part was taken.
Found == [full : BOOLEAN, taken : 0 .. MaxTime, fetched_at : 0 .. MaxTime]

ASSUME TmdbAssumption ==
  /\ Linked \subseteq Titles /\ Titles \intersect Queries = {}
  /\ Hits \in [Queries -> SUBSET Titles] /\ Thin \subseteq Queries
  /\ \A q \in Queries : Hits[q] = {} => q \in Thin
  /\ Own \subseteq Sections /\ Configured \in BOOLEAN
  /\ CacheTtl \in Nat /\ Patience \in Nat /\ MaxTime \in Nat
  /\ NoRow \notin Titles \union Queries /\ NoRow \notin Detail \union Found

VARIABLES
  now,      \* seconds
  row,      \* tmdb_cache, or NoRow
  links,    \* titles whose external ids are in shirabe.xref
  pc,       \* where each caller is
  want,     \* the title or query each caller asks for
  appends,  \* client_appends
  cached,   \* the fresh but insufficient row a detail request may degrade to
  payload,  \* the upstream's answer, or the search result, until it is stored
  since,    \* when each caller missed
  answer    \* what each caller is answered: a payload, NoRow for an error

vars == <<now, row, links, pc, want, appends, cached, payload, since, answer>>

Stage == {"idle", "fetching", "local", "searching", "storing", "linking", "degraded", "done"}

Rows == Titles \union Queries

Init ==
  /\ now = 0
  /\ row = [k \in Rows |-> NoRow] /\ links = {}
  /\ pc = [c \in Callers |-> "idle"]
  /\ want = [c \in Callers |-> NoRow]
  /\ appends = [c \in Callers |-> {}]
  /\ cached = [c \in Callers |-> NoRow]
  /\ payload = [c \in Callers |-> NoRow]
  /\ since = [c \in Callers |-> 0]
  /\ answer = [c \in Callers |-> NoRow]

Goto(c, from, to) == pc[c] = from /\ pc' = [pc EXCEPT ![c] = to]

----------------------------------------------------------------------------
(* tmdb_cache.                                                             *)

\* fetched_at >= now() - ttl
Fresh(k) == CacheTtl > 0 /\ row[k] # NoRow /\ row[k].fetched_at >= now - CacheTtl

CacheGet(k) == IF Fresh(k) THEN row[k] ELSE NoRow

\* Mutant of CacheGetMany: the batch query has no TTL condition.
CacheGetManyStale(q) == {t \in Hits[q] : row[t] # NoRow}

\* cache_get_many
CacheGetMany(q) == {t \in Hits[q] : Fresh(t)}

----------------------------------------------------------------------------
(* detail and tv_season.                                                   *)

\* Mutant of Satisfies: any cached row will do.
SatisfiesAlways(r, A) == r # NoRow

\* cached_satisfies
Satisfies(r, A) == r # NoRow /\ A \subseteq r.sections

\* What upstream_get is asked to append: union_appends for movies and series.
Union(t, A) == IF t \in Linked THEN Own \union A ELSE {}

\* What a lookup finds: the fresh row, or nothing when the query fails.
LookedUp(k) == {CacheGet(k), NoRow}

\* A request for a title: a row with every section asked for is a hit.  Nothing is
\* appended to a season.
Lookup(c, t, A) ==
  /\ t \notin Linked => A = {}
  /\ want' = [want EXCEPT ![c] = t]
  /\ appends' = [appends EXCEPT ![c] = A]
  /\ \E r \in LookedUp(t) :
       \/ /\ Satisfies(r, A)
          /\ Goto(c, "idle", "done")
          /\ answer' = [answer EXCEPT ![c] = r]
          /\ UNCHANGED <<cached, since>>
       \/ /\ ~Satisfies(r, A)
          /\ Goto(c, "idle", IF Configured THEN "fetching" ELSE "degraded")
          /\ cached' = [cached EXCEPT ![c] = r]
          /\ since' = [since EXCEPT ![c] = now]
          /\ UNCHANGED answer
  /\ UNCHANGED <<now, row, links, payload>>

\* Mutant of Fetched: what was asked for is taken to be in the answer.
FetchedAsAsked(c) ==
  /\ Goto(c, "fetching", "storing")
  /\ payload' = [payload EXCEPT ![c] =
       [sections |-> Union(want[c], appends[c]), taken |-> now, fetched_at |-> now]]
  /\ cached' = [cached EXCEPT ![c] = NoRow]
  /\ UNCHANGED <<now, row, links, want, appends, since, answer>>

\* The upstream answers with the sections it knows among those asked for.
Fetched(c) ==
  /\ Goto(c, "fetching", "storing")
  /\ payload' = [payload EXCEPT ![c] =
       [sections |-> Union(want[c], appends[c]) \intersect Sections,
        taken |-> now, fetched_at |-> now]]
  /\ cached' = [cached EXCEPT ![c] = NoRow]
  /\ UNCHANGED <<now, row, links, want, appends, since, answer>>

FetchFails(c) ==
  /\ Goto(c, "fetching", "degraded")
  /\ UNCHANGED <<now, row, links, want, appends, cached, payload, since, answer>>

\* serve_degraded: the row that was not good enough, or an error if there is none.
Degrade(c) ==
  /\ Goto(c, "degraded", "done")
  /\ answer' = [answer EXCEPT ![c] = cached[c]]
  /\ UNCHANGED <<now, row, links, want, appends, cached, payload, since>>

\* self_link_external_ids, best effort.
Link(c) ==
  /\ Goto(c, "linking", "done")
  /\ links' \in {links, links \union {want[c]}}
  /\ UNCHANGED <<now, row, want, appends, cached, payload, since, answer>>

----------------------------------------------------------------------------
(* search.                                                                 *)

Search(c, q) ==
  /\ want' = [want EXCEPT ![c] = q]
  /\ \E r \in LookedUp(q) :
       \/ /\ r # NoRow
          /\ Goto(c, "idle", "done")
          /\ answer' = [answer EXCEPT ![c] = r]
          /\ UNCHANGED since
       \/ /\ r = NoRow
          /\ Goto(c, "idle", "local")
          /\ since' = [since EXCEPT ![c] = now]
          /\ UNCHANGED answer
  /\ UNCHANGED <<now, row, links, appends, cached, payload>>

\* local_tmdb_search and enrich_from_cached_details: the local index has no dates
\* and original titles, a result is complete when a cached detail row donates them.
\* The batch query may fail, and a detail may itself lack a field.
Local(c) ==
  /\ pc[c] = "local"
  /\ \E donors \in {CacheGetMany(want[c]), {}}, complete \in BOOLEAN :
       /\ complete => want[c] \notin Thin /\ donors = Hits[want[c]]
       /\ pc' = [pc EXCEPT ![c] = IF complete \/ ~Configured THEN "storing" ELSE "searching"]
       /\ payload' = [payload EXCEPT ![c] =
            [full |-> complete, taken |-> Min({row[t].taken : t \in donors} \union {now}),
             fetched_at |-> now]]
  /\ UNCHANGED <<now, row, links, want, appends, cached, since, answer>>

\* merge_live_results
Merged(c) ==
  /\ Goto(c, "searching", "storing")
  /\ payload' = [payload EXCEPT ![c].full = TRUE]
  /\ UNCHANGED <<now, row, links, want, appends, cached, since, answer>>

\* The upstream fails: the search goes on with what the local index produced.
SearchFails(c) ==
  /\ Goto(c, "searching", "storing")
  /\ UNCHANGED <<now, row, links, want, appends, cached, payload, since, answer>>

----------------------------------------------------------------------------

\* cache_put, best effort: an upsert with fetched_at = now().
Put(c) ==
  /\ Goto(c, "storing", IF want[c] \in Linked THEN "linking" ELSE "done")
  /\ \/ row' = [row EXCEPT ![want[c]] = [payload[c] EXCEPT !.fetched_at = now]]
     \/ UNCHANGED row
  /\ answer' = [answer EXCEPT ![c] = payload[c]]
  /\ payload' = [payload EXCEPT ![c] = NoRow]
  /\ UNCHANGED <<now, links, want, appends, cached, since>>

Forget(c) ==
  /\ pc' = [pc EXCEPT ![c] = "idle"]
  /\ want' = [want EXCEPT ![c] = NoRow]
  /\ appends' = [appends EXCEPT ![c] = {}]
  /\ cached' = [cached EXCEPT ![c] = NoRow]
  /\ payload' = [payload EXCEPT ![c] = NoRow]
  /\ since' = [since EXCEPT ![c] = 0]
  /\ answer' = [answer EXCEPT ![c] = NoRow]

Respond(c) == pc[c] = "done" /\ Forget(c) /\ UNCHANGED <<now, row, links>>

\* The client is gone and the request is dropped at one of its awaits.
Cancel(c) ==
  /\ pc[c] \in {"fetching", "local", "searching", "storing", "linking"}
  /\ Forget(c)
  /\ UNCHANGED <<now, row, links>>

\* Time passes, but no request outlives its calls' timeouts and an answer is
\* sent at once.
Tick ==
  /\ now < MaxTime
  /\ \A c \in Callers : pc[c] # "idle" => pc[c] # "done" /\ now < since[c] + Patience
  /\ now' = now + 1
  /\ UNCHANGED <<row, links, pc, want, appends, cached, payload, since, answer>>

Next ==
  \/ \E c \in Callers :
       \/ \E t \in Titles, A \in Appends : Lookup(c, t, A)
       \/ \E q \in Queries : Search(c, q)
       \/ Fetched(c) \/ FetchFails(c) \/ Degrade(c) \/ Link(c)
       \/ Local(c) \/ Merged(c) \/ SearchFails(c)
       \/ Put(c) \/ Respond(c) \/ Cancel(c)
  \/ Tick

Spec == Init /\ [][Next]_vars

----------------------------------------------------------------------------
(* Properties.                                                             *)

Payload == Detail \union Found \union {NoRow}

TypeOK ==
  /\ now \in 0 .. MaxTime
  /\ row \in [Rows -> Payload]
  /\ \A t \in Titles : row[t] \in Detail \union {NoRow}
  /\ \A q \in Queries : row[q] \in Found \union {NoRow}
  /\ links \subseteq Linked
  /\ pc \in [Callers -> Stage]
  /\ want \in [Callers -> Rows \union {NoRow}]
  /\ appends \in [Callers -> Appends \union {{}}]
  /\ cached \in [Callers -> Detail \union {NoRow}]
  /\ payload \in [Callers -> Payload] /\ answer \in [Callers -> Payload]
  /\ since \in [Callers -> 0 .. now]

\* A detail request whose upstream call did not fail is answered with every section
\* it asked for that the upstream knows, although other requests overwrite the one
\* row of the title with other sections ("A cached row lacking a requested section
\* forces a re-fetch instead of shadowing the richer request").
AnswerCarries ==
  \A c \in Callers :
    pc[c] = "done" /\ want[c] \in Titles /\ cached[c] = NoRow /\ answer[c] # NoRow
      => appends[c] \intersect Sections \subseteq answer[c].sections

\* A detail is at most the TTL, a call and a degraded request old; a search result
\* is older by the TTL of the details that completed it and no more, whatever
\* order concurrent requests store their rows in.
BoundedStaleness ==
  \A c \in Callers : pc[c] = "done" /\ answer[c] # NoRow =>
    now - answer[c].taken <=
      (IF want[c] \in Queries THEN 2 * CacheTtl ELSE CacheTtl) + 2 * Patience
=============================================================================

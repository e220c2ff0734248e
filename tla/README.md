# shirabe in TLA+

shirabe is a metadata server in Rust: one axum process that answers a
MusicBrainz-compatible `ws/2` API from a Postgres mirror and imitates TheTVDB,
TMDB, fanart.tv and the Cover Art Archive with caches of its own, plus
`shirabe sync` jobs that ingest bulk data. This directory holds TLA+ models of
its components, the TLC runs that check them on small instances, and TLAPS proofs
that carry the most important properties to every instance.

All paths below are relative to `src/` of the repository.

## 1. Inventory

| component | source | state | operations | status |
|---|---|---|---|---|
| Search response cache | `search_cache.rs`, `handlers.rs` `cached_search` | `entries` with expiry, eviction queue `order`, in-flight slots `Arc<Mutex<Option<Bytes>>>`, all behind one std mutex | `get`, `insert`, `get_or_compute`, `release_inflight` | modelled, proved |
| Keyed lock table | `facades/coverart.rs` 70-113 | key to `Arc<tokio::Mutex>`, reference counts | `acquire`, the guard's `Drop` | modelled, proved |
| Cover art byte cache | `facades/coverart.rs` | `.bin`/`.json` pairs and temp files in a directory | `cache_lookup`, `cache_put`, `write_atomic`, `evict_over_budget`, `ia_passthrough`, `redirect_layer` | modelled, proved |
| TheTVDB facade | `sources/tvdb.rs`, `facades/tvdb.rs` | one bearer token behind an `RwLock`; `tvdb_cache`; xref links | `bearer`, `force_refresh`, `login`, `upstream_get`, five read-through handlers | modelled, proved |
| fanart.tv facade | `facades/fanart.rs` | `fanart_cache` | `cached_fetch` behind four routes | modelled, proved |
| TMDB facade | `facades/tmdb.rs` | `tmdb_cache`; xref links | `detail`, `tv_season`, `search` | modelled, proved |
| Local search | `search.rs`, its statements in `queries.rs` | none of its own: two databases, pooled connections | `local_tmdb_search`, both statements, cross-reference, merge | partly |
| Search sessions | `repo.rs`, `search.rs` | the settings on each pooled connection | `configure_search_session`, `fetch_fuzzy`, `resolve_artist_credits` | modelled, proved |
| ws/2 handlers, repository, queries | `handlers.rs`, `repo.rs`, `queries.rs`, `models.rs` | none: the mirror's rows, between statements | search, browse, lookup of artists, releases, groups, recordings | modelled, proved |
| Query parser | `query.rs` | none | `parse` and everything under it | modelled |
| Dates | `date.rs` | none | choosing and rendering a release date | modelled |
| IMDb bulk ingest | `sources/imdb.rs` | the live tables of four datasets and their `_new` staging tables | `refresh`, `ingest_dataset`, `swap_into_place`, COPY encoding | modelled, proved |
| IMDb index maintenance | `sources/imdb_index.rs` | derived search table, two sets of indexes | `refresh` and `health` of `imdb-fts` and `imdb-trgm` | modelled, proved |
| TMDB id ingest | `sources/tmdb.rs` | `tmdb_id_index` | `ingest_export`, `upsert_id_index`, `civil_from_unix` | modelled, proved |
| Registry and health | `sources/mod.rs`, `lib.rs` | `shirabe.source` rows | `run_refresh`, `upsert_refresh`, `merge_source_health` | partly |
| Schema bootstrap | `migrate.rs` | the databases' schema | re-applying the embedded DDL | partly |
| Configuration and shell | `config.rs`, `main.rs`, `db.rs`, `http.rs`, `error.rs`, `debug_ui.rs` | pools, opened lazily | `resolve_limit`, pool set-up | partly |
| MusicBrainz source | `sources/musicbrainz.rs` | none | a probe | not modelled |
| Image URLs | `images.rs` | none | prefix rewriting | not modelled |
| Telemetry | `telemetry/` | none the rest reads | request logs and metrics | not modelled |

How they interact. A `ws/2` search goes through the search cache and reaches the
repository only as a slot's leader; there it configures a pooled connection, runs a
full-text and perhaps a fuzzy statement, gives the connection back and hydrates its
rows over the same pool. The cover art handlers take a lease from the keyed lock table
around their fetch and store. The TVDB token is shared by all `/v4` handlers and by
the sync task's liveness probe. The TMDB facade's searches read, through the local
search, the IMDb and TMDB tables that the sync jobs replace underneath them; an ingest
drops the indexes that index maintenance builds, and migrations restore some of them.
Every request is a tokio task, and a client that disconnects drops it at whichever
await it has reached, which runs destructors but no further code.

What is hard, and what makes each part correct:

- **Search cache.** Collapsing identical searches with an `Arc` reference count
  read while other tasks still hold a reference. Correct: one search per key, none
  while an answer is stored, answers of the right key, capacity, nobody waits
  forever, a failed or dropped leader hands over.
- **Keyed locks.** A table that shrinks by reference count. Correct: one lease per
  key, no entry forgotten under a waiter.
- **Cover art cache.** Two files read and replaced separately, blocking file
  operations that outlive a dropped request, crashes, eviction during writes.
  Correct: whole files, matching pairs, one live fetch per key, the byte budget.
- **TheTVDB.** Overlapping logins, last write wins, a token checked before an await
  and used after it, one retry, out-of-order row writes. Correct: no lapsed bearer
  on the wire, the retry never spent on a stale token, bounded staleness.
- **fanart.tv.** Unlocked read-through rows, a cache that may be missing, restarts
  under another configuration. Correct: current answers, rewritten exactly once, no
  remembered 404.
- **TMDB and local search.** One row per title for every combination of appended
  sections, search rows that copy from detail rows, two databases that may fail
  separately. Correct: an answer has the sections asked for, staleness that adds up
  to a bound, a page that lists each title once and hides no better one.
- **Ingest and maintenance.** Staging and swap per table, overlapping jobs, partial
  failures, reports that may be lost. Correct: a live table is one complete load, and
  a report of success means what it says.
- **ws/2.** A dozen statements per answer without a transaction, batched and dealt out
  in memory, over a mirror that replicates. Correct: batches agree with the row-by-row
  loaders, no release gets another's parts, merged gids stay known.
- **Sessions.** Settings that outlive the request that made them. Correct: every search
  query runs under its own, and searches that hydrate do not starve each other.
- **Query parser.** Correct: what the consumer's query shapes were made of is read back.

`PROJECT.json` lists under `hazards` each of these at its line, the ones no
property covers with the reason.

## 2. Modules

```
SingleFlightStore <-- SearchCacheRefinement --> SearchCache
                               ^-- SearchCacheProofs
KeyLock <---- KeyedLocks <-- KeyedLocksProofs      (KeyedLocks implements KeyLock)
   ^--------- CoverArtCache <-- CoverArtCacheProofs (and CoverArtCache uses KeyLock)
TvdbFacade, FanartFacade <-- TvFacadesProofs
TmdbFacade <-- TmdbFacadeProofs      LocalSearch
SyncJob <-- ImdbIngest <-- ImdbIndex <-- SourceRegistry <-- ShirabeSync <-- ShirabeSyncProofs
   ^------- TmdbIngest <---------------------'
CivilDate, CopyText <-- ShirabeSyncProofs          (the data of the ingests)
ReleaseDates <-- MusicBrainz <-- Ws2 <-- Ws2Proofs (statements, then requests)
SearchSession <-- SearchSessionProofs      QueryParser
MC*  : the instances TLC checks
```

An action is what a task does between two points where another task can run:
one critical section of a std mutex, the code between two awaits, or one database
statement. A caller is one request task, a job one process; `pc` says where it is.
Definitions marked "Mutant of" are the plausible bugs each property is tested against
and are used nowhere else. A nullable column or an optional parameter is a set of at
most one value.

### SearchCache

`entries` and `order` are the store; a slot is one `Arc` allocation, with `guard`
its mutex, `parked` its content, `mine` each caller's reference and `inflight` the
map's. `Request` is the fast path, `Join` the slot lookup, `ShareAnswer` and `Lead`
the two outcomes of the lock, `ComputeOk`/`ComputeErr` the search, `Release` is
`release_inflight`, and `Return`, separate, is the drop of the caller's own `Arc`:
the code reads the count before that drop, which is what the interesting
interleavings need. `Cancel` drops the future at either await. `insert` reads the clock
before it takes the mutex, so it is two steps: `ComputeOk` parks the body and keeps the
reading in `stamp`; `Store` has the mutex, perhaps after another insert with a later
reading. `Insert` does all of the locked part: purge, the eviction loop (as the number of
keys it pops), `retain` and `push_back`. Hence `order` is the order in which entries went
in (`stored_at`, history), and not that in which they expire; `OldestFirst` is about the
former. `SingleFlightStore` is what the cache promises without
any of that: sets of servable bodies that only a search can extend.

### KeyLock, KeyedLocks, CoverArtCache

`KeyLock` is an exclusive lease per key. `KeyedLocks` is the table, the guard's
`Drop` in its separate steps (`Unlock`, `DropPermit`, `Sweep`, `Leave`), because
another task may look between them. tokio's mutex knows no owner: `owner` stands for the
guard a caller holds. `CoverArtCache` uses the lease through
`KeyLock`. A file operation is a job record that `Run(o, j)` advances one system
call at a time; it belongs to a caller or, once its request is dropped, to
`strays`, which run on as `spawn_blocking` closures do. Bytes are abstracted to the
identity and length of the answer they came from. `redirect_layer` and
`ia_passthrough` follow one protocol and are one set of actions. `calm` is fixed by the
initial state: in a calm run no request is dropped while it stores, no file operation
fails and the process does not crash, which is what the byte budget needs. Temp names
(`pid` and a sequence number in the code) are unique per write; the model takes the
number of the answer for it, as an answer is written once. The directory starts empty, so
each sidecar has a `body_len`; that the code takes an older one without it unchecked
(`coverart.rs:371`) has no place here.

### TvdbFacade

The upstream is modelled by the bearers it issued, when, and which it has revoked
(`Issue`, `Honoured`, `Revoke`, external). `Bearer` is the read-locked fast path,
`LoggedIn` the store of a new token whatever is there, `Unauthorized` the branch of
`upstream_get`'s loop: `floor` records how many bearers existed at the first
refusal, so the relogin must come after it. Rows keep when their payload was taken
upstream next to `fetched_at`. A request may go upstream over a fresh row, as a lookup that
fails does (`facades/tvdb.rs:159`). `Crash` loses the token and every request.

### FanartFacade

`CachedFetch` begins `cached_fetch`, one record per request (`ask`): `Hit`, `Miss` (which a failing lookup counts
as), `Fetched`, `NotFound`, `FetchFails`, `Store`. The configuration is a variable:
`Restart` may come back with the cache switched off, without the key or without the
pool, over the rows it left. `rewrites` counts how often the URLs of a payload were
rewritten, and `missed` remembers whether the artwork was missing during a request.
Its names do not meet those of `TvdbFacade` (`clock` is its `now`), so one run and the
theorems of both can speak of the two modules side by side.

### TmdbFacade and LocalSearch

A detail row is its set of sections, when it was taken and `fetched_at`; a search
row has instead whether its results are complete (`full`) and when its oldest
field was taken. `Lookup`, `Fetched`, `FetchFails`, `Degrade`, `Put`, `Link` are
`detail` and, for titles outside `Linked`, to which nothing is appended, `tv_season`;
`Search`, `Local`, `Merged`, `SearchFails` and `Put` are `search`. A lookup of a fresh row may
fail and find nothing (`LookedUp`); so may the batched lookup of `Local`, and the details
it finds may lack a field that a thin result needs.

What `Local` takes as given is `LocalSearch`: both statements over records of small
tables, with their inner and outer limits (`FtsRanked` and `FuzzyRanked` are the sets of
rows the inner limits may leave, as ties have no order) and their cut-offs. The fallback to
trigrams is decided on what the full-text statement returns (`Ranked`): rows that match
but have no basics do not prevent it. Its join does not look at the title's type again,
the trigram one's does. Then `Resolved`, the cross-reference of IMDb ids; `MergeHits`, the fold by id;
and the final page. `outcome` says for each source whether it answers, is cut off,
fails or is absent.

### SyncJob, ImdbIngest, ImdbIndex, TmdbIngest, SourceRegistry, ShirabeSync

`SyncJob` is a process that runs one refresh statement by statement, and the parser
thread with its bounded channel that both ingests share: `ParserEnds` may be an error
that is only seen when the channel has been drained (`Joined`). A statement may fail
(`StatementFails`) or the process die (`Crash`) anywhere. `ImdbIngest` is one dataset
after the other through DROP, CREATE, the download, COPY, the inline indexes and the
swap; `Swap` is its transaction, and takes the search indexes of the table it drops
with it. A COPY holds a lock that keeps DDL on its table waiting. `ImdbIndex` rebuilds
the derived table (TRUNCATE and INSERT are two steps, as in the code), drops the INVALID
indexes it listed and creates what is missing; `Migrate` re-applies the schema.
`TmdbIngest` upserts batch by batch, from the files of the day the refresh began. `SourceRegistry` adds the row a report becomes, if
it can be written, and the health rollup. `ShirabeSync` composes them: every job of
every source over one set of databases.

Two fields of a job are history: `began`, the version that was upstream when it
started, and `clean`, whether nobody replaced its tables meanwhile. The code does not
keep two jobs of one source apart; `Overlap` says whether the deployment does.

`CopyText` is the encoding on the way, from the bytes of a dump, which is read character by
character (`Read`, and `Finish` begins another), to what Postgres reads back; `CivilDate` is
`civil_from_unix` by a clock that goes from day to day (`Midnight`), next to a calendar that
counts days one by one.

### MusicBrainz, ReleaseDates, Ws2

`MusicBrainz` holds the SELECTs of `queries.rs`, one operator per statement, over a
record of tables `d`. What Postgres says of a text and the query at hand (it matches by
words, by trigrams, how well and how near) is a column of the row; everything a statement joins,
filters, orders, limits and counts is translated. `OrderBy` puts a row after as many as have a
lesser key, a tuple of numbers, and `Where` keeps the rows of a batch that belong under one id;
`IsMirror` is what the schema promises of a database, its keys. `ReleaseDates` is `date.rs`. `Ws2` is
the machine: `Accept` validates a request as its handler does and queues its first
statement; `Run` runs the next statement on the mirror of that moment and queues what
its rows call for (`Follow`), batched for searches and browses, row by row for lookups;
`TimesOut` and `Fails` are a statement cut off or refused; `Respond` assembles the
answer from the rows kept in `got`. `Replicate` moves the mirror to its next version
between any two statements. `Ws2Assumption` asks of the versions that each keeps the keys of
the schema and that a row never goes without a trace: it is in every later version, or a
redirect leads from its gid to the row it was merged into, as MusicBrainz does it. (A row that
is deleted outright is a 404, and rightly.)

### SearchSession

A connection is what is set on it: the statement timeout and the trigram cutoff
(`Setting` is what each SET changes, `AfterSetting` what comes next). A request acquires one, runs its settings and its statements in the code's order, gives it
back and, to hydrate what it found, waits for another. `Drop` leaves the connection as it
stands, with the statement under way perhaps still applied; `Break` loses it, and the pool
opens a fresh one. Kinds of request differ as the repository's methods do: whether a
cut-off full-text query fails the request, whether there is a fuzzy query, whether
artists' credits are resolved first.

### QueryParser

Every function of `query.rs` over sequences of tokens: a run of letters, a year, or one
other character. `ReadBack` is the round trip of the query shapes the consumer builds, as an
equivalence: in parentheses the names come back exactly if their own parentheses match, in
quotes if they hold none, bare if they show no field marker.

### MC modules

A run may check several models that share no state, each on an instance of its own (the
variable `instance`, fixed by the initial state):

- `MCSearchCache`: "race" (three callers on two keys that both fit) and "alone" (one
  caller at a time over three keys for two places, with a longer clock).
- `MCCoverArtCache`: by `calm`, one key where everything can fail, or two keys where
  nothing does.
- `MCTvdbFacade`: `TvdbFacade` and `FanartFacade`.
- `MCTmdbFacade`: "details" (requests for one title with any sections), "requests"
  (searches, and the movie without sections) and "searches" (`LocalSearch`).
- `MCSyncData`: `ShirabeSync`, "dumps" (`CopyText`) and "days" (`CivilDate`).
  `MCShirabeSync` has the sync instances alone.
- `MCMirrorReads`: `Ws2` on the mirror of `MCWs2`, `SearchSession`, and "queries"
  (`QueryParser`). `MCSearchSession` has the sessions alone.
- `MCSearchCacheFresh`: the search cache with arrival times and a slow clock.

## 3. Runs

| run | instance | shows |
|---|---|---|
| `search_cache_safety` | 3 callers, 3 keys, 4 slots; see `MCSearchCache` | `TypeOK`, `SlotIsCurrent`, `SingleFlight`, `LeaderFindsNothing`, `AnswerForKey`, `OrderSound`, `CapacityBound`, `OldestFirst` |
| `search_cache_promise` | 2 callers, 2 keys, 3 slots, fair | implements `SingleFlightStore`; `EveryRequestEnds` |
| `search_cache_fresh` | 3 callers, 1 key | **violated**: `ServesFresh` |
| `keyed_locks` | 3 callers, 2 keys, 4 locks, fair | `EntryIsCurrent`, `LastSweepPrunes`, implements `KeyLock`, `WaitersServed` |
| `cover_art` | 3 callers, 2 keys, answers of different lengths | `FilesWhole`, `PairMatches`, `SingleFetch`, `BudgetKept` |
| `tvdb_facade` | 2 callers, 1 series, 3 logins, time to 3; fanart.tv: 2 callers, 1 id, 4 configurations | `NeverLapsed`, `OneRetryIsEnough`, `BoundedStaleness`; `AnswersCurrent` |
| `tmdb_facade` | 2 callers, a movie, a season, a query, time to 5; local searches over 864 databases and 48 outcomes | `TypeOK`, `AnswerCarries`, `BoundedStaleness`; `LocalSearchSound` |
| `shirabe_sync` | 2 jobs, 2 datasets, 2 exports, 2 chunks; dumps of up to 5 characters; every day of 400 years | `LiveWhole`, `OkMeansLoaded`, `OkMeansIndexed`, `OkMeansEnumerated`; `CopyLossless`; `DatesFollowCalendar` |
| `shirabe_sync_overlap` | two syncs of imdb at once | **violated**: `LiveWhole` |
| `shirabe_sync_health` | as `shirabe_sync`, watching imdb-fts | **violated**: `HealthyMeansFresh` |
| `search_session_past_end` | 2 callers, 1 connection per pool | **violated**: `FuzzyOnlyUnmatched` |
| `mirror_reads` | 3 versions of a mirror, requests of every kind; 2 callers, 1 connection per pool, fair; titles of up to 3 tokens | `HydrationAgrees`, `PartsAreGenuine`, `KnownStaysKnown`; `RunsConfigured`, `OnlyDropsLeak`, `Served`; `QueriesReadBack` |

Each property is stated, with the code behaviour it is about, above its definition. Type
invariants are checked in the runs of the search cache and of TMDB; those of `KeyedLocks` and
`TvdbFacade` are proved (`LocksTyped`, `TvdbTyped`).

Why the bounds are enough.

- Three callers give a leader, a waiter and a late joiner, which every race of the two
  reference-counted tables needs; the fourth slot or lock is there so that an allocation
  is never blocked by the bound. Two keys show confusion between keys, three keys a choice
  of what to evict.
- The clocks run past the sum of the TTLs and delays a property adds up, so its bound can
  be missed: in TMDB's run `MaxTime` 5 is one more than `2 * CacheTtl + 2 * Patience`
  (details alone, whose bound is lower, run one second less).
  Three logins are one per caller and one retry. The clocks, the logins, the answers
  (`MaxFetches`) and the publications (`MaxVersion`) are the only bounded counters.
- Local search: pages and inner limits of two against up to two indexed movies and three
  titles (a short and a series among them, with aliases), so that each limit cuts
  something; search tables that know a title the basics do not have, or have as a series; similarities that round apart and together (896 and 900 thousandths).
- Sync: two chunks through a channel of one make a half-written COPY and a full channel;
  two datasets, one with an inline index, make a half-finished ingest; two versions make
  an old one. Three plans pair imdb with each index job, and tmdb runs by itself: it
  shares no table with the others.
- Dumps: five characters, of tab, newline, backslash, `N`, `1` and a header mark, make
  every two fields of up to three characters, `\N`, an escaped `\N`, short rows and a
  header. The Gregorian calendar repeats after the 146 097 days that are checked.
- Mirror: two artists, credits of one and of two names, two groups, three releases, four
  media out of order, tracks with and without credits of their own; between the versions a
  release and an artist are merged, a group and a medium go. A page of two, at most three,
  is shorter than the results.
- Sessions: one connection in each pool, so that each request inherits what the last left,
  and a search that kept its connection would starve.
- Queries: titles of up to three tokens can hold a field marker, parentheses that match or
  do not, a quoted or escaped character, a fuzzy mark and a year. They run before and after
  another name that holds parentheses and a field marker.

Callers, keys, slots and jobs are symmetric where the configuration says so; no run with
a temporal property uses symmetry, except the action property `OldestFirst`, which names
no caller or key. Deadlock is checked in every run.

### What the violated runs say

- `ServesFresh`. `release_inflight` counts callers whose only remaining step is to
  drop their `Arc`. Two finishers that release one after the other both see a count
  above 2, so the slot stays in the map; it is served before the store is asked,
  whatever its age. `MCSearchCacheFresh` lets time pass only while no task is
  ready, so this is not an artefact of a slow scheduler.
- `LiveWhole` with overlapping syncs. Both use `<table>_new`: the second drops and
  recreates it after the first one's COPY, and the first swaps it in, empty or half
  filled. With one job of a source at a time (`shirabe_sync`) the property holds.
- `HealthyMeansFresh`. A refresh that dies before its report is persisted leaves the row
  of the one before, and nothing compares the derived table with the tables it came from:
  an ingest makes it stale, and a maintenance that fails after the TRUNCATE and dies
  leaves it empty, with the source healthy.
- `FuzzyOnlyUnmatched`. An empty page stands for "nothing matched"; it is also what lies
  past the last match, or what a cut-off statement leaves.

### Observations

Met while modelling and not the subject of a run. None contradicts a property above.

Caches and locks:

- The guard's `Drop` in the keyed lock table reads the count as `release_inflight` does
  (`coverart.rs:108`), so an entry can stay in the table, which the test at
  `coverart.rs:981` does not expect. It costs memory and nothing else.
- A temp file is a stem of its own in `evict_over_budget` (`coverart.rs:464`): its bytes
  are deducted, though no file named after it exists, and nothing sweeps temp files that a
  dropped request or a crash left (`coverart.rs:414`). Hence `BudgetKept` is about calm runs.
- The sidecar's `body_len` cannot tell two writes of equal length apart, so `PairMatches`
  is checked for answers of different lengths.
- The eviction queue `order` may grow past `max_entries`, as expired keys leave the map but
  not the queue (`search_cache.rs:104`).
- `SearchKey` lower-cases the query (`search_cache.rs:43`), while `has_known_field` looks
  for lower-case field names only (`query.rs:75`): two queries that mean different things
  share a key.

Facades:

- Two clients that ask for different sections of one title evict each other's: the
  re-fetch does not ask for what the row already has (`facades/tmdb.rs:643`, `:676`).
- The local page is cut to its limit before the hits that cannot be rendered are dropped
  (`search.rs:603`), so a page may be short.
- `is_thin_result` in `facades/tvdb.rs:388` only decides on a debug log.

Ingest:

- What an ingest that fails part-way leaves is a mixture of versions: tables of `imdb.rs:469`,
  ids of `tmdb.rs:215`. It stays until the next run, and the code promises nothing else;
  `OkMeansLoaded` and `OkMeansEnumerated` say only that a report of success means no mixture.
- A swap that drops the table under index maintenance (`imdb.rs:404`) may take its new
  indexes along, and the maintenance still reports success: `OkMeansIndexed` is about jobs
  that no swap disturbed (`clean`).
- `refresh` reports "7 datasets" (`imdb.rs:484`) where `datasets()` lists four.
- `imdb_index.rs:3` says that migrations are never re-run to restore the indexes;
  `migrate.rs:52` does re-apply them. `migrations/imdb/0004` is not among the embedded files.
- Two overlapping `imdb-fts` runs insert into the derived table twice: nothing keeps the
  rows of two INSERTs apart.
- A probe that exceeds its timeout leaves its query running (`sources/mod.rs:282`).

ws/2:

- The fuzzy artist statement limits each of its branches before the page's OFFSET
  (`queries.rs:99`, `:773`): deep pages miss rows.
- When media go between two statements, the fallback of `assemble_release` sums the few it
  has as the track count; `PartsAreGenuine` leaves the count out.
- `browse_release_groups` counts and pages in two statements (`repo.rs:1024`).
- The full-text query of `search_artists` has no time-out branch: cut off, it is an error.
- `read_value` ends a value at a parenthesis or quote whether it is escaped or not
  (`query.rs:136`-`:158`); only `unescape`, afterwards, reads backslashes. So a name with an
  unmatched parenthesis or, in quotes, a quote is cut short however it is sent. `ReadBack`
  says exactly that.
- `clamp(1, max_limit)` panics for a `max_limit` below 1 (`config.rs:269`).

### Fairness

- `SearchCache` and `KeyedLocks`: tokio's. A ready task is polled again (weak fairness of a
  caller's own steps), and `tokio::sync::Mutex` queues its waiters first in, first out, so
  one that is free again and again is granted (strong fairness of taking it). A search
  ends because its `statement_timeout` ends it.
- `SearchSession`: a statement ends (weak fairness of `Query`): Postgres answers it or
  the timeout cuts it off; and the pool, whose semaphore is fair, serves its waiters in
  order (strong fairness of `Acquire`).

Nothing obliges a client to ask or to disconnect, a job to start, the mirror to replicate
or time to pass. The other models state safety only.

## 4. Proofs

Every theorem is about the module's specification for arbitrary constants under the
named assumptions of the modules (`SearchCacheAssumption`, `KeyedLocksAssumption`,
`CoverArtAssumption`, `TvdbAssumption`, `FanartAssumption`, `TmdbAssumption`,
`SyncAssumption`, `IngestAssumption`, `ExportsAssumption`, `CopyTextAssumption`,
`LastSecondAssumption`, `SessionAssumption`, `Ws2Assumption`), which TLC evaluates on every run of the module. The pattern is the same everywhere: an invariant of
named conjuncts that is inductive, one lemma per action that it is kept, and the checked
properties as consequences.

- **SearchCacheProofs.** `SlotInv` is typing plus: what each stage of a caller owns
  (`CallerInv`), that a slot is in the map under one key at most (`SlotUnique`), that
  a guard's owner is exactly the caller computing on it (`GuardInv`), that bodies in
  a slot or an answer have the key of the slot's users (`BodyInv`), and that nothing is
  stored for a key being searched (`StoreInv`). `SlotIsCurrent` alone is not inductive:
  `Release` removes by key, and only the reference count (`LastReference`,
  `OnlyReference`: a count of two leaves the map and one caller) shows that no other
  caller holds that slot. From it follow `SlotIsCurrent`, `SingleFlight`,
  `LeaderFindsNothing`, `AnswerForKey` and `TypeOK`. `StoreBounded` adds the queue: the
  eviction loop ends with room for one (`EvictionsFit`) because the queue covers the
  store, and `InsertBound` keeps both; `QueueSound` states the queue's half.
  `EvictionIsOldestFirst` is an action property. It needs that the queue is in the order of
  going in (`QueuedByAge`), which an insert keeps because the key it renews leaves its old
  place in the queue (`WithoutOrder`) and it is queued when it goes in; then whatever the loop
  pops went in no later than whatever it leaves. Nothing is assumed of the clock readings
  inserts come with, which concurrent ones take in an order of their own. `PromiseKept` is the refinement: under the
  mapping of `SearchCacheRefinement` the initial state maps to the abstract one and every
  step to a step or a stutter of `SingleFlightStore`. It rests on the inductive
  invariant (one searcher per key makes the mapping's `Searching` a function of the state) and
  on `BornInv`, that no body is from the future. What the promise says of liveness is no part of it.
- **KeyedLocksProofs.** `LockInv` (typing, callers' references, unique entries, owners)
  gives `EntryIsCurrent`, and `LastSweepPrunes` (`ReleasePrunes`): who alone
  has its lock counts two references (`AloneCountsTwo`). With it every step maps to `Take`, `Give` or a stutter of
  `KeyLock` (`GrantTakes`, `UnlockGives`, `OthersStutter`), hence `TableIsKeyLock`.
- **CoverArtCacheProofs.** `CoverInv` is typing plus: who holds which lease (`Leased`);
  that a number names one answer, wherever in the directory, the file operations or the
  lookups it turns up (`Numbered`); that an answer has one file operation, a caller's or a
  stray, and what that is about to rename is whole (`OneWriter`); and that a temp file is
  named after what it holds (`NamedAfter`). `FilesWhole` is not inductive without the last
  three: a rename installs whatever is under the name by then. A dropped request's operation
  changes hands and not its work, so `Work` pairs each operation with its owner, and every
  step replaces at most one pair by one on the same answer (`Becomes`). `FetchesAreSingle` follows from
  `Leased`, `FilesAreWhole` is a conjunct. `HitsArePairs` assumes `BodiesDiffer`, that no two
  answers have bodies of one length; without it the property is false of the code (see
  Observations), and the run's instance has it too. `BudgetIsKept` is about calm runs and adds
  `BudgetInv`: every temp file belongs to a request that is writing it (`Attended`), and once no
  request has an eviction ahead of it (`Owes`), what the files not chosen for removal (`Doomed`)
  weigh together (`Rest`) is within the budget. So an eviction that does not look at the files of
  another is made up for by the one that scans last. It rests on lemmas about sums over finite sets.
- **TvFacadesProofs.** `TvdbInv` is typing plus: the stored token's expiry is no later
  than its bearer's issue plus lifetime plus one call (`TokenInv`), a call under way
  began at most `Patience` ago (`CallInv`), a bearer being sent has more life left than
  the call can take (`SentInv`), and a row's payload is at most one call older than its
  `fetched_at` (`RowInv`). The assumption `2 * Patience <= Margin` is where the one-day
  margin earns its keep: one call for the login whose answer dates the token, one for
  the request that uses it. In the code they are 30 seconds and 86 400.
  For fanart.tv, `FanartInv`: a row is as the upstream sent it and dated within one
  call of that (`ArtRowInv`); a request under way is within its time, what it fetched is
  younger than itself, and if its artwork is missing now, it has noted so (`Underway`); and
  what it answers (`Answer`). `AnswersStayCurrent` is the last.
- **TmdbFacadeProofs.** The same for rows that other rows are made of: a detail was taken at most
  one call before its `fetched_at`, the oldest part of a search result at most the TTL of the details it
  was completed from and two calls (the oldest of the merged times is a minimum, which `WellFoundedInduction`
  provides). From it `StalenessAddsUp`; `AnswersCarrySections` needs that what a request
  fetched has its sections, which no other request's write to the row can change.
- **ShirabeSyncProofs.** Its theorems about the jobs have the hypothesis `~Overlap`, one job of a source at
  a time; with overlap `LiveWhole` is false, which `shirabe_sync_overlap` shows. `SyncInv`
  says for each kind of job, at each of its statements, what it has achieved: `ParserOf` (the
  parser is ahead of the task, and done when it ends well), `LoadOf` (the staging table is this
  job's and whole from its load on; the datasets before it are live), `BuildOf` (every INVALID
  index of the set is on the job's list until dropped; the derived table is filled once) and
  `EnumOf` (the batches sent are refreshed). `Alone` is what makes a staging table or an index set the
  job's own while another source's job, a crash, a migration or a publication goes on
  beside it. Reports of success are the invariant at the last statement.
  The module also proves for every day what the run samples over 400 years,
  `EveryDayFollowsCalendar` and with it `ExportsFollowCalendar`: a day has a place in the cycle
  of 400 years (`EveryDayHasAPlace`), the hand-made divisions find it (`PlaceHasItsDate`), and the
  next place (`NextPlace`) has the calendar's next date (`NextDate`), of a year that is leap when
  the March year before it is long (`LongYears`).
  `CopiesNothingLost` is the dumps' property for dumps of any length: what escaping a field,
  joining the fields and the rows, cutting the stream again and unescaping preserve, each by
  induction on the length of a text. The library's induction theorems take an operator; these
  inductions go through a lemma over a given set of numbers (0 is in it and with each number the
  next) that is stated in first-order terms.
- **SearchSessionProofs.** `SessionInv`: one request per connection (`HolderInv`), what the
  connection carries before each of the request's statements (`CarryInv`), and
  `OnlyDropsLeak` itself, as `CarryInv` has to say of a request that has not yet set
  everything that its connection is clean or abandoned. Theorems: `SearchesRunConfigured`,
  `LeaksAreDrops`.
- **Ws2Proofs.** First ORDER BY: on a key that tells the rows apart it lists each once and in
  order (`Ordered`), in one way only (`OneOrder`), and what is kept of an ordered list is the
  kept rows in that order (`KeptOrder`). So the rows of a batch that belong under one id are those
  its loader would have read: `AssembledPart` says it of each part of a release. Then, for every
  statement, what its rows are and which statements may follow (`Fits`, `Leads`). `KnownStaysKnown`
  is not inductive. `KnownInv` says that what was shown existed in a version up to the present one,
  that the rows on the way to a page are of the request's kind (`PagesExisted`), and that a lookup
  of a shown gid has yet to run or has found it (`LookedUp`). `PartsAreGenuine` needs `GenuineInv`
  on top: the statement that leads to an answer's releases is the last in the queue, until it
  has run there are neither releases nor statements for their parts (`Building`), and
  from then on each part is still to be read, for exactly these releases, or was read from a
  version the request spans (`Hydrating`). Replication only adds to those versions.
  Theorems: `ShownStaysKnown`, `PartsStayGenuine`.

Model-checked only. Liveness (`EveryRequestEnds`, `WaitersServed`, `Served`) the prover does
not reach. `HydrationAgrees` is proved of the parts of a release, by `AssembledPart`; what is
left of it is what folds over sequences compute, the media under a recording and the sums of
their tracks. `LocalSearchSound` (a fold of two pages by id) and `QueriesReadBack` (a parser that
recurses over its input) are of that kind throughout. An induction over a given set, as for the
dumps, takes such a fold apart one operator at a time; these three have many, and are
checked for the bounded inputs of their runs.

Assumptions of the models. A call to an upstream and the database write after it end
within the HTTP client's timeout (`Patience`); the database's clock and the process's
agree. Database statements are atomic and may fail; COPY takes effect as a whole. Where a
doc calls an effect best effort, the model lets it not happen. In `ShirabeSync` two jobs
of one source do not overlap, but for `shirabe_sync_overlap`.

## 5. Plan: what is left to prove

1. `HydrationAgrees`: that `AddTrack` groups the ordered rows of `BatchRecordingMedia` by medium,
   and that a batch's sums are those of `SumCounts`. `Ordered` and `KeptOrder` give the order.
2. `LocalSearchSound`: that `MergeHits` keeps one hit per id, and the better of two.
3. `QueriesReadBack`: what each function of the parser returns on a text that begins with a field.

## 6. Not modelled

- `sources/musicbrainz.rs` keeps no state: a `SELECT 1`. `images.rs` replaces prefixes;
  `FanartFacade` counts the rewrites without their text. `telemetry/` observes.
- Routing, XML and JSON rendering, names and lengths that are copied from row to answer,
  payload shapes, argument parsing, error texts, the static debug pages: stateless, and
  either the database's or the eye's to judge. How Postgres scores a text is data.
- Of the local search, `normalize_query` and the thinness threshold (`Thin` is given). Of
  the registry, the probes' concurrency and timeout, and the SQL of the xref upsert. Of the
  schema bootstrap, the splitting of files and the first set-up.
- Leases and tokens are per process; two server processes over one cache directory are
  not modelled.

## 7. Running it

`tlc -config SearchCache_safety.cfg MCSearchCache.tla` and likewise for the other
runs (`PROJECT.json` names each run's module and configuration); `tlapm
SearchCacheProofs.tla` and likewise for the other `*Proofs` modules, each within a few
minutes. `mirror_reads`, `shirabe_sync`, `cover_art` and the two facades' runs take one to
three minutes each with two workers, the others seconds.

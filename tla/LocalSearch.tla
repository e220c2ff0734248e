---------------------------- MODULE LocalSearch ----------------------------
(***************************************************************************)
(* The local search behind the TMDB facade (src/search.rs and its          *)
(* statements in src/queries.rs): the TMDB id index and the IMDb mirror    *)
(* asked at once, IMDb titles cross-referenced to TMDB ids, one ranked     *)
(* page. How well a row matches the query is data: a similarity in         *)
(* thousandths, or none, for the full-text and for the trigram statement.  *)
(* A nullable value is a set of at most one.                               *)
(***************************************************************************)
EXTENDS Integers, FiniteSets, Sequences, SequencesExt

CONSTANTS
  Tconsts,     \* IMDb ids; TMDB's are numbers
  AsText,      \* where an id's rendering sorts among all renderings
  Limit,       \* hits on a page, at each statement and at the end
  Candidates   \* full-text rows the IMDb statement looks at: 500

Default(column, value) == IF column = {} THEN value ELSE CHOOSE x \in column : TRUE
Greatest(scores) == CHOOSE s \in scores : \A t \in scores : t <= s
Page(hits) == SubSeq(hits, 1, IF Len(hits) < Limit THEN Len(hits) ELSE Limit)

\* similarity_to_score: 0 to 100, rounded.
ToScore(similarity) == (similarity + 5) \div 10

\* ORDER BY .. LIMIT without a tie-break: any n rows no other beats.
Tops(rows, n, column) ==
  {top \in SUBSET rows :
     /\ Cardinality(top) = IF Cardinality(rows) < n THEN Cardinality(rows) ELSE n
     /\ \A r \in top, s \in rows \ top : Default(s[column], 0) <= Default(r[column], 0)}

(***************************************************************************)
(* The TMDB id index.                                                      *)
(***************************************************************************)
IndexBefore(a, b) ==
  \/ a.similarity > b.similarity
  \/ /\ a.similarity = b.similarity
     /\ \/ Default(a.popularity, -1) > Default(b.popularity, -1)
        \/ a.popularity = b.popularity /\ a.id < b.id

\* `statement` is "fts" or "like", the columns with the rows' similarity to the query.
IndexRows(db, kind, statement) ==
  {[id |-> r.id, similarity |-> Default(r[statement], 0), name |-> r.name, popularity |-> r.popularity, adult |-> r.adult] :
     r \in {r \in db.index : r.kind = kind /\ r[statement] # {}}}

\* The trigram statement runs when full text finds nothing; cut off, it has no rows.
SearchTmdbIdIndex(db, kind, outcome) ==
  LET fts == IndexRows(db, kind, "fts")
      rows == IF fts # {} THEN fts ELSE IF outcome = "cut" THEN {} ELSE IndexRows(db, kind, "like")
      hit(r) == [id |-> r.id, name |-> r.name, score |-> ToScore(r.similarity),
                 popularity |-> r.popularity, adult |-> r.adult]
      sorted == Page(SetToSortSeq(rows, IndexBefore))
  IN  [i \in DOMAIN sorted |-> hit(sorted[i])]

(***************************************************************************)
(* The IMDb mirror.                                                        *)
(***************************************************************************)
ImdbTitleTypes(kind) ==
  IF kind = "movie" THEN {"movie", "tvMovie", "short", "video"} ELSE {"tvSeries", "tvMiniSeries"}

Matching(rows, column) == {r \in rows : r[column] # {}}
Similar(rows, column) == {[tconst |-> r.tconst, similarity |-> Default(r[column], 0)] : r \in rows}
OfKind(rows, kind) == {r \in rows : r.type \in ImdbTitleTypes(kind)}

InBasics(rows, basics) == {r \in rows : \E b \in basics : b.tconst = r.tconst}

\* What the full-text statement may rank: of the rows of the kind it takes those
\* with the most votes, then drops those without basics, of whatever type these are.
FtsRanked(db, kind) ==
  LET rows == Matching(OfKind(db.searchTitles, kind), "fts")
  IN  {InBasics(Similar(top, "fts"), db.basics) : top \in Tops(rows, Candidates, "votes")}

\* And the trigram one: the best rows of each of its three branches, then those
\* with basics of the kind.
FuzzyRanked(db, kind) ==
  LET best(rows, column) == {Similar(top, column) : top \in Tops(Matching(rows, column), Limit, column)}
  IN  {InBasics(p \cup o \cup a, OfKind(db.basics, kind)) :
         p \in best(OfKind(db.basics, kind), "primary"),
         o \in best(OfKind(db.basics, kind), "original"),
         a \in best(db.akas, "like")}

\* The trigram statement runs when full text returns nothing; cut off, it has no rows.
Ranked(db, kind, outcome) ==
  LET fuzzy == IF outcome = "cut" THEN {{}} ELSE FuzzyRanked(db, kind)
  IN  UNION {IF rows # {} THEN {rows} ELSE fuzzy : rows \in FtsRanked(db, kind)}

\* One hit per title, by its best row, under its basics' title.
SearchImdbTitles(db, ranked) ==
  LET best(t) == Greatest({r.similarity : r \in {r \in ranked : r.tconst = t}})
      before(t, u) == best(t) > best(u) \/ (best(t) = best(u) /\ AsText[t] < AsText[u])
      hit(t) == [id |-> t, name |-> (CHOOSE b \in db.basics : b.tconst = t).title,
                 score |-> ToScore(best(t)), popularity |-> {}, adult |-> {}]
      sorted == Page(SetToSortSeq({r.tconst : r \in ranked}, before))
  IN  [i \in DOMAIN sorted |-> hit(sorted[i])]

TmdbId(hit) == IF hit.id \in Tconsts THEN {} ELSE {hit.id}

\* resolve_tconsts_via_cache: any hydrated title of the kind with that IMDb id.
Resolutions(db, kind, tconsts) ==
  LET known == {r \in db.cache : r.kind = kind /\ r.imdb \in tconsts}
      candidates(t) == {r.id : r \in {r \in known : r.imdb = t}}
      titles == {r.imdb : r \in known}
  IN  {f \in [titles -> {r.id : r \in known}] : \A t \in titles : f[t] \in candidates(t)}

IndexMeta(db, kind, wanted) == {r \in db.index : r.kind = kind /\ r.id \in wanted}

Or(column, other) == IF column = {} THEN other ELSE column

\* A resolved hit keeps its score, and takes the id and what the index knows.
ApplyTconstResolution(hits, resolved, meta) ==
  LET known(id) == {m \in meta : m.id = id}
      enrich(hit, m) == [hit EXCEPT !.id = m.id, !.name = m.name,
                                    !.popularity = Or(m.popularity, @), !.adult = Or(m.adult, @)]
      apply(hit) == IF hit.id \notin DOMAIN resolved THEN hit
                    ELSE IF known(resolved[hit.id]) = {} THEN [hit EXCEPT !.id = resolved[hit.id]]
                    ELSE enrich(hit, CHOOSE m \in known(resolved[hit.id]) : TRUE)
  IN  [i \in DOMAIN hits |-> apply(hits[i])]

\* Best effort: without a pool, or if its statement fails, nothing is resolved;
\* without the index's answer nothing is enriched.
Resolved(db, kind, outcome, hits) ==
  LET tconsts == UNION {IF TmdbId(hits[i]) = {} THEN {hits[i].id} ELSE {} : i \in DOMAIN hits}
  IN  IF outcome.index = "absent" \/ outcome.resolve = "fails" THEN {<<>>} ELSE Resolutions(db, kind, tconsts)

ResolveImdbHits(db, kind, outcome, hits, resolved) ==
  LET found == {resolved[t] : t \in DOMAIN resolved}
      meta == IF outcome.meta = "fails" THEN {} ELSE IndexMeta(db, kind, found)
  IN  ApplyTconstResolution(hits, resolved, meta)

(***************************************************************************)
(* The page.                                                               *)
(***************************************************************************)
RankBefore(a, b) ==
  LET pa == Default(a.popularity, 0)
      pb == Default(b.popularity, 0)
  IN  \/ a.score > b.score
      \/ a.score = b.score /\ pa > pb
      \/ a.score = b.score /\ pa = pb /\ AsText[a.id] < AsText[b.id]

\* Mutant of Merged: the first source to list an id has the last word.
MergedFirst(existing, hit) ==
  [existing EXCEPT !.popularity = IF @ = {} THEN hit.popularity ELSE @, !.adult = Or(@, hit.adult)]

Merged(existing, hit) ==
  LET better == hit.score > existing.score
  IN  [existing EXCEPT !.score = IF better THEN hit.score ELSE @,
                       !.name = IF better THEN hit.name ELSE @,
                       !.popularity = IF @ = {} \/ hit.popularity = {} THEN Or(@, hit.popularity)
                                      ELSE {Greatest(@ \cup hit.popularity)},
                       !.adult = Or(@, hit.adult)]

MergeHits(hits) ==
  LET add(best, hit) ==
        IF \E e \in best : e.id = hit.id
        THEN {IF e.id = hit.id THEN Merged(e, hit) ELSE e : e \in best}
        ELSE best \cup {hit}
  IN  SetToSortSeq(FoldLeft(add, {}, hits), RankBefore)

Answers(outcome) == outcome \in {"ok", "cut"}

\* A source that is absent or fails contributes nothing.
LocalTmdbSearch(db, kind, outcome, ranked, resolved) ==
  LET index == IF Answers(outcome.index) THEN SearchTmdbIdIndex(db, kind, outcome.index) ELSE <<>>
      imdb == IF Answers(outcome.imdb)
              THEN ResolveImdbHits(db, kind, outcome, SearchImdbTitles(db, ranked), resolved)
              ELSE <<>>
  IN  Page(MergeHits(index \o imdb))

(***************************************************************************)
(* What the page promises.                                                 *)
(***************************************************************************)
\* The scores of every row that matches, under the ids they are rendered with.
Matches(db, kind, outcome, ranked, resolved) ==
  LET statement == IF IndexRows(db, kind, "fts") # {} THEN "fts" ELSE "like"
      index == IF ~Answers(outcome.index) \/ (outcome.index = "cut" /\ statement = "like") THEN {}
               ELSE {<<r.id, ToScore(r.similarity)>> : r \in IndexRows(db, kind, statement)}
      id(t) == IF t \in DOMAIN resolved THEN resolved[t] ELSE t
      imdb == IF ~Answers(outcome.imdb) THEN {} ELSE {<<id(r.tconst), ToScore(r.similarity)>> : r \in ranked}
  IN  index \cup imdb

\* Whatever of the two databases answers, the page has each title once, under its
\* best score, best first; and although each statement has its own limit, a title
\* that is missing is one a full page of better or equal titles leaves out. (The
\* rows taken as the IMDb statement's are those its inner limits let it rank.)
Sound(db, kind, outcome) ==
  \A ranked \in Ranked(db, kind, outcome.imdb) :
    \A resolved \in Resolved(db, kind, outcome, SearchImdbTitles(db, ranked)) :
      LET page == LocalTmdbSearch(db, kind, outcome, ranked, resolved)
          matches == Matches(db, kind, outcome, ranked, resolved)
          best(id) == Greatest({m[2] : m \in {m \in matches : m[1] = id}})
          found == {page[i].id : i \in DOMAIN page}
      IN  /\ Cardinality(found) = Len(page)
          /\ \A i \in DOMAIN page, j \in DOMAIN page : i < j => RankBefore(page[i], page[j])
          /\ \A i \in DOMAIN page : page[i].score = best(page[i].id)
          /\ \A m \in matches : m[1] \notin found =>
               Len(page) = Limit /\ \A i \in DOMAIN page : page[i].score >= m[2]
=============================================================================

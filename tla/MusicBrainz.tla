---------------------------- MODULE MusicBrainz ----------------------------
(* The SELECTs of queries.rs over a MusicBrainz database `d`: a record with  *)
(* one set of rows per table. Each operator is one statement and returns its *)
(* rows in order. A nullable column holds a set of at most one value. What   *)
(* Postgres says of a text for the query at hand is a column of its row:     *)
(* `words` (full text matches), `like` (trigram matches), `sim` (similarity, *)
(* doubled when it ranks so that half an artist's similarity is a number).   *)
(* Names are compared folded: lower() on both sides is left out. A name or a *)
(* gid that rows are ordered by is a number.                                 *)
EXTENDS Integers, Sequences, SequencesExt, FiniteSetsExt, ReleaseDates

\* ORDER BY: a row comes after as many rows as have a lesser key, a tuple of numbers.
OrderBy(S, key) ==
  [i \in 1..Cardinality(S) |->
     CHOOSE r \in S : Cardinality({s \in S : Precedes(key[s], key[r])}) = i - 1]
ById(S) == OrderBy(S, [r \in S |-> <<r.id>>])
ByPosition(S) == OrderBy(S, [r \in S |-> <<r.position>>])
Ranked(S) == OrderBy(S, [r \in S |-> <<-r.rank, r.id>>])

\* The rows that pass a test, in the order they are in.
Where(rows, Test(_)) ==
  LET kept == {i \in DOMAIN rows : Test(rows[i])}
      places == OrderBy(kept, [i \in kept |-> <<i>>])
  IN  [n \in 1..Cardinality(kept) |-> rows[places[n]]]

\* LIMIT and OFFSET.
Slice(rows, limit, offset) == SubSeq(rows, offset + 1, Min({offset + limit, Len(rows)}))

\* A row with one more column.
With(row, column, value) ==
  [c \in DOMAIN row \union {column} |-> IF c = column THEN value ELSE row[c]]

\* A page whose rows carry COUNT(*) OVER (), the number of rows without LIMIT.
Counted(rows, limit, offset) ==
  LET page == Slice(rows, limit, offset)
  IN  [i \in DOMAIN page |-> With(page[i], "total", Len(rows))]

Having(table, ids) == {r \in table : r.id \in ids}
TheRow(table, id) == CHOOSE r \in table : r.id = id
Matches(row, fuzzy) == IF fuzzy THEN row.like ELSE row.words
Dates(d) == d.country \union d.unknown

\* What the schema says of a database: its keys, which are numbers, and the columns
\* that are.
Keyed(table, columns) ==
  /\ IsFiniteSet(table)
  /\ \A r \in table, c \in columns : r[c] \in Int
  /\ \A r, s \in table : (\A c \in columns : r[c] = s[c]) => r = s
IsMirror(d) ==
  /\ \A table \in {d.artist, d.alias, d.credit, d.release, d.group, d.recording, d.medium} :
       Keyed(table, {"id"})
  /\ \A table \in {d.artist, d.release, d.group, d.recording, d.redirect} : Keyed(table, {"gid"})
  /\ Keyed(d.creditName, {"ac", "position"}) /\ Keyed(d.track, {"medium", "position"})
  /\ IsFiniteSet(Dates(d))
  /\ \A r \in d.artist \union d.alias \union d.credit \union d.release \union d.recording : r.sim \in Int
  /\ \A a \in d.artist : a.nameSim \in Int /\ a.sortSim \in Int
  /\ \A t \in d.track : t.gid > 0 /\ t.recording \in Int
  /\ \A g \in d.group : g.first.y \union g.first.m \union g.first.d \subseteq Int

(***************************************************************************)
(* Searches. q has the limit, the offset and the optional filters.         *)
(***************************************************************************)
\* ORDER BY <-> LIMIT: the hits whose branch's own column is nearest.
TopHits(hits, n) ==
  ToSet(Slice(OrderBy(hits, [h \in hits |-> <<-h.near, h.key>>]), n, 0))

\* The three branches: name, sort name, alias; `key` tells apart hits of a branch.
\* An artist's `sim`, its score, is the greater of its two columns' similarities.
ArtistBranches(d, fuzzy) ==
  << {[key |-> a.id, id |-> a.id, near |-> a.nameSim, score |-> a.sim] :
        a \in {x \in d.artist : Matches(x, fuzzy)}},
     {[key |-> a.id, id |-> a.id, near |-> a.sortSim, score |-> a.sim] :
        a \in {x \in d.artist : IF fuzzy THEN x.sortLike ELSE x.sortWords}},
     {[key |-> l.id, id |-> l.artist, near |-> l.sim, score |-> l.sim] :
        l \in {x \in d.alias : Matches(x, fuzzy) /\ Having(d.artist, {x.artist}) # {}}} >>

ArtistHits(d, q, fuzzy) ==
  LET branches == ArtistBranches(d, fuzzy)
  IN  UNION {IF fuzzy THEN TopHits(branches[i], q.limit + q.offset) ELSE branches[i] : i \in 1..3}

SearchArtists(d, q, fuzzy) ==
  LET hits == ArtistHits(d, q, fuzzy)
      best(id) == Max({h.score : h \in {x \in hits : x.id = id}})
      rows == {[id |-> a.id, gid |-> a.gid, comment |-> a.comment, rank |-> best(a.id)] :
                 a \in Having(d.artist, {h.id : h \in hits})}
  IN  Counted(Ranked(rows), q.limit, q.offset)

ResolveArtistCredits(d, fuzzy) ==
  LET rows == Ranked({[id |-> c.id, rank |-> c.sim] : c \in {x \in d.credit : Matches(x, fuzzy)}})
  IN  Slice(rows, 20, 0)

Filtered(d, r, q) ==
  /\ q.year = {} \/ \E e \in Dates(d) : e.release = r.id /\ e.y # {} /\ e.y = q.year
  /\ q.type = {} \/ \E g \in Having(d.group, {r.group}) : g.type = q.type
  /\ q.status = {} \/ r.status = q.status

ReleaseRow(d, r, rank) ==
  [id |-> r.id, gid |-> r.gid, ac |-> r.ac, group |-> r.group, score |-> r.sim, rank |-> rank]

CreditSim(d, ac) == IF Having(d.credit, {ac}) = {} THEN 0 ELSE TheRow(d.credit, ac).sim

SearchReleases(d, q, fuzzy) ==
  LET found == {r \in d.release : /\ Matches(r, fuzzy) /\ Filtered(d, r, q)
                                  /\ q.artist # {} => \E c \in Having(d.credit, {r.ac}) : c.like}
      rank(r) == 2 * r.sim + IF q.artist = {} THEN 0 ELSE CreditSim(d, r.ac)
  IN  Counted(Ranked({ReleaseRow(d, r, rank(r)) : r \in found}), q.limit, q.offset)

SearchReleasesByArtist(d, q, credits, fuzzy) ==
  LET found == {r \in d.release : /\ Matches(r, fuzzy) /\ Filtered(d, r, q)
                                  /\ r.ac \in credits /\ Having(d.credit, {r.ac}) # {}}
  IN  Counted(Ranked({ReleaseRow(d, r, 2 * r.sim + CreditSim(d, r.ac)) : r \in found}),
              q.limit, q.offset)

RecordingRow(r, rank) ==
  [id |-> r.id, gid |-> r.gid, ac |-> r.ac, score |-> r.sim, rank |-> rank]

SearchRecordings(d, q) ==
  LET found == {r \in d.recording : /\ r.words
                                    /\ q.artist # {} => \E c \in Having(d.credit, {r.ac}) : c.like}
      rank(r) == 2 * r.sim + IF q.artist = {} THEN 0 ELSE CreditSim(d, r.ac)
  IN  Counted(Ranked({RecordingRow(r, rank(r)) : r \in found}), q.limit, q.offset)

SearchRecordingsByArtist(d, q, credits, fuzzy) ==
  LET found == {r \in d.recording : /\ Matches(r, fuzzy) /\ r.ac \in credits
                                    /\ Having(d.credit, {r.ac}) # {}}
  IN  Counted(Ranked({RecordingRow(r, 2 * r.sim + CreditSim(d, r.ac)) : r \in found}),
              q.limit, q.offset)

(***************************************************************************)
(* Browses and lookups by gid.                                             *)
(***************************************************************************)
\* The credits an artist is part of.
CreditsOf(d, gid) ==
  {n.ac : n \in {x \in d.creditName : \E a \in Having(d.artist, {x.artist}) : a.gid = gid}}

BrowseReleasesByArtist(d, q) ==
  LET found == {r \in d.release : /\ r.ac \in CreditsOf(d, q.gid)
                                  /\ Filtered(d, r, [q EXCEPT !.year = {}])}
  IN  Counted(ById({ReleaseRow(d, r, 0) : r \in found}), q.limit, q.offset)

BrowseReleaseGroupsCount(d, q) ==
  <<Cardinality({g \in d.group : g.ac \in CreditsOf(d, q.gid)})>>

BrowseReleaseGroups(d, q) ==
  LET found == {g \in d.group : g.ac \in CreditsOf(d, q.gid)}
  IN  Slice(OrderBy(found, [g \in found |-> OrderKey(g.first) \o <<g.gid>>]), q.limit, q.offset)

\* Mutant: redirects are not followed.
ByGidOwn(table, redirect, gid) == SetToSeq({r \in table : r.gid = gid})

\* COALESCE(the row with this gid, the row a redirect of this gid names).
Known(table, redirect, gid) ==
  LET own == {r \in table : r.gid = gid}
  IN  IF own # {} THEN own ELSE Having(table, {x.new : x \in {y \in redirect : y.gid = gid}})
ByGid(table, redirect, gid) == SetToSeq(Known(table, redirect, gid))

LookupArtist(d, q) == ByGid(d.artist, d.redirect, q.gid)
LookupRelease(d, q) == ByGid(d.release, d.redirect, q.gid)
LookupReleaseGroup(d, q) == ByGid(d.group, d.redirect, q.gid)
LookupRecording(d, q) == ByGid(d.recording, d.redirect, q.gid)

(***************************************************************************)
(* Batched hydration: one statement for all the rows of a page.            *)
(***************************************************************************)
BatchArtistAliases(d, ids) ==
  LET rows == {l \in d.alias : l.artist \in ids}
  IN  OrderBy(rows, [l \in rows |-> <<l.artist, l.id>>])

\* A credit's names joined with their artists.
Named(d, n) ==
  [ac |-> n.ac, position |-> n.position, artist |-> n.artist, name |-> n.name,
   gid |-> TheRow(d.artist, n.artist).gid]
Joined(d, names) == {Named(d, n) : n \in {x \in names : Having(d.artist, {x.artist}) # {}}}

BatchArtistCredits(d, ids) ==
  LET rows == Joined(d, {n \in d.creditName : n.ac \in ids})
  IN  OrderBy(rows, [n \in rows |-> <<n.ac, n.position>>])
BatchReleaseGroups(d, ids) == SetToSeq(Having(d.group, ids))
BatchSecondaryTypes(d, ids) ==
  LET rows == {s \in d.secondary : s.group \in ids}
  IN  OrderBy(rows, [s \in rows |-> <<s.group, s.name>>])
BatchReleaseDates(d, ids) == SetToSeq({e \in Dates(d) : e.release \in ids})
BatchReleaseStatuses(d, ids) == SetToSeq({r \in Having(d.release, ids) : r.status # {}})
BatchReleaseComments(d, ids) == SetToSeq(Having(d.release, ids))
BatchReleaseTrackCounts(d, ids) ==
  LET media(id) == {m \in d.medium : m.release = id}
      sum(S) == FoldSet(LAMBDA m, n : m.count + n, 0, S)
  IN  SetToSeq({[id |-> i, total |-> sum(media(i))] : i \in {x \in ids : media(x) # {}}})

\* The tracks of the recordings with their medium.
Placed(d, t) ==
  LET m == TheRow(d.medium, t.medium)
  IN  [track |-> t, recording |-> t.recording, release |-> m.release, medium |-> m]
PlacedTracks(d, ids) ==
  {Placed(d, t) : t \in {x \in d.track : /\ x.recording \in ids
                                         /\ Having(d.medium, {x.medium}) # {}}}

BatchRecordingMedia(d, ids) ==
  LET rows == {p \in PlacedTracks(d, ids) : Having(d.recording, {p.recording}) # {}}
      key(p) == <<p.recording, p.release, p.medium.position, p.track.position>>
  IN  OrderBy(rows, [p \in rows |-> key(p)])

BatchRecordingReleases(d, ids) ==
  LET placed == {p \in PlacedTracks(d, ids) : Having(d.release, {p.release}) # {}}
      row(p) == With(ReleaseRow(d, TheRow(d.release, p.release), 0), "recording", p.recording)
      rows == {row(p) : p \in placed}
  IN  OrderBy(rows, [r \in rows |-> <<r.recording, r.id>>])

(***************************************************************************)
(* Per-row loaders of the lookups.                                         *)
(***************************************************************************)
LoadArtistUrlRelations(d, id) == ById({u \in d.url : u.artist = id})
ByTag(S) == OrderBy(S, [t \in S |-> <<t.tag>>])
LoadTags(table, id) == ByTag({t \in table : t.of = id /\ t.count > 0})
LoadGenres(d, table, id) == ByTag({t \in table : t.of = id /\ t.count > 0 /\ t.tag \in d.genre})
LoadArtistAnnotation(d, id) ==
  LET rows == {n \in d.annotation : n.artist = id}
  IN  Slice(OrderBy(rows, [n \in rows |-> <<-n.created>>]), 1, 0)
LoadArtistAliases(d, id) == ById({l \in d.alias : l.artist = id})
LoadArtistCredit(d, ac) == ByPosition(Joined(d, {n \in d.creditName : n.ac = ac}))
ReleaseDate(d, id) == SetToSeq({e \in Dates(d) : e.release = id})
LoadReleaseGroup(d, id) == SetToSeq({g \in d.group : g.id = id})
LoadReleaseStatus(d, id) == SetToSeq({r \in d.release : r.id = id /\ r.status # {}})
LoadReleaseComment(d, id) == SetToSeq({r \in d.release : r.id = id})
LoadMedia(d, id) == ByPosition({m \in d.medium : m.release = id})
LoadTracks(d, medium) ==
  ByPosition({t \in d.track : t.medium = medium /\ Having(d.recording, {t.recording}) # {}})
LoadReleaseRelations(d, id) ==
  LET side(dir, other) == [direction |-> dir, gid |-> TheRow(d.release, other).gid]
  IN  SetToSeq({side("forward", l.to) : l \in {x \in d.relation : x.from = id}})
        \o SetToSeq({side("backward", l.from) : l \in {x \in d.relation : x.to = id}})
LoadReleaseGroupReleases(d, id) == ById({r \in d.release : r.group = id})
=============================================================================

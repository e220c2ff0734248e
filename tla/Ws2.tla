-------------------------------- MODULE Ws2 --------------------------------
(* The ws/2 endpoints (handlers.rs) and the repository behind them (repo.rs) *)
(* as a machine that runs one statement of MusicBrainz.tla per step: a page  *)
(* of matches first, then the statements that hydrate it, batched for        *)
(* searches and browses, row by row for lookups. No transaction spans them,  *)
(* and the mirror replicates in between.                                     *)
EXTENDS MusicBrainz

CONSTANTS Databases,     \* the versions of the mirror, oldest first
          Requests,      \* the requests clients send
          DefaultLimit, MaxLimit

VARIABLES db,        \* the version of the mirror
          request,   \* the request at work, its paging resolved
          todo,      \* the statements still to run
          got,       \* <<statement, owner>> -> rows
          answer,
          seen,      \* the versions the request has read or could have read
          shown      \* <<kind, gid>> of the items of the answer before

vars == <<db, request, todo, got, answer, seen, shown>>

Pending == [status |-> 0]
Status(code) == [status |-> code]
Answered(total, items) == [status |-> 200, total |-> total, items |-> items]

BadGid == 0
VariousArtists == "various artists"

\* The routes; a request's optional parameters; and that a row a version of the mirror
\* has is in every later one, or a redirect of its gid leads to the row it is merged into.
Routes ==
  ({"search"} \X {"artist", "release", "recording"}) \union ({"browse"} \X {"release", "group"})
    \union ({"lookup"} \X {"artist", "release", "group", "recording"})

Table(d, kind) ==
  CASE kind = "artist" -> d.artist
    [] kind = "release" -> d.release
    [] kind = "group" -> d.group
    [] kind = "recording" -> d.recording

ASSUME Ws2Assumption ==
  /\ Len(Databases) \in Nat \ {0} /\ DefaultLimit \in Int /\ MaxLimit \in Nat \ {0}
  /\ Requests \subseteq
       [act : STRING, kind : STRING, gid : Nat, titled : BOOLEAN, artist : SUBSET STRING,
        year : SUBSET Int, type : SUBSET STRING, status : SUBSET STRING,
        limit : SUBSET Int, offset : SUBSET Int, inc : SUBSET STRING]
  /\ \A q \in Requests : <<q.act, q.kind>> \in Routes
  /\ \A v \in 1..Len(Databases) : IsMirror(Databases[v])
  /\ \A w \in 1..Len(Databases) : \A v \in 1..w, kind \in {"artist", "release", "group", "recording"} :
       \A r \in Table(Databases[v], kind) :
         Known(Table(Databases[w], kind), Databases[w].redirect, r.gid) # {}

\* What a statement's rows are for: the page, the releases or tracks within it,
\* or one medium, track or credit position (a number above 0).
Page == 0
Releases == -1
Tracks == -2

Statement(q, of, ids) == [q |-> q, of |-> of, ids |-> ids, fuzzy |-> FALSE]

\* A batch over no ids runs no statement.
Batch(q, of, ids) == IF ids = {} THEN <<>> ELSE <<Statement(q, of, ids)>>

Got(q, of) == IF <<q, of>> \in DOMAIN got THEN got[<<q, of>>] ELSE <<>>
Ids(rows) == {rows[i].id : i \in DOMAIN rows}
Acs(rows) == {rows[i].ac : i \in DOMAIN rows}

(***************************************************************************)
(* Statements.                                                             *)
(***************************************************************************)
Select(d, q, s) ==
  LET id == CHOOSE x \in s.ids : TRUE
      tags == IF q.kind = "artist" THEN d.artistTag ELSE d.groupTag
  IN  CASE s.q = "SearchArtists" -> SearchArtists(d, q, s.fuzzy)
        [] s.q = "ResolveArtistCredits" -> ResolveArtistCredits(d, s.fuzzy)
        [] s.q = "SearchReleases" -> SearchReleases(d, q, s.fuzzy)
        [] s.q = "SearchReleasesByArtist" -> SearchReleasesByArtist(d, q, s.ids, s.fuzzy)
        [] s.q = "SearchRecordings" -> SearchRecordings(d, q)
        [] s.q = "SearchRecordingsByArtist" -> SearchRecordingsByArtist(d, q, s.ids, s.fuzzy)
        [] s.q = "BrowseReleasesByArtist" -> BrowseReleasesByArtist(d, q)
        [] s.q = "BrowseReleaseGroupsCount" -> BrowseReleaseGroupsCount(d, q)
        [] s.q = "BrowseReleaseGroups" -> BrowseReleaseGroups(d, q)
        [] s.q = "LookupArtist" -> LookupArtist(d, q)
        [] s.q = "LookupRelease" -> LookupRelease(d, q)
        [] s.q = "LookupReleaseGroup" -> LookupReleaseGroup(d, q)
        [] s.q = "LookupRecording" -> LookupRecording(d, q)
        [] s.q = "BatchArtistAliases" -> BatchArtistAliases(d, s.ids)
        [] s.q = "BatchArtistCredits" -> BatchArtistCredits(d, s.ids)
        [] s.q = "BatchReleaseGroups" -> BatchReleaseGroups(d, s.ids)
        [] s.q = "BatchSecondaryTypes" -> BatchSecondaryTypes(d, s.ids)
        [] s.q = "BatchReleaseDates" -> BatchReleaseDates(d, s.ids)
        [] s.q = "BatchReleaseStatuses" -> BatchReleaseStatuses(d, s.ids)
        [] s.q = "BatchReleaseComments" -> BatchReleaseComments(d, s.ids)
        [] s.q = "BatchReleaseTrackCounts" -> BatchReleaseTrackCounts(d, s.ids)
        [] s.q = "BatchRecordingMedia" -> BatchRecordingMedia(d, s.ids)
        [] s.q = "BatchRecordingReleases" -> BatchRecordingReleases(d, s.ids)
        [] s.q = "LoadArtistUrlRelations" -> LoadArtistUrlRelations(d, id)
        [] s.q = "LoadGenres" -> LoadGenres(d, tags, id)
        [] s.q = "LoadTags" -> LoadTags(tags, id)
        [] s.q = "LoadArtistAnnotation" -> LoadArtistAnnotation(d, id)
        [] s.q = "LoadArtistAliases" -> LoadArtistAliases(d, id)
        [] s.q = "LoadArtistCredit" -> LoadArtistCredit(d, id)
        [] s.q = "ReleaseDate" -> ReleaseDate(d, id)
        [] s.q = "LoadReleaseGroup" -> LoadReleaseGroup(d, id)
        [] s.q = "LoadReleaseStatus" -> LoadReleaseStatus(d, id)
        [] s.q = "LoadReleaseComment" -> LoadReleaseComment(d, id)
        [] s.q = "LoadMedia" -> LoadMedia(d, id)
        [] s.q = "LoadTracks" -> LoadTracks(d, id)
        [] s.q = "LoadReleaseRelations" -> LoadReleaseRelations(d, id)
        [] s.q = "LoadReleaseGroupReleases" -> LoadReleaseGroupReleases(d, id)

\* The first statement of a request.
ScopingArtist(q) == q.artist \notin {{}, {VariousArtists}}
First(q) ==
  LET page(name) == <<Statement(name, Page, {})>>
      scoped(name) == page(IF ScopingArtist(q) THEN "ResolveArtistCredits" ELSE name)
  IN  CASE q.act = "search" /\ q.kind = "artist" -> page("SearchArtists")
        [] q.act = "search" /\ q.kind = "release" -> scoped("SearchReleases")
        [] q.act = "search" /\ q.kind = "recording" -> scoped("SearchRecordings")
        [] q.act = "browse" /\ q.kind = "release" -> page("BrowseReleasesByArtist")
        [] q.act = "browse" /\ q.kind = "group" -> page("BrowseReleaseGroupsCount")
        [] q.act = "lookup" /\ q.kind = "artist" -> page("LookupArtist")
        [] q.act = "lookup" /\ q.kind = "release" -> page("LookupRelease")
        [] q.act = "lookup" /\ q.kind = "group" -> page("LookupReleaseGroup")
        [] q.act = "lookup" /\ q.kind = "recording" -> page("LookupRecording")

\* Statements with a trigram fallback for an empty answer; title-only recording
\* searches have none.
FallsBack(s, rows) ==
  /\ rows = <<>> /\ ~s.fuzzy
  /\ s.q \in {"SearchArtists", "ResolveArtistCredits", "SearchReleases",
              "SearchReleasesByArtist", "SearchRecordingsByArtist"}

\* A bounded statement that hits its timeout answers no rows.
Bounded(s) ==
  \/ s.fuzzy
  \/ s.q \in {"ResolveArtistCredits", "SearchReleases", "SearchReleasesByArtist",
              "SearchRecordings", "SearchRecordingsByArtist"}

ReleaseParts(of, rows) ==
  Batch("BatchArtistCredits", of, Acs(rows))
    \o Batch("BatchReleaseGroups", of, {rows[i].group : i \in DOMAIN rows})
    \o Batch("BatchReleaseDates", of, Ids(rows))
    \o Batch("BatchReleaseStatuses", of, Ids(rows))
    \o Batch("BatchReleaseComments", of, Ids(rows))
    \o Batch("BatchReleaseTrackCounts", of, Ids(rows))

GroupParts(rows) ==
  Batch("BatchArtistCredits", Page, Acs(rows)) \o Batch("BatchSecondaryTypes", Page, Ids(rows))

RecordingParts(rows) ==
  Batch("BatchArtistCredits", Page, Acs(rows)) \o Batch("BatchRecordingReleases", Page, Ids(rows))

Included(q, token, name, id) == IF token \in q.inc THEN <<Statement(name, Page, {id})>> ELSE <<>>

LookupParts(q, row) ==
  CASE q.kind = "artist" ->
         Included(q, "url-rels", "LoadArtistUrlRelations", row.id)
           \o Included(q, "genres", "LoadGenres", row.id)
           \o Included(q, "tags", "LoadTags", row.id)
           \o Included(q, "annotation", "LoadArtistAnnotation", row.id)
    [] q.kind = "release" ->
         << Statement("LoadArtistCredit", Page, {row.ac}),
            Statement("LoadReleaseGroup", Page, {row.group}),
            Statement("ReleaseDate", Page, {row.id}),
            Statement("LoadReleaseStatus", Page, {row.id}),
            Statement("LoadReleaseComment", Page, {row.id}),
            Statement("LoadMedia", Page, {row.id}),
            Statement("LoadReleaseRelations", Page, {row.id}) >>
    [] q.kind = "group" ->
         GroupParts(<<row>>)
           \o Included(q, "genres", "LoadGenres", row.id)
           \o Included(q, "tags", "LoadTags", row.id)
           \o <<Statement("LoadReleaseGroupReleases", Page, {row.id})>>
    [] q.kind = "recording" ->
         << Statement("LoadArtistCredit", Page, {row.ac}),
            Statement("BatchRecordingReleases", Page, {row.id}) >>

\* The statements that a statement's rows call for, before those still waiting.
Follow(q, s, rows) ==
  CASE s.q = "SearchArtists" -> Batch("BatchArtistAliases", Page, Ids(rows))
    [] s.q = "ResolveArtistCredits" ->
         Batch(IF q.kind = "release" THEN "SearchReleasesByArtist" ELSE "SearchRecordingsByArtist",
               Page, Ids(rows))
    [] s.q \in {"SearchReleases", "SearchReleasesByArtist", "BrowseReleasesByArtist"} ->
         ReleaseParts(Page, rows)
    [] s.q \in {"SearchRecordings", "SearchRecordingsByArtist"} -> RecordingParts(rows)
    [] s.q = "BrowseReleaseGroupsCount" -> <<Statement("BrowseReleaseGroups", Page, {})>>
    [] s.q = "BrowseReleaseGroups" -> GroupParts(rows)
    [] s.q \in {"LookupArtist", "LookupRelease", "LookupReleaseGroup", "LookupRecording"} ->
         IF rows = <<>> THEN <<>> ELSE LookupParts(q, rows[1])
    [] s.q = "BatchArtistCredits" /\ q.kind = "recording" /\ s.of = Page ->
         Batch("BatchArtistAliases", Page, {rows[i].artist : i \in DOMAIN rows})
    [] s.q = "LoadArtistCredit" /\ q.kind = "recording" ->
         [i \in DOMAIN rows |-> Statement("LoadArtistAliases", rows[i].position, {rows[i].artist})]
    [] s.q = "BatchRecordingReleases" ->
         (IF q.act = "search" THEN Batch("BatchRecordingMedia", Page, s.ids) ELSE <<>>)
           \o ReleaseParts(Releases, rows)
    [] s.q = "BatchRecordingMedia" ->
         Batch("BatchArtistCredits", Tracks, UNION {rows[i].track.ac : i \in DOMAIN rows})
    [] s.q = "LoadMedia" -> [i \in DOMAIN rows |-> Statement("LoadTracks", rows[i].id, {rows[i].id})]
    [] s.q = "LoadTracks" ->
         LET own == Where(rows, LAMBDA t : t.ac # {})
         IN  [i \in DOMAIN own |-> Statement("LoadArtistCredit", own[i].gid, own[i].ac)]
    [] s.q = "LoadReleaseGroupReleases" -> Batch("BatchReleaseDates", Releases, Ids(rows))
    [] OTHER -> <<>>

(***************************************************************************)
(* Answers, assembled from what was got.                                   *)
(***************************************************************************)
Names(rows) == [i \in DOMAIN rows |-> rows[i].name]
Credits(rows, Aliases(_)) ==
  [i \in DOMAIN rows |-> [gid |-> rows[i].gid, name |-> rows[i].name, aliases |-> Aliases(rows[i])]]
NoAliases(n) == <<>>
BatchedAliases(artist) ==
  Names(Where(Got("BatchArtistAliases", Page), LAMBDA l : l.artist = artist))

\* Mutant: a batch's rows not told apart by credit.
CreditRowsUnkeyed(of, ac) == Got("BatchArtistCredits", of)

\* The entry of one credit in a batch's map; absent is empty.
CreditRows(of, ac) == Where(Got("BatchArtistCredits", of), LAMBDA n : n.ac = ac)
BatchedCredit(of, ac) == Credits(CreditRows(of, ac), NoAliases)

Found(rows, id) == {r \in ToSet(rows) : r.id = id}
NonEmpty(comments) == comments \ {""}
GroupOf(rows) == {[gid |-> g.gid, type |-> g.type] : g \in rows}
SumCounts(media) == FoldLeft(LAMBDA n, m : n + m.count, 0, media)

TrackCount(of, id, media) ==
  LET known == {r.total : r \in {x \in Found(Got("BatchReleaseTrackCounts", of), id) : x.total > 0}}
  IN  IF known # {} THEN known ELSE IF media # <<>> THEN {SumCounts(media)} ELSE {}

AssembleRelease(of, row, media) ==
  [ gid |-> row.gid,
    credit |-> BatchedCredit(of, row.ac),
    group |-> GroupOf(Found(Got("BatchReleaseGroups", of), row.group)),
    date |-> SelectReleaseDate({e \in ToSet(Got("BatchReleaseDates", of)) : e.release = row.id}),
    status |-> UNION {r.status : r \in Found(Got("BatchReleaseStatuses", of), row.id)},
    comment |-> NonEmpty({r.comment : r \in Found(Got("BatchReleaseComments", of), row.id)}),
    count |-> TrackCount(of, row.id, media),
    media |-> media,
    relations |-> <<>> ]

Medium(m, tracks) == [id |-> m.id, position |-> m.position, count |-> m.count, tracks |-> tracks]
Track(t, credit) == [gid |-> t.gid, recording |-> t.recording, credit |-> credit]

RowTrack(row) ==
  Track(row.track, Credits(Where(Got("BatchArtistCredits", Tracks),
                                     LAMBDA n : n.ac \in row.track.ac), NoAliases))

\* Mutant: every row opens a medium.
AddTrackApart(media, row) == Append(media, Medium(row.medium, <<RowTrack(row)>>))

\* A row joins the medium before it, or opens one.
AddTrack(media, row) ==
  LET n == Len(media)
  IN  IF n > 0 /\ media[n].id = row.medium.id
      THEN [media EXCEPT ![n].tracks = Append(@, RowTrack(row))]
      ELSE Append(media, Medium(row.medium, <<RowTrack(row)>>))
RecordingMedia(recording, release) ==
  FoldLeft(AddTrack, <<>>,
           Where(Got("BatchRecordingMedia", Page),
                     LAMBDA p : p.recording = recording /\ p.release = release))

AssembleRecording(row) ==
  LET searched == request.act = "search"
      rows == Where(Got("BatchRecordingReleases", Page), LAMBDA r : r.recording = row.id)
  IN  [ gid |-> row.gid,
        credit |-> IF searched
                   THEN Credits(CreditRows(Page, row.ac), LAMBDA n : BatchedAliases(n.artist))
                   ELSE Credits(Got("LoadArtistCredit", Page),
                                LAMBDA n : Names(Got("LoadArtistAliases", n.position))),
        releases |-> [i \in DOMAIN rows |->
                        AssembleRelease(Releases, rows[i], RecordingMedia(row.id, rows[i].id))] ]

AssembleArtist(row) ==
  [gid |-> row.gid, comment |-> NonEmpty({row.comment}), aliases |-> BatchedAliases(row.id)]

Include(token, name) == IF token \in request.inc THEN {Got(name, Page)} ELSE {}

AssembleGroup(row) ==
  LET own == Got("LoadReleaseGroupReleases", Page)
      dates(id) == {e \in ToSet(Got("BatchReleaseDates", Releases)) : e.release = id}
  IN  [ gid |-> row.gid, type |-> row.type,
        first |-> Render(row.first),
        comment |-> row.comment,
        credit |-> BatchedCredit(Page, row.ac),
        secondary |-> Names(Where(Got("BatchSecondaryTypes", Page),
                                      LAMBDA t : t.group = row.id)),
        genres |-> Include("genres", "LoadGenres"),
        tags |-> Include("tags", "LoadTags"),
        releases |-> [i \in DOMAIN own |->
                        [gid |-> own[i].gid, status |-> own[i].status,
                         date |-> SelectReleaseDate(dates(own[i].id))]] ]

LookedUpArtist(row) ==
  [ gid |-> row.gid, comment |-> NonEmpty({row.comment}),
    relations |-> Got("LoadArtistUrlRelations", Page),
    genres |-> Include("genres", "LoadGenres"),
    tags |-> Include("tags", "LoadTags"),
    annotation |-> Include("annotation", "LoadArtistAnnotation") ]

LookedUpMedia ==
  LET rows == Got("LoadMedia", Page)
      credit(t) == Credits(Got("LoadArtistCredit", t.gid), NoAliases)
      tracks(m) == LET own == Got("LoadTracks", m.id)
                   IN  [j \in DOMAIN own |-> Track(own[j], credit(own[j]))]
  IN  [i \in DOMAIN rows |-> Medium(rows[i], tracks(rows[i]))]

LookedUpRelease(row) ==
  [ gid |-> row.gid,
    credit |-> Credits(Got("LoadArtistCredit", Page), NoAliases),
    group |-> GroupOf(ToSet(Got("LoadReleaseGroup", Page))),
    date |-> SelectReleaseDate(ToSet(Got("ReleaseDate", Page))),
    status |-> UNION {r.status : r \in ToSet(Got("LoadReleaseStatus", Page))},
    comment |-> NonEmpty({r.comment : r \in ToSet(Got("LoadReleaseComment", Page))}),
    count |-> {SumCounts(LookedUpMedia)} \ {0},
    media |-> LookedUpMedia,
    relations |-> Got("LoadReleaseRelations", Page) ]

(***************************************************************************)
(* Requests.                                                               *)
(***************************************************************************)
PageRows ==
  LET name == IF <<"SearchReleasesByArtist", Page>> \in DOMAIN got THEN "SearchReleasesByArtist"
              ELSE IF <<"SearchRecordingsByArtist", Page>> \in DOMAIN got
              THEN "SearchRecordingsByArtist" ELSE First(request)[1].q
  IN  IF name = "ResolveArtistCredits" THEN <<>> ELSE Got(name, Page)

TotalFrom(rows) == IF rows = <<>> THEN 0 ELSE rows[1].total

Items(rows, Item(_)) == [i \in DOMAIN rows |-> Item(rows[i])]

Answer ==
  LET rows == PageRows
      found(items) == IF rows = <<>> THEN Status(404) ELSE Answered(1, items)
      groups == Got("BrowseReleaseGroups", Page)
  IN  CASE request.act = "search" /\ request.kind = "artist" ->
             Answered(TotalFrom(rows), Items(rows, AssembleArtist))
        [] request.act \in {"search", "browse"} /\ request.kind = "release" ->
             Answered(TotalFrom(rows), Items(rows, LAMBDA r : AssembleRelease(Page, r, <<>>)))
        [] request.act = "search" /\ request.kind = "recording" ->
             Answered(TotalFrom(rows), Items(rows, AssembleRecording))
        [] request.act = "browse" /\ request.kind = "group" ->
             Answered(rows[1], Items(groups, AssembleGroup))
        [] request.act = "lookup" /\ request.kind = "artist" -> found(Items(rows, LookedUpArtist))
        [] request.act = "lookup" /\ request.kind = "release" -> found(Items(rows, LookedUpRelease))
        [] request.act = "lookup" /\ request.kind = "group" -> found(Items(rows, AssembleGroup))
        [] request.act = "lookup" /\ request.kind = "recording" ->
             found(Items(rows, AssembleRecording))

ShownBy(kind, a) ==
  IF a.status = 200 THEN {<<kind, a.items[i].gid>> : i \in DOMAIN a.items} ELSE {}

ResolveLimit(q) ==
  LET asked == IF q.limit = {} THEN DefaultLimit ELSE CHOOSE n \in q.limit : TRUE
  IN  Min({Max({asked, 1}), MaxLimit})
ResolveOffset(q) == IF q.offset = {} THEN 0 ELSE Max({0, CHOOSE n \in q.offset : TRUE})
Resolved(q) == [q EXCEPT !.limit = ResolveLimit(q), !.offset = ResolveOffset(q)]

\* A malformed gid, or a search without a title, is refused before any statement.
Refused(q) == q.gid = BadGid \/ (q.act = "search" /\ ~q.titled)

NoRequest == [act |-> "none", kind |-> "none"]

Init ==
  /\ db = 1
  /\ request = NoRequest
  /\ todo = <<>> /\ got = <<>>
  /\ answer = Status(204)
  /\ seen = {} /\ shown = {}

Accept(r) ==
  /\ answer # Pending
  /\ shown' = ShownBy(request.kind, answer)
  /\ request' = Resolved(r)
  /\ got' = <<>> /\ seen' = {db}
  /\ IF Refused(r) THEN todo' = <<>> /\ answer' = Status(400)
     ELSE todo' = First(Resolved(r)) /\ answer' = Pending
  /\ UNCHANGED db

Ran(s, rows) ==
  /\ got' = [k \in DOMAIN got \union {<<s.q, s.of>>} |-> IF k = <<s.q, s.of>> THEN rows ELSE got[k]]
  /\ todo' = (IF FallsBack(s, rows) THEN <<[s EXCEPT !.fuzzy = TRUE]>> ELSE Follow(request, s, rows))
                \o Tail(todo)
  /\ UNCHANGED <<db, request, answer, seen, shown>>

Run == todo # <<>> /\ Ran(Head(todo), Select(Databases[db], request, Head(todo)))
TimesOut == todo # <<>> /\ Bounded(Head(todo)) /\ Ran(Head(todo), <<>>)

Fails ==
  /\ todo # <<>>
  /\ todo' = <<>> /\ got' = <<>> /\ answer' = Status(500)
  /\ UNCHANGED <<db, request, seen, shown>>

Respond ==
  /\ todo = <<>> /\ answer = Pending
  /\ answer' = Answer
  /\ got' = <<>>
  /\ UNCHANGED <<db, request, todo, seen, shown>>

Replicate ==
  /\ db < Len(Databases)
  /\ db' = db + 1
  /\ seen' = IF answer = Pending THEN seen \union {db'} ELSE seen
  /\ UNCHANGED <<request, todo, got, answer, shown>>

Next ==
  \/ \E r \in Requests : Accept(r)
  \/ Run
  \/ TimesOut
  \/ Fails
  \/ Respond
  \/ Replicate

Spec == Init /\ [][Next]_vars

(***************************************************************************)
(* Properties.                                                             *)
(***************************************************************************)
CreditIn(d, ac, Aliases(_)) == Credits(LoadArtistCredit(d, ac), Aliases)

\* A release as the per-row loaders read it: its row `r` from one version, what
\* the row points to from the tables `d` of one.
ReleaseIn(d, r) ==
  [ gid |-> r.gid,
    credit |-> CreditIn(d, r.ac, NoAliases),
    group |-> GroupOf(ToSet(LoadReleaseGroup(d, r.group))),
    date |-> SelectReleaseDate(ToSet(ReleaseDate(d, r.id))),
    status |-> UNION {x.status : x \in ToSet(LoadReleaseStatus(d, r.id))},
    comment |-> NonEmpty({x.comment : x \in ToSet(LoadReleaseComment(d, r.id))}) ]

MediaIn(d, id, Wanted(_)) ==
  LET media == LoadMedia(d, id)
      tracks(m) == Where(LoadTracks(d, m.id), Wanted)
      credit(t) == IF t.ac = {} THEN <<>> ELSE CreditIn(d, CHOOSE ac \in t.ac : TRUE, NoAliases)
      shape(m) == Medium(m, [j \in DOMAIN tracks(m) |-> Track(tracks(m)[j], credit(tracks(m)[j]))])
  IN  [i \in DOMAIN media |-> shape(media[i])]

AsRead(d, item, media) ==
  LET r == CHOOSE x \in d.release : x.gid = item.gid
  IN  /\ \A part \in DOMAIN ReleaseIn(d, r) : item[part] = ReleaseIn(d, r)[part]
      /\ item.count = {SumCounts(LoadMedia(d, r.id))} \ {0}
      /\ item.media = media

RecordingAsRead(d, item) ==
  LET k == CHOOSE x \in d.recording : x.gid = item.gid
      own(t) == t.recording = k.id
      homes == {p.release : p \in PlacedTracks(d, {k.id})}
      aliases(n) == Names(LoadArtistAliases(d, n.artist))
      holding(id) == Where(MediaIn(d, id, own), LAMBDA m : m.tracks # <<>>)
      media(id) == IF request.act = "search" THEN holding(id) ELSE <<>>
      releases == ById(Having(d.release, homes))
  IN  /\ item.credit = CreditIn(d, k.ac, aliases)
      /\ Len(item.releases) = Len(releases)
      /\ \A i \in DOMAIN releases : /\ item.releases[i].gid = releases[i].gid
                                    /\ AsRead(d, item.releases[i], media(releases[i].id))

GroupAsRead(d, item) ==
  LET g == CHOOSE x \in d.group : x.gid = item.gid
      secondary == {s \in d.secondary : s.group = g.id}
  IN  /\ item.credit = CreditIn(d, g.ac, NoAliases)
      /\ ToSet(item.secondary) = {s.name : s \in secondary}
      /\ \A i \in DOMAIN item.releases :
           LET r == CHOOSE x \in d.release : x.gid = item.releases[i].gid
           IN  item.releases[i].date = ReleaseIn(d, r).date

\* On a mirror that did not change meanwhile, every way of answering shows a
\* thing alike: the batched hydration of a page gives each release, recording and
\* release group what the row-by-row loaders of its lookup give it (repo.rs,
\* SHIB-17: "Callers re-emit rows in the original rank order, so the JSON contract
\* (including artist-credit position ordering) is unchanged"), and the media under
\* a recording are those of the release that hold it, each once.
HydrationAgrees ==
  answer.status = 200 /\ Cardinality(seen) = 1 =>
    LET d == Databases[CHOOSE v \in seen : TRUE]
        all(t) == TRUE
        media(item) == IF request.act # "lookup" THEN <<>>
                       ELSE MediaIn(d, (CHOOSE x \in d.release : x.gid = item.gid).id, all)
    IN  \A i \in DOMAIN answer.items :
          LET item == answer.items[i]
          IN  CASE request.kind = "release" -> AsRead(d, item, media(item))
                [] request.kind = "recording" -> RecordingAsRead(d, item)
                [] request.kind = "group" -> GroupAsRead(d, item)
                [] request.kind = "artist" -> request.act = "search" =>
                     LET a == CHOOSE x \in d.artist : x.gid = item.gid
                     IN  item.aliases = Names(LoadArtistAliases(d, a.id))

ReleasesOf(item) ==
  CASE request.kind = "release" -> {item}
    [] request.kind = "recording" -> ToSet(item.releases)
    [] OTHER -> {}

\* Whatever replicates between the statements of a request, no release is given
\* another's parts: each is what the release pointed to in a version the request
\* spans, as that was in such a version, and a part that has gone is empty. (Not
\* so the track count: when the media go between two statements, assemble_release
\* sums the few it has.)
PartsAreGenuine ==
  answer.status = 200 =>
    \A i \in DOMAIN answer.items : \A item \in ReleasesOf(answer.items[i]) :
      \A part \in {"credit", "group", "date", "status", "comment"} :
        \E v, w \in seen : \E r \in Databases[v].release :
          r.gid = item.gid /\ item[part] = ReleaseIn(Databases[w], r)[part]

\* A gid that an answer has shown is never unknown to the request after it: a
\* lookup follows the redirect a merge leaves, whatever has replicated since.
KnownStaysKnown ==
  answer.status = 404 => <<request.kind, request.gid>> \notin shown
====

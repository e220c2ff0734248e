------------------------------- MODULE MCWs2 -------------------------------
(* Three versions of a small mirror, and one request of every kind.          *)
EXTENDS Ws2

Row(id, words, like, sim) == [id |-> id, gid |-> id, words |-> words, like |-> like, sim |-> sim]
Artist(id, words, sortWords, nameSim, sortSim) ==
  Row(id, words, TRUE, Max({nameSim, sortSim})) @@
    [comment |-> "", sortWords |-> sortWords, sortLike |-> FALSE, nameSim |-> nameSim, sortSim |-> sortSim]
Release(id, ac, group, status, comment, words, like, sim) ==
  Row(id, words, like, sim) @@ [ac |-> ac, group |-> group, status |-> status, comment |-> comment]
Recording(id, ac, words, sim) == Row(id, words, TRUE, sim) @@ [ac |-> ac]
NameOf(ac, position, artist, name) ==
  [ac |-> ac, position |-> position, artist |-> artist, name |-> name]
Event(release, y, m, xw) == [release |-> release, y |-> y, m |-> m, d |-> {}, xw |-> xw]
MediumOf(id, release, position, count) ==
  [id |-> id, release |-> release, position |-> position, count |-> count]
TrackOf(gid, medium, position, recording, ac) ==
  [gid |-> gid, medium |-> medium, position |-> position, recording |-> recording, ac |-> ac]

\* Artists 11, 12; credits 21 (11) and 22 (12 and 11); groups 31, 32; releases 41
\* to 43; media 51 to 54, not in the order of their positions; recordings 61, 62.
Mirror ==
  [ artist |-> {Artist(11, TRUE, FALSE, 1, 3), Artist(12, FALSE, TRUE, 2, 0)},
    alias |-> {Row(71, FALSE, TRUE, 4) @@ [artist |-> 11, name |-> 1],
               Row(72, TRUE, TRUE, 1) @@ [artist |-> 11, name |-> 2],
               Row(73, FALSE, TRUE, 1) @@ [artist |-> 12, name |-> 3]},
    credit |-> {Row(21, TRUE, TRUE, 2), Row(22, FALSE, TRUE, 1)},
    creditName |-> {NameOf(21, 0, 11, 1), NameOf(22, 0, 12, 3), NameOf(22, 1, 11, 1)},
    group |-> {[id |-> 31, gid |-> 31, ac |-> 21, type |-> {"album"}, comment |-> "",
                first |-> Event(0, {7}, {}, FALSE)],
               [id |-> 32, gid |-> 32, ac |-> 22, type |-> {}, comment |-> "x",
                first |-> Event(0, {7}, {2}, FALSE)]},
    secondary |-> {[group |-> 31, name |-> 2], [group |-> 31, name |-> 1], [group |-> 32, name |-> 2]},
    release |-> {Release(41, 21, 31, {}, "", TRUE, TRUE, 2),
                 Release(42, 22, 31, {"official"}, "two", TRUE, TRUE, 3),
                 Release(43, 21, 32, {"bootleg"}, "", FALSE, TRUE, 1)},
    country |-> {Event(42, {8}, {}, FALSE), Event(42, {8}, {3}, TRUE), Event(43, {}, {1}, FALSE)},
    unknown |-> {Event(41, {9}, {}, FALSE)},
    medium |-> {MediumOf(51, 41, 2, 1), MediumOf(52, 41, 1, 2), MediumOf(53, 42, 1, 1),
                MediumOf(54, 43, 1, 0)},
    track |-> {TrackOf(81, 52, 2, 61, {}), TrackOf(82, 52, 1, 61, {22}), TrackOf(83, 51, 1, 61, {}),
               TrackOf(84, 53, 1, 62, {21})},
    recording |-> {Recording(61, 22, TRUE, 2), Recording(62, 21, TRUE, 2)},
    relation |-> {[from |-> 41, to |-> 42]},
    url |-> {[id |-> 1, artist |-> 11, url |-> 1]},
    artistTag |-> {[of |-> 11, tag |-> 1, count |-> 1], [of |-> 11, tag |-> 2, count |-> 0]},
    groupTag |-> {[of |-> 31, tag |-> 2, count |-> 1], [of |-> 31, tag |-> 1, count |-> 1]},
    genre |-> {1},
    annotation |-> {[artist |-> 11, created |-> 1, text |-> 1],
                    [artist |-> 11, created |-> 2, text |-> 2]},
    redirect |-> {} ]

\* Release 42 is merged into 41 and takes over its status; then its group goes, a
\* medium with it, and artist 12 is merged into 11.
Merged ==
  [Mirror EXCEPT !.release = {Release(41, 22, 31, {"official"}, "one", TRUE, TRUE, 2),
                              Release(43, 21, 32, {}, "", TRUE, TRUE, 1)},
                 !.redirect = {[gid |-> 42, new |-> 41]},
                 !.country = {Event(41, {8}, {3}, TRUE), Event(43, {}, {1}, FALSE)},
                 !.medium = (@ \ {MediumOf(53, 42, 1, 1)}) \union {MediumOf(53, 41, 3, 1)},
                 !.relation = {}]
Pruned ==
  [Merged EXCEPT !.release = {Release(41, 22, 31, {}, "one", TRUE, TRUE, 2)},
                 !.group = {g \in @ : g.id = 31},
                 !.medium = {m \in @ : m.release = 41 /\ m.position # 2},
                 !.track = {t \in @ : t.medium # 51},
                 !.artist = {a \in @ : a.id = 11},
                 !.alias = {[l EXCEPT !.artist = 11] : l \in @},
                 !.creditName = {[n EXCEPT !.artist = 11] : n \in @},
                 !.redirect = @ \union {[gid |-> 12, new |-> 11], [gid |-> 32, new |-> 31],
                                        [gid |-> 43, new |-> 41]}]
Versions == <<Mirror, Merged, Pruned>>

Asked(act, kind) ==
  [act |-> act, kind |-> kind, gid |-> 1, titled |-> TRUE, artist |-> {}, year |-> {},
   type |-> {}, status |-> {}, limit |-> {}, offset |-> {}, inc |-> {}]

Searches ==
  {[Asked("search", k) EXCEPT !.artist = a, !.limit = n] :
     k \in {"release", "recording"}, a \in {{}, {"named"}, {VariousArtists}}, n \in {{}, {1}}}
  \union {[Asked("search", "artist") EXCEPT !.offset = o] : o \in {{}, {1}}}
  \union {[Asked("search", "release") EXCEPT !.year = {8}, !.type = {"album"}, !.status = {"official"}],
          [Asked("search", "release") EXCEPT !.titled = FALSE]}
Browses ==
  {[Asked("browse", k) EXCEPT !.gid = g, !.offset = o] :
     k \in {"release", "group"}, g \in {11, BadGid}, o \in {{}, {-1}}}
Lookups ==
  {[Asked("lookup", "artist") EXCEPT !.gid = g, !.inc = i] :
     g \in {11, 12}, i \in {{}, {"url-rels", "genres", "tags", "annotation"}}}
  \union {[Asked("lookup", "release") EXCEPT !.gid = g] : g \in {41, 42, 49}}
  \union {[Asked("lookup", "group") EXCEPT !.gid = g, !.inc = i] :
            g \in {31, 32}, i \in {{}, {"genres", "tags"}}}
  \union {[Asked("lookup", "recording") EXCEPT !.gid = 61]}
AllRequests == Searches \union Browses \union Lookups
=============================================================================

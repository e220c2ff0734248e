---------------------------- MODULE MCTmdbFacade ----------------------------
(* TmdbFacade on small instances for TLC: a season, and one movie asked for   *)
(* with no section, with one the facade does not append itself or with one    *)
(* the upstream does not know; and the movie asked for as it is, next to a    *)
(* search for it. Local searches (LocalSearch) are an instance of their own:  *)
(* a page of two over two indexed movies and three IMDb titles, one of them a *)
(* series, with search tables out of step with the basics and every source    *)
(* failing in every way.                                                      *)
EXTENDS TmdbFacade, FiniteSets, TLC

CONSTANTS c1, c2, movie, season, title, ids, cast, junk, tta, ttb, ttc

VARIABLES instance, db, outcome

MovieHits == [q \in {title} |-> {movie}]

SomeAppends == {{}, {cast}, {junk}}

\* Details of one title, with whatever sections clients append, for one second
\* less, as their bound is that much lower; and searches, next to details with
\* no section.
Touched == {t \in Titles : row[t] # NoRow \/ t \in {want[c] : c \in Callers}}
Details == now < MaxTime /\ Cardinality(Touched) <= 1 /\ \A c \in Callers : want[c] \notin Queries
Searches == \A c \in Callers : want[c] # season /\ appends[c] = {}

IdsAsText == (10 :> 1) @@ (2 :> 2) @@ (tta :> 3) @@ (ttb :> 4) @@ (ttc :> 5)
Index == INSTANCE LocalSearch WITH Tconsts <- {tta, ttb, ttc}, AsText <- IdsAsText, Limit <- 2, Candidates <- 2

Indexed(id, fts, popularity) ==
  [id |-> id, kind |-> "movie", fts |-> fts, like |-> {400}, name |-> id, popularity |-> popularity, adult |-> {}]
Basics(t, type) == [tconst |-> t, type |-> type, title |-> t, primary |-> {450}, original |-> {}]
Title(t, votes, fts) == [tconst |-> t, type |-> "movie", votes |-> {votes}, fts |-> fts]
Alias(t, n, like) == [tconst |-> t, alias |-> n, like |-> like]
Hydrated(id, imdb) == [kind |-> "movie", id |-> id, imdb |-> imdb]

Similarities == {{}, {896}, {900}}
Databases ==
  {[index |-> {Indexed(2, two, {}), Indexed(10, ten, {7})},
    basics |-> {Basics(ttb, "short"), Basics(ttc, "tvSeries")} \cup known,
    searchTitles |-> {Title(tta, 5, a), Title(ttb, 5, b), Title(ttb, 9, a)} \cup stale,
    akas |-> {Alias(tta, 1, {460}), Alias(tta, 2, {455}), Alias(ttc, 3, {999})},
    cache |-> {Hydrated(2, first), Hydrated(10, second)}] :
      two \in Similarities, ten \in Similarities, a \in Similarities, b \in {{}, {950}},
      known \in {{}, {Basics(tta, "movie")}}, stale \in {{}, {Title(ttc, 9, {940})}},
      first \in {tta, ttb}, second \in {tta, ttc}}
Outcomes ==
  [index : {"ok", "cut", "fails", "absent"}, imdb : {"ok", "cut", "fails"},
   resolve : {"ok", "fails"}, meta : {"ok", "fails"}]

MCInit ==
  /\ Init
  /\ \/ /\ instance \in {"details", "requests"} /\ db = NoRow /\ outcome = NoRow
     \/ instance = "searches" /\ db \in Databases /\ outcome \in Outcomes

Recover ==
  /\ instance = "searches"
  /\ outcome' = [index |-> "ok", imdb |-> "ok", resolve |-> "ok", meta |-> "ok"]
  /\ UNCHANGED <<instance, db, vars>>

MCNext ==
  \/ instance = "details" /\ Next /\ Details' /\ UNCHANGED <<instance, db, outcome>>
  \/ instance = "requests" /\ Next /\ Searches' /\ UNCHANGED <<instance, db, outcome>>
  \/ Recover

MCSpec == MCInit /\ [][MCNext]_<<vars, instance, db, outcome>>

\* Whichever of the two databases answers, the local page has each title once,
\* under its best score, best first, and misses none that a lesser one displaced.
LocalSearchSound == instance = "searches" => Index!Sound(db, "movie", outcome)

\* Request tasks are interchangeable.
Symmetry == Permutations({c1, c2})
=============================================================================

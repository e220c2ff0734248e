---------------------------- MODULE MCShirabeSync ----------------------------
(* ShirabeSync on small instances for TLC.                                    *)
EXTENDS ShirabeSync, TLC

CONSTANTS p1, p2

ThePlans == {{"imdb", "imdb-fts"}, {"imdb", "imdb-trgm"}, {"tmdb"}}
Imdb == {{"imdb"}}
AllSources == UNION ThePlans
Fts == {"imdb-fts"}

TwoDatasets == <<"imdb_title_basics", "imdb_title_episode">>
Episodes == {"imdb_title_episode"}
TwoExports == <<"movie", "tv">>

\* Processes are interchangeable.
Symmetry == Permutations(Jobs)
==============================================================================

-------------------------- MODULE MCSearchSession --------------------------
(* Two requests on a musicbrainz pool and a local pool of one connection     *)
(* each, asking for pages of matches, past them, or of nothing.              *)
EXTENDS SearchSession

AnyPage == {"hit", "past", "none"}
AllKinds == {"artist", "title", "recording", "scoped", "local", "plain"}
=============================================================================

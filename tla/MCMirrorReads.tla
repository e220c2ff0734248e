--------------------------- MODULE MCMirrorReads ---------------------------
(* What a read of the mirror goes through, on two instances of their own for *)
(* TLC: the statements of a request over a mirror that replicates (Ws2), and *)
(* the pooled connections that searches leave their settings on              *)
(* (SearchSession): two requests on a musicbrainz pool and a local pool of   *)
(* one connection each, so that each inherits what the other left. The query *)
(* parser (QueryParser) is checked on short titles.                          *)
EXTENDS MCWs2, SearchSession

VARIABLES instance, title

HitOrMiss == {"hit", "past"}

\* After its credits, a "scoped" search goes the way of a "title" one.
AllKinds == {"artist", "recording", "scoped", "local", "plain"}

Parser == INSTANCE QueryParser

Words == {"date", "1973"}
Marks == {" ", ":", "(", ")", "\"", "\\", "~"}
Titles ==
  LET texts == UNION {[1..n -> Words \cup Marks] : n \in 1..3}
      runs(t) == \A k \in 1..(Len(t) - 1) : ~(t[k] \in Words /\ t[k + 1] \in Words)
  IN  {t \in texts : runs(t) /\ Parser!Plain(t)}
OtherName == <<"(", "x", ")", " ", "release", ":">>

MCInit ==
  /\ \/ instance \in {"statements", "sessions"} /\ title = <<"date">>
     \/ instance = "queries" /\ title \in Titles
  /\ Init
  /\ SessionInit

InSession(Action) == instance = "sessions" /\ Action /\ UNCHANGED <<instance, title, vars>>

Ask == instance = "queries" /\ title' \in {<<w>> : w \in Words} /\ UNCHANGED <<instance, vars, svars>>

MCNext ==
  \/ instance = "statements" /\ Next /\ UNCHANGED <<instance, title, svars>>
  \/ InSession(SessionNext)
  \/ Ask

MCSpec ==
  /\ MCInit /\ [][MCNext]_<<vars, svars, instance, title>>
  /\ \A c \in Callers : WF_svars(InSession(Query(c))) /\ SF_svars(InSession(Acquire(c)))

\* The consumer's query shapes read back what they were made of exactly when the
\* names' parentheses match, they have no quote, or no field marker, as the shape
\* needs; with the name in either of its places.
QueriesReadBack ==
  instance = "queries" =>
    Parser!ReadBack(title, OtherName) /\ Parser!ReadBack(OtherName, title)
=============================================================================

--------------------------- MODULE SearchSession ---------------------------
(***************************************************************************)
(* The trigram search session of a pooled Postgres connection.             *)
(*                                                                         *)
(* A search acquires a connection, sets on it the trigram cutoff, work_mem,*)
(* the statement timeout and jit, runs its full-text query and, when the   *)
(* page is empty, the fuzzy one under a tighter timeout.  The settings     *)
(* outlive the request: the pool hands the connection on as it stands, to  *)
(* searches, which configure it again, and to plain queries, which do not. *)
(* A request can be dropped at any await.                                  *)
(***************************************************************************)
EXTENDS Naturals, FiniteSets

CONSTANTS Callers,     \* requests in flight
          MbConns,     \* the connections of the musicbrainz pool
          LocalConns,  \* those of the imdb or the tmdb pool
          Kinds,       \* the kinds of request that are made
          Pages,       \* the pages asked for: of full-text matches ("hit"),
                       \* past the last of them, or with nothing matching ("none")
          None

\* What a session sets: the statement timeout and the trigram cutoff.
Server  == "server"      \* not set since the connection was opened
Default == "10s"         \* DEFAULT_STATEMENT_TIMEOUT_MS
Tight   == "3s"          \* FUZZY_STATEMENT_TIMEOUT_MS
Session == "threshold"   \* the cutoff the search passes to configure_search_session
Credit  == "0.5"         \* CREDIT_SIMILARITY_THRESHOLD

\* "artist" and "local" fail when their full-text query is cut off, "title"
\* (releases), "recording" (no fuzzy query) and "scoped" (by artist) go on with
\* no rows; "plain" is any query run on the pool as it is.
Conns == MbConns \cup LocalConns
ASSUME SessionAssumption == None \notin Conns
Pool(kind) == IF kind = "local" THEN LocalConns ELSE MbConns
Unbounded == {"artist", "local"}
WithoutFuzzy == {"recording"}

VARIABLES conn,   \* what each connection carries, and who abandoned it so
          req     \* each request: where it is, its connection, what it asks

svars == <<conn, req>>

Fresh == [cap |-> Server, limit |-> Server, abandoned |-> FALSE]
Idle == [pc |-> "idle", conn |-> None, kind |-> None, page |-> None,
         credits |-> "no", failed |-> FALSE]

SessionInit == conn = [k \in Conns |-> Fresh] /\ req = [c \in Callers |-> Idle]

Free(k) == \A c \in Callers : req[c].conn # k
Goto(c, pc) == req' = [req EXCEPT ![c].pc = pc]

Begin(c) ==
  /\ req[c].pc = "idle"
  /\ \E kind \in Kinds, page \in Pages :
       req' = [req EXCEPT ![c] = [Idle EXCEPT !.pc = "acquire", !.kind = kind, !.page = page]]
  /\ UNCHANGED conn

\* A plain query takes any connection of the pool and sets nothing on it.
Acquire(c) ==
  /\ req[c].pc \in {"acquire", "hydrate"}
  /\ \E k \in Pool(req[c].kind) :
       /\ Free(k)
       /\ req' = [req EXCEPT ![c].conn = k,
                    ![c].pc = IF req[c].pc = "hydrate" \/ req[c].kind = "plain"
                              THEN "plain" ELSE "limit"]
  /\ UNCHANGED conn

\* The statements that change a setting, and what each changes.
Settings == {"limit", "work_mem", "cap", "jit", "loosen", "tighten", "reset", "restore"}
Setting(pc, s) ==
  CASE pc = "limit"   -> [s EXCEPT !.limit = Session]
    [] pc = "cap"     -> [s EXCEPT !.cap = Default]
    [] pc = "loosen"  -> [s EXCEPT !.limit = Credit]
    [] pc = "tighten" -> [s EXCEPT !.cap = Tight]
    [] pc = "reset"   -> [s EXCEPT !.cap = Default]
    [] pc = "restore" -> [s EXCEPT !.limit = Session]
    [] OTHER          -> s

\* The connection is given back before the rows are hydrated.
RepliedHolding(r) == [r EXCEPT !.pc = IF r.failed THEN "idle" ELSE "hydrate",
                                !.conn = IF r.failed THEN None ELSE @]
Replied(r) == [r EXCEPT !.conn = None, !.pc = IF r.failed THEN "idle" ELSE "hydrate"]

\* Credits found by trigrams scope the title query; none found, there is none.
AfterRestore(r) == IF r.failed \/ r.credits = "missed" THEN Replied(r)
                   ELSE [r EXCEPT !.pc = "primary", !.credits = "no"]

AfterSettingUnrestored(r) ==
  CASE r.pc = "limit"    -> [r EXCEPT !.pc = "work_mem"]
    [] r.pc = "work_mem" -> [r EXCEPT !.pc = "cap"]
    [] r.pc = "cap"      -> [r EXCEPT !.pc = "jit"]
    [] r.pc = "jit"      -> [r EXCEPT !.pc = IF r.kind = "scoped" THEN "credits" ELSE "primary"]
    [] r.pc = "loosen"   -> [r EXCEPT !.pc = "tighten"]
    [] r.pc = "tighten"  -> [r EXCEPT !.pc = "fuzzy"]
    [] r.pc \in {"reset", "restore"} -> AfterRestore(r)

AfterSetting(r) ==
  CASE r.pc = "limit"    -> [r EXCEPT !.pc = "work_mem"]
    [] r.pc = "work_mem" -> [r EXCEPT !.pc = "cap"]
    [] r.pc = "cap"      -> [r EXCEPT !.pc = "jit"]
    [] r.pc = "jit"      -> [r EXCEPT !.pc = IF r.kind = "scoped" THEN "credits" ELSE "primary"]
    [] r.pc = "loosen"   -> [r EXCEPT !.pc = "tighten"]
    [] r.pc = "tighten"  -> [r EXCEPT !.pc = "fuzzy"]
    [] r.pc = "reset"    -> IF r.credits = "no" THEN Replied(r) ELSE [r EXCEPT !.pc = "restore"]
    [] r.pc = "restore"  -> AfterRestore(r)

\* configure_search_session, and the SETs around a fuzzy query.
Set(c) ==
  /\ req[c].pc \in Settings
  /\ conn' = [conn EXCEPT ![req[c].conn] =
       [Setting(req[c].pc, conn[req[c].conn]) EXCEPT !.abandoned = @ /\ req[c].pc # "jit"]]
  /\ req' = [req EXCEPT ![c] = AfterSetting(@)]

RequestFails(c) == req' = [req EXCEPT ![c] = Replied([@ EXCEPT !.failed = TRUE])]

\* resolve_artist_credits: full text, and trigrams when that finds no credit
\* or is cut off.
CreditQuery(c) ==
  /\ req[c].pc = "credits"
  /\ \/ Goto(c, "primary")
     \/ req' = [req EXCEPT ![c].pc = "loosen", ![c].credits = "loose"]
     \/ RequestFails(c)
  /\ UNCHANGED conn

\* The full-text page; cut off, it has no rows or fails the request.
Primary(c) ==
  /\ req[c].pc = "primary"
  /\ \E outcome \in {"rows", "timeout", "error"} :
       IF outcome = "error" \/ (outcome = "timeout" /\ req[c].kind \in Unbounded) THEN RequestFails(c)
       ELSE IF req[c].kind \in WithoutFuzzy \/ (outcome = "rows" /\ req[c].page = "hit")
       THEN req' = [req EXCEPT ![c] = Replied(@)]
       ELSE Goto(c, "tighten")
  /\ UNCHANGED conn

\* A fuzzy query, with its rows or, cut off, none: the timeout is reset before
\* its result or its error is looked at.
FuzzyEndsEarly(r, outcome) ==
  IF outcome = "error" THEN [r EXCEPT !.conn = None, !.pc = "idle"]
  ELSE [r EXCEPT !.pc = "reset", !.credits = IF r.credits = "no" THEN "no"
                                 ELSE IF outcome = "rows" THEN "found" ELSE "missed"]
FuzzyEnds(r, outcome) ==
  [r EXCEPT !.pc = "reset", !.failed = (outcome = "error"),
            !.credits = IF r.credits = "no" THEN "no"
                        ELSE IF outcome = "rows" THEN "found" ELSE "missed"]
Fuzzy(c) ==
  /\ req[c].pc = "fuzzy"
  /\ \E outcome \in {"rows", "none", "error"} : req' = [req EXCEPT ![c] = FuzzyEnds(@, outcome)]
  /\ UNCHANGED conn

\* A query on the pool as it is: a lookup, or the hydration of a search's rows
\* (its queries run one after the other, each acquiring anew; one stands for all).
Plain(c) ==
  /\ req[c].pc = "plain"
  /\ req' = [req EXCEPT ![c] = Idle]
  /\ UNCHANGED conn

\* The request is dropped.  A statement under way may or may not still take
\* effect before the connection returns to the pool.
Drop(c) ==
  /\ req[c].pc # "idle"
  /\ req' = [req EXCEPT ![c] = Idle]
  /\ IF req[c].conn = None \/ req[c].pc = "plain" THEN UNCHANGED conn
     ELSE \E s \in {conn[req[c].conn], Setting(req[c].pc, conn[req[c].conn])} :
            conn' = [conn EXCEPT ![req[c].conn] = [s EXCEPT !.abandoned = TRUE]]

\* The connection is lost under a statement and the pool opens another.  A SET
\* fails in no other way; that of the local search's reset is ignored.
Break(c) ==
  /\ req[c].conn # None
  /\ conn' = [conn EXCEPT ![req[c].conn] = Fresh]
  /\ req' = [req EXCEPT ![c] = IF req[c].kind = "local" /\ req[c].pc = "reset"
                               THEN Replied(@) ELSE Idle]

Query(c) == Set(c) \/ CreditQuery(c) \/ Primary(c) \/ Fuzzy(c) \/ Plain(c)
Step(c) == Begin(c) \/ Acquire(c) \/ Query(c) \/ Drop(c) \/ Break(c)
SessionNext == \E c \in Callers : Step(c)

\* Every statement ends (Postgres answers or cuts it off), and the pool serves
\* its waiters in order.
SessionSpec == SessionInit /\ [][SessionNext]_svars
             /\ \A c \in Callers : WF_svars(Query(c)) /\ SF_svars(Acquire(c))

-----------------------------------------------------------------------------
(* Properties *)

\* Whatever an earlier request left on the connection, a search query runs
\* under its own settings: full text under the session timeout, a fuzzy query
\* under the tight one, titles against the session's cutoff and credits against
\* theirs (search.rs:257, repo.rs:66 and 84).
RunsConfigured ==
  \A c \in Callers : LET k == conn[req[c].conn] IN
    /\ req[c].pc = "credits" => k.cap = Default
    /\ req[c].pc = "primary" => k.cap = Default /\ k.limit = Session
    /\ req[c].pc = "fuzzy" =>
         k.cap = Tight /\ k.limit = IF req[c].credits = "loose" THEN Credit ELSE Session

\* Only a dropped request leaves a connection tight or loose: answered, cut off
\* or failed, a search restores both before it gives the connection back.
OnlyDropsLeak ==
  \A k \in Conns : Free(k) /\ ~conn[k].abandoned => conn[k].cap # Tight /\ conn[k].limit # Credit

\* No search starves the others: whoever waits for a connection, to search or
\* to hydrate what it found, comes to an end.  A search that kept its
\* connection while it waits for the next would hang the pool.
Served == \A c \in Callers : req[c].pc \in {"acquire", "hydrate"} ~> req[c].pc = "idle"

\* What the comment on fetch_fuzzy says of it (repo.rs:61): the fuzzy query
\* runs for a search whose full-text query matched nothing.
FuzzyOnlyUnmatched ==
  \A c \in Callers : req[c].pc = "fuzzy" /\ req[c].credits = "no" => req[c].page = "none"
=============================================================================

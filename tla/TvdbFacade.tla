----------------------------- MODULE TvdbFacade -----------------------------
(***************************************************************************)
(* The TheTVDB facade: the shared bearer token (src/sources/tvdb.rs,       *)
(* TokenStore) and the read-through handlers over tvdb_cache that use it   *)
(* (src/facades/tvdb.rs: search, series_detail, episodes, movie and        *)
(* upstream_get).                                                          *)
(*                                                                         *)
(* A caller is one request task, or the sync task's liveness probe.  No    *)
(* lock is held across an await: callers log in, fetch and store at once,  *)
(* in any order.  The upstream hands out a bearer per login, honours it    *)
(* for TokenTtl and may revoke it earlier.                                 *)
(***************************************************************************)
EXTENDS Integers

CONSTANTS
  Callers,    \* request tasks
  Rows,       \* (id, kind) of tvdb_cache
  Linked,     \* the rows whose handler links remote ids: series and movies
  Configured, \* whether TVDB_API_KEY is set
  CacheTtl,   \* tvdb_cache_ttl_days; 0 disables the cache
  TokenTtl,   \* TOKEN_TTL_SECS
  Margin,     \* TOKEN_REFRESH_MARGIN_SECS
  Patience,   \* the HTTP client's timeout
  MaxTime,    \* bound on the clock
  MaxLogins,  \* bound on logins
  NoRow, NoToken  \* sentinels

Bearers == 1 .. MaxLogins

Row == [taken : 0 .. MaxTime, fetched_at : 0 .. MaxTime]

\* Token
Token == [bearer : Bearers, expires_at : Nat]

ASSUME TvdbAssumption ==
  /\ Linked \subseteq Rows /\ Configured \in BOOLEAN
  /\ CacheTtl \in Nat /\ TokenTtl \in Nat /\ Margin \in Nat /\ Patience \in Nat
  /\ MaxTime \in Nat /\ MaxLogins \in Nat
  /\ NoRow \notin Rows /\ NoRow \notin Row /\ NoToken \notin Token
  /\ 2 * Patience <= Margin /\ Margin < TokenTtl

VARIABLES
  now,     \* seconds
  logins,  \* bearers handed out so far
  issued,  \* when the upstream issued each bearer
  revoked, \* bearers the upstream no longer honours
  token,   \* TokenStore::inner
  row,     \* tvdb_cache: when a payload was taken upstream and its fetched_at, or NoRow
  links,   \* rows whose remote ids are in shirabe.xref
  pc,      \* where each caller is
  want,    \* the row each caller asks for; NoRow for the probe
  bearer,  \* the bearer each caller sends, or 0
  since,   \* when each caller's current HTTP call began
  taken,   \* when each caller's payload was taken upstream
  floor,   \* history: the logins so far when a caller was first refused
  age      \* history: the age of the payload a hit served

vars == <<now, logins, issued, revoked, token, row, links, pc, want, bearer,
          since, taken, floor, age>>
upstream == <<logins, issued, revoked>>
store == <<row, links>>

Stage == {"idle", "bearer", "login", "relogin", "sent", "storing", "linking",
          "done", "failed", "refused"}

\* The stages in which the HTTP client's timeout is running.
Calling == {"login", "relogin", "sent", "storing"}

Init ==
  /\ now = 0 /\ logins = 0
  /\ issued = [b \in Bearers |-> 0]
  /\ revoked = {}
  /\ token = NoToken
  /\ row = [k \in Rows |-> NoRow] /\ links = {}
  /\ pc = [c \in Callers |-> "idle"]
  /\ want = [c \in Callers |-> NoRow]
  /\ bearer = [c \in Callers |-> 0]
  /\ since = [c \in Callers |-> 0]
  /\ taken = [c \in Callers |-> 0]
  /\ floor = [c \in Callers |-> 0]
  /\ age = [c \in Callers |-> 0]

Goto(c, from, to) == pc[c] = from /\ pc' = [pc EXCEPT ![c] = to]

----------------------------------------------------------------------------
(* tvdb_cache.                                                             *)

\* Mutant of Fresh: rows never expire.
FreshForever(k) == CacheTtl > 0 /\ row[k] # NoRow

\* fetched_at >= now() - ttl
Fresh(k) == CacheTtl > 0 /\ row[k] # NoRow /\ row[k].fetched_at >= now - CacheTtl

\* A request and its cache_get: a fresh row is served; without one, or when the
\* lookup fails, the request goes upstream.
Request(c, k) ==
  /\ want' = [want EXCEPT ![c] = k]
  /\ \/ /\ Fresh(k)
        /\ Goto(c, "idle", "done")
        /\ age' = [age EXCEPT ![c] = now - row[k].taken]
     \/ /\ Goto(c, "idle", IF Configured THEN "bearer" ELSE "failed")
        /\ UNCHANGED age
  /\ UNCHANGED <<now, upstream, token, store, bearer, since, taken, floor>>

\* TvdbSource::refresh only asks for a bearer.
Probe(c) ==
  /\ Configured
  /\ Goto(c, "idle", "bearer")
  /\ UNCHANGED <<now, upstream, token, store, want, bearer, since, taken, floor, age>>

----------------------------------------------------------------------------
(* TokenStore.                                                             *)

\* Mutant of NeedsRefresh: a token is used up to its nominal expiry.
NeedsRefreshAtExpiry(t) == now >= t.expires_at

NeedsRefresh(t) == now + Margin >= t.expires_at

\* A caller that has a bearer: the probe is done, a request calls the upstream.
Send(c, b) ==
  /\ bearer' = [bearer EXCEPT ![c] = b]
  /\ since' = [since EXCEPT ![c] = now]
  /\ pc' = [pc EXCEPT ![c] = IF want[c] = NoRow THEN "done" ELSE "sent"]

Usable == token # NoToken /\ ~NeedsRefresh(token)

\* bearer: a still-fresh token under the read lock, or a login.
Bearer(c) ==
  /\ pc[c] = "bearer"
  /\ \/ /\ Usable
        /\ Send(c, token.bearer)
     \/ /\ ~Usable
        /\ Goto(c, "bearer", "login")
        /\ since' = [since EXCEPT ![c] = now]
        /\ UNCHANGED bearer
  /\ UNCHANGED <<now, upstream, token, store, want, taken, floor, age>>

\* POST /login reaches the upstream, which hands out a bearer.
Issue(c) ==
  /\ pc[c] \in {"login", "relogin"} /\ bearer[c] <= floor[c]
  /\ logins < MaxLogins
  /\ logins' = logins + 1
  /\ issued' = [issued EXCEPT ![logins + 1] = now]
  /\ bearer' = [bearer EXCEPT ![c] = logins + 1]
  /\ UNCHANGED <<now, revoked, token, store, pc, want, since, taken, floor, age>>

\* The login's answer arrives: the token is stored, whatever is stored already.
LoggedIn(c) ==
  /\ pc[c] \in {"login", "relogin"} /\ bearer[c] > floor[c]
  /\ token' = [bearer |-> bearer[c], expires_at |-> now + TokenTtl]
  /\ Send(c, bearer[c])
  /\ UNCHANGED <<now, upstream, store, want, taken, floor, age>>

----------------------------------------------------------------------------
(* upstream_get.                                                           *)

Honoured(b) == b \notin revoked /\ now < issued[b] + TokenTtl

\* The upstream answers with a payload.
Answered(c) ==
  /\ Goto(c, "sent", "storing")
  /\ Honoured(bearer[c])
  /\ taken' = [taken EXCEPT ![c] = now]
  /\ bearer' = [bearer EXCEPT ![c] = 0]
  /\ floor' = [floor EXCEPT ![c] = 0]
  /\ UNCHANGED <<now, upstream, token, store, want, since, age>>

\* Mutant of Unauthorized: the retry asks the store for a bearer.
UnauthorizedAsksStore(c) ==
  /\ pc[c] = "sent" /\ ~Honoured(bearer[c])
  /\ \/ /\ floor[c] = 0
        /\ Goto(c, "sent", "bearer")
        /\ floor' = [floor EXCEPT ![c] = logins]
     \/ /\ floor[c] # 0
        /\ Goto(c, "sent", "refused")
        /\ UNCHANGED floor
  /\ UNCHANGED <<now, upstream, token, store, want, bearer, since, taken, age>>

\* It answers 401: the first time the caller logs in again, the second it gives up.
Unauthorized(c) ==
  /\ pc[c] = "sent" /\ ~Honoured(bearer[c])
  /\ \/ /\ floor[c] = 0
        /\ Goto(c, "sent", "relogin")
        /\ floor' = [floor EXCEPT ![c] = logins]
        /\ since' = [since EXCEPT ![c] = now]
     \/ /\ floor[c] # 0
        /\ Goto(c, "sent", "refused")
        /\ UNCHANGED <<floor, since>>
  /\ UNCHANGED <<now, upstream, token, store, want, bearer, taken, age>>

\* A login or a request fails, or times out.
CallFails(c) ==
  /\ pc[c] \in {"login", "relogin", "sent"}
  /\ pc' = [pc EXCEPT ![c] = "failed"]
  /\ bearer' = [bearer EXCEPT ![c] = 0]
  /\ floor' = [floor EXCEPT ![c] = 0]
  /\ since' = [since EXCEPT ![c] = 0]
  /\ UNCHANGED <<now, upstream, token, store, want, taken, age>>

\* cache_put, best effort; series and movies go on to self_link_remote_ids.
Put(c) ==
  /\ Goto(c, "storing", IF want[c] \in Linked THEN "linking" ELSE "done")
  /\ \/ row' = [row EXCEPT ![want[c]] = [taken |-> taken[c], fetched_at |-> now]]
     \/ UNCHANGED row
  /\ taken' = [taken EXCEPT ![c] = 0]
  /\ since' = [since EXCEPT ![c] = 0]
  /\ UNCHANGED <<now, upstream, token, links, want, bearer, floor, age>>

\* self_link_remote_ids, best effort.
Link(c) ==
  /\ Goto(c, "linking", "done")
  /\ \/ links' = links \union {want[c]}
     \/ UNCHANGED links
  /\ UNCHANGED <<now, upstream, token, row, want, bearer, since, taken, floor, age>>

----------------------------------------------------------------------------
(* The rest of a request's life, and the world around it.                  *)

Forget(c) ==
  /\ pc' = [pc EXCEPT ![c] = "idle"]
  /\ want' = [want EXCEPT ![c] = NoRow]
  /\ bearer' = [bearer EXCEPT ![c] = 0]
  /\ since' = [since EXCEPT ![c] = 0]
  /\ taken' = [taken EXCEPT ![c] = 0]
  /\ floor' = [floor EXCEPT ![c] = 0]
  /\ age' = [age EXCEPT ![c] = 0]

Respond(c) ==
  /\ pc[c] \in {"done", "failed", "refused"}
  /\ Forget(c)
  /\ UNCHANGED <<now, upstream, token, store>>

\* The client is gone and the request is dropped at one of its awaits.
Cancel(c) ==
  /\ pc[c] \in {"bearer", "login", "relogin", "sent", "storing", "linking"}
  /\ Forget(c)
  /\ UNCHANGED <<now, upstream, token, store>>

\* The process restarts: the token is only in memory.
Crash ==
  /\ token' = NoToken
  /\ pc' = [c \in Callers |-> "idle"]
  /\ want' = [c \in Callers |-> NoRow]
  /\ bearer' = [c \in Callers |-> 0]
  /\ since' = [c \in Callers |-> 0]
  /\ taken' = [c \in Callers |-> 0]
  /\ floor' = [c \in Callers |-> 0]
  /\ age' = [c \in Callers |-> 0]
  /\ UNCHANGED <<now, upstream, store>>

\* The upstream revokes a bearer.
Revoke ==
  /\ \E b \in 1 .. logins : b \notin revoked /\ revoked' = revoked \union {b}
  /\ UNCHANGED <<now, logins, issued, token, store, pc, want, bearer, since, taken, floor, age>>

\* Time passes, but no call outlives the client's timeout.
Tick ==
  /\ now < MaxTime
  /\ \A c \in Callers : pc[c] \in Calling => now < since[c] + Patience
  /\ now' = now + 1
  /\ UNCHANGED <<upstream, token, store, pc, want, bearer, since, taken, floor, age>>

Next ==
  \/ \E c \in Callers :
       \/ \E k \in Rows : Request(c, k)
       \/ Probe(c) \/ Bearer(c) \/ Issue(c) \/ LoggedIn(c)
       \/ Answered(c) \/ Unauthorized(c) \/ CallFails(c)
       \/ Put(c) \/ Link(c) \/ Respond(c) \/ Cancel(c)
  \/ Crash \/ Revoke \/ Tick

Spec == Init /\ [][Next]_vars

----------------------------------------------------------------------------
(* Properties.                                                             *)

TypeOK ==
  /\ now \in 0 .. MaxTime /\ logins \in 0 .. MaxLogins
  /\ issued \in [Bearers -> 0 .. MaxTime]
  /\ revoked \subseteq 1 .. logins
  /\ token \in Token \union {NoToken}
  /\ row \in [Rows -> Row \union {NoRow}]
  /\ links \subseteq Linked
  /\ pc \in [Callers -> Stage]
  /\ want \in [Callers -> Rows \union {NoRow}]
  /\ bearer \in [Callers -> 0 .. logins] /\ floor \in [Callers -> 0 .. logins]
  /\ since \in [Callers -> 0 .. now] /\ taken \in [Callers -> 0 .. now]
  /\ age \in [Callers -> 0 .. now]

\* A request on its way never carries a bearer that has reached its nominal
\* lifetime, though a token's age is counted from the login's answer and the
\* request may take as long as the client's timeout (sources/tvdb.rs: "so a
\* request never rides a token about to lapse").
NeverLapsed ==
  \A c \in Callers : pc[c] = "sent" => now < issued[bearer[c]] + TokenTtl

\* A request is refused for good only when the upstream revoked a bearer that it
\* handed out after the request's first refusal: no stale token stored by a slower
\* login can use up the single retry (upstream_get: "force a fresh login and retry
\* once").
OneRetryIsEnough ==
  \A c \in Callers :
    pc[c] = "refused" => floor[c] < bearer[c] /\ bearer[c] \in revoked

\* What a hit serves was the upstream's answer at most the TTL and one call's time
\* ago, although concurrent fetches of a row may store their answers out of order.
BoundedStaleness == \A c \in Callers : age[c] <= CacheTtl + Patience
=============================================================================

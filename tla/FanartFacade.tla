---------------------------- MODULE FanartFacade ----------------------------
(***************************************************************************)
(* The fanart.tv facade (src/facades/fanart.rs, cached_fetch behind its    *)
(* four routes): a read-through cache with one row per id and kind.  Rows  *)
(* hold what the upstream sent; image URLs are rewritten in the answer     *)
(* only.  Nothing keeps two requests from fetching the same row at once.   *)
(***************************************************************************)
EXTENDS Integers

CONSTANTS
  Clients,   \* request tasks
  Keys,      \* valid ids, each with its kind
  BadKey,    \* an id that is not letters, digits and dashes
  Configs,   \* configurations: [pool |-> , key |-> , ttl |-> ]
  CallTime,  \* how long a call and the write of its row take at most
  Horizon,   \* bound on the clock
  NoArt

\* What the upstream sent: when, and how often its URLs have been rewritten.
Payload == [taken : Nat, rewrites : Nat]
ArtRow == [payload : Payload, fetched_at : Nat]

ASSUME FanartAssumption ==
  /\ Configs \subseteq [pool : BOOLEAN, key : BOOLEAN, ttl : Int]
  /\ CallTime \in Nat /\ NoArt \notin ArtRow

VARIABLES
  clock,        \* seconds
  art,          \* the keys the upstream has artwork for
  config,       \* the process's configuration
  fanart_cache, \* key -> [payload, fetched_at], or NoArt
  ask           \* each client's request

fvars == <<clock, art, config, fanart_cache, ask>>

Nothing == [pc |-> "idle", key |-> BadKey, since |-> 0, status |-> 0,
            payload |-> [taken |-> 0, rewrites |-> 0], age |-> 0, missed |-> FALSE]

FanartInit ==
  /\ clock = 0 /\ art \in SUBSET Keys
  /\ config \in Configs
  /\ fanart_cache = [k \in Keys |-> NoArt]
  /\ ask = [c \in Clients |-> Nothing]

At(c, pc) == ask[c].pc = pc
Become(c, r) == ask' = [ask EXCEPT ![c] = r]

Rewritten(payload) == [payload EXCEPT !.rewrites = @ + 1]

\* success_response, upstream_failure_response and the errors.
Success(r, payload) ==
  [r EXCEPT !.pc = "done", !.status = 200, !.payload = Rewritten(payload), !.age = clock - payload.taken]
Failure(r, code) == [r EXCEPT !.pc = "done", !.status = code]

\* fetched_at >= now() - ttl; a TTL of 0 or less disables the cache.
Current(k) ==
  /\ config.pool /\ config.ttl > 0
  /\ fanart_cache[k] # NoArt /\ fanart_cache[k].fetched_at >= clock - config.ttl

CachedFetch(c, k) ==
  /\ At(c, "idle")
  /\ LET r == [Nothing EXCEPT !.key = k, !.missed = k \notin art]
     IN  Become(c, IF k = BadKey THEN Failure(r, 400) ELSE [r EXCEPT !.pc = "lookup"])
  /\ UNCHANGED <<clock, art, config, fanart_cache>>

\* cache_get: a row served, or a miss, which a failed query counts as.
Hit(c) ==
  /\ At(c, "lookup") /\ Current(ask[c].key)
  /\ Become(c, Success(ask[c], fanart_cache[ask[c].key].payload))
  /\ UNCHANGED <<clock, art, config, fanart_cache>>
Miss(c) ==
  /\ At(c, "lookup")
  /\ Become(c, IF config.key THEN [ask[c] EXCEPT !.pc = "sent", !.since = clock]
               ELSE Failure(ask[c], 503))
  /\ UNCHANGED <<clock, art, config, fanart_cache>>

\* fetch_upstream: a payload, a 404 that is passed on, or any other failure.
Fetched(c) ==
  /\ At(c, "sent") /\ ask[c].key \in art
  /\ Become(c, [ask[c] EXCEPT !.pc = "storing", !.payload = [taken |-> clock, rewrites |-> 0]])
  /\ UNCHANGED <<clock, art, config, fanart_cache>>
NotFound(c) ==
  /\ At(c, "sent") /\ ask[c].key \notin art
  /\ Become(c, Failure(ask[c], 404))
  /\ UNCHANGED <<clock, art, config, fanart_cache>>
FetchFails(c) ==
  /\ At(c, "sent")
  /\ Become(c, Failure(ask[c], 502))
  /\ UNCHANGED <<clock, art, config, fanart_cache>>

\* Mutant of CachePut: the answer is cached.
CachePutRewritten(k, payload) ==
  fanart_cache' = [fanart_cache EXCEPT ![k] = [payload |-> Rewritten(payload), fetched_at |-> clock]]

\* The upsert.
CachePut(k, payload) ==
  fanart_cache' = [fanart_cache EXCEPT ![k] = [payload |-> payload, fetched_at |-> clock]]

\* cache_put, best effort, then the answer.
Store(c) ==
  /\ At(c, "storing")
  /\ \/ config.pool /\ CachePut(ask[c].key, ask[c].payload)
     \/ UNCHANGED fanart_cache
  /\ Become(c, Success(ask[c], ask[c].payload))
  /\ UNCHANGED <<clock, art, config>>

\* The request has been answered, or its client is gone and it is dropped.
Leave(c) ==
  /\ ~At(c, "idle") /\ Become(c, Nothing)
  /\ UNCHANGED <<clock, art, config, fanart_cache>>

\* The process restarts, perhaps with another configuration; the rows stay.
Restart ==
  /\ config' \in Configs
  /\ ask' = [c \in Clients |-> Nothing]
  /\ UNCHANGED <<clock, art, fanart_cache>>

\* The upstream gains or loses the artwork of a key.
Curate(k) ==
  /\ art' = IF k \in art THEN art \ {k} ELSE art \union {k}
  /\ ask' = [c \in Clients |-> [ask[c] EXCEPT !.missed = @ \/ (ask[c].key = k /\ k \notin art')]]
  /\ UNCHANGED <<clock, config, fanart_cache>>

Pass ==
  /\ clock < Horizon
  /\ \A c \in Clients : ask[c].pc \in {"sent", "storing"} => clock < ask[c].since + CallTime
  /\ clock' = clock + 1
  /\ UNCHANGED <<art, config, fanart_cache, ask>>

FanartNext ==
  \/ \E c \in Clients :
       \/ \E k \in Keys \union {BadKey} : CachedFetch(c, k)
       \/ Hit(c) \/ Miss(c)
       \/ Fetched(c) \/ NotFound(c) \/ FetchFails(c)
       \/ Store(c) \/ Leave(c)
  \/ \E k \in Keys : Curate(k)
  \/ Restart \/ Pass

FanartSpec == FanartInit /\ [][FanartNext]_fvars

----------------------------------------------------------------------------
\* Whatever concurrent fetches store and in whatever order, whether or not the
\* process has been restarted with another configuration: an answer's URLs have
\* been rewritten once (rows are stored as the upstream sent them), it is at most
\* the TTL and one call old, and "not found" is never remembered: the artwork was
\* missing at some time during that very request.
AnswersCurrent ==
  \A c \in Clients : At(c, "done") =>
    /\ ask[c].status = 200 =>
         /\ ask[c].payload.rewrites = 1
         /\ ask[c].age <= (IF config.ttl > 0 THEN config.ttl ELSE 0) + CallTime
    /\ ask[c].status = 404 => ask[c].missed
=============================================================================

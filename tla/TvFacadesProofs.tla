-------------------------- MODULE TvFacadesProofs --------------------------
(***************************************************************************)
(* Proofs about TvdbFacade for any number of callers and rows and any      *)
(* lifetimes: the refresh margin, twice the client's timeout or more, is   *)
(* what keeps a lapsed bearer off the wire.  And about FanartFacade for    *)
(* any clients, keys and configurations: overlapping fetches of a row,     *)
(* restarts and changes of the artwork leave every answer rewritten once,  *)
(* recent, and missing only what was missing.                              *)
(***************************************************************************)
EXTENDS TvdbFacade, FanartFacade, TLAPS

----------------------------------------------------------------------------
(* TvdbFacade: the inductive invariant.                                    *)

\* The stored token's expiry is at most one call later than the upstream's.
TokenInv ==
  token # NoToken =>
    /\ token.bearer \in 1 .. logins
    /\ token.expires_at <= issued[token.bearer] + TokenTtl + Patience

\* No call outlives its timeout, and a login's bearer was issued during the call.
CallInv ==
  \A c \in Callers :
    /\ pc[c] \in Calling => now <= since[c] + Patience
    /\ pc[c] \in {"login", "relogin"} /\ floor[c] < bearer[c] => since[c] <= issued[bearer[c]]
    /\ pc[c] = "storing" => since[c] <= taken[c]
    /\ pc[c] = "linking" => want[c] \in Linked

\* A request was sent with a bearer that outlives it, and after a refusal with
\* one that is newer than the refusal.
SentInv ==
  \A c \in Callers :
    /\ pc[c] \in {"idle", "bearer", "login"} => floor[c] = 0
    /\ pc[c] \in {"idle", "bearer"} => bearer[c] = 0
    /\ pc[c] = "sent" =>
         /\ floor[c] < bearer[c]
         /\ since[c] + Patience < issued[bearer[c]] + TokenTtl

\* A row was stored within one call of its payload's time.
RowInv ==
  \A k \in Rows :
    row[k] # NoRow => row[k].fetched_at <= row[k].taken + Patience /\ row[k].taken <= now

TvdbInv ==
  TypeOK /\ TokenInv /\ CallInv /\ SentInv /\ RowInv /\ OneRetryIsEnough /\ BoundedStaleness

LEMMA SentIsValid == TvdbInv => NeverLapsed
<1> SUFFICES ASSUME TvdbInv, NEW c \in Callers, pc[c] = "sent"
             PROVE  now < issued[bearer[c]] + TokenTtl
  BY DEF NeverLapsed
<1>1. since[c] + Patience < issued[bearer[c]] + TokenTtl /\ now <= since[c] + Patience
  BY DEF TvdbInv, CallInv, SentInv, Calling
<1>2. /\ now \in Int /\ since[c] \in Int /\ bearer[c] \in Bearers
      /\ issued[bearer[c]] \in Int /\ TokenTtl \in Int /\ Patience \in Int
  BY TvdbAssumption DEF TvdbInv, TypeOK, SentInv, Bearers
<1> QED BY <1>1, <1>2

LEMMA InitInv == Init => TvdbInv
<1> SUFFICES ASSUME Init PROVE TvdbInv
  OBVIOUS
<1> USE TvdbAssumption DEF Init
<1>1. TypeOK
  BY DEF TypeOK, Stage, Bearers
<1>2. TokenInv /\ CallInv /\ SentInv /\ RowInv
  BY DEF TokenInv, CallInv, SentInv, RowInv, Calling
<1>3. OneRetryIsEnough /\ BoundedStaleness
  BY DEF OneRetryIsEnough, BoundedStaleness
<1> QED BY <1>1, <1>2, <1>3 DEF TvdbInv

----------------------------------------------------------------------------
(* One lemma per action.                                                   *)

LEMMA RequestInv ==
  ASSUME TvdbInv, NEW c \in Callers, NEW k \in Rows, Request(c, k)
  PROVE  TvdbInv'
<1> USE TvdbAssumption DEF TvdbInv, TypeOK, Request, Goto, upstream, store
<1>1. TypeOK'
  BY DEF Stage, Fresh, Row, RowInv
<1>2. TokenInv' /\ RowInv'
  BY DEF TokenInv, RowInv
<1>3. CallInv' /\ SentInv'
  BY DEF CallInv, SentInv, Calling
<1>4. OneRetryIsEnough'
  BY DEF OneRetryIsEnough
<1>5. BoundedStaleness'
  BY DEF BoundedStaleness, Fresh, Row, RowInv
<1> QED BY <1>1, <1>2, <1>3, <1>4, <1>5

LEMMA ProbeInv ==
  ASSUME TvdbInv, NEW c \in Callers, Probe(c)
  PROVE  TvdbInv'
<1> USE TvdbAssumption DEF TvdbInv, TypeOK, Probe, Goto, upstream, store
<1>1. TypeOK'
  BY DEF Stage
<1>2. TokenInv' /\ RowInv'
  BY DEF TokenInv, RowInv
<1>3. CallInv' /\ SentInv'
  BY DEF CallInv, SentInv, Calling
<1>4. OneRetryIsEnough' /\ BoundedStaleness'
  BY DEF OneRetryIsEnough, BoundedStaleness
<1> QED BY <1>1, <1>2, <1>3, <1>4

\* A stored token that needs no refresh outlives a whole call.
LEMMA UsableOutlivesCall ==
  ASSUME TvdbInv, Usable
  PROVE  /\ token.bearer \in 1 .. logins
         /\ now + Patience < issued[token.bearer] + TokenTtl
BY TvdbAssumption DEF TvdbInv, TypeOK, TokenInv, Usable, NeedsRefresh, Token, Bearers

LEMMA BearerInv ==
  ASSUME TvdbInv, NEW c \in Callers, Bearer(c)
  PROVE  TvdbInv'
<1> USE TvdbAssumption DEF TvdbInv, TypeOK, Bearer, Send, Goto, upstream, store
<1>1. TypeOK'
  BY UsableOutlivesCall DEF Stage
<1>2. TokenInv' /\ RowInv'
  BY DEF TokenInv, RowInv
<1>3. CallInv'
  BY DEF CallInv, Calling, SentInv
<1>4. SentInv'
  BY UsableOutlivesCall DEF SentInv
<1>5. OneRetryIsEnough' /\ BoundedStaleness'
  BY DEF OneRetryIsEnough, BoundedStaleness
<1> QED BY <1>1, <1>2, <1>3, <1>4, <1>5

LEMMA IssueInv ==
  ASSUME TvdbInv, NEW c \in Callers, Issue(c)
  PROVE  TvdbInv'
<1> USE TvdbAssumption DEF TvdbInv, TypeOK, Issue, store
<1>1. logins + 1 \in Bearers /\ \A b \in 1 .. logins : issued'[b] = issued[b]
  BY DEF Bearers
<1>2. TypeOK'
  BY <1>1
<1>3. TokenInv' /\ RowInv'
  BY <1>1 DEF TokenInv, RowInv
<1>4. CallInv'
  <2> SUFFICES ASSUME NEW d \in Callers, pc[d] \in {"login", "relogin"},
                      floor[d] < bearer'[d]
               PROVE  since[d] <= issued'[bearer'[d]]
    BY DEF CallInv
  <2>1. CASE d = c
    BY <1>1, <2>1
  <2>2. CASE d # c
    BY <1>1, <2>2 DEF CallInv
  <2> QED BY <2>1, <2>2
<1>5. SentInv'
  BY <1>1 DEF SentInv
<1>6. OneRetryIsEnough' /\ BoundedStaleness'
  BY DEF OneRetryIsEnough, BoundedStaleness
<1> QED BY <1>2, <1>3, <1>4, <1>5, <1>6

LEMMA LoggedInInv ==
  ASSUME TvdbInv, NEW c \in Callers, LoggedIn(c)
  PROVE  TvdbInv'
<1> USE TvdbAssumption DEF TvdbInv, TypeOK, LoggedIn, Send, upstream, store
<1>1. bearer[c] \in 1 .. logins /\ bearer[c] \in Bearers
  BY DEF Bearers
<1>2. now <= issued[bearer[c]] + Patience
  BY <1>1 DEF CallInv, Calling
<1>3. TypeOK'
  BY <1>1 DEF Stage, Token
<1>4. TokenInv'
  BY <1>1, <1>2 DEF TokenInv
<1>5. CallInv'
  BY DEF CallInv, Calling
<1>6. SentInv'
  BY <1>1, <1>2 DEF SentInv
<1>7. RowInv' /\ OneRetryIsEnough' /\ BoundedStaleness'
  BY DEF RowInv, OneRetryIsEnough, BoundedStaleness
<1> QED BY <1>3, <1>4, <1>5, <1>6, <1>7

LEMMA AnsweredInv ==
  ASSUME TvdbInv, NEW c \in Callers, Answered(c)
  PROVE  TvdbInv'
<1> USE TvdbAssumption DEF TvdbInv, TypeOK, Answered, Goto, upstream, store
<1>1. TypeOK'
  BY DEF Stage
<1>2. TokenInv' /\ RowInv'
  BY DEF TokenInv, RowInv
<1>3. CallInv' /\ SentInv'
  BY DEF CallInv, SentInv, Calling
<1>4. OneRetryIsEnough' /\ BoundedStaleness'
  BY DEF OneRetryIsEnough, BoundedStaleness
<1> QED BY <1>1, <1>2, <1>3, <1>4

LEMMA UnauthorizedInv ==
  ASSUME TvdbInv, NEW c \in Callers, Unauthorized(c)
  PROVE  TvdbInv'
<1> USE TvdbAssumption DEF TvdbInv, TypeOK, Unauthorized, Goto, upstream, store
<1>1. TypeOK'
  BY DEF Stage
<1>2. TokenInv' /\ RowInv'
  BY DEF TokenInv, RowInv
<1>3. CallInv' /\ SentInv'
  BY DEF CallInv, SentInv, Calling
<1>4. OneRetryIsEnough'
  BY SentIsValid DEF OneRetryIsEnough, NeverLapsed, SentInv, Honoured
<1>5. BoundedStaleness'
  BY DEF BoundedStaleness
<1> QED BY <1>1, <1>2, <1>3, <1>4, <1>5

LEMMA CallFailsInv ==
  ASSUME TvdbInv, NEW c \in Callers, CallFails(c)
  PROVE  TvdbInv'
<1> USE TvdbAssumption DEF TvdbInv, TypeOK, CallFails, upstream, store
<1>1. TypeOK'
  BY DEF Stage
<1>2. TokenInv' /\ RowInv'
  BY DEF TokenInv, RowInv
<1>3. CallInv' /\ SentInv'
  BY DEF CallInv, SentInv, Calling
<1>4. OneRetryIsEnough' /\ BoundedStaleness'
  BY DEF OneRetryIsEnough, BoundedStaleness
<1> QED BY <1>1, <1>2, <1>3, <1>4

LEMMA PutInv ==
  ASSUME TvdbInv, NEW c \in Callers, Put(c)
  PROVE  TvdbInv'
<1> USE TvdbAssumption DEF TvdbInv, TypeOK, Put, Goto, upstream
<1>1. TypeOK'
  BY DEF Stage, Row
<1>2. TokenInv'
  BY DEF TokenInv
<1>3. RowInv'
  BY DEF RowInv, CallInv, Calling, Row
<1>4. CallInv' /\ SentInv'
  BY DEF CallInv, SentInv, Calling
<1>5. OneRetryIsEnough' /\ BoundedStaleness'
  BY DEF OneRetryIsEnough, BoundedStaleness
<1> QED BY <1>1, <1>2, <1>3, <1>4, <1>5

LEMMA LinkInv ==
  ASSUME TvdbInv, NEW c \in Callers, Link(c)
  PROVE  TvdbInv'
<1> USE TvdbAssumption DEF TvdbInv, TypeOK, Link, Goto, upstream
<1>1. TypeOK'
  BY DEF Stage, CallInv
<1>2. TokenInv' /\ RowInv'
  BY DEF TokenInv, RowInv
<1>3. CallInv' /\ SentInv'
  BY DEF CallInv, SentInv, Calling
<1>4. OneRetryIsEnough' /\ BoundedStaleness'
  BY DEF OneRetryIsEnough, BoundedStaleness
<1> QED BY <1>1, <1>2, <1>3, <1>4

\* Answered or dropped: the caller forgets all it knew.
LEMMA ForgetInv ==
  ASSUME TvdbInv, NEW c \in Callers, Respond(c) \/ Cancel(c)
  PROVE  TvdbInv'
<1> USE TvdbAssumption DEF TvdbInv, TypeOK
<1>1. Forget(c) /\ UNCHANGED <<now, upstream, token, store>>
  BY DEF Respond, Cancel
<1> USE <1>1 DEF Forget, upstream, store
<1>2. TypeOK'
  BY DEF Stage
<1>3. TokenInv' /\ RowInv'
  BY DEF TokenInv, RowInv
<1>4. CallInv' /\ SentInv'
  BY DEF CallInv, SentInv, Calling
<1>5. OneRetryIsEnough' /\ BoundedStaleness'
  BY DEF OneRetryIsEnough, BoundedStaleness
<1> QED BY <1>2, <1>3, <1>4, <1>5

LEMMA CrashInv ==
  ASSUME TvdbInv, Crash
  PROVE  TvdbInv'
<1> USE TvdbAssumption DEF TvdbInv, TypeOK, Crash, upstream, store
<1>1. TypeOK'
  BY DEF Stage
<1>2. TokenInv' /\ RowInv'
  BY DEF TokenInv, RowInv
<1>3. CallInv' /\ SentInv'
  BY DEF CallInv, SentInv, Calling
<1>4. OneRetryIsEnough' /\ BoundedStaleness'
  BY DEF OneRetryIsEnough, BoundedStaleness
<1> QED BY <1>1, <1>2, <1>3, <1>4

LEMMA RevokeInv ==
  ASSUME TvdbInv, Revoke
  PROVE  TvdbInv'
<1> USE TvdbAssumption DEF TvdbInv, TypeOK, Revoke, store
<1>1. TypeOK'
  OBVIOUS
<1>2. TokenInv' /\ RowInv' /\ CallInv' /\ SentInv'
  BY DEF TokenInv, RowInv, CallInv, SentInv
<1>3. OneRetryIsEnough' /\ BoundedStaleness'
  BY DEF OneRetryIsEnough, BoundedStaleness
<1> QED BY <1>1, <1>2, <1>3

LEMMA TickInv ==
  ASSUME TvdbInv, Tick
  PROVE  TvdbInv'
<1> USE TvdbAssumption DEF TvdbInv, TypeOK, Tick, upstream, store
<1>1. TypeOK'
  OBVIOUS
<1>2. TokenInv' /\ RowInv'
  BY DEF TokenInv, RowInv, Row
<1>3. CallInv' /\ SentInv'
  BY DEF CallInv, SentInv
<1>4. OneRetryIsEnough' /\ BoundedStaleness'
  BY DEF OneRetryIsEnough, BoundedStaleness
<1> QED BY <1>1, <1>2, <1>3, <1>4

LEMMA NextInv == TvdbInv /\ [Next]_vars => TvdbInv'
<1> SUFFICES ASSUME TvdbInv, [Next]_vars
             PROVE  TvdbInv'
  OBVIOUS
<1>1. CASE Next
  BY <1>1, RequestInv, ProbeInv, BearerInv, IssueInv, LoggedInInv, AnsweredInv,
     UnauthorizedInv, CallFailsInv, PutInv, LinkInv, ForgetInv, CrashInv, RevokeInv, TickInv
     DEF Next
<1>2. CASE UNCHANGED vars
  BY <1>2 DEF vars, TvdbInv, TypeOK, TokenInv, CallInv, SentInv, RowInv, OneRetryIsEnough,
              BoundedStaleness
<1> QED BY <1>1, <1>2

THEOREM TvdbSound == Spec => []TvdbInv
BY InitInv, NextInv, PTL DEF Spec

----------------------------------------------------------------------------
(* The properties.                                                         *)

\* The typing invariant, for any instance.
THEOREM TvdbTyped == Spec => []TypeOK
<1>1. TvdbInv => TypeOK
  BY DEF TvdbInv
<1> QED BY <1>1, TvdbSound, PTL

\* No request is on its way with a bearer past its nominal lifetime: the login's
\* latency and the request's own both fit in the refresh margin.
THEOREM NoLapsedBearer == Spec => []NeverLapsed
BY SentIsValid, TvdbSound, PTL

\* Only an upstream that revokes the bearer of the second login can make a request
\* fail for lack of authorisation, whatever other callers store meanwhile.
THEOREM RetryOnce == Spec => []OneRetryIsEnough
<1>1. TvdbInv => OneRetryIsEnough
  BY DEF TvdbInv
<1> QED BY <1>1, TvdbSound, PTL

\* A cached answer is never older than the TTL and one call, although concurrent
\* fetches of a row store their answers in any order.
THEOREM HitsAreRecent == Spec => []BoundedStaleness
<1>1. TvdbInv => BoundedStaleness
  BY DEF TvdbInv
<1> QED BY <1>1, TvdbSound, PTL

----------------------------------------------------------------------------
(* FanartFacade: the inductive invariant.                                  *)

Stages == {"idle", "lookup", "sent", "storing", "done"}
Codes == {0, 200, 400, 404, 502, 503}

Asked ==
  [pc : Stages, key : Keys \union {BadKey}, since : Nat, status : Codes, payload : Payload,
   age : Int, missed : BOOLEAN]

FanartTyped ==
  /\ clock \in Nat /\ art \subseteq Keys /\ config \in Configs
  /\ fanart_cache \in [Keys -> ArtRow \union {NoArt}]
  /\ ask \in [Clients -> Asked]

\* A row is stored as it was sent, within one call of the time it was sent.
ArtRowInv ==
  \A k \in Keys : fanart_cache[k] # NoArt =>
    /\ fanart_cache[k].payload.rewrites = 0
    /\ fanart_cache[k].fetched_at <= fanart_cache[k].payload.taken + CallTime

\* A call is within its time, what it fetched was sent during it, and artwork
\* that is missing now has been missed.
Underway(r) ==
  /\ r.pc \in {"lookup", "sent", "storing"} => r.key \in Keys
  /\ r.pc \in {"sent", "storing"} => r.since <= clock /\ clock <= r.since + CallTime
  /\ r.pc = "storing" => r.payload.rewrites = 0 /\ r.since <= r.payload.taken
  /\ r.key \in Keys /\ r.key \notin art => r.pc = "idle" \/ r.missed

\* What an answer says.
Answer(r) ==
  r.pc = "done" =>
    /\ r.status = 200 =>
         /\ r.payload.rewrites = 1
         /\ r.age <= (IF config.ttl > 0 THEN config.ttl ELSE 0) + CallTime
    /\ r.status = 404 => r.missed

AskInv == \A c \in Clients : Underway(ask[c]) /\ Answer(ask[c])

FanartInv == FanartTyped /\ ArtRowInv /\ AskInv

LEMMA NothingTyped ==
  /\ Nothing \in Asked /\ Nothing.pc = "idle" /\ Nothing.key = BadKey
  /\ Underway(Nothing) /\ Answer(Nothing)
BY DEF Nothing, Asked, Stages, Codes, Payload, Underway, Answer

LEMMA Named ==
  /\ "lookup" \in Stages /\ "sent" \in Stages /\ "storing" \in Stages /\ "done" \in Stages
  /\ 200 \in Codes
BY DEF Stages, Codes

LEMMA FanartInitInv == FanartInit => FanartInv
BY NothingTyped DEF FanartInit, FanartInv, FanartTyped, ArtRowInv, AskInv

\* A client's step: only what it becomes is to be shown.
LEMMA ClientStep ==
  ASSUME FanartInv, NEW c \in Clients, UNCHANGED <<clock, art, config>>,
         NEW r, Become(c, r),
         r \in Asked, Underway(r), Answer(r),
         \/ UNCHANGED fanart_cache
         \/ \E k \in Keys, payload \in Payload :
              CachePut(k, payload) /\ payload.rewrites = 0 /\ clock <= payload.taken + CallTime
  PROVE  FanartInv'
<1> USE FanartAssumption
<1>1. FanartTyped'
  BY DEF FanartInv, FanartTyped, Become, CachePut, ArtRow
<1>2. ArtRowInv'
  <2>1. CASE UNCHANGED fanart_cache
    BY <2>1 DEF FanartInv, ArtRowInv
  <2>2. ASSUME NEW k \in Keys, NEW payload \in Payload,
               CachePut(k, payload), payload.rewrites = 0, clock <= payload.taken + CallTime
        PROVE  ArtRowInv'
    <3>1. \A q \in Keys : fanart_cache'[q] = IF q = k THEN [payload |-> payload, fetched_at |-> clock]
                                           ELSE fanart_cache[q]
      BY <2>2 DEF CachePut, FanartInv, FanartTyped
    <3> QED BY <2>2, <3>1 DEF FanartInv, ArtRowInv
  <2> QED BY <2>1, <2>2
<1>3. AskInv'
  <2>1. \A d \in Clients : ask'[d] = IF d = c THEN r ELSE ask[d]
    BY DEF Become, FanartInv, FanartTyped
  <2>2. \A d \in Clients : Underway(ask'[d]) /\ Answer(ask'[d])
    BY <2>1 DEF FanartInv, AskInv
  <2> QED BY <2>2 DEF AskInv, Underway, Answer
<1> QED BY <1>1, <1>2, <1>3 DEF FanartInv

----------------------------------------------------------------------------
(* One lemma per action.                                                   *)

\* An answer with nothing, and one with a payload.
LEMMA FailureAnswers ==
  ASSUME NEW r \in Asked, r.key \in Keys /\ r.key \notin art => r.missed,
         NEW code \in {400, 404, 502, 503}, code = 404 => r.missed
  PROVE  Failure(r, code) \in Asked /\ Underway(Failure(r, code)) /\ Answer(Failure(r, code))
<1>1. Failure(r, code) \in Asked
  <2>1. code \in Codes
    BY DEF Codes
  <2> QED BY <2>1, Named DEF Failure, Asked
<1>2. LET f == Failure(r, code) IN
      f.pc = "done" /\ f.status = code /\ f.key = r.key /\ f.missed = r.missed
  BY DEF Failure, Asked
<1> QED BY <1>1, <1>2 DEF Underway, Answer

LEMMA SuccessAnswers ==
  ASSUME NEW r \in Asked, r.key \in Keys /\ r.key \notin art => r.missed, clock \in Nat,
         NEW payload \in Payload, payload.rewrites = 0,
         clock - payload.taken <= (IF config.ttl > 0 THEN config.ttl ELSE 0) + CallTime
  PROVE  LET s == Success(r, payload) IN s \in Asked /\ Underway(s) /\ Answer(s)
<1> DEFINE s == Success(r, payload)
<1>1. Rewritten(payload) \in Payload /\ Rewritten(payload).rewrites = 1
  BY DEF Rewritten, Payload
<1>2. clock - payload.taken \in Int
  BY DEF Payload
<1>3. s \in Asked
  BY <1>1, <1>2, Named DEF Success, Asked
<1>4. /\ s.pc = "done" /\ s.status = 200 /\ s.key = r.key /\ s.missed = r.missed
      /\ s.payload = Rewritten(payload) /\ s.age = clock - payload.taken
  BY DEF Success, Asked
<1> HIDE DEF s
<1>5. Underway(s) /\ Answer(s)
  BY <1>1, <1>4 DEF Underway, Answer
<1> QED BY <1>3, <1>5 DEF s

\* A request under way.
LEMMA Requested ==
  ASSUME FanartInv, NEW c \in Clients, ask[c].pc # "idle"
  PROVE  /\ ask[c] \in Asked /\ Underway(ask[c]) /\ clock \in Nat
         /\ config.ttl \in Int
         /\ ask[c].key \in Keys /\ ask[c].key \notin art => ask[c].missed
<1>1. ask[c] \in Asked /\ Underway(ask[c]) /\ clock \in Nat /\ config.ttl \in Int
  BY FanartAssumption DEF FanartInv, FanartTyped, AskInv
<1> QED BY <1>1 DEF Underway

\* The fields of a request that change while it is under way.
LEMMA Asking ==
  ASSUME NEW r \in Asked, NEW k \in Keys \union {BadKey}, NEW b \in BOOLEAN
  PROVE  LET s == [r EXCEPT !.key = k, !.missed = b] IN
         s \in Asked /\ s.pc = r.pc /\ s.key = k /\ s.missed = b
BY DEF Asked

LEMMA Missing ==
  ASSUME NEW r \in Asked, NEW b \in BOOLEAN
  PROVE  LET s == [r EXCEPT !.missed = b] IN
         /\ s \in Asked /\ s.pc = r.pc /\ s.key = r.key /\ s.since = r.since
         /\ s.status = r.status /\ s.payload = r.payload /\ s.age = r.age /\ s.missed = b
BY DEF Asked

LEMMA CachedFetchInv ==
  ASSUME FanartInv, NEW c \in Clients, NEW k \in Keys \union {BadKey}, CachedFetch(c, k)
  PROVE  FanartInv'
<1> DEFINE r == [Nothing EXCEPT !.key = k, !.missed = k \notin art]
<1>1. r \in Asked /\ r.key = k /\ r.missed = (k \notin art)
  <2>1. CASE k \in art
    <3>1. r = [Nothing EXCEPT !.key = k, !.missed = FALSE]
      BY <2>1
    <3> HIDE DEF r
    <3> QED BY <2>1, <3>1, NothingTyped, Asking
  <2>2. CASE k \notin art
    <3>1. r = [Nothing EXCEPT !.key = k, !.missed = TRUE]
      BY <2>2
    <3> HIDE DEF r
    <3> QED BY <2>2, <3>1, NothingTyped, Asking
  <2> QED BY <2>1, <2>2
<1>2. CASE k = BadKey
  <2>1. Failure(r, 400) \in Asked /\ Underway(Failure(r, 400)) /\ Answer(Failure(r, 400))
    <3>1. r.key \in Keys /\ r.key \notin art => r.missed
      BY <1>1
    <3> HIDE DEF r
    <3> QED BY <1>1, <3>1, FailureAnswers
  <2> QED BY <1>2, <2>1, ClientStep DEF CachedFetch
<1>3. CASE k # BadKey
  <2> DEFINE s == [r EXCEPT !.pc = "lookup"]
  <2>1. s \in Asked /\ s.key = k /\ s.missed = (k \notin art) /\ s.pc = "lookup"
    <3> HIDE DEF r
    <3> QED BY <1>1, Named DEF Asked
  <2>2. Underway(s) /\ Answer(s)
    BY <1>3, <2>1 DEF Underway, Answer
  <2> QED BY <1>3, <2>1, <2>2, ClientStep DEF CachedFetch
<1> QED BY <1>2, <1>3

LEMMA HitInv ==
  ASSUME FanartInv, NEW c \in Clients, Hit(c)
  PROVE  FanartInv'
<1> USE FanartAssumption
<1> DEFINE k == ask[c].key
           payload == fanart_cache[k].payload
           s == Success(ask[c], payload)
<1>1. ask[c] \in Asked /\ clock \in Nat /\ k \in Keys /\ (k \in Keys /\ k \notin art => ask[c].missed)
  BY Requested DEF Hit, At, Underway
<1>2. fanart_cache[k] \in ArtRow /\ fanart_cache[k] # NoArt
  BY <1>1 DEF Hit, Current, FanartInv, FanartTyped
<1>3. payload \in Payload /\ payload.rewrites = 0 /\ fanart_cache[k].fetched_at \in Nat
      /\ fanart_cache[k].fetched_at <= payload.taken + CallTime
  BY <1>1, <1>2 DEF ArtRow, FanartInv, ArtRowInv
<1>4. config.ttl \in Int /\ config.ttl > 0 /\ fanart_cache[k].fetched_at >= clock - config.ttl
  BY DEF Hit, Current, FanartInv, FanartTyped
<1>5. clock - payload.taken <= config.ttl + CallTime
  BY <1>1, <1>3, <1>4 DEF Payload
<1>6. s \in Asked /\ Underway(s) /\ Answer(s)
  BY <1>1, <1>3, <1>4, <1>5, SuccessAnswers
<1> QED BY <1>6, ClientStep DEF Hit

LEMMA MissInv ==
  ASSUME FanartInv, NEW c \in Clients, Miss(c)
  PROVE  FanartInv'
<1> USE FanartAssumption
<1>1. /\ ask[c] \in Asked /\ Underway(ask[c]) /\ clock \in Nat /\ ask[c].pc = "lookup"
      /\ (ask[c].key \in Keys /\ ask[c].key \notin art => ask[c].missed)
  BY Requested DEF Miss, At
<1> DEFINE s == [ask[c] EXCEPT !.pc = "sent", !.since = clock]
           f == Failure(ask[c], 503)
<1>2. /\ s \in Asked /\ s.key = ask[c].key /\ s.missed = ask[c].missed
      /\ s.pc = "sent" /\ s.since = clock
  BY <1>1, Named DEF Asked
<1>3. Underway(s) /\ Answer(s)
  BY <1>1, <1>2 DEF Underway, Answer
<1>4. f \in Asked /\ Underway(f) /\ Answer(f)
  BY <1>1, FailureAnswers
<1>5. PICK r \in {s, f} : Become(c, r)
  BY DEF Miss
<1> QED BY <1>2, <1>3, <1>4, <1>5, ClientStep DEF Miss

LEMMA FetchedInv ==
  ASSUME FanartInv, NEW c \in Clients, Fetched(c)
  PROVE  FanartInv'
<1>1. /\ ask[c] \in Asked /\ Underway(ask[c]) /\ clock \in Nat /\ ask[c].pc = "sent"
      /\ (ask[c].key \in Keys /\ ask[c].key \notin art => ask[c].missed)
  BY Requested DEF Fetched, At
<1> DEFINE payload == [taken |-> clock, rewrites |-> 0]
           s == [ask[c] EXCEPT !.pc = "storing", !.payload = payload]
<1>2. payload \in Payload
  BY <1>1 DEF Payload
<1>3. /\ s \in Asked /\ s.key = ask[c].key /\ s.missed = ask[c].missed
      /\ s.pc = "storing" /\ s.since = ask[c].since /\ s.payload = payload
  BY <1>1, <1>2, Named DEF Asked
<1>4. Underway(s) /\ Answer(s)
  <2>1. ask[c].since <= clock
    BY <1>1 DEF Underway
  <2> QED BY <1>1, <1>3, <2>1 DEF Underway, Answer
<1> QED BY <1>3, <1>4, ClientStep DEF Fetched

LEMMA NotFoundInv ==
  ASSUME FanartInv, NEW c \in Clients, NotFound(c)
  PROVE  FanartInv'
<1>1. /\ ask[c] \in Asked /\ Underway(ask[c]) /\ ask[c].pc = "sent"
      /\ (ask[c].key \in Keys /\ ask[c].key \notin art => ask[c].missed)
  BY Requested DEF NotFound, At
<1>2. ask[c].missed
  BY <1>1 DEF NotFound, Underway
<1> DEFINE f == Failure(ask[c], 404)
<1>3. f \in Asked /\ Underway(f) /\ Answer(f)
  BY <1>1, <1>2, FailureAnswers
<1> QED BY <1>3, ClientStep DEF NotFound

LEMMA FetchFailsInv ==
  ASSUME FanartInv, NEW c \in Clients, FetchFails(c)
  PROVE  FanartInv'
<1> DEFINE f == Failure(ask[c], 502)
<1>1. ask[c] \in Asked /\ (ask[c].key \in Keys /\ ask[c].key \notin art => ask[c].missed)
  BY Requested DEF FetchFails, At
<1>2. f \in Asked /\ Underway(f) /\ Answer(f)
  BY <1>1, FailureAnswers
<1> QED BY <1>2, ClientStep DEF FetchFails

LEMMA StoreInv ==
  ASSUME FanartInv, NEW c \in Clients, Store(c)
  PROVE  FanartInv'
<1> USE FanartAssumption
<1> DEFINE payload == ask[c].payload
           s == Success(ask[c], payload)
<1>1. /\ ask[c] \in Asked /\ Underway(ask[c]) /\ clock \in Nat /\ ask[c].pc = "storing"
      /\ config.ttl \in Int
      /\ (ask[c].key \in Keys /\ ask[c].key \notin art => ask[c].missed)
  BY Requested DEF Store, At
<1>2. /\ payload \in Payload /\ payload.rewrites = 0 /\ ask[c].key \in Keys
      /\ clock <= payload.taken + CallTime
  BY <1>1 DEF Underway, Asked, Payload
<1>3. clock - payload.taken <= (IF config.ttl > 0 THEN config.ttl ELSE 0) + CallTime
  BY <1>1, <1>2 DEF Payload
<1>4. s \in Asked /\ Underway(s) /\ Answer(s)
  BY <1>1, <1>2, <1>3, SuccessAnswers
<1>5. \/ UNCHANGED fanart_cache
      \/ CachePut(ask[c].key, payload)
  BY DEF Store
<1> QED BY <1>2, <1>4, <1>5, ClientStep DEF Store

LEMMA LeaveInv ==
  ASSUME FanartInv, NEW c \in Clients, Leave(c)
  PROVE  FanartInv'
BY NothingTyped, ClientStep DEF Leave

\* Rows outlive a restart, requests do not.
LEMMA RestartInv ==
  ASSUME FanartInv, Restart
  PROVE  FanartInv'
<1>1. FanartTyped' /\ ArtRowInv'
  BY NothingTyped DEF Restart, FanartInv, FanartTyped, ArtRowInv
<1>2. AskInv'
  BY NothingTyped DEF Restart, AskInv, Underway, Answer
<1> QED BY <1>1, <1>2 DEF FanartInv

LEMMA CurateInv ==
  ASSUME FanartInv, NEW k \in Keys, Curate(k)
  PROVE  FanartInv'
<1>1. \A c \in Clients :
        LET r == ask[c] s == ask'[c] IN
        /\ s \in Asked /\ s.pc = r.pc /\ s.key = r.key /\ s.since = r.since
        /\ s.status = r.status /\ s.payload = r.payload /\ s.age = r.age
        /\ s.missed = (r.missed \/ (r.key = k /\ k \notin art'))
  <2> SUFFICES ASSUME NEW c \in Clients
               PROVE  LET r == ask[c] s == ask'[c] IN
                      /\ s \in Asked /\ s.pc = r.pc /\ s.key = r.key /\ s.since = r.since
                      /\ s.status = r.status /\ s.payload = r.payload /\ s.age = r.age
                      /\ s.missed = (r.missed \/ (r.key = k /\ k \notin art'))
    OBVIOUS
  <2>1. ask[c] \in Asked
    BY DEF FanartInv, FanartTyped
  <2> DEFINE b == ask[c].missed \/ (ask[c].key = k /\ k \notin art')
  <2>2. b \in BOOLEAN /\ ask'[c] = [ask[c] EXCEPT !.missed = b]
    BY <2>1 DEF Curate, Asked
  <2> HIDE DEF b
  <2>3. LET s == ask'[c] IN
        /\ s \in Asked /\ s.pc = ask[c].pc /\ s.key = ask[c].key /\ s.since = ask[c].since
        /\ s.status = ask[c].status /\ s.payload = ask[c].payload /\ s.age = ask[c].age
        /\ s.missed = b
    BY <2>1, <2>2, Missing
  <2> QED BY <2>3 DEF b
<1>2. \A q \in Keys : q \in art \/ q = k \/ q \notin art'
  BY DEF Curate
<1>3. \A q \in Keys : q # k => (q \in art <=> q \in art')
  BY DEF Curate
<1>4. FanartTyped'
  BY <1>1 DEF Curate, FanartInv, FanartTyped
<1>5. ArtRowInv'
  BY DEF Curate, FanartInv, ArtRowInv
<1>6. AskInv'
  <2> SUFFICES ASSUME NEW c \in Clients PROVE (Underway(ask[c]) /\ Answer(ask[c]))'
    BY DEF AskInv
  <2>1. Underway(ask[c]) /\ Answer(ask[c]) /\ clock' = clock /\ config' = config
    BY DEF Curate, FanartInv, AskInv
  <2>2. Underway(ask[c])'
    BY <1>1, <1>3, <2>1 DEF Underway
  <2>3. Answer(ask[c])'
    BY <1>1, <2>1 DEF Answer
  <2> QED BY <2>2, <2>3
<1> QED BY <1>4, <1>5, <1>6 DEF FanartInv

LEMMA PassInv ==
  ASSUME FanartInv, Pass
  PROVE  FanartInv'
<1> USE FanartAssumption
<1>1. FanartTyped' /\ ArtRowInv'
  BY DEF Pass, FanartInv, FanartTyped, ArtRowInv
<1>2. AskInv'
  <2> SUFFICES ASSUME NEW c \in Clients PROVE (Underway(ask[c]) /\ Answer(ask[c]))'
    BY DEF AskInv
  <2>1. /\ Underway(ask[c]) /\ Answer(ask[c]) /\ ask[c] \in Asked /\ clock \in Nat
        /\ UNCHANGED <<art, config, ask>> /\ clock' = clock + 1
        /\ ask[c].pc \in {"sent", "storing"} => clock < ask[c].since + CallTime
    BY DEF Pass, FanartInv, FanartTyped, AskInv
  <2>2. ask[c].since \in Nat
    BY <2>1 DEF Asked
  <2>3. Underway(ask[c])'
    BY <2>1, <2>2 DEF Underway
  <2>4. Answer(ask[c])'
    BY <2>1 DEF Answer
  <2> QED BY <2>3, <2>4
<1> QED BY <1>1, <1>2 DEF FanartInv

LEMMA FanartNextInv == FanartInv /\ [FanartNext]_fvars => FanartInv'
<1> SUFFICES ASSUME FanartInv, [FanartNext]_fvars
             PROVE  FanartInv'
  OBVIOUS
<1>1. CASE FanartNext
  BY <1>1, CachedFetchInv, HitInv, MissInv, FetchedInv, NotFoundInv, FetchFailsInv, StoreInv,
     LeaveInv, CurateInv, RestartInv, PassInv DEF FanartNext
<1>2. CASE UNCHANGED fvars
  BY <1>2 DEF fvars, FanartInv, FanartTyped, ArtRowInv, AskInv, Underway, Answer
<1> QED BY <1>1, <1>2

THEOREM FanartSound == FanartSpec => []FanartInv
BY FanartInitInv, FanartNextInv, PTL DEF FanartSpec

----------------------------------------------------------------------------
(* The properties.                                                         *)

\* An answer is rewritten once and at most the TTL and one call old, and "not
\* found" is only said of artwork that was missing during the request.
THEOREM AnswersStayCurrent == FanartSpec => []AnswersCurrent
<1>1. FanartInv => AnswersCurrent
  BY DEF FanartInv, AskInv, Answer, AnswersCurrent, At
<1> QED BY <1>1, FanartSound, PTL
=============================================================================

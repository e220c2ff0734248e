------------------------- MODULE SearchSessionProofs -------------------------
(***************************************************************************)
(* Proofs about SearchSession for any requests and pools: who holds a      *)
(* connection has set on it what its next statement needs, and what it     *)
(* leaves behind is clean unless it was dropped.                           *)
(***************************************************************************)
EXTENDS SearchSession, TLAPS

----------------------------------------------------------------------------
(* The inductive invariant.                                                *)

Stages == Settings \union {"idle", "acquire", "hydrate", "credits", "primary", "fuzzy", "plain"}

Settled == [cap : {Server, Default, Tight}, limit : {Server, Session, Credit}, abandoned : BOOLEAN]

Request ==
  [pc : Stages, conn : Conns \union {None}, kind : Kinds \union {None}, page : Pages \union {None},
   credits : {"no", "loose", "found", "missed"}, failed : BOOLEAN]

SessionTyped == conn \in [Conns -> Settled] /\ req \in [Callers -> Request]

\* A connection is held from its acquisition until it is given back, by one request.
HolderInv ==
  /\ \A c \in Callers : req[c].conn = None <=> req[c].pc \in {"idle", "acquire", "hydrate"}
  /\ \A c \in Callers : req[c].pc = "acquire" => req[c].credits = "no"
  /\ \A c, d \in Callers : req[c].conn = req[d].conn /\ req[c].conn # None => c = d

Clean(s) == s.cap # Tight /\ s.limit # Credit

Cutoff(r) == IF r.credits = "loose" THEN Credit ELSE Session

\* What the connection of a request carries at each of its statements.
Carries(r, s) ==
  /\ r.pc \in {"limit", "work_mem", "cap", "jit", "credits", "primary"} => r.credits = "no"
  /\ r.pc = "loosen" => r.credits = "loose"
  /\ r.pc \in {"tighten", "fuzzy"} => r.credits \in {"no", "loose"}
  /\ r.pc \in {"work_mem", "cap"} => s.limit = Session
  /\ r.pc \in {"jit", "credits", "primary", "loosen"} => s.cap = Default /\ s.limit = Session
  /\ r.pc = "tighten" => s.cap = Default /\ s.limit = Cutoff(r)
  /\ r.pc = "fuzzy" => s.cap = Tight /\ s.limit = Cutoff(r)
  /\ r.pc = "reset" => r.credits # "loose" /\ (r.credits = "no" => s.limit = Session)
  /\ r.pc = "restore" => s.cap = Default
  /\ r.pc \in {"limit", "work_mem", "cap", "plain"} => s.abandoned \/ Clean(s)

CarryInv == \A c \in Callers : req[c].conn # None => Carries(req[c], conn[req[c].conn])

SessionInv == SessionTyped /\ HolderInv /\ CarryInv /\ OnlyDropsLeak

LEMMA InitInv == SessionInit => SessionInv
<1> SUFFICES ASSUME SessionInit PROVE SessionInv
  OBVIOUS
<1> USE SessionAssumption DEF SessionInit, Idle
<1>1. SessionTyped
  BY DEF SessionTyped, Settled, Request, Stages, Fresh
<1>2. HolderInv /\ CarryInv
  BY DEF HolderInv, CarryInv
<1>3. OnlyDropsLeak
  BY DEF OnlyDropsLeak, Fresh, Tight, Server, Credit
<1> QED BY <1>1, <1>2, <1>3 DEF SessionInv

\* A request that moves on with its connection, or gives it back: what others hold
\* is not its own, so only what it carries and leaves is to be shown.
LEMMA HolderStep ==
  ASSUME SessionInv, NEW c \in Callers, NEW k \in Conns, req[c].conn = k,
         NEW r \in Request, req' = [req EXCEPT ![c] = r],
         NEW s \in Settled, conn' = [conn EXCEPT ![k] = s],
         \/ r.conn = k /\ r.pc \notin {"idle", "acquire", "hydrate"} /\ Carries(r, s)
         \/ r.conn = None /\ r.pc \in {"idle", "hydrate"} /\ (s.abandoned \/ Clean(s))
  PROVE  SessionInv'
<1> USE SessionAssumption DEF SessionInv
<1>1. /\ \A d \in Callers : req'[d] = IF d = c THEN r ELSE req[d]
      /\ \A q \in Conns : conn'[q] = IF q = k THEN s ELSE conn[q]
  BY DEF SessionTyped
<1>2. SessionTyped'
  BY DEF SessionTyped
<1>3. HolderInv'
  BY <1>1 DEF HolderInv
<1>4. CarryInv'
  <2> SUFFICES ASSUME NEW d \in Callers, req'[d].conn # None
               PROVE  Carries(req'[d], conn'[req'[d].conn])
    BY DEF CarryInv
  <2>1. CASE d = c
    BY <1>1, <2>1
  <2>2. CASE d # c
    <3>1. req'[d] = req[d] /\ req[d].conn # k /\ req[d].conn \in Conns
      BY <1>1, <2>2 DEF HolderInv, SessionTyped, Request
    <3> QED BY <1>1, <3>1 DEF CarryInv
  <2> QED BY <2>1, <2>2
<1>5. OnlyDropsLeak'
  <2> SUFFICES ASSUME NEW q \in Conns, Free(q)', ~conn'[q].abandoned
               PROVE  conn'[q].cap # Tight /\ conn'[q].limit # Credit
    BY DEF OnlyDropsLeak
  <2>1. CASE q = k
    BY <1>1, <2>1 DEF Free, Clean
  <2>2. CASE q # k
    <3>1. Free(q)
      BY <1>1, <2>2 DEF Free
    <3> QED BY <1>1, <2>2, <3>1 DEF OnlyDropsLeak
  <2> QED BY <2>1, <2>2
<1> QED BY <1>2, <1>3, <1>4, <1>5

\* The same without a setting changed.
LEMMA QueryStep ==
  ASSUME SessionInv, NEW c \in Callers, req[c].conn # None, UNCHANGED conn,
         NEW r \in Request, req' = [req EXCEPT ![c] = r],
         \/ /\ r.conn = req[c].conn /\ r.pc \notin {"idle", "acquire", "hydrate"}
            /\ Carries(r, conn[req[c].conn])
         \/ /\ r.conn = None /\ r.pc \in {"idle", "hydrate"}
            /\ conn[req[c].conn].abandoned \/ Clean(conn[req[c].conn])
  PROVE  SessionInv'
<1>1. req[c].conn \in Conns /\ conn[req[c].conn] \in Settled
  BY DEF SessionInv, SessionTyped, Request
<1>2. conn' = [conn EXCEPT ![req[c].conn] = conn[req[c].conn]]
  BY <1>1 DEF SessionInv, SessionTyped
<1> QED BY <1>1, <1>2, HolderStep

\* A request without a connection.
LEMMA WaitingStep ==
  ASSUME SessionInv, NEW c \in Callers, req[c].conn = None, UNCHANGED conn,
         NEW r \in Request, req' = [req EXCEPT ![c] = r],
         r.conn = None, r.pc = "idle" \/ (r.pc = "acquire" /\ r.credits = "no")
  PROVE  SessionInv'
<1> USE SessionAssumption DEF SessionInv
<1>1. \A d \in Callers : req'[d] = IF d = c THEN r ELSE req[d]
  BY DEF SessionTyped
<1>2. SessionTyped'
  BY DEF SessionTyped
<1>3. HolderInv' /\ CarryInv'
  BY <1>1 DEF HolderInv, CarryInv
<1>4. OnlyDropsLeak'
  BY <1>1 DEF OnlyDropsLeak, Free
<1> QED BY <1>2, <1>3, <1>4

----------------------------------------------------------------------------
(* One lemma per action.                                                   *)

LEMMA BeginInv ==
  ASSUME SessionInv, NEW c \in Callers, Begin(c)
  PROVE  SessionInv'
<1>1. PICK kind \in Kinds, page \in Pages :
        req' = [req EXCEPT ![c] = [Idle EXCEPT !.pc = "acquire", !.kind = kind, !.page = page]]
  BY DEF Begin
<1> DEFINE r == [Idle EXCEPT !.pc = "acquire", !.kind = kind, !.page = page]
<1>2. r \in Request /\ r.conn = None /\ r.pc = "acquire" /\ r.credits = "no"
  BY DEF Idle, Request, Stages
<1>3. req[c].conn = None /\ UNCHANGED conn
  BY DEF Begin, SessionInv, HolderInv
<1> QED BY <1>1, <1>2, <1>3, WaitingStep

LEMMA AcquireInv ==
  ASSUME SessionInv, NEW c \in Callers, Acquire(c)
  PROVE  SessionInv'
<1> USE SessionAssumption DEF SessionInv
<1>1. PICK k \in Pool(req[c].kind) :
        /\ Free(k)
        /\ req' = [req EXCEPT ![c].conn = k,
                     ![c].pc = IF req[c].pc = "hydrate" \/ req[c].kind = "plain"
                               THEN "plain" ELSE "limit"]
  BY DEF Acquire
<1>2. k \in Conns /\ UNCHANGED conn /\ req[c] \in Request /\ req[c].conn = None
      /\ conn[k] \in Settled
  BY DEF Acquire, Pool, Conns, SessionTyped, HolderInv
<1> DEFINE r == req'[c]
<1>3. /\ r \in Request /\ r.conn = k /\ r.pc \in {"plain", "limit"} /\ (r.pc = "limit" => r.credits = "no")
      /\ \A d \in Callers : d # c => req'[d] = req[d]
      /\ req' \in [Callers -> Request]
  BY <1>1, <1>2 DEF SessionTyped, Request, Stages, Settings, HolderInv, Acquire
<1>4. \A d \in Callers : req[d].conn # k
  BY <1>1 DEF Free
<1> HIDE DEF r
<1>5. SessionTyped'
  BY <1>2, <1>3 DEF SessionTyped
<1>6. HolderInv'
  BY <1>2, <1>3, <1>4 DEF HolderInv, r
<1>7. conn[k].abandoned \/ Clean(conn[k])
  BY <1>1, <1>2 DEF OnlyDropsLeak, Clean
<1>8. CarryInv'
  <2>1. Carries(r, conn[k])
    BY <1>3, <1>7 DEF Carries
  <2> QED BY <1>2, <1>3, <2>1 DEF CarryInv, r
<1>9. OnlyDropsLeak'
  <2> SUFFICES ASSUME NEW q \in Conns, Free(q)', ~conn[q].abandoned
               PROVE  conn[q].cap # Tight /\ conn[q].limit # Credit
    BY <1>2 DEF OnlyDropsLeak
  <2>1. Free(q)
    BY <1>2, <1>3 DEF Free
  <2> QED BY <2>1 DEF OnlyDropsLeak
<1> QED BY <1>5, <1>6, <1>8, <1>9

\* Where a request may stand after a statement that left its connection as s.
Onward(r, k, s) ==
  /\ r \in Request
  /\ \/ r.conn = k /\ r.pc \notin {"idle", "acquire", "hydrate"} /\ Carries(r, s)
     \/ r.conn = None /\ r.pc \in {"idle", "hydrate"} /\ (s.abandoned \/ Clean(s))

LEMMA MovesOn ==
  ASSUME NEW q \in Request, NEW s, NEW pc \in Stages \ {"idle", "acquire", "hydrate"},
         Carries([q EXCEPT !.pc = pc], s)
  PROVE  Onward([q EXCEPT !.pc = pc], q.conn, s)
<1>1. [q EXCEPT !.pc = pc] \in Request
  BY DEF Request
<1>2. [q EXCEPT !.pc = pc].conn = q.conn /\ [q EXCEPT !.pc = pc].pc = pc
  BY DEF Request
<1> QED BY <1>1, <1>2 DEF Onward

LEMMA GivesBack ==
  ASSUME NEW q \in Request, NEW s, Clean(s)
  PROVE  Onward(Replied(q), q.conn, s)
<1>1. Replied(q) \in Request
  BY DEF Request, Replied, Stages
<1>2. Replied(q).conn = None /\ Replied(q).pc \in {"idle", "hydrate"}
  BY DEF Request, Replied
<1> QED BY <1>1, <1>2 DEF Onward

\* After each setting the connection carries what the next statement needs.
LEMMA SettingCarries ==
  ASSUME NEW q \in Request, q.pc \in Settings, NEW t \in Settled, Carries(q, t),
         NEW s \in Settled, s.abandoned = (t.abandoned /\ q.pc # "jit"),
         s.limit = IF q.pc \in {"limit", "restore"} THEN Session
                   ELSE IF q.pc = "loosen" THEN Credit ELSE t.limit,
         s.cap = IF q.pc \in {"cap", "reset"} THEN Default
                 ELSE IF q.pc = "tighten" THEN Tight ELSE t.cap
  PROVE  Onward(AfterSetting(q), q.conn, s)
<1> USE DEF Server, Default, Tight, Session, Credit
<1>0. ASSUME NEW pc PROVE LET r == [q EXCEPT !.pc = pc] IN
                            r.pc = pc /\ r.credits = q.credits
  BY DEF Request
<1>1. CASE q.pc = "limit"
  <2>1. AfterSetting(q) = [q EXCEPT !.pc = "work_mem"]
    BY <1>1 DEF AfterSetting
  <2>2. Carries([q EXCEPT !.pc = "work_mem"], s)
    BY <1>0, <1>1 DEF Carries, Clean
  <2> QED BY <2>1, <2>2, MovesOn DEF Stages, Settings
<1>2. CASE q.pc = "work_mem"
  <2>1. AfterSetting(q) = [q EXCEPT !.pc = "cap"]
    BY <1>2 DEF AfterSetting
  <2>2. Carries([q EXCEPT !.pc = "cap"], s)
    BY <1>0, <1>2 DEF Carries, Clean
  <2> QED BY <2>1, <2>2, MovesOn DEF Stages, Settings
<1>3. CASE q.pc = "cap"
  <2>1. AfterSetting(q) = [q EXCEPT !.pc = "jit"]
    BY <1>3 DEF AfterSetting
  <2>2. Carries([q EXCEPT !.pc = "jit"], s)
    BY <1>0, <1>3 DEF Carries, Clean
  <2> QED BY <2>1, <2>2, MovesOn DEF Stages, Settings
<1>4. CASE q.pc = "jit"
  <2>1. PICK pc \in {"credits", "primary"} : AfterSetting(q) = [q EXCEPT !.pc = pc]
    BY <1>4 DEF AfterSetting
  <2>2. Carries([q EXCEPT !.pc = pc], s)
    BY <1>0, <1>4 DEF Carries, Clean
  <2> QED BY <2>1, <2>2, MovesOn DEF Stages
<1>5. CASE q.pc = "loosen"
  <2>1. AfterSetting(q) = [q EXCEPT !.pc = "tighten"]
    BY <1>5 DEF AfterSetting
  <2>2. Carries([q EXCEPT !.pc = "tighten"], s)
    BY <1>0, <1>5 DEF Carries, Cutoff
  <2> QED BY <2>1, <2>2, MovesOn DEF Stages, Settings
<1>6. CASE q.pc = "tighten"
  <2>1. AfterSetting(q) = [q EXCEPT !.pc = "fuzzy"]
    BY <1>6 DEF AfterSetting
  <2>2. Carries([q EXCEPT !.pc = "fuzzy"], s)
    BY <1>0, <1>6 DEF Carries, Cutoff
  <2> QED BY <2>1, <2>2, MovesOn DEF Stages
<1>7. CASE q.pc = "reset"
  <2>1. s.cap = Default /\ s.limit = t.limit
    BY <1>7
  <2>2. CASE q.credits = "no"
    <3>1. AfterSetting(q) = Replied(q)
      BY <1>7, <2>2 DEF AfterSetting
    <3>2. Clean(s)
      BY <1>7, <2>1, <2>2 DEF Carries, Clean
    <3> QED BY <3>1, <3>2, GivesBack
  <2>3. CASE q.credits # "no"
    <3>1. AfterSetting(q) = [q EXCEPT !.pc = "restore"]
      BY <1>7, <2>3 DEF AfterSetting
    <3>2. Carries([q EXCEPT !.pc = "restore"], s)
      BY <1>0, <1>7, <2>1, <2>3 DEF Carries
    <3> QED BY <3>1, <3>2, MovesOn DEF Stages, Settings
  <2> QED BY <2>2, <2>3
<1>8. CASE q.pc = "restore"
  <2>1. s.cap = Default /\ s.limit = Session /\ AfterSetting(q) = AfterRestore(q)
    BY <1>8 DEF Carries, AfterSetting
  <2>2. CASE q.failed \/ q.credits = "missed"
    <3>1. AfterSetting(q) = Replied(q) /\ Clean(s)
      BY <2>1, <2>2 DEF AfterRestore, Clean
    <3> QED BY <3>1, GivesBack
  <2>3. CASE ~(q.failed \/ q.credits = "missed")
    <3> DEFINE r == [q EXCEPT !.pc = "primary", !.credits = "no"]
    <3>1. AfterSetting(q) = r
      BY <2>1, <2>3 DEF AfterRestore
    <3>2. r \in Request /\ r.conn = q.conn /\ r.pc = "primary" /\ r.credits = "no"
      BY DEF Request, Stages
    <3>3. Carries(r, s)
      BY <2>1, <3>2 DEF Carries
    <3> QED BY <3>1, <3>2, <3>3 DEF Onward
  <2> QED BY <2>2, <2>3
<1> QED BY <1>1, <1>2, <1>3, <1>4, <1>5, <1>6, <1>7, <1>8 DEF Settings

LEMMA SetInv ==
  ASSUME SessionInv, NEW c \in Callers, Set(c)
  PROVE  SessionInv'
<1> USE SessionAssumption
<1> DEFINE k == req[c].conn
           q == req[c]
           t == conn[k]
           s == [Setting(q.pc, t) EXCEPT !.abandoned = @ /\ q.pc # "jit"]
           r == AfterSetting(q)
<1>1. /\ q \in Request /\ q.pc \in Settings /\ k \in Conns /\ t \in Settled
      /\ Carries(q, t)
  BY DEF Set, SessionInv, SessionTyped, HolderInv, CarryInv, Settings, Request
<1>2. req' = [req EXCEPT ![c] = r]
  BY DEF Set
<1>3. conn' = [conn EXCEPT ![k] = s]
  <2>1. DOMAIN conn = Conns /\ k \in DOMAIN conn
    BY <1>1 DEF SessionInv, SessionTyped
  <2> QED BY <2>1 DEF Set
<1>4. /\ s \in Settled /\ s.abandoned = (t.abandoned /\ q.pc # "jit")
      /\ s.limit = IF q.pc \in {"limit", "restore"} THEN Session
                   ELSE IF q.pc = "loosen" THEN Credit ELSE t.limit
      /\ s.cap = IF q.pc \in {"cap", "reset"} THEN Default
                 ELSE IF q.pc = "tighten" THEN Tight ELSE t.cap
  BY <1>1 DEF Setting, Settings, Settled
<1> HIDE DEF s, t
<1>5. Onward(r, k, s)
  BY <1>1, <1>4, SettingCarries
<1> HIDE DEF r
<1> QED BY <1>1, <1>2, <1>3, <1>4, <1>5, HolderStep DEF Onward

\* Where a request stands that holds a connection, for the queries below.
LEMMA Holding ==
  ASSUME SessionInv, NEW c \in Callers,
         req[c].pc \in {"credits", "primary", "fuzzy", "plain"} \/ req[c].conn # None
  PROVE  /\ req[c] \in Request /\ req[c].conn # None /\ req[c].conn \in Conns
         /\ conn[req[c].conn] \in Settled /\ Carries(req[c], conn[req[c].conn])
BY DEF SessionInv, SessionTyped, HolderInv, CarryInv, Request

\* A query that fails gives the connection back as it is.
LEMMA FailsInv ==
  ASSUME SessionInv, NEW c \in Callers, req[c].pc \in {"credits", "primary"}, RequestFails(c),
         UNCHANGED conn
  PROVE  SessionInv'
<1> DEFINE r == Replied([req[c] EXCEPT !.failed = TRUE])
<1>1. req[c] \in Request /\ req[c].conn # None /\ Carries(req[c], conn[req[c].conn])
  BY Holding
<1>2. r \in Request /\ r.conn = None /\ r.pc = "idle"
  BY <1>1 DEF Replied, Request, Stages
<1>3. Clean(conn[req[c].conn])
  BY <1>1 DEF Carries, Clean, Default, Tight, Session, Credit
<1>4. req' = [req EXCEPT ![c] = r]
  BY DEF RequestFails, SessionInv, SessionTyped
<1> QED BY <1>1, <1>2, <1>3, <1>4, QueryStep

LEMMA CreditQueryInv ==
  ASSUME SessionInv, NEW c \in Callers, CreditQuery(c)
  PROVE  SessionInv'
<1>1. req[c] \in Request /\ req[c].conn # None /\ Carries(req[c], conn[req[c].conn])
  BY Holding DEF CreditQuery
<1>2. req[c].pc = "credits" /\ UNCHANGED conn
  BY DEF CreditQuery
<1>3. CASE Goto(c, "primary")
  <2> DEFINE r == [req[c] EXCEPT !.pc = "primary"]
  <2>1. req' = [req EXCEPT ![c] = r]
    BY <1>3 DEF Goto, SessionInv, SessionTyped
  <2>2. /\ r \in Request /\ r.conn = req[c].conn /\ r.pc = "primary"
        /\ Carries(r, conn[req[c].conn])
    BY <1>1, <1>2 DEF Request, Stages, Carries
  <2> QED BY <1>1, <1>2, <2>1, <2>2, QueryStep
<1>4. CASE req' = [req EXCEPT ![c].pc = "loosen", ![c].credits = "loose"]
  <2> DEFINE r == [req[c] EXCEPT !.pc = "loosen", !.credits = "loose"]
  <2>1. req' = [req EXCEPT ![c] = r]
    BY <1>1, <1>4 DEF SessionInv, SessionTyped, Request
  <2>2. /\ r \in Request /\ r.conn = req[c].conn /\ r.pc = "loosen"
        /\ Carries(r, conn[req[c].conn])
    BY <1>1, <1>2 DEF Request, Stages, Settings, Carries
  <2> QED BY <1>1, <1>2, <2>1, <2>2, QueryStep
<1> QED BY <1>2, <1>3, <1>4, FailsInv DEF CreditQuery

LEMMA PrimaryInv ==
  ASSUME SessionInv, NEW c \in Callers, Primary(c)
  PROVE  SessionInv'
<1>1. req[c] \in Request /\ req[c].conn # None /\ Carries(req[c], conn[req[c].conn])
  BY Holding DEF Primary
<1>2. req[c].pc = "primary" /\ UNCHANGED conn
  BY DEF Primary
<1>3. CASE req' = [req EXCEPT ![c] = Replied(@)]
  <2>1. /\ Replied(req[c]) \in Request /\ Replied(req[c]).conn = None
        /\ Replied(req[c]).pc \in {"idle", "hydrate"}
    BY <1>1 DEF Replied, Request, Stages
  <2>2. Clean(conn[req[c].conn])
    BY <1>1, <1>2 DEF Carries, Clean, Default, Tight, Session, Credit
  <2> QED BY <1>1, <1>2, <1>3, <2>1, <2>2, QueryStep
<1>4. CASE Goto(c, "tighten")
  <2> DEFINE r == [req[c] EXCEPT !.pc = "tighten"]
  <2>1. req' = [req EXCEPT ![c] = r]
    BY <1>4 DEF Goto, SessionInv, SessionTyped
  <2>2. /\ r \in Request /\ r.conn = req[c].conn /\ r.pc = "tighten"
        /\ Carries(r, conn[req[c].conn])
    BY <1>1, <1>2 DEF Request, Stages, Settings, Carries, Cutoff
  <2> QED BY <1>1, <1>2, <2>1, <2>2, QueryStep
<1> QED BY <1>2, <1>3, <1>4, FailsInv DEF Primary

LEMMA FuzzyInv ==
  ASSUME SessionInv, NEW c \in Callers, Fuzzy(c)
  PROVE  SessionInv'
<1>1. req[c] \in Request /\ req[c].conn # None /\ Carries(req[c], conn[req[c].conn])
  BY Holding DEF Fuzzy
<1>2. req[c].pc = "fuzzy" /\ UNCHANGED conn
  BY DEF Fuzzy
<1>3. PICK outcome \in {"rows", "none", "error"} :
        req' = [req EXCEPT ![c] = FuzzyEnds(req[c], outcome)]
  BY DEF Fuzzy
<1> DEFINE r == FuzzyEnds(req[c], outcome)
<1>4. /\ r \in Request /\ r.conn = req[c].conn /\ r.pc = "reset" /\ r.credits # "loose"
      /\ r.credits = "no" => req[c].credits = "no"
  BY <1>1 DEF FuzzyEnds, Request, Stages, Settings
<1>5. Carries(r, conn[req[c].conn])
  BY <1>1, <1>2, <1>4 DEF Carries, Cutoff
<1> QED BY <1>1, <1>2, <1>3, <1>4, <1>5, QueryStep

LEMMA IdleTyped == Idle \in Request /\ Idle.conn = None /\ Idle.pc = "idle" /\ Idle.credits = "no"
BY DEF Idle, Request, Stages

LEMMA PlainInv ==
  ASSUME SessionInv, NEW c \in Callers, Plain(c)
  PROVE  SessionInv'
<1>1. req[c].conn # None /\ Carries(req[c], conn[req[c].conn]) /\ req[c].pc = "plain"
  BY Holding DEF Plain
<1> QED BY <1>1, IdleTyped, QueryStep DEF Plain, Carries

\* Dropped, a request leaves its connection as it is or as its statement makes it.
LEMMA DropInv ==
  ASSUME SessionInv, NEW c \in Callers, Drop(c)
  PROVE  SessionInv'
<1>1. req' = [req EXCEPT ![c] = Idle] /\ req[c].pc # "idle"
  BY DEF Drop
<1>2. CASE req[c].conn = None
  BY <1>1, <1>2, IdleTyped, WaitingStep DEF Drop
<1>3. CASE req[c].conn # None
  <2> DEFINE k == req[c].conn
  <2>1. k \in Conns /\ conn[k] \in Settled /\ Carries(req[c], conn[k])
    BY <1>3, Holding
  <2>2. CASE req[c].pc = "plain"
    BY <1>1, <1>3, <2>1, <2>2, IdleTyped, QueryStep DEF Drop, Carries
  <2>3. CASE req[c].pc # "plain"
    <3>1. PICK s \in {conn[k], Setting(req[c].pc, conn[k])} :
            conn' = [conn EXCEPT ![k] = [s EXCEPT !.abandoned = TRUE]]
      BY <1>3, <2>3 DEF Drop
    <3>2. s \in Settled
      BY <2>1 DEF Setting, Settled
    <3>3. [s EXCEPT !.abandoned = TRUE] \in Settled /\ [s EXCEPT !.abandoned = TRUE].abandoned
      BY <3>2 DEF Settled
    <3> QED BY <1>1, <2>1, <3>1, <3>3, IdleTyped, HolderStep
  <2> QED BY <2>2, <2>3
<1> QED BY <1>2, <1>3

LEMMA BreakInv ==
  ASSUME SessionInv, NEW c \in Callers, Break(c)
  PROVE  SessionInv'
<1> DEFINE k == req[c].conn
           r == IF req[c].kind = "local" /\ req[c].pc = "reset" THEN Replied(req[c]) ELSE Idle
<1>1. req[c] \in Request /\ k # None /\ k \in Conns
  BY Holding DEF Break
<1>2. conn' = [conn EXCEPT ![k] = Fresh] /\ req' = [req EXCEPT ![c] = r]
  BY DEF Break
<1>3. Fresh \in Settled /\ Clean(Fresh)
  BY DEF Fresh, Settled, Clean, Server, Tight, Credit
<1>4. r \in Request /\ r.conn = None /\ r.pc \in {"idle", "hydrate"}
  <2>1. Replied(req[c]) \in Request /\ Replied(req[c]).conn = None
        /\ Replied(req[c]).pc \in {"idle", "hydrate"}
    BY <1>1 DEF Replied, Request, Stages
  <2> QED BY <2>1, IdleTyped
<1> QED BY <1>1, <1>2, <1>3, <1>4, HolderStep

LEMMA NextInv == SessionInv /\ [SessionNext]_svars => SessionInv'
<1> SUFFICES ASSUME SessionInv, [SessionNext]_svars
             PROVE  SessionInv'
  OBVIOUS
<1>1. CASE SessionNext
  BY <1>1, BeginInv, AcquireInv, SetInv, CreditQueryInv, PrimaryInv, FuzzyInv, PlainInv, DropInv,
     BreakInv DEF SessionNext, Step, Query
<1>2. CASE UNCHANGED svars
  BY <1>2 DEF svars, SessionInv, SessionTyped, HolderInv, CarryInv, OnlyDropsLeak, Free
<1> QED BY <1>1, <1>2

THEOREM SessionSound == SessionSpec => []SessionInv
BY InitInv, NextInv, PTL DEF SessionSpec

----------------------------------------------------------------------------
(* The properties.                                                         *)

\* Whatever the requests before it left on the connection, a search query runs
\* under its own timeout and cutoff.
THEOREM SearchesRunConfigured == SessionSpec => []RunsConfigured
<1>1. SessionInv => RunsConfigured
  <2> SUFFICES ASSUME SessionInv, NEW c \in Callers, req[c].pc \in {"credits", "primary", "fuzzy"}
               PROVE  LET k == conn[req[c].conn] IN
                        /\ req[c].pc \in {"credits", "primary"} => k.cap = Default /\ k.limit = Session
                        /\ req[c].pc = "fuzzy" => k.cap = Tight /\ k.limit = Cutoff(req[c])
    BY DEF RunsConfigured, Cutoff
  <2> QED BY Holding DEF Carries
<1> QED BY <1>1, SessionSound, PTL

\* A connection in the pool is tight or loose only if its last search was dropped.
THEOREM LeaksAreDrops == SessionSpec => []OnlyDropsLeak
<1>1. SessionInv => OnlyDropsLeak
  BY DEF SessionInv
<1> QED BY <1>1, SessionSound, PTL
==============================================================================

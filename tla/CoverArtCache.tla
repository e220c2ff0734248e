--------------------------- MODULE CoverArtCache ---------------------------
(***************************************************************************)
(* The on-disk byte cache of the cover art facade                          *)
(* (src/facades/coverart.rs): redirect_layer and ia_passthrough, which run *)
(* the same protocol over it, cache_lookup, cache_put, write_atomic and    *)
(* evict_over_budget.                                                      *)
(*                                                                         *)
(* An entry is two files, a body (.bin) and its sidecar (.json), each      *)
(* written to a temp file and renamed.  Requests of one key take turns     *)
(* (KeyLock, which KeyedLocks implements), lookups and evictions do not.   *)
(* A file operation runs on the blocking pool: the request awaits it as a  *)
(* job, and when the request is dropped its job still runs, as a stray.    *)
(***************************************************************************)
EXTENDS Integers, FiniteSets, Functions

CONSTANTS
  Callers,     \* request tasks
  Keys,        \* cache keys, each the stem of an entry's two files
  MaxFetches,  \* bound on successful upstream answers
  Size,        \* the length of the n-th answer's body
  SidecarSize, \* the length of a .json file
  Ttl,         \* seconds an answer stays fresh, by status (200 or 404)
  MaxBytes,    \* CoverArtState::max_bytes
  MaxTime,     \* bound on the clock
  NoCaller, NoKey, NoFile, NoJob, NoAnswer  \* sentinels

Statuses == {200, 404}
Fetches == 1 .. MaxFetches
Kinds == {"bin", "json"}

\* A cached upstream answer, a file holding one, a file operation writing one, and
\* what a hit serves.
Resp == [id : Fetches, key : Keys, status : Statuses, at : Nat]
Content == [resp : Resp, whole : BOOLEAN, mtime : Nat]
Ops == {"open", "fill", "rename", "scan", "remove"}
Job == [op : Ops, kind : Kinds, victims : SUBSET (Keys \X Kinds), resp : Resp]
Answer == [meta : Resp, body : Resp]

ASSUME CoverArtAssumption ==
  /\ MaxFetches \in Nat /\ MaxBytes \in Nat /\ MaxTime \in Nat /\ SidecarSize \in Nat
  /\ Size \in [Fetches -> Nat] /\ Ttl \in [Statuses -> Nat]
  /\ IsFiniteSet(Callers) /\ IsFiniteSet(Keys)
  /\ NoCaller \notin Callers /\ NoKey \notin Keys
  /\ NoFile \notin Content /\ NoJob \notin Job /\ NoAnswer \notin Resp \union Answer

VARIABLES
  now,     \* the wall clock
  fetches, \* successful upstream answers so far
  file,    \* the two files of each key: content and mtime, or NoFile
  tmp,     \* temp files by name
  lease,   \* the key each caller has leased from the KeyedLocks, or NoKey
  pc,      \* where each caller is
  want,    \* the key each caller asked for
  seen,    \* the sidecar a lookup has read
  job,     \* the file operation each caller awaits, or NoJob; its resp is the upstream's
           \* answer [id, key, status, at]: both its files carry its identity
  strays,  \* file operations whose request was dropped
  answer,  \* what a cache hit answers: the sidecar and the body it read
  calm     \* no request is dropped while it stores, no file operation fails, no crash

vars == <<now, fetches, file, tmp, lease, pc, want, seen, job, strays, answer, calm>>
disk == <<file, tmp>>
own == <<want, seen, answer>>

Init ==
  /\ now = 0 /\ fetches = 0
  /\ file = [f \in Keys \X Kinds |-> NoFile]
  /\ tmp = << >>
  /\ lease = [c \in Callers |-> NoKey]
  /\ pc = [c \in Callers |-> "idle"]
  /\ want = [c \in Callers |-> NoKey]
  /\ seen = [c \in Callers |-> NoAnswer]
  /\ job = [c \in Callers |-> NoJob]
  /\ strays = {}
  /\ answer = [c \in Callers |-> NoAnswer]
  /\ calm \in BOOLEAN

Lease == INSTANCE KeyLock

Goto(c, from, to) == pc[c] = from /\ pc' = [pc EXCEPT ![c] = to]

----------------------------------------------------------------------------
(* The directory.                                                          *)

\* Mutant of TmpName: no sequence number, writers of one path share a temp file.
TmpNameShared(j) == <<j.resp.key, j.kind, 1>>

\* A per-call temp name: the stem, the kind of file and the sequence number.
TmpName(j) == <<j.resp.key, j.kind, j.resp.id>>

Bytes(kind, resp) == IF kind = "bin" THEN Size[resp.id] ELSE SidecarSize

Held(f) == IF file[f] = NoFile THEN 0 ELSE Bytes(f[2], file[f].resp)

\* What evict_over_budget groups by: an entry, or a temp file on its own.
Stems == {k \in Keys : \E d \in Kinds : file[<<k, d>>] # NoFile} \union DOMAIN tmp

StemBytes ==
  [s \in Stems |-> IF s \in Keys THEN Held(<<s, "bin">>) + Held(<<s, "json">>)
                   ELSE Bytes(s[2], tmp[s].resp)]

\* The oldest modification time under a stem.
StemTime(s) ==
  IF s \in Keys
  THEN LET times == {file[f].mtime : f \in {g \in {s} \X Kinds : file[g] # NoFile}}
       IN  CHOOSE t \in times : \A u \in times : t <= u
  ELSE tmp[s].mtime

Total == SumFunction(StemBytes)

\* Mutant of Victims: at most one stem goes.
VictimsOne(V) ==
  IF Total <= MaxBytes THEN V = {}
  ELSE \E v \in Stems : V = {v} /\ \A s \in Stems : StemTime(v) <= StemTime(s)

\* The stems an eviction decides to remove: the oldest ones, until what is left
\* is no more than the budget.  Ties are broken either way.
Victims(V) ==
  LET Left(W) == Total - SumFunctionOnSet(StemBytes, W)
  IN  /\ V \subseteq Stems
      /\ Left(V) <= MaxBytes
      /\ \A v \in V, s \in Stems \ V : StemTime(v) <= StemTime(s)
      /\ V # {} => \E v \in V : /\ \A w \in V : StemTime(w) <= StemTime(v)
                                /\ Left(V \ {v}) > MaxBytes

----------------------------------------------------------------------------
(* One step of a file operation j on the blocking pool, for the caller o    *)
(* that awaits it, or for NoCaller when it is a stray.                     *)

\* cache_put: the operation that follows a finished one.
Following(j) ==
  CASE j.op = "fill"   -> [j EXCEPT !.op = "rename"]
    [] j.op = "rename" -> IF j.kind = "bin" THEN [j EXCEPT !.op = "open", !.kind = "json"]
                                            ELSE [j EXCEPT !.op = "scan"]
    [] OTHER           -> NoJob

\* What is left of j is n: a caller goes on to what follows it, a stray ends there.
Continue(o, j, n) ==
  IF o = NoCaller
  THEN /\ strays' = (strays \ {j}) \union ({n} \ {NoJob})
       /\ UNCHANGED <<pc, job>>
  ELSE LET next == IF n = NoJob THEN Following(j) ELSE n
       IN  /\ job' = [job EXCEPT ![o] = next]
           /\ pc' = [pc EXCEPT ![o] = IF next = NoJob THEN "stored" ELSE @]
           /\ UNCHANGED strays

\* write: the temp file is created empty ...
Open(o, j) ==
  /\ j.op = "open"
  /\ tmp' = [t \in DOMAIN tmp \union {TmpName(j)} |->
               IF t = TmpName(j) THEN [resp |-> j.resp, whole |-> FALSE, mtime |-> now] ELSE tmp[t]]
  /\ Continue(o, j, [j EXCEPT !.op = "fill"])
  /\ UNCHANGED file

\* ... and filled; with another writer in the same file the bytes are mixed.
Fill(o, j) ==
  /\ j.op = "fill" /\ TmpName(j) \in DOMAIN tmp
  /\ tmp' = [tmp EXCEPT ![TmpName(j)] =
               [resp |-> @.resp, whole |-> @.resp = j.resp, mtime |-> now]]
  /\ Continue(o, j, NoJob)
  /\ UNCHANGED file

\* rename: the temp file becomes the entry's file, replacing an older one.
Rename(o, j) ==
  /\ j.op = "rename" /\ TmpName(j) \in DOMAIN tmp
  /\ file' = [file EXCEPT ![<<j.resp.key, j.kind>>] = tmp[TmpName(j)]]
  /\ tmp' = Restrict(tmp, DOMAIN tmp \ {TmpName(j)})
  /\ Continue(o, j, NoJob)

\* evict_over_budget reads the directory; a temp file's stem names no .bin or .json.
Scan(o, j) ==
  /\ j.op = "scan"
  /\ \E V \in SUBSET Stems :
       /\ Victims(V)
       /\ Continue(o, j, IF V \intersect Keys = {} THEN NoJob
            ELSE [j EXCEPT !.op = "remove", !.victims = (V \intersect Keys) \X Kinds])
  /\ UNCHANGED disk

\* It removes one file at a time, whatever that file is by now, .bin before .json.
Remove(o, j) ==
  /\ j.op = "remove"
  /\ \E f \in j.victims :
       /\ f[2] = "json" => <<f[1], "bin">> \notin j.victims
       /\ file' = [file EXCEPT ![f] = NoFile]
       /\ Continue(o, j, IF j.victims = {f} THEN NoJob ELSE [j EXCEPT !.victims = @ \ {f}])
  /\ UNCHANGED tmp

Run(o, j) ==
  Open(o, j) \/ Fill(o, j) \/ Rename(o, j) \/ Scan(o, j) \/ Remove(o, j)

----------------------------------------------------------------------------
(* A request.                                                              *)

Request(c, k) ==
  /\ Goto(c, "idle", "lookup")
  /\ want' = [want EXCEPT ![c] = k]
  /\ UNCHANGED <<now, fetches, disk, lease, seen, job, strays, answer>>

Fresh(m) == now - m.at <= Ttl[m.status]

\* A lookup misses: before the lease the caller queues for it, under it it fetches.
Miss(c, from) == Goto(c, from, IF lease[c] = NoKey THEN "waiting" ELSE "fetching")

Usable(m) == m # NoFile /\ m.whole /\ Fresh(m.resp)

\* cache_lookup: the sidecar is read first ...
ReadMeta(c) ==
  /\ \/ /\ Goto(c, "lookup", "body")
        /\ Usable(file[<<want[c], "json">>])
        /\ seen' = [seen EXCEPT ![c] = file[<<want[c], "json">>].resp]
     \/ /\ Miss(c, "lookup")
        /\ ~Usable(file[<<want[c], "json">>])
        /\ UNCHANGED seen
  /\ UNCHANGED <<now, fetches, disk, lease, want, job, strays, answer>>

\* Mutant of Pairs: `body_len` is not compared.
PairsUnchecked(b, m) == b # NoFile

\* `body_len` is optional to let in sidecars written before there was one, which go
\* unchecked.  The directory starts empty here and cache_put always names a length.
Pairs(b, m) == b # NoFile /\ Size[b.resp.id] = Size[m.id]

\* ... then the body, which counts only if it has the length the sidecar names.
ReadBody(c) ==
  /\ \/ /\ Goto(c, "body", "done")
        /\ Pairs(file[<<want[c], "bin">>], seen[c])
        /\ answer' = [answer EXCEPT ![c] = [meta |-> seen[c], body |-> file[<<want[c], "bin">>].resp]]
     \/ /\ Miss(c, "body")
        /\ ~Pairs(file[<<want[c], "bin">>], seen[c])
        /\ UNCHANGED answer
  /\ seen' = [seen EXCEPT ![c] = NoAnswer]
  /\ UNCHANGED <<now, fetches, disk, lease, want, job, strays>>

\* Mutant of Acquire: the caller does not wait for its turn.
AcquireShared(c) ==
  /\ Goto(c, "waiting", "lookup")
  /\ lease' = [lease EXCEPT ![c] = want[c]]
  /\ UNCHANGED <<now, fetches, disk, own, job, strays>>

\* ca.locks.acquire(key).await returns; the lookup is repeated under the lease.
Acquire(c) ==
  /\ Goto(c, "waiting", "lookup")
  /\ Lease!Take(c, want[c])
  /\ UNCHANGED <<now, fetches, disk, own, job, strays>>

\* A redirect, a refused or failed upstream, an oversized body or another status:
\* nothing is stored.
FetchUncached(c) ==
  /\ Goto(c, "fetching", "done")
  /\ UNCHANGED <<now, fetches, disk, lease, own, job, strays>>

\* A 200 or a 404 with its whole body: cache_put begins.
FetchCached(c, status) ==
  /\ Goto(c, "fetching", "storing")
  /\ fetches < MaxFetches
  /\ fetches' = fetches + 1
  /\ job' = [job EXCEPT ![c] =
               [op |-> "open", kind |-> "bin", victims |-> {},
                resp |-> [id |-> fetches + 1, key |-> want[c], status |-> status, at |-> now]]]
  /\ UNCHANGED <<now, disk, lease, own, strays>>

\* The awaited file operation makes a step; when it is done the next one begins.
Store(c) ==
  /\ pc[c] = "storing"
  /\ Run(c, job[c])
  /\ UNCHANGED <<now, fetches, lease, own>>

\* A write or rename fails: its temp file is removed and cache_put gives up.
StoreFails(c) ==
  /\ Goto(c, "storing", "done")
  /\ job[c].op \in {"open", "fill", "rename"}
  /\ tmp' = Restrict(tmp, DOMAIN tmp \ {TmpName(job[c])})
  /\ job' = [job EXCEPT ![c] = NoJob]
  /\ UNCHANGED <<now, fetches, file, lease, own, strays>>

\* Back to idle, giving up the lease if there is one.
Depart(c) ==
  /\ pc' = [pc EXCEPT ![c] = "idle"]
  /\ IF lease[c] # NoKey THEN Lease!Give(c) ELSE UNCHANGED lease
  /\ want' = [want EXCEPT ![c] = NoKey]
  /\ seen' = [seen EXCEPT ![c] = NoAnswer]
  /\ answer' = [answer EXCEPT ![c] = NoAnswer]
  /\ job' = [job EXCEPT ![c] = NoJob]

Respond(c) ==
  /\ pc[c] \in {"done", "stored"}
  /\ Depart(c)
  /\ UNCHANGED <<now, fetches, disk, strays>>

\* The client is gone and the request is dropped where it awaits.
Cancel(c) ==
  /\ pc[c] \in {"lookup", "body", "waiting", "fetching", "storing"}
  /\ Depart(c)
  /\ strays' = strays \union ({job[c]} \ {NoJob})
  /\ UNCHANGED <<now, fetches, disk>>

\* A stray runs on, or fails.
Stray ==
  \E j \in strays :
    /\ \/ Run(NoCaller, j)
       \/ /\ j.op \in {"open", "fill", "rename"}
          /\ strays' = strays \ {j}
          /\ UNCHANGED <<disk, pc, job>>
    /\ UNCHANGED <<now, fetches, lease, own>>

\* The process dies and starts again: the directory is what is left.
Crash ==
  /\ lease' = [c \in Callers |-> NoKey]
  /\ pc' = [c \in Callers |-> "idle"]
  /\ want' = [c \in Callers |-> NoKey]
  /\ seen' = [c \in Callers |-> NoAnswer]
  /\ job' = [c \in Callers |-> NoJob]
  /\ strays' = {}
  /\ answer' = [c \in Callers |-> NoAnswer]
  /\ UNCHANGED <<now, fetches, disk>>

Tick ==
  /\ now < MaxTime
  /\ now' = now + 1
  /\ UNCHANGED <<fetches, disk, lease, pc, own, job, strays>>

Step(c) ==
  \/ ReadMeta(c) \/ ReadBody(c) \/ Acquire(c) \/ FetchUncached(c)
  \/ (\E s \in Statuses : FetchCached(c, s))
  \/ Store(c) \/ Respond(c)

Hazard ==
  \/ \E c \in Callers : Cancel(c) /\ (calm => pc[c] # "storing")
  \/ ~calm /\ ((\E c \in Callers : StoreFails(c)) \/ Stray \/ Crash)

Next ==
  /\ \/ \E c \in Callers : Step(c) \/ \E k \in Keys : Request(c, k)
     \/ Hazard \/ Tick
  /\ UNCHANGED calm

Spec == Init /\ [][Next]_vars

----------------------------------------------------------------------------
(* Properties.                                                             *)

\* A file of the cache is one writer's complete output for its key, whatever
\* request was dropped, process died or stray write came late (the doc of
\* write_atomic: writers never share each other's partial output).
FilesWhole ==
  \A f \in Keys \X Kinds :
    file[f] # NoFile => file[f].whole /\ file[f].resp.key = f[1]

\* A hit serves the sidecar and the body of one and the same write (the doc of
\* Meta: "`body_len` lets a reader detect a sidecar paired with a body from a
\* different write"), although the two files are read and replaced separately.  It
\* holds where answers of a key differ in length: equal lengths are not told apart.
PairMatches == \A c \in Callers : answer[c] # NoAnswer => answer[c].meta = answer[c].body

\* A key is fetched by one live request at a time ("single-flight per key").
SingleFetch ==
  \A c, d \in Callers :
    /\ pc[c] \in {"fetching", "storing"} /\ pc[d] \in {"fetching", "storing"}
    /\ want[c] = want[d]
    => c = d

\* A request that stored an entry, with nobody else at work, leaves the directory
\* within the budget (config.rs: "the oldest entries (by mtime) are evicted until it
\* is back under"), however many stored and evicted beside it, where no request was
\* dropped while it stored and no file operation failed: a temp file left behind
\* escapes the eviction (coverart.rs:464), and a cache_put that gives up evicts nothing.
BudgetKept ==
  \A c \in Callers :
    calm /\ pc[c] = "stored" /\ (\A d \in Callers \ {c} : pc[d] = "idle") => Total <= MaxBytes
=============================================================================

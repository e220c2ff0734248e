------------------------ MODULE CoverArtCacheProofs ------------------------
(***************************************************************************)
(* Proofs about CoverArtCache.  A key is fetched by one request at a time, *)
(* because whoever fetches or stores holds the key's lease.  A file is one *)
(* writer's complete output, because a temp file is named after the answer *)
(* it holds and only one file operation works on an answer.  A hit pairs   *)
(* the two files of one write, because answers are told apart by the       *)
(* length of their bodies.                                                 *)
(***************************************************************************)
EXTENDS CoverArtCache, TLAPS, FiniteSetTheorems, WellFoundedInduction

Stages == {"idle", "lookup", "body", "waiting", "fetching", "storing", "stored", "done"}
Names == {<<k, d, n>> : k \in Keys, d \in Kinds, n \in Fetches}

CoverTyped ==
  /\ now \in Nat /\ fetches \in 0 .. MaxFetches
  /\ file \in [Keys \X Kinds -> Content \union {NoFile}]
  /\ DOMAIN tmp \subseteq Names
  /\ tmp = [n \in DOMAIN tmp |-> tmp[n]] /\ \A n \in DOMAIN tmp : tmp[n] \in Content
  /\ lease \in [Callers -> Keys \union {NoKey}]
  /\ pc \in [Callers -> Stages]
  /\ want \in [Callers -> Keys \union {NoKey}]
  /\ seen \in [Callers -> Resp \union {NoAnswer}]
  /\ job \in [Callers -> Job \union {NoJob}]
  /\ strays \subseteq Job
  /\ answer \in [Callers -> Answer \union {NoAnswer}]

\* A caller leases nothing but the key it wants, a key has one leaseholder, and
\* nobody fetches or stores without the lease.
Leased ==
  /\ \A c \in Callers :
       /\ lease[c] \in {NoKey, want[c]}
       /\ pc[c] \in {"fetching", "storing"} => lease[c] # NoKey
       /\ pc[c] = "idle" => lease[c] = NoKey
       /\ pc[c] # "idle" => want[c] \in Keys
       /\ pc[c] = "storing" => job[c] # NoJob
       /\ pc[c] = "body" => seen[c] # NoAnswer
  /\ \A c, d \in Callers : lease[c] # NoKey /\ lease[c] = lease[d] => c = d

\* The file operations at work, each with the caller that awaits it or NoCaller.
Work ==
  {<<c, job[c]>> : c \in {d \in Callers : job[d] # NoJob}}
    \union {<<NoCaller, j>> : j \in strays}

\* The upstream answers the directory, the file operations and the lookups refer to.
InPlay ==
  {file[f].resp : f \in {g \in Keys \X Kinds : file[g] # NoFile}}
    \union {tmp[n].resp : n \in DOMAIN tmp}
    \union {w[2].resp : w \in Work}
    \union ({seen[c] : c \in Callers} \ {NoAnswer})

\* Answers are numbered as they come in: a number names one answer.
Numbered ==
  /\ \A r \in InPlay : r.id <= fetches
  /\ \A r, s \in InPlay : r.id = s.id => r = s

\* An answer has one file operation, and what that is about to rename is whole.
OneWriter ==
  /\ \A v, w \in Work : v[2].resp.id = w[2].resp.id => v = w
  /\ \A w \in Work :
       w[2].op = "rename" /\ TmpName(w[2]) \in DOMAIN tmp => tmp[TmpName(w[2])].whole

\* A temp file is named after the answer in it.
NamedAfter == \A n \in DOMAIN tmp : tmp[n].resp.key = n[1] /\ tmp[n].resp.id = n[3]

CoverInv == CoverTyped /\ Leased /\ Numbered /\ OneWriter /\ NamedAfter /\ FilesWhole

----------------------------------------------------------------------------
(* File operations and the edits the actions make to them.                 *)

LEMMA OpsListed ==
  /\ "open" \in Ops /\ "fill" \in Ops /\ "rename" \in Ops /\ "scan" \in Ops /\ "remove" \in Ops
  /\ "bin" \in Kinds /\ "json" \in Kinds
BY DEF Ops, Kinds

LEMMA StagesListed ==
  /\ "idle" \in Stages /\ "lookup" \in Stages /\ "body" \in Stages /\ "waiting" \in Stages
  /\ "fetching" \in Stages /\ "storing" \in Stages /\ "stored" \in Stages /\ "done" \in Stages
BY DEF Stages

\* Changing an operation's stage, kind or victims leaves it one on the same answer.
LEMMA Staged ==
  ASSUME NEW j \in Job, NEW p \in Ops
  PROVE  /\ [j EXCEPT !.op = p] \in Job /\ [j EXCEPT !.op = p].resp = j.resp
         /\ [j EXCEPT !.op = p].op = p /\ [j EXCEPT !.op = p].kind = j.kind
BY DEF Job

LEMMA TmpNamed ==
  ASSUME NEW j \in Job
  PROVE  TmpName(j) \in Names /\ TmpName(j)[1] = j.resp.key /\ TmpName(j)[3] = j.resp.id
BY DEF Job, Resp, TmpName, Names

\* What follows an operation is an operation on the same answer, and a rename only
\* after the temp file was filled.
LEMMA Follows ==
  ASSUME NEW j \in Job, Following(j) # NoJob
  PROVE  /\ Following(j) \in Job /\ Following(j).resp = j.resp
         /\ Following(j).op = "rename" => j.op = "fill" /\ TmpName(Following(j)) = TmpName(j)
<1>1. CASE j.op = "fill"
  <2> DEFINE i == [j EXCEPT !.op = "rename"]
  <2>1. Following(j) = i
    BY <1>1 DEF Following
  <2>2. i \in Job /\ i.resp = j.resp /\ i.kind = j.kind
    BY OpsListed, Staged
  <2> HIDE DEF i
  <2>3. QED
    BY <1>1, <2>1, <2>2 DEF TmpName
<1>2. CASE j.op = "rename" /\ j.kind = "bin"
  <2> DEFINE i == [j EXCEPT !.op = "open", !.kind = "json"]
  <2>1. Following(j) = i
    BY <1>2 DEF Following
  <2>2. i \in Job /\ i.resp = j.resp /\ i.op = "open"
    <3>1. "open" \in Ops /\ "json" \in Kinds
      BY OpsListed
    <3>2. QED
      BY <3>1 DEF Job
  <2> HIDE DEF i
  <2>3. QED
    BY <2>1, <2>2
<1>3. CASE j.op = "rename" /\ j.kind # "bin"
  <2> DEFINE i == [j EXCEPT !.op = "scan"]
  <2>1. Following(j) = i
    BY <1>3 DEF Following
  <2>2. i \in Job /\ i.resp = j.resp /\ i.op = "scan"
    BY OpsListed, Staged
  <2> HIDE DEF i
  <2>3. QED
    BY <2>1, <2>2
<1>4. CASE j.op # "fill" /\ j.op # "rename"
  BY <1>4 DEF Following
<1>5. QED
  BY <1>1, <1>2, <1>3, <1>4

----------------------------------------------------------------------------
(* A step of a file operation j on behalf of o leaves at most one operation  *)
(* of o's, on the same answer, in j's place.                               *)

AtWork(o, j) ==
  \/ o \in Callers /\ pc[o] = "storing" /\ j = job[o] /\ j # NoJob
  \/ o = NoCaller /\ j \in strays

LEMMA Working ==
  ASSUME CoverTyped
  PROVE  /\ \A w \in Work : w = <<w[1], w[2]>> /\ w[2] \in Job
         /\ \A o, j : AtWork(o, j) => <<o, j>> \in Work /\ j \in Job
BY DEF CoverTyped, Work, AtWork

\* n is what is left of j, and p is what j's caller or the pool goes on with.
Succeeds(o, j, n, p) ==
  /\ p.resp = j.resp
  /\ p.op = "rename" => \/ p = n
                        \/ n = NoJob /\ o # NoCaller /\ j.op = "fill" /\ TmpName(p) = TmpName(j)

\* The operation j of o has become the operation p of a, or nothing when p is NoJob.
Becomes(o, j, a, p) ==
  /\ Work' \subseteq (Work \ {<<o, j>>}) \union {<<a, q>> : q \in {p} \ {NoJob}}
  /\ job' \in [Callers -> Job \union {NoJob}] /\ strays' \subseteq Job
  /\ pc' \in [Callers -> Stages]
  /\ \A c \in Callers : \/ pc'[c] = pc[c] /\ (pc[c] = "storing" => job'[c] # NoJob)
                        \/ pc[c] = "storing" /\ pc'[c] = "stored"

LEMMA Continued ==
  ASSUME CoverTyped, Leased, NEW o, NEW j, AtWork(o, j),
         NEW n \in Job \union {NoJob}, n # NoJob => n.resp = j.resp,
         Continue(o, j, n)
  PROVE  \E p \in Job \union {NoJob} :
           Becomes(o, j, o, p) /\ (p # NoJob => Succeeds(o, j, n, p))
<1>1. CASE o = NoCaller
  <2>1. j \in strays /\ j \in Job
    BY <1>1, CoverArtAssumption DEF AtWork, CoverTyped
  <2>2. strays' = (strays \ {j}) \union ({n} \ {NoJob}) /\ UNCHANGED <<pc, job>>
    BY <1>1 DEF Continue
  <2>3. n # NoJob => Succeeds(o, j, n, n)
    BY DEF Succeeds
  <2>4. Work' \subseteq (Work \ {<<o, j>>}) \union {<<o, q>> : q \in {n} \ {NoJob}}
    BY <1>1, <2>2, CoverArtAssumption DEF Work
  <2>5. QED
    BY <2>1, <2>2, <2>3, <2>4 DEF CoverTyped, Leased, Becomes
<1>2. CASE o # NoCaller
  <2> DEFINE p == IF n = NoJob THEN Following(j) ELSE n
  <2>1. o \in Callers /\ pc[o] = "storing" /\ j = job[o] /\ j \in Job
    BY <1>2 DEF AtWork, CoverTyped
  <2>2. /\ job' = [job EXCEPT ![o] = p]
        /\ pc' = [pc EXCEPT ![o] = IF p = NoJob THEN "stored" ELSE @]
        /\ UNCHANGED strays
    BY <1>2 DEF Continue
  <2>3. p \in Job \union {NoJob} /\ (p # NoJob => Succeeds(o, j, n, p))
    BY <1>2, <2>1, Follows DEF Succeeds
  <2> HIDE DEF p
  <2>4. Work' \subseteq (Work \ {<<o, j>>}) \union {<<o, q>> : q \in {p} \ {NoJob}}
    <3> SUFFICES ASSUME NEW w \in Work'
                 PROVE  w \in (Work \ {<<o, j>>}) \union {<<o, q>> : q \in {p} \ {NoJob}}
      OBVIOUS
    <3>1. CASE \E j1 \in strays : w = <<NoCaller, j1>>
      BY <3>1, <1>2 DEF Work
    <3>2. CASE \E c \in Callers : job'[c] # NoJob /\ w = <<c, job'[c]>>
      BY <3>2, <2>1, <2>2 DEF Work, CoverTyped
    <3>3. QED
      BY <3>1, <3>2, <2>2 DEF Work
  <2>5. job' \in [Callers -> Job \union {NoJob}] /\ pc' \in [Callers -> Stages]
    BY <2>1, <2>2, <2>3, StagesListed DEF CoverTyped
  <2>6. \A c \in Callers : \/ pc'[c] = pc[c] /\ (pc[c] = "storing" => job'[c] # NoJob)
                           \/ pc[c] = "storing" /\ pc'[c] = "stored"
    BY <2>1, <2>2 DEF CoverTyped, Leased
  <2>7. QED
    BY <2>2, <2>3, <2>4, <2>5, <2>6 DEF CoverTyped, Becomes
<1>3. QED
  BY <1>1, <1>2

\* What the directory, the operations and the lookups refer to after a step is what
\* they referred to before it.
LEMMA NoneNew ==
  ASSUME Numbered, InPlay' \subseteq InPlay, UNCHANGED fetches
  PROVE  Numbered'
BY DEF Numbered

LEMMA StillLeased ==
  ASSUME Leased, NEW o, NEW j, NEW p, Becomes(o, j, o, p), UNCHANGED <<lease, own>>
  PROVE  Leased'
BY DEF Leased, Becomes, own

LEMMA SameAnswers ==
  ASSUME CoverTyped, NEW o, NEW j, <<o, j>> \in Work, NEW a, NEW p,
         p # NoJob => p.resp = j.resp, Becomes(o, j, a, p)
  PROVE  \A w \in Work' : \E v \in Work : w[2].resp = v[2].resp
<1> SUFFICES ASSUME NEW w \in Work' PROVE \E v \in Work : w[2].resp = v[2].resp
  OBVIOUS
<1>1. w \in Work \/ (p # NoJob /\ w = <<a, p>>)
  BY DEF Becomes
<1>2. CASE w \in Work
  BY <1>2
<1>3. CASE p # NoJob /\ w = <<a, p>>
  <2>1. w[2].resp = (<<o, j>>)[2].resp
    BY <1>3
  <2>2. QED
    BY <2>1
<1>4. QED
  BY <1>1, <1>2, <1>3

LEMMA StillOne ==
  ASSUME CoverTyped, OneWriter, NEW o, NEW j, <<o, j>> \in Work, NEW a, NEW p,
         p # NoJob => p.resp = j.resp, Becomes(o, j, a, p)
  PROVE  \A v, w \in Work' : v[2].resp.id = w[2].resp.id => v = w
<1>1. \A v \in Work' : v \in Work \ {<<o, j>>} \/ (p # NoJob /\ v = <<a, p>>)
  BY DEF Becomes
<1>2. \A v \in Work \ {<<o, j>>} : v[2].resp.id # j.resp.id
  <2> SUFFICES ASSUME NEW v \in Work \ {<<o, j>>}, v[2].resp.id = j.resp.id PROVE FALSE
    OBVIOUS
  <2>1. v[2].resp.id = (<<o, j>>)[2].resp.id
    OBVIOUS
  <2>2. QED
    BY <2>1 DEF OneWriter
<1> SUFFICES ASSUME NEW v \in Work', NEW w \in Work', v[2].resp.id = w[2].resp.id
             PROVE  v = w
  OBVIOUS
<1>3. CASE v \in Work \ {<<o, j>>} /\ w \in Work \ {<<o, j>>}
  BY <1>3 DEF OneWriter
<1>4. CASE v = <<a, p>> /\ w = <<a, p>>
  BY <1>4
<1>5. CASE p # NoJob /\ v = <<a, p>> /\ w \in Work \ {<<o, j>>}
  BY <1>2, <1>5
<1>6. CASE p # NoJob /\ w = <<a, p>> /\ v \in Work \ {<<o, j>>}
  BY <1>2, <1>6
<1>7. QED
  BY <1>1, <1>3, <1>4, <1>5, <1>6

LEMMA Referred ==
  /\ \A f \in Keys \X Kinds : file[f] # NoFile => file[f].resp \in InPlay
  /\ \A n \in DOMAIN tmp : tmp[n].resp \in InPlay
  /\ \A w \in Work : w[2].resp \in InPlay
  /\ \A c \in Callers : seen[c] # NoAnswer => seen[c] \in InPlay
BY DEF InPlay

LEMMA StillInPlay ==
  ASSUME \A w \in Work' : \E v \in Work : w[2].resp = v[2].resp,
         \A f \in Keys \X Kinds : file'[f] # NoFile => file'[f].resp \in InPlay,
         \A n \in DOMAIN tmp' : tmp'[n].resp \in InPlay,
         \A c \in Callers : seen'[c] # NoAnswer => seen'[c] \in InPlay
  PROVE  InPlay' \subseteq InPlay
<1> SUFFICES ASSUME NEW r \in InPlay' PROVE r \in InPlay
  OBVIOUS
<1>1. CASE \E f \in Keys \X Kinds : file'[f] # NoFile /\ r = file'[f].resp
  BY <1>1
<1>2. CASE \E n \in DOMAIN tmp' : r = tmp'[n].resp
  BY <1>2
<1>3. CASE \E w \in Work' : r = w[2].resp
  BY <1>3, Referred
<1>4. CASE \E c \in Callers : seen'[c] # NoAnswer /\ r = seen'[c]
  BY <1>4
<1>5. QED
  BY <1>1, <1>2, <1>3, <1>4 DEF InPlay

----------------------------------------------------------------------------
(* Each step of a file operation keeps the invariant.                      *)

LEMMA OpenSound ==
  ASSUME CoverInv, NEW o, NEW j, AtWork(o, j), Open(o, j), UNCHANGED <<now, fetches, lease, own>>
  PROVE  CoverInv'
<1> DEFINE n == [j EXCEPT !.op = "fill"]
           t == TmpName(j)
           fresh == [resp |-> j.resp, whole |-> FALSE, mtime |-> now]
<1>1. <<o, j>> \in Work /\ j \in Job
  BY Working DEF CoverInv
<1>2. n \in Job /\ n.resp = j.resp /\ n.op = "fill"
  BY <1>1, OpsListed, Staged
<1>3. /\ tmp' = [s \in DOMAIN tmp \union {t} |-> IF s = t THEN fresh ELSE tmp[s]]
      /\ Continue(o, j, n) /\ UNCHANGED file
  BY DEF Open
<1>4. t \in Names /\ t[1] = j.resp.key /\ t[3] = j.resp.id
  BY <1>1, TmpNamed
<1>5. fresh \in Content /\ fresh.resp = j.resp
  BY <1>1 DEF Content, Job, CoverInv, CoverTyped
<1> HIDE DEF n, t, fresh
<1>6. PICK p \in Job \union {NoJob} : Becomes(o, j, o, p) /\ (p # NoJob => Succeeds(o, j, n, p))
  BY <1>2, <1>3, Continued DEF CoverInv
<1>7. p # NoJob => p.resp = j.resp /\ p.op # "rename"
  BY <1>1, <1>2, <1>6, CoverArtAssumption DEF Succeeds
<1>8. CoverTyped'
  BY <1>3, <1>4, <1>5, <1>6 DEF CoverInv, CoverTyped, Becomes, own
<1>9. Leased'
  BY <1>6, StillLeased DEF CoverInv
<1>10. NamedAfter'
  BY <1>3, <1>4, <1>5 DEF CoverInv, NamedAfter
<1>11. InPlay' \subseteq InPlay
  <2>1. \A w \in Work' : \E v \in Work : w[2].resp = v[2].resp
    BY <1>1, <1>6, <1>7, SameAnswers DEF CoverInv
  <2>2. j.resp \in InPlay
    BY <1>1, Referred
  <2>3. \A s \in DOMAIN tmp' : tmp'[s].resp \in InPlay
    BY <1>3, <1>5, <2>2, Referred
  <2>4. QED
    BY <1>3, <2>1, <2>3, Referred, StillInPlay DEF own
<1>12. OneWriter'
  <2>1. \A v, w \in Work' : v[2].resp.id = w[2].resp.id => v = w
    BY <1>1, <1>6, <1>7, StillOne DEF CoverInv
  <2>2. ASSUME NEW w \in Work', w[2].op = "rename", TmpName(w[2]) \in DOMAIN tmp'
        PROVE  tmp'[TmpName(w[2])].whole
    <3>1. w \in Work /\ w # <<o, j>>
      BY <1>6, <1>7, <2>2 DEF Becomes
    <3>2. w[2] \in Job /\ w[2].resp.id # (<<o, j>>)[2].resp.id
      BY <1>1, <3>1, Working DEF CoverInv, OneWriter
    <3>3. TmpName(w[2]) # t
      BY <1>4, <3>2, TmpNamed
    <3>4. QED
      BY <1>3, <2>2, <3>1, <3>3 DEF CoverInv, OneWriter
  <2>3. QED
    BY <2>1, <2>2 DEF OneWriter, TmpName
<1>13. QED
  BY <1>3, <1>8, <1>9, <1>10, <1>11, <1>12, NoneNew DEF CoverInv, FilesWhole

LEMMA FillSound ==
  ASSUME CoverInv, NEW o, NEW j, AtWork(o, j), Fill(o, j), UNCHANGED <<now, fetches, lease, own>>
  PROVE  CoverInv'
<1> DEFINE t == TmpName(j)
           full == [resp |-> tmp[t].resp, whole |-> tmp[t].resp = j.resp, mtime |-> now]
<1>1. <<o, j>> \in Work /\ j \in Job
  BY Working DEF CoverInv
<1>2. j.op = "fill" /\ t \in DOMAIN tmp /\ Continue(o, j, NoJob) /\ UNCHANGED file
  BY DEF Fill
<1>3. DOMAIN tmp' = DOMAIN tmp /\ \A s \in DOMAIN tmp : tmp'[s] = IF s = t THEN full ELSE tmp[s]
  BY DEF Fill
<1>4. t \in Names /\ t[1] = j.resp.key /\ t[3] = j.resp.id
  BY <1>1, TmpNamed
<1>5. tmp[t].resp = j.resp
  <2>1. tmp[t].resp \in InPlay /\ j.resp \in InPlay
    BY <1>1, <1>2, Referred
  <2>2. tmp[t].resp.id = j.resp.id
    BY <1>2, <1>4 DEF CoverInv, NamedAfter
  <2>3. QED
    BY <2>1, <2>2 DEF CoverInv, Numbered
<1>6. full \in Content /\ full.resp = j.resp /\ full.whole
  BY <1>1, <1>5 DEF Content, Job, CoverInv, CoverTyped
<1>7. tmp' = [s \in DOMAIN tmp' |-> tmp'[s]]
  BY DEF Fill
<1> HIDE DEF t, full
<1>8. PICK p \in Job \union {NoJob} : Becomes(o, j, o, p) /\ (p # NoJob => Succeeds(o, j, NoJob, p))
  BY <1>2, Continued DEF CoverInv
<1>9. p # NoJob => p.resp = j.resp /\ (p.op = "rename" => TmpName(p) = t)
  BY <1>8 DEF Succeeds, t
<1>10. CoverTyped'
  BY <1>2, <1>3, <1>6, <1>7, <1>8 DEF CoverInv, CoverTyped, Becomes, own
<1>11. Leased'
  BY <1>8, StillLeased DEF CoverInv
<1>12. NamedAfter'
  BY <1>3, <1>4, <1>6 DEF CoverInv, NamedAfter
<1>13. InPlay' \subseteq InPlay
  <2>1. \A w \in Work' : \E v \in Work : w[2].resp = v[2].resp
    BY <1>1, <1>8, <1>9, SameAnswers DEF CoverInv
  <2>2. \A s \in DOMAIN tmp' : tmp'[s].resp \in InPlay
    BY <1>3, <1>5, <1>6, Referred
  <2>3. QED
    BY <1>2, <2>1, <2>2, Referred, StillInPlay DEF own
<1>14. OneWriter'
  <2>1. \A v, w \in Work' : v[2].resp.id = w[2].resp.id => v = w
    BY <1>1, <1>8, <1>9, StillOne DEF CoverInv
  <2>2. ASSUME NEW w \in Work', w[2].op = "rename", TmpName(w[2]) \in DOMAIN tmp'
        PROVE  tmp'[TmpName(w[2])].whole
    <3>1. CASE w \in Work
      BY <1>3, <1>6, <2>2, <3>1 DEF CoverInv, OneWriter
    <3>2. CASE w \notin Work
      <4>1. p # NoJob /\ w[2] = p
        BY <1>8, <3>2 DEF Becomes
      <4>2. QED
        BY <1>2, <1>3, <1>6, <1>9, <2>2, <4>1
    <3>3. QED
      BY <3>1, <3>2
  <2>3. QED
    BY <2>1, <2>2 DEF OneWriter, TmpName
<1>15. QED
  BY <1>2, <1>10, <1>11, <1>12, <1>13, <1>14, NoneNew DEF CoverInv, FilesWhole

LEMMA RenameSound ==
  ASSUME CoverInv, NEW o, NEW j, AtWork(o, j), Rename(o, j), UNCHANGED <<now, fetches, lease, own>>
  PROVE  CoverInv'
<1> DEFINE t == TmpName(j)
           f == <<j.resp.key, j.kind>>
<1>1. <<o, j>> \in Work /\ j \in Job
  BY Working DEF CoverInv
<1>2. j.op = "rename" /\ t \in DOMAIN tmp /\ Continue(o, j, NoJob)
  BY DEF Rename
<1>3. /\ DOMAIN tmp' = DOMAIN tmp \ {t} /\ \A s \in DOMAIN tmp' : tmp'[s] = tmp[s]
      /\ tmp' = [s \in DOMAIN tmp' |-> tmp'[s]]
  BY DEF Rename, Restrict
<1>4. t \in Names /\ t[1] = j.resp.key /\ t[3] = j.resp.id
  BY <1>1, TmpNamed
<1>5. tmp[t] \in Content /\ tmp[t].resp.key = j.resp.key /\ tmp[t].whole
  BY <1>1, <1>2, <1>4 DEF CoverInv, CoverTyped, NamedAfter, OneWriter
<1>6. f \in Keys \X Kinds /\ f[1] = j.resp.key /\ file' = [file EXCEPT ![f] = tmp[t]]
  BY <1>1 DEF Rename, Job, Resp
<1> HIDE DEF t, f
<1>7. PICK p \in Job \union {NoJob} : Becomes(o, j, o, p) /\ (p # NoJob => Succeeds(o, j, NoJob, p))
  BY <1>2, Continued DEF CoverInv
<1>8. p # NoJob => p.resp = j.resp /\ p.op # "rename"
  BY <1>2, <1>7, CoverArtAssumption DEF Succeeds
<1>9. CoverTyped'
  BY <1>3, <1>5, <1>6, <1>7 DEF CoverInv, CoverTyped, Becomes, own
<1>10. Leased'
  BY <1>7, StillLeased DEF CoverInv
<1>11. NamedAfter'
  BY <1>3 DEF CoverInv, NamedAfter
<1>12. InPlay' \subseteq InPlay
  <2>1. \A w \in Work' : \E v \in Work : w[2].resp = v[2].resp
    BY <1>1, <1>7, <1>8, SameAnswers DEF CoverInv
  <2>2. \A g \in Keys \X Kinds : file'[g] # NoFile => file'[g].resp \in InPlay
    BY <1>2, <1>6, Referred DEF CoverInv, CoverTyped
  <2>3. QED
    BY <1>3, <2>1, <2>2, Referred, StillInPlay DEF own
<1>13. OneWriter'
  <2>1. \A v, w \in Work' : v[2].resp.id = w[2].resp.id => v = w
    BY <1>1, <1>7, <1>8, StillOne DEF CoverInv
  <2>2. \A w \in Work' : w[2].op = "rename" => w \in Work
    BY <1>7, <1>8 DEF Becomes
  <2>3. QED
    BY <1>3, <2>1, <2>2 DEF CoverInv, OneWriter, TmpName
<1>14. FilesWhole'
  BY <1>5, <1>6 DEF CoverInv, CoverTyped, FilesWhole
<1>15. QED
  BY <1>9, <1>10, <1>11, <1>12, <1>13, <1>14, NoneNew DEF CoverInv, own

\* The directory is read, or a file is removed: what else there is stays as it was.
LEMMA EvictionSound ==
  ASSUME CoverInv, NEW o, NEW j, AtWork(o, j), NEW n \in Job \union {NoJob},
         n # NoJob => n.resp = j.resp /\ n.op # "rename", j.op # "fill", Continue(o, j, n),
         UNCHANGED <<now, fetches, lease, own, tmp>>,
         file' \in [Keys \X Kinds -> Content \union {NoFile}],
         \A g \in Keys \X Kinds : file'[g] \in {file[g], NoFile}
  PROVE  CoverInv'
<1>1. <<o, j>> \in Work /\ j \in Job
  BY Working DEF CoverInv
<1>2. PICK p \in Job \union {NoJob} : Becomes(o, j, o, p) /\ (p # NoJob => Succeeds(o, j, n, p))
  BY Continued DEF CoverInv
<1>3. p # NoJob => p.resp = j.resp /\ p.op # "rename"
  BY <1>2 DEF Succeeds
<1>4. CoverTyped'
  BY <1>2 DEF CoverInv, CoverTyped, Becomes, own
<1>5. Leased'
  BY <1>2, StillLeased DEF CoverInv
<1>6. NamedAfter'
  BY DEF CoverInv, NamedAfter
<1>7. InPlay' \subseteq InPlay
  <2>1. \A w \in Work' : \E v \in Work : w[2].resp = v[2].resp
    BY <1>1, <1>2, <1>3, SameAnswers DEF CoverInv
  <2>2. \A g \in Keys \X Kinds : file'[g] # NoFile => file'[g].resp \in InPlay
    BY Referred
  <2>3. QED
    BY <2>1, <2>2, Referred, StillInPlay DEF own
<1>8. OneWriter'
  <2>1. \A v, w \in Work' : v[2].resp.id = w[2].resp.id => v = w
    BY <1>1, <1>2, <1>3, StillOne DEF CoverInv
  <2>2. \A w \in Work' : w[2].op = "rename" => w \in Work
    BY <1>2, <1>3 DEF Becomes
  <2>3. QED
    BY <2>1, <2>2 DEF CoverInv, OneWriter, TmpName
<1>9. FilesWhole'
  BY DEF CoverInv, FilesWhole
<1>10. QED
  BY <1>4, <1>5, <1>6, <1>7, <1>8, <1>9, NoneNew DEF CoverInv, own

LEMMA RunSound ==
  ASSUME CoverInv, NEW o, NEW j, AtWork(o, j), Run(o, j), UNCHANGED <<now, fetches, lease, own>>
  PROVE  CoverInv'
<1>1. j \in Job
  BY Working DEF CoverInv
<1>2. CASE Open(o, j)
  BY <1>2, OpenSound
<1>3. CASE Fill(o, j)
  BY <1>3, FillSound
<1>4. CASE Rename(o, j)
  BY <1>4, RenameSound
<1>5. CASE Scan(o, j)
  <2>1. PICK V \in SUBSET Stems :
          Continue(o, j, IF V \intersect Keys = {} THEN NoJob
            ELSE [j EXCEPT !.op = "remove", !.victims = (V \intersect Keys) \X Kinds])
    BY <1>5 DEF Scan
  <2> DEFINE U == (V \intersect Keys) \X Kinds
             m == [j EXCEPT !.op = "remove", !.victims = U]
             n == IF V \intersect Keys = {} THEN NoJob ELSE m
  <2>2. U \in SUBSET (Keys \X Kinds)
    OBVIOUS
  <2> HIDE DEF U
  <2>3. m \in Job /\ m.resp = j.resp /\ m.op = "remove"
    BY <1>1, <2>2, OpsListed DEF Job
  <2> HIDE DEF m
  <2>4. n \in Job \union {NoJob} /\ (n # NoJob => n.resp = j.resp /\ n.op # "rename")
    BY <2>3
  <2>5. Continue(o, j, n)
    BY <2>1 DEF m, U
  <2> HIDE DEF n
  <2>6. j.op # "fill" /\ UNCHANGED <<file, tmp>>
    BY <1>5 DEF Scan, disk
  <2>7. file' \in [Keys \X Kinds -> Content \union {NoFile}]
    BY <2>6 DEF CoverInv, CoverTyped
  <2>8. QED
    BY <2>4, <2>5, <2>6, <2>7, EvictionSound
<1>6. CASE Remove(o, j)
  <2>1. PICK f \in j.victims :
          /\ file' = [file EXCEPT ![f] = NoFile]
          /\ Continue(o, j, IF j.victims = {f} THEN NoJob
                            ELSE [j EXCEPT !.victims = @ \ {f}])
    BY <1>6 DEF Remove
  <2> DEFINE U == j.victims \ {f}
             m == [j EXCEPT !.victims = U]
             n == IF j.victims = {f} THEN NoJob ELSE m
  <2>2. U \in SUBSET (Keys \X Kinds) /\ f \in Keys \X Kinds /\ j.op = "remove"
    BY <1>1, <1>6 DEF Job, Remove
  <2>3. Continue(o, j, n)
    BY <2>1
  <2> HIDE DEF U
  <2>4. m \in Job /\ m.resp = j.resp /\ m.op = "remove"
    BY <1>1, <2>2 DEF Job
  <2> HIDE DEF m
  <2>5. n \in Job \union {NoJob} /\ (n # NoJob => n.resp = j.resp /\ n.op # "rename")
    BY <2>4
  <2> HIDE DEF n
  <2>6. /\ file' \in [Keys \X Kinds -> Content \union {NoFile}]
        /\ \A g \in Keys \X Kinds : file'[g] \in {file[g], NoFile}
    BY <2>1, <2>2 DEF CoverInv, CoverTyped
  <2>7. j.op # "fill" /\ UNCHANGED tmp
    BY <1>6 DEF Remove
  <2>8. QED
    BY <2>3, <2>5, <2>6, <2>7, EvictionSound
<1>7. QED
  BY <1>2, <1>3, <1>4, <1>5, <1>6 DEF Run

----------------------------------------------------------------------------
(* The steps of a request that leave files and file operations alone.      *)

LEMMA QuietSound ==
  ASSUME CoverInv, UNCHANGED <<fetches, disk, job, strays>>, now' \in Nat,
         lease' \in [Callers -> Keys \union {NoKey}], pc' \in [Callers -> Stages],
         want' \in [Callers -> Keys \union {NoKey}], seen' \in [Callers -> Resp \union {NoAnswer}],
         answer' \in [Callers -> Answer \union {NoAnswer}], Leased',
         \A c \in Callers : seen'[c] # NoAnswer => seen'[c] \in InPlay
  PROVE  CoverInv'
<1>1. CoverTyped'
  BY DEF CoverInv, CoverTyped, disk
<1>2. Work' = Work
  BY DEF Work
<1>3. InPlay' \subseteq InPlay
  BY <1>2, Referred, StillInPlay DEF disk
<1>4. NamedAfter' /\ FilesWhole' /\ OneWriter'
  BY <1>2 DEF CoverInv, NamedAfter, FilesWhole, OneWriter, TmpName, disk
<1>5. QED
  BY <1>1, <1>3, <1>4, NoneNew DEF CoverInv

LEMMA RequestSound ==
  ASSUME CoverInv, NEW c \in Callers, NEW k \in Keys, Request(c, k)
  PROVE  CoverInv'
<1>1. Leased'
  BY CoverArtAssumption DEF CoverInv, CoverTyped, Leased, Request, Goto
<1>2. QED
  BY <1>1, QuietSound, Referred, StagesListed DEF CoverInv, CoverTyped, Request, Goto

LEMMA ReadMetaSound ==
  ASSUME CoverInv, NEW c \in Callers, ReadMeta(c)
  PROVE  CoverInv'
<1> DEFINE m == file[<<want[c], "json">>]
<1>1. pc[c] = "lookup" /\ want[c] \in Keys /\ <<want[c], "json">> \in Keys \X Kinds
  BY OpsListed DEF ReadMeta, Miss, Goto, CoverInv, Leased
<1>2. CASE Goto(c, "lookup", "body") /\ Usable(m) /\ seen' = [seen EXCEPT ![c] = m.resp]
  <2>1. m \in Content /\ m.resp \in Resp /\ m.resp \in InPlay /\ m.resp # NoAnswer
    BY <1>1, <1>2, Referred, CoverArtAssumption DEF Usable, CoverInv, CoverTyped, Content
  <2> HIDE DEF m
  <2>2. Leased'
    BY <1>1, <1>2, <2>1 DEF CoverInv, CoverTyped, Leased, ReadMeta, Goto
  <2>3. /\ seen' \in [Callers -> Resp \union {NoAnswer}] /\ pc' \in [Callers -> Stages]
        /\ \A d \in Callers : seen'[d] # NoAnswer => seen'[d] \in InPlay
    BY <1>2, <2>1, Referred, StagesListed DEF CoverInv, CoverTyped, Goto
  <2>4. QED
    BY <2>2, <2>3, QuietSound DEF CoverInv, CoverTyped, ReadMeta
<1>3. CASE Miss(c, "lookup") /\ UNCHANGED seen
  <2>1. Leased'
    BY <1>1, <1>3 DEF CoverInv, CoverTyped, Leased, ReadMeta, Miss, Goto
  <2>2. pc' \in [Callers -> Stages]
    BY <1>3, StagesListed DEF CoverInv, CoverTyped, Miss, Goto
  <2>3. QED
    BY <1>3, <2>1, <2>2, QuietSound, Referred DEF CoverInv, CoverTyped, ReadMeta
<1>4. QED
  BY <1>2, <1>3 DEF ReadMeta

LEMMA ReadBodySound ==
  ASSUME CoverInv, NEW c \in Callers, ReadBody(c)
  PROVE  CoverInv'
<1> DEFINE b == file[<<want[c], "bin">>]
<1>1. /\ pc[c] = "body" /\ want[c] \in Keys /\ <<want[c], "bin">> \in Keys \X Kinds
      /\ seen[c] \in Resp
  BY OpsListed DEF ReadBody, Miss, Goto, CoverInv, CoverTyped, Leased
<1>2. answer' \in [Callers -> Answer \union {NoAnswer}]
  <2>1. CASE Pairs(b, seen[c]) /\ answer' = [answer EXCEPT ![c] = [meta |-> seen[c], body |-> b.resp]]
    <3>1. b.resp \in Resp
      BY <1>1, <2>1 DEF Pairs, CoverInv, CoverTyped, Content
    <3>2. [meta |-> seen[c], body |-> b.resp] \in Answer
      BY <1>1, <3>1 DEF Answer
    <3>3. QED
      BY <2>1, <3>2 DEF CoverInv, CoverTyped
  <2>2. CASE UNCHANGED answer
    BY <2>2 DEF CoverInv, CoverTyped
  <2>3. QED
    BY <2>1, <2>2 DEF ReadBody
<1>3. pc' \in [Callers -> Stages]
  BY StagesListed DEF CoverInv, CoverTyped, ReadBody, Miss, Goto
<1>4. /\ seen' = [seen EXCEPT ![c] = NoAnswer]
      /\ UNCHANGED <<now, fetches, disk, lease, want, job, strays>>
  BY DEF ReadBody
<1>5. /\ \A d \in Callers \ {c} : pc'[d] = pc[d]
      /\ pc'[c] \in {"done", "waiting", "fetching"} /\ (pc'[c] = "fetching" => lease[c] # NoKey)
  BY DEF CoverInv, CoverTyped, ReadBody, Miss, Goto
<1>6. Leased'
  BY <1>1, <1>4, <1>5 DEF CoverInv, CoverTyped, Leased
<1>7. QED
  BY <1>2, <1>3, <1>4, <1>6, QuietSound, Referred DEF CoverInv, CoverTyped

LEMMA AcquireSound ==
  ASSUME CoverInv, NEW c \in Callers, Acquire(c)
  PROVE  CoverInv'
<1>1. want[c] \in Keys
  BY DEF Acquire, Goto, CoverInv, Leased
<1>2. Leased'
  BY <1>1, CoverArtAssumption
     DEF CoverInv, CoverTyped, Leased, Acquire, Goto, Lease!Take, own
<1>3. QED
  BY <1>1, <1>2, QuietSound, Referred, StagesListed
     DEF CoverInv, CoverTyped, Acquire, Goto, Lease!Take, own

LEMMA FetchUncachedSound ==
  ASSUME CoverInv, NEW c \in Callers, FetchUncached(c)
  PROVE  CoverInv'
<1>1. Leased'
  BY DEF CoverInv, CoverTyped, Leased, FetchUncached, Goto, own
<1>2. QED
  BY <1>1, QuietSound, Referred, StagesListed DEF CoverInv, CoverTyped, FetchUncached, Goto, own

LEMMA TickSound ==
  ASSUME CoverInv, Tick
  PROVE  CoverInv'
<1>1. Leased'
  BY DEF CoverInv, Leased, Tick, own
<1>2. QED
  BY <1>1, QuietSound, Referred DEF CoverInv, CoverTyped, Tick, own

----------------------------------------------------------------------------
(* The steps that begin, hand over and end file operations.                *)

LEMMA FetchCachedSound ==
  ASSUME CoverInv, NEW c \in Callers, NEW status \in Statuses, FetchCached(c, status)
  PROVE  CoverInv'
<1> DEFINE r == [id |-> fetches + 1, key |-> want[c], status |-> status, at |-> now]
           j == [op |-> "open", kind |-> "bin", victims |-> {}, resp |-> r]
<1>1. /\ pc[c] = "fetching" /\ want[c] \in Keys /\ lease[c] # NoKey
      /\ pc' = [pc EXCEPT ![c] = "storing"]
      /\ fetches' = fetches + 1 /\ fetches + 1 \in Fetches
      /\ UNCHANGED <<now, disk, lease, own, strays>>
  BY CoverArtAssumption DEF FetchCached, Goto, CoverInv, CoverTyped, Leased, Fetches
<1>2. job' = [job EXCEPT ![c] = j]
  BY DEF FetchCached
<1>3. r \in Resp /\ r.id = fetches + 1
  BY <1>1 DEF Resp, CoverInv, CoverTyped
<1> HIDE DEF r
<1>4. j \in Job /\ j.resp = r /\ j.op = "open" /\ j # NoJob
  <2>1. {} \in SUBSET (Keys \X Kinds)
    OBVIOUS
  <2>2. j \in Job
    BY <1>3, <2>1, OpsListed DEF Job
  <2>3. QED
    BY <2>2, CoverArtAssumption
<1> HIDE DEF j
<1>5. CoverTyped'
  BY <1>1, <1>2, <1>4, StagesListed DEF CoverInv, CoverTyped, Fetches, disk, own
<1>6. Leased'
  BY <1>1, <1>2, <1>4 DEF CoverInv, CoverTyped, Leased, own
<1>7. \A w \in Work' : w \in Work \/ w = <<c, j>>
  BY <1>1, <1>2 DEF CoverInv, CoverTyped, Work
<1>8. \A s \in InPlay' : s \in InPlay \/ s = r
  <2>1. UNCHANGED <<file, tmp, seen>>
    BY <1>1 DEF disk, own
  <2>2. \A w \in Work' : w[2].resp \in InPlay \/ w[2].resp = r
    BY <1>4, <1>7, Referred
  <2> SUFFICES ASSUME NEW s \in InPlay', s # r PROVE s \in InPlay
    OBVIOUS
  <2>3. CASE \E w \in Work' : s = w[2].resp
    BY <2>2, <2>3
  <2>4. CASE ~ \E w \in Work' : s = w[2].resp
    BY <2>1, <2>4 DEF InPlay
  <2>5. QED
    BY <2>3, <2>4
<1>9. Numbered'
  <2>1. \A s \in InPlay : s.id <= fetches /\ s \in Resp
    <3>1. \A s \in InPlay : s \in Resp
      BY Working, CoverArtAssumption DEF CoverInv, CoverTyped, InPlay, Content, Job
    <3>2. QED
      BY <3>1 DEF CoverInv, Numbered
  <2>2. \A s \in InPlay : s.id \in Nat /\ s.id # r.id
    BY <1>3, <2>1 DEF Resp, Fetches, CoverInv, CoverTyped
  <2>3. QED
    BY <1>1, <1>3, <1>8, <2>1, <2>2 DEF CoverInv, CoverTyped, Numbered
<1>10. OneWriter'
  <2>1. \A w \in Work : w[2].resp.id # r.id
    <3>1. \A w \in Work : w[2].resp \in InPlay /\ w[2].resp \in Resp
      BY Working, Referred DEF CoverInv, Job
    <3>2. QED
      BY <1>3, <3>1 DEF CoverInv, CoverTyped, Numbered, Resp, Fetches
  <2>2. UNCHANGED tmp
    BY <1>1 DEF disk
  <2>3. \A v, w \in Work' : v[2].resp.id = w[2].resp.id => v = w
    BY <1>4, <1>7, <2>1 DEF CoverInv, OneWriter
  <2>4. \A w \in Work' : w[2].op = "rename" => w \in Work
    BY <1>4, <1>7
  <2>5. QED
    BY <2>2, <2>3, <2>4 DEF CoverInv, OneWriter, TmpName
<1>11. NamedAfter' /\ FilesWhole'
  BY <1>1 DEF CoverInv, NamedAfter, FilesWhole, disk
<1>12. QED
  BY <1>5, <1>6, <1>9, <1>10, <1>11 DEF CoverInv

\* A file operation ends for good or is left to the pool, and a temp file may go.
LEMMA HandedSound ==
  ASSUME CoverInv, CoverTyped', Leased', UNCHANGED <<fetches, file>>,
         NEW N, tmp' = Restrict(tmp, DOMAIN tmp \ N),
         \A c \in Callers : seen'[c] \in {seen[c], NoAnswer},
         \A w \in Work' : \E v \in Work : w = v \/ (w[2] = v[2] /\ w[1] = NoCaller),
         \A v, w \in Work' : v[2] = w[2] => v = w
  PROVE  CoverInv'
<1>1. DOMAIN tmp' = DOMAIN tmp \ N /\ \A s \in DOMAIN tmp' : tmp'[s] = tmp[s]
  BY DEF Restrict
<1>2. \A w \in Work' : \E v \in Work : w[2] = v[2]
  OBVIOUS
<1>3. InPlay' \subseteq InPlay
  BY <1>1, <1>2, Referred, StillInPlay
<1>4. OneWriter'
  <2>1. ASSUME NEW v \in Work', NEW w \in Work', v[2].resp.id = w[2].resp.id
        PROVE  v = w
    <3>1. PICK x \in Work, y \in Work : v[2] = x[2] /\ w[2] = y[2]
      BY <1>2
    <3>2. x = y
      BY <2>1, <3>1 DEF CoverInv, OneWriter
    <3>3. QED
      BY <3>1, <3>2
  <2>2. \A w \in Work' : w[2].op = "rename" /\ TmpName(w[2]) \in DOMAIN tmp'
                           => tmp'[TmpName(w[2])].whole
    <3> SUFFICES ASSUME NEW w \in Work', w[2].op = "rename", TmpName(w[2]) \in DOMAIN tmp'
                 PROVE  tmp'[TmpName(w[2])].whole
      OBVIOUS
    <3>1. PICK v \in Work : w[2] = v[2]
      BY <1>2
    <3>2. TmpName(w[2]) \in DOMAIN tmp /\ tmp'[TmpName(w[2])] = tmp[TmpName(w[2])]
      BY <1>1
    <3>3. tmp[TmpName(v[2])].whole
      BY <3>1, <3>2 DEF CoverInv, OneWriter
    <3>4. QED
      BY <3>1, <3>2, <3>3
  <2>3. QED
    BY <2>1, <2>2 DEF OneWriter, TmpName
<1>5. NamedAfter' /\ FilesWhole'
  <2>1. NamedAfter'
    BY <1>1 DEF CoverInv, NamedAfter
  <2>2. FilesWhole'
    BY DEF CoverInv, FilesWhole
  <2>3. QED
    BY <2>1, <2>2
<1>6. QED
  BY <1>3, <1>4, <1>5, NoneNew DEF CoverInv

LEMMA AllKept == CoverTyped => tmp = Restrict(tmp, DOMAIN tmp \ {})
BY DEF CoverTyped, Restrict

LEMMA WorkKept ==
  ASSUME CoverTyped, OneWriter
  PROVE  \A v, w \in Work : v[2] = w[2] => v = w
BY DEF OneWriter

LEMMA StoreFailsSound ==
  ASSUME CoverInv, NEW c \in Callers, StoreFails(c)
  PROVE  CoverInv'
<1> DEFINE N == {TmpName(job[c])}
<1>1. /\ pc[c] = "storing" /\ pc' = [pc EXCEPT ![c] = "done"]
      /\ job' = [job EXCEPT ![c] = NoJob] /\ tmp' = Restrict(tmp, DOMAIN tmp \ N)
      /\ UNCHANGED <<now, fetches, file, lease, own, strays>>
  BY DEF StoreFails, Goto
<1> HIDE DEF N
<1>2. DOMAIN tmp' = DOMAIN tmp \ N /\ (\A s \in DOMAIN tmp' : tmp'[s] = tmp[s])
        /\ tmp' = [s \in DOMAIN tmp' |-> tmp'[s]]
  BY <1>1 DEF Restrict
<1>3. CoverTyped'
  BY <1>1, <1>2, StagesListed DEF CoverInv, CoverTyped, own
<1>4. Leased'
  BY <1>1 DEF CoverInv, CoverTyped, Leased, own
<1>5. Work' \subseteq Work
  BY <1>1 DEF Work, CoverInv, CoverTyped
<1>6. \A w \in Work' : \E v \in Work : w = v \/ (w[2] = v[2] /\ w[1] = NoCaller)
  BY <1>5
<1>7. \A v, w \in Work' : v[2] = w[2] => v = w
  BY <1>5, WorkKept DEF CoverInv
<1>8. QED
  BY <1>1, <1>3, <1>4, <1>6, <1>7, HandedSound DEF own

LEMMA Departs ==
  ASSUME CoverInv, NEW c \in Callers, Depart(c)
  PROVE  /\ lease' \in [Callers -> Keys \union {NoKey}] /\ pc' \in [Callers -> Stages]
         /\ want' \in [Callers -> Keys \union {NoKey}]
         /\ seen' \in [Callers -> Resp \union {NoAnswer}]
         /\ job' \in [Callers -> Job \union {NoJob}]
         /\ answer' \in [Callers -> Answer \union {NoAnswer}]
         /\ Leased' /\ job' = [job EXCEPT ![c] = NoJob]
         /\ \A d \in Callers : seen'[d] \in {seen[d], NoAnswer}
<1>1. lease' = [lease EXCEPT ![c] = NoKey]
  BY DEF Depart, Lease!Give, CoverInv, CoverTyped
<1>2. QED
  BY <1>1, StagesListed DEF Depart, CoverInv, CoverTyped, Leased

LEMMA RespondSound ==
  ASSUME CoverInv, NEW c \in Callers, Respond(c)
  PROVE  CoverInv'
<1>1. Depart(c) /\ UNCHANGED <<now, fetches, file, tmp, strays>>
  BY DEF Respond, disk
<1>2. CoverTyped' /\ Leased'
  BY <1>1, Departs DEF CoverInv, CoverTyped
<1>3. Work' \subseteq Work
  BY <1>1, Departs DEF CoverInv, CoverTyped, Work
<1>4. \A v, w \in Work' : v[2] = w[2] => v = w
  BY <1>3, WorkKept DEF CoverInv
<1>5. tmp' = Restrict(tmp, DOMAIN tmp \ {})
  BY <1>1, AllKept DEF CoverInv
<1>6. \A w \in Work' : \E v \in Work : w = v \/ (w[2] = v[2] /\ w[1] = NoCaller)
  BY <1>3
<1>7. QED
  BY <1>1, <1>2, <1>4, <1>5, <1>6, Departs, HandedSound

LEMMA CancelSound ==
  ASSUME CoverInv, NEW c \in Callers, Cancel(c)
  PROVE  CoverInv'
<1>1. Depart(c) /\ UNCHANGED <<now, fetches, file, tmp>>
  BY DEF Cancel, disk
<1>2. strays' = strays \union ({job[c]} \ {NoJob})
  BY DEF Cancel
<1>3. CoverTyped' /\ Leased'
  BY <1>1, <1>2, Departs DEF CoverInv, CoverTyped
<1>4. \A w \in Work' : \/ w \in Work /\ w # <<c, job[c]>>
                       \/ job[c] # NoJob /\ w = <<NoCaller, job[c]>>
  <2> SUFFICES ASSUME NEW w \in Work'
               PROVE  \/ w \in Work /\ w # <<c, job[c]>>
                      \/ job[c] # NoJob /\ w = <<NoCaller, job[c]>>
    OBVIOUS
  <2>1. CASE \E j \in strays' : w = <<NoCaller, j>>
    <3>1. \/ \E j \in strays : w = <<NoCaller, j>>
          \/ job[c] # NoJob /\ w = <<NoCaller, job[c]>>
      BY <1>2, <2>1
    <3>2. NoCaller # c
      BY CoverArtAssumption
    <3>3. QED
      BY <3>1, <3>2 DEF Work
  <2>2. CASE \E d \in Callers : job'[d] # NoJob /\ w = <<d, job'[d]>>
    <3>1. job' = [job EXCEPT ![c] = NoJob]
      BY <1>1, Departs
    <3>2. PICK d \in Callers : job'[d] # NoJob /\ w = <<d, job'[d]>>
      BY <2>2
    <3>3. d # c /\ job'[d] = job[d]
      BY <3>1, <3>2 DEF CoverInv, CoverTyped
    <3>4. QED
      BY <3>2, <3>3 DEF Work
  <2>3. QED
    BY <2>1, <2>2 DEF Work
<1>5. job[c] # NoJob => <<c, job[c]>> \in Work
  BY DEF Work
<1>6. \A v, w \in Work' : v[2] = w[2] => v = w
  <2> SUFFICES ASSUME NEW v \in Work', NEW w \in Work', v[2] = w[2] PROVE v = w
    OBVIOUS
  <2>1. \A x \in Work : x[2] = job[c] /\ job[c] # NoJob => x = <<c, job[c]>>
    <3> SUFFICES ASSUME NEW x \in Work, x[2] = job[c], job[c] # NoJob PROVE x = <<c, job[c]>>
      OBVIOUS
    <3>1. x[2] = (<<c, job[c]>>)[2]
      OBVIOUS
    <3>2. QED
      BY <1>5, <3>1, WorkKept DEF CoverInv
  <2>2. CASE v \in Work /\ v # <<c, job[c]>> /\ w \in Work /\ w # <<c, job[c]>>
    BY <2>2, WorkKept DEF CoverInv
  <2>3. CASE v = <<NoCaller, job[c]>> /\ w = <<NoCaller, job[c]>>
    BY <2>3
  <2>4. CASE job[c] # NoJob /\ v = <<NoCaller, job[c]>> /\ w \in Work /\ w # <<c, job[c]>>
    BY <2>1, <2>4
  <2>5. CASE job[c] # NoJob /\ w = <<NoCaller, job[c]>> /\ v \in Work /\ v # <<c, job[c]>>
    BY <2>1, <2>5
  <2>6. QED
    BY <1>4, <2>2, <2>3, <2>4, <2>5
<1>7. \A w \in Work' : \E v \in Work : w = v \/ (w[2] = v[2] /\ w[1] = NoCaller)
  BY <1>4, <1>5
<1>8. tmp' = Restrict(tmp, DOMAIN tmp \ {})
  BY <1>1, AllKept DEF CoverInv
<1>9. QED
  BY <1>1, <1>3, <1>6, <1>7, <1>8, Departs, HandedSound

LEMMA StraySound ==
  ASSUME CoverInv, Stray
  PROVE  CoverInv'
<1>1. PICK j \in strays :
        /\ \/ Run(NoCaller, j)
           \/ strays' = strays \ {j} /\ UNCHANGED <<disk, pc, job>>
        /\ UNCHANGED <<now, fetches, lease, own>>
  BY DEF Stray
<1>2. CASE Run(NoCaller, j)
  BY <1>1, <1>2, RunSound DEF AtWork
<1>3. CASE strays' = strays \ {j} /\ UNCHANGED <<disk, pc, job>>
  <2>1. CoverTyped'
    BY <1>1, <1>3 DEF CoverInv, CoverTyped, disk, own
  <2>2. Leased'
    BY <1>1, <1>3 DEF CoverInv, Leased, own
  <2>3. Work' \subseteq Work
    BY <1>3 DEF Work
  <2>4. \A v, w \in Work' : v[2] = w[2] => v = w
    BY <2>3, WorkKept DEF CoverInv
  <2>5. tmp' = Restrict(tmp, DOMAIN tmp \ {})
    BY <1>3, AllKept DEF CoverInv, disk
  <2>6. \A w \in Work' : \E v \in Work : w = v \/ (w[2] = v[2] /\ w[1] = NoCaller)
    BY <2>3
  <2>7. QED
    BY <1>1, <1>3, <2>1, <2>2, <2>4, <2>5, <2>6, HandedSound DEF disk, own
<1>4. QED
  BY <1>1, <1>2, <1>3

LEMMA CrashSound ==
  ASSUME CoverInv, Crash
  PROVE  CoverInv'
<1>1. CoverTyped'
  BY StagesListed DEF CoverInv, CoverTyped, Crash, disk
<1>2. Leased'
  BY CoverArtAssumption DEF Leased, Crash
<1>3. Work' = {}
  BY DEF Work, Crash
<1>4. tmp' = Restrict(tmp, DOMAIN tmp \ {})
  BY AllKept DEF CoverInv, Crash, disk
<1>5. UNCHANGED <<fetches, file>> /\ \A c \in Callers : seen'[c] = NoAnswer
  BY DEF Crash, disk
<1>6. QED
  BY <1>1, <1>2, <1>3, <1>4, <1>5, HandedSound

----------------------------------------------------------------------------
LEMMA InitSound == Init => CoverInv
<1> SUFFICES ASSUME Init PROVE CoverInv
  OBVIOUS
<1>1. DOMAIN tmp = {} /\ tmp = [n \in DOMAIN tmp |-> tmp[n]]
  BY DEF Init
<1>2. CoverTyped
  BY <1>1, CoverArtAssumption, StagesListed DEF Init, CoverTyped
<1>3. Leased
  BY DEF Init, Leased
<1>4. Work = {}
  BY DEF Init, Work
<1>5. InPlay = {}
  BY <1>1, <1>4 DEF Init, InPlay
<1>6. QED
  BY <1>1, <1>2, <1>3, <1>4, <1>5 DEF Init, CoverInv, Numbered, OneWriter, NamedAfter, FilesWhole

LEMMA NextSound == CoverInv /\ [Next]_vars => CoverInv'
<1> SUFFICES ASSUME CoverInv, [Next]_vars PROVE CoverInv'
  OBVIOUS
<1>1. CASE UNCHANGED vars
  BY <1>1 DEF vars, CoverInv, CoverTyped, Leased, Numbered, InPlay, Work, OneWriter, NamedAfter,
              FilesWhole, TmpName
<1>2. ASSUME NEW c \in Callers, Step(c) PROVE CoverInv'
  <2>1. CASE Store(c)
    <3>1. AtWork(c, job[c]) /\ Run(c, job[c]) /\ UNCHANGED <<now, fetches, lease, own>>
      BY <2>1 DEF AtWork, Store, CoverInv, Leased
    <3>2. QED
      BY <3>1, RunSound
  <2>2. CASE \E s \in Statuses : FetchCached(c, s)
    BY <2>2, FetchCachedSound
  <2>3. QED
    BY <1>2, <2>1, <2>2, ReadMetaSound, ReadBodySound, AcquireSound, FetchUncachedSound,
       RespondSound DEF Step
<1>3. QED
  BY <1>1, <1>2, StoreFailsSound, CancelSound, RequestSound, StraySound, CrashSound, TickSound
     DEF Next, Hazard

\* The inductive invariant holds always.
THEOREM CoverSound == Spec => []CoverInv
BY InitSound, NextSound, PTL DEF Spec

\* A file of the cache is one writer's complete output for its key, whatever request
\* was dropped, process died or stray write came late (write_atomic).
THEOREM FilesAreWhole == Spec => []FilesWhole
<1>1. CoverInv => FilesWhole
  BY DEF CoverInv
<1>2. QED
  BY <1>1, CoverSound, PTL

\* One live request at a time fetches a key and stores what it fetched (redirect_layer
\* and ia_passthrough do both under the key's lease).
THEOREM FetchesAreSingle == Spec => []SingleFetch
<1>1. CoverInv => SingleFetch
  BY DEF CoverInv, CoverTyped, Leased, SingleFetch
<1>2. QED
  BY <1>1, CoverSound, PTL

\* Answers of the cache are told apart by the length of their bodies.
BodiesDiffer == \A m, n \in Fetches : Size[m] = Size[n] => m = n

\* Where the answers of the cache differ in the length of their bodies, a hit serves
\* the sidecar and the body of one and the same write (the use of `body_len` in
\* cache_lookup), although the two files are read and replaced separately.
THEOREM HitsArePairs == BodiesDiffer => (Spec => []PairMatches)
<1> SUFFICES ASSUME BodiesDiffer PROVE Spec => []PairMatches
  OBVIOUS
<1>1. Init => PairMatches
  BY DEF Init, PairMatches
<1>2. CoverInv /\ PairMatches /\ [Next]_vars => PairMatches'
  <2> SUFFICES ASSUME CoverInv, PairMatches, [Next]_vars PROVE PairMatches'
    OBVIOUS
  <2>1. ASSUME NEW c \in Callers, ReadBody(c) PROVE PairMatches'
    <3> DEFINE b == file[<<want[c], "bin">>]
    <3>1. CASE Pairs(b, seen[c]) /\ answer' = [answer EXCEPT ![c] = [meta |-> seen[c], body |-> b.resp]]
      <4>1. /\ want[c] \in Keys /\ <<want[c], "bin">> \in Keys \X Kinds
            /\ seen[c] \in Resp /\ seen[c] # NoAnswer
        BY <2>1, OpsListed DEF ReadBody, Miss, Goto, CoverInv, CoverTyped, Leased
      <4>2. b.resp \in Resp /\ b.resp \in InPlay /\ seen[c] \in InPlay
        BY <3>1, <4>1, Referred DEF Pairs, CoverInv, CoverTyped, Content
      <4>3. b.resp.id = seen[c].id
        BY <3>1, <4>1, <4>2 DEF Pairs, Resp, BodiesDiffer
      <4>4. b.resp = seen[c]
        BY <4>2, <4>3 DEF CoverInv, Numbered
      <4>5. QED
        BY <3>1, <4>4 DEF PairMatches, CoverInv, CoverTyped
    <3>2. CASE UNCHANGED answer
      BY <3>2 DEF PairMatches
    <3>3. QED
      BY <2>1, <3>1, <3>2 DEF ReadBody
  <2>2. ASSUME NEW c \in Callers, Depart(c) PROVE PairMatches'
    BY <2>2 DEF Depart, PairMatches, CoverInv, CoverTyped
  <2>3. CASE UNCHANGED answer
    BY <2>3 DEF PairMatches
  <2>4. CASE Crash
    BY <2>4 DEF Crash, PairMatches
  <2>5. CASE UNCHANGED vars
    BY <2>3, <2>5 DEF vars
  <2>6. ASSUME NEW c \in Callers, Step(c) \/ StoreFails(c) \/ Cancel(c) \/ \E k \in Keys : Request(c, k)
        PROVE PairMatches'
    BY <2>1, <2>2, <2>3, <2>6 DEF Step, ReadMeta, Acquire, FetchUncached, FetchCached, Store, Respond,
       StoreFails, Cancel, Request, own
  <2>7. CASE Stray \/ Tick
    BY <2>3, <2>7 DEF Stray, Tick, own
  <2>8. QED
    BY <2>4, <2>5, <2>6, <2>7 DEF Next, Hazard
<1>3. QED
  BY <1>1, <1>2, CoverSound, PTL DEF Spec

----------------------------------------------------------------------------
(* Sums over finite sets.                                                  *)

\* The sum of h over a set, of natural numbers.
Sum(h, S) == SumFunctionOnSet(h, S)
OnNat(h, S) == \A x \in S : h[x] \in Nat

\* Induction over a given set of numbers.
LEMMA NatSet ==
  ASSUME NEW T, 0 \in T, \A n \in Nat : n \in T => n + 1 \in T
  PROVE  Nat \subseteq T
<1> DEFINE left == Nat \ T
<1>1. ASSUME left # {} PROVE FALSE
  <2>1. IsWellFoundedOn(OpToRel(<, Nat), Nat)
    BY NatLessThanWellFounded
  <2>2. PICK x \in left : \A y \in left : ~(<<y, x>> \in OpToRel(<, Nat))
    <3> HIDE DEF left
    <3>1. left \subseteq Nat
      BY DEF left
    <3>2. QED BY <1>1, <2>1, <3>1, WFMin
  <2>3. x # 0 /\ x \in Nat
    OBVIOUS
  <2>4. x - 1 \in Nat /\ x - 1 \notin T
    BY <2>3
  <2>5. <<x - 1, x>> \in OpToRel(<, Nat)
    BY <2>3 DEF OpToRel
  <2>6. QED BY <2>2, <2>4, <2>5
<1>2. QED BY <1>1

\* A set of sets that has {} and, with a finite set, each one of an element more.
LEMMA FiniteSetSet ==
  ASSUME NEW S, IsFiniteSet(S), NEW T, {} \in T,
         \A A \in SUBSET S : \A x \in S \ A : A \in T => A \union {x} \in T
  PROVE  S \in T
<1> DEFINE U == {n \in Nat : \A A \in SUBSET S : Cardinality(A) = n => A \in T}
<1>1. \A A \in SUBSET S : IsFiniteSet(A) /\ Cardinality(A) \in Nat
  BY FS_Subset, FS_CardinalityType
<1>2. 0 \in U
  BY <1>1, FS_EmptySet
<1>3. ASSUME NEW n \in Nat, n \in U PROVE n + 1 \in U
  <2>1. SUFFICES ASSUME NEW A \in SUBSET S, Cardinality(A) = n + 1 PROVE A \in T
    OBVIOUS
  <2>2. A # {}
    BY <2>1, FS_EmptySet
  <2>3. PICK x : x \in A
    BY <2>2
  <2>4. Cardinality(A \ {x}) = n
    <3>1. IsFiniteSet(A)
      BY <1>1
    <3>2. Cardinality(A \ {x}) = Cardinality(A) - 1
      BY <2>3, <3>1, FS_RemoveElement
    <3>3. QED BY <2>1, <3>2
  <2>5. A \ {x} \in T /\ A \ {x} \in SUBSET S /\ x \in S \ (A \ {x})
    BY <1>3, <2>1, <2>3, <2>4
  <2>6. (A \ {x}) \union {x} = A
    BY <2>3
  <2>7. QED BY <2>5, <2>6
<1>4. Nat \subseteq U
  <2> HIDE DEF U
  <2> QED BY <1>2, <1>3, NatSet
<1>5. QED BY <1>1, <1>4

Pick(s) == CHOOSE x \in s : TRUE
\* f sums h up over every subset of S.
Sums(f, h, D) == f = [s \in D |-> IF s = {} THEN 0 ELSE h[Pick(s)] + f[s \ {Pick(s)}]]

UpTo(n, S) == {s \in SUBSET S : Cardinality(s) <= n}

LEMMA Parts ==
  ASSUME NEW S, IsFiniteSet(S)
  PROVE  /\ \A s \in SUBSET S : IsFiniteSet(s) /\ Cardinality(s) \in Nat
         /\ \A s \in SUBSET S : s # {} => /\ Pick(s) \in s /\ s \ {Pick(s)} \in SUBSET S
                                          /\ Cardinality(s \ {Pick(s)}) = Cardinality(s) - 1
         /\ \A s \in SUBSET S : Cardinality(s) = 0 <=> s = {}
<1>1. \A s \in SUBSET S : IsFiniteSet(s) /\ Cardinality(s) \in Nat
  BY FS_Subset, FS_CardinalityType
<1>2. ASSUME NEW s \in SUBSET S, s # {} PROVE Pick(s) \in s
  BY <1>2 DEF Pick
<1>3. QED BY <1>1, <1>2, FS_RemoveElement, FS_EmptySet

LEMMA SumsExist ==
  ASSUME NEW S, IsFiniteSet(S), NEW h
  PROVE  \E f : Sums(f, h, SUBSET S)
<1> DEFINE T == {n \in Nat : \E f : Sums(f, h, UpTo(n, S))}
<1>1. 0 \in T
  <2> DEFINE f == [s \in UpTo(0, S) |-> 0]
  <2>1. \A s \in UpTo(0, S) : s = {}
    BY Parts DEF UpTo
  <2>2. f = [s \in UpTo(0, S) |-> IF s = {} THEN 0 ELSE h[Pick(s)] + f[s \ {Pick(s)}]]
    BY <2>1
  <2> HIDE DEF f
  <2>3. Sums(f, h, UpTo(0, S))
    BY <2>2 DEF Sums
  <2>4. QED BY <2>3
<1>2. ASSUME NEW n \in Nat, n \in T PROVE n + 1 \in T
  <2>1. PICK f : Sums(f, h, UpTo(n, S))
    BY <1>2
  <2>2. f = [s \in UpTo(n, S) |-> IF s = {} THEN 0 ELSE h[Pick(s)] + f[s \ {Pick(s)}]]
    BY <2>1 DEF Sums
  <2> DEFINE k == [s \in UpTo(n + 1, S) |-> IF s = {} THEN 0 ELSE h[Pick(s)] + f[s \ {Pick(s)}]]
  <2>3. ASSUME NEW s \in UpTo(n, S) PROVE k[s] = f[s]
    <3>1. s \in UpTo(n + 1, S)
      BY Parts DEF UpTo
    <3>2. QED BY <2>2, <3>1
  <2>4. ASSUME NEW s \in UpTo(n + 1, S), s # {}
        PROVE  k[s \ {Pick(s)}] = f[s \ {Pick(s)}]
    <3>1. s \ {Pick(s)} \in UpTo(n, S)
      BY <2>4, Parts DEF UpTo
    <3> HIDE DEF k
    <3>2. QED BY <2>3, <3>1
  <2>5. k = [s \in UpTo(n + 1, S) |-> IF s = {} THEN 0 ELSE h[Pick(s)] + k[s \ {Pick(s)}]]
    BY <2>4
  <2> HIDE DEF k
  <2>6. Sums(k, h, UpTo(n + 1, S))
    BY <2>5 DEF Sums
  <2>7. QED BY <2>6
<1>3. Cardinality(S) \in T
  <2> HIDE DEF T
  <2>1. Cardinality(S) \in Nat
    BY FS_CardinalityType
  <2>2. QED BY <1>1, <1>2, <2>1, NatSet
<1>4. UpTo(Cardinality(S), S) = SUBSET S
  BY FS_Subset DEF UpTo
<1>5. QED BY <1>3, <1>4

LEMMA SumRuns ==
  ASSUME NEW S, IsFiniteSet(S), NEW h
  PROVE  \E f : Sums(f, h, SUBSET S) /\ SumFunctionOnSet(h, S) = f[S]
<1> DEFINE iter[s \in SUBSET S] ==
             IF s = {} THEN 0 ELSE LET x == Pick(s) IN h[x] + iter[s \ {x}]
<1>1. SumFunctionOnSet(h, S) = iter[S]
  BY DEF SumFunctionOnSet, FoldFunctionOnSet, MapThenFoldSet, Pick
<1>2. PICK f : Sums(f, h, SUBSET S)
  BY SumsExist
<1>3. f = [s \in SUBSET S |-> IF s = {} THEN 0 ELSE h[Pick(s)] + f[s \ {Pick(s)}]]
  BY <1>2 DEF Sums
<1>4. iter = [s \in SUBSET S |-> IF s = {} THEN 0 ELSE h[Pick(s)] + iter[s \ {Pick(s)}]]
  BY <1>3
<1> HIDE DEF iter
<1>5. Sums(iter, h, SUBSET S)
  BY <1>4 DEF Sums
<1>6. QED BY <1>1, <1>5

Agree(f, g, A) == \A s \in SUBSET A : g[s] = f[s]

LEMMA SumsAgree ==
  ASSUME NEW S, IsFiniteSet(S), NEW A \in SUBSET S, NEW h,
         NEW f, Sums(f, h, SUBSET S), NEW g, Sums(g, h, SUBSET A)
  PROVE  Agree(f, g, A)
<1> DEFINE U == {n \in Nat : \A s \in SUBSET A : Cardinality(s) = n => g[s] = f[s]}
<1>1. f = [s \in SUBSET S |-> IF s = {} THEN 0 ELSE h[Pick(s)] + f[s \ {Pick(s)}]]
  BY DEF Sums
<1>2. g = [s \in SUBSET A |-> IF s = {} THEN 0 ELSE h[Pick(s)] + g[s \ {Pick(s)}]]
  BY DEF Sums
<1>3. \A s \in SUBSET A : s \in SUBSET S
  OBVIOUS
<1>4. 0 \in U
  BY <1>1, <1>2, <1>3, Parts
<1>5. ASSUME NEW n \in Nat, n \in U PROVE n + 1 \in U
  <2>1. SUFFICES ASSUME NEW s \in SUBSET A, Cardinality(s) = n + 1 PROVE g[s] = f[s]
    OBVIOUS
  <2>2. s # {} /\ Cardinality(s \ {Pick(s)}) = n /\ s \ {Pick(s)} \in SUBSET A
    BY <1>3, <2>1, Parts
  <2>3. g[s \ {Pick(s)}] = f[s \ {Pick(s)}]
    BY <1>5, <2>2
  <2>4. QED BY <1>1, <1>2, <1>3, <2>2, <2>3
<1>6. Nat \subseteq U
  <2> HIDE DEF U
  <2> QED BY <1>4, <1>5, NatSet
<1>7. QED BY <1>3, <1>6, Parts DEF Agree

LEMMA SumStep ==
  ASSUME NEW S, IsFiniteSet(S), NEW h
  PROVE  /\ S = {} => Sum(h, S) = 0
         /\ S # {} => Sum(h, S) = h[Pick(S)] + Sum(h, S \ {Pick(S)})
<1>1. PICK f : Sums(f, h, SUBSET S) /\ Sum(h, S) = f[S]
  BY SumRuns DEF Sum
<1>2. f = [s \in SUBSET S |-> IF s = {} THEN 0 ELSE h[Pick(s)] + f[s \ {Pick(s)}]]
  BY <1>1 DEF Sums
<1>3. S \in SUBSET S
  OBVIOUS
<1>4. ASSUME S # {} PROVE f[S \ {Pick(S)}] = Sum(h, S \ {Pick(S)})
  <2> DEFINE A == S \ {Pick(S)}
  <2>1. A \in SUBSET S /\ IsFiniteSet(A) /\ A \in SUBSET A
    BY Parts
  <2> HIDE DEF A
  <2>2. PICK g : Sums(g, h, SUBSET A) /\ Sum(h, A) = g[A]
    BY <2>1, SumRuns DEF Sum
  <2>3. g[A] = f[A]
    <3>1. Agree(f, g, A)
      BY <1>1, <2>1, <2>2, SumsAgree, Zenon
    <3>2. QED BY <2>1, <3>1 DEF Agree
  <2>4. QED BY <2>2, <2>3 DEF A
<1>5. QED BY <1>1, <1>2, <1>3, <1>4

LEMMA SumTyped ==
  ASSUME NEW S, IsFiniteSet(S), NEW h, OnNat(h, S)
  PROVE  Sum(h, S) \in Nat
<1> DEFINE U == {n \in Nat : \A A \in SUBSET S : Cardinality(A) = n => Sum(h, A) \in Nat}
<1>1. \A A \in SUBSET S : A = {} => Sum(h, A) = 0
  BY SumStep, Parts
<1>2. 0 \in U
  BY <1>1, Parts
<1>3. ASSUME NEW n \in Nat, n \in U PROVE n + 1 \in U
  <2>1. SUFFICES ASSUME NEW A \in SUBSET S, Cardinality(A) = n + 1 PROVE Sum(h, A) \in Nat
    OBVIOUS
  <2> DEFINE B == A \ {Pick(A)}
  <2>2. A # {} /\ IsFiniteSet(A) /\ Pick(A) \in A /\ Cardinality(B) = n /\ B \in SUBSET S
    BY <2>1, Parts
  <2>3. Sum(h, B) \in Nat
    BY <1>3, <2>2
  <2>4. Sum(h, A) = h[Pick(A)] + Sum(h, B)
    BY <2>2, SumStep
  <2>5. h[Pick(A)] \in Nat
    BY <2>2 DEF OnNat
  <2>6. QED BY <2>3, <2>4, <2>5
<1>4. Nat \subseteq U
  <2> HIDE DEF U
  <2> QED BY <1>2, <1>3, NatSet
<1>5. QED BY <1>4, Parts

LEMMA SumAdd ==
  ASSUME NEW S, IsFiniteSet(S), NEW h, OnNat(h, S)
  PROVE  \A A \in SUBSET S : \A x \in S \ A : Sum(h, A \union {x}) = h[x] + Sum(h, A)
<1> DEFINE Adds(A, x) == Sum(h, A \union {x}) = h[x] + Sum(h, A)
           U == {n \in Nat : \A A \in SUBSET S : \A x \in S \ A : Cardinality(A) = n => Adds(A, x)}
<1>1. \A A \in SUBSET S : Sum(h, A) \in Nat
  <2> TAKE A \in SUBSET S
  <2>1. IsFiniteSet(A) /\ OnNat(h, A)
    BY Parts DEF OnNat
  <2>2. QED BY <2>1, SumTyped
<1>2. ASSUME NEW A \in SUBSET S, NEW x \in S \ A, NEW n \in Nat, Cardinality(A) = n,
             n # 0 => n - 1 \in U
      PROVE  Adds(A, x)
  <2> DEFINE B == A \union {x}
             y == Pick(B)
  <2>1. B \in SUBSET S /\ IsFiniteSet(B) /\ B # {} /\ y \in B
    <3>1. B \in SUBSET S /\ B # {}
      OBVIOUS
    <3> HIDE DEF B
    <3>2. QED BY <3>1, Parts
  <2>2. Sum(h, B) = h[y] + Sum(h, B \ {y})
    BY <2>1, SumStep
  <2> HIDE DEF y
  <2>3. CASE y = x
    <3>1. B \ {y} = A
      BY <1>2, <2>3
    <3>2. QED BY <2>2, <2>3, <3>1
  <2>4. CASE y # x
    <3> DEFINE E == A \ {y}
    <3>1. /\ y \in A /\ E \in SUBSET S /\ B \ {y} = E \union {x} /\ E \union {y} = A
          /\ x \in S \ E /\ y \in S \ E
      BY <1>2, <2>1, <2>4
    <3>2. IsFiniteSet(A)
      BY Parts
    <3>3. Cardinality(E) = n - 1 /\ n # 0
      BY <1>2, <3>1, <3>2, FS_RemoveElement, FS_EmptySet
    <3>4. Adds(E, x) /\ Adds(E, y)
      BY <1>2, <3>1, <3>3
    <3>5. Sum(h, B \ {y}) = h[x] + Sum(h, E) /\ Sum(h, A) = h[y] + Sum(h, E)
      BY <3>1, <3>4
    <3>6. Sum(h, E) \in Nat /\ h[x] \in Nat /\ h[y] \in Nat
      BY <1>1, <3>1 DEF OnNat
    <3>7. QED BY <2>2, <3>5, <3>6
  <2>5. QED BY <2>3, <2>4
<1> HIDE DEF Adds
<1>3. 0 \in U
  BY <1>2
<1>4. ASSUME NEW n \in Nat, n \in U PROVE n + 1 \in U
  <2>1. n + 1 # 0 /\ (n + 1) - 1 = n
    OBVIOUS
  <2> HIDE DEF U
  <2>2. \A A \in SUBSET S : \A x \in S \ A : Cardinality(A) = n + 1 => Adds(A, x)
    BY <1>2, <1>4, <2>1
  <2>3. QED BY <2>2 DEF U
<1>5. Nat \subseteq U
  <2> HIDE DEF U
  <2> QED BY <1>3, <1>4, NatSet
<1>6. ASSUME NEW A \in SUBSET S, NEW x \in S \ A PROVE Adds(A, x)
  <2>1. Cardinality(A) \in U
    BY <1>5, Parts
  <2>2. QED BY <2>1
<1>7. QED BY <1>6 DEF Adds

\* A set's sum is a subset's and the rest's.
LEMMA SumSplit ==
  ASSUME NEW S, IsFiniteSet(S), NEW h, OnNat(h, S), NEW B \in SUBSET S
  PROVE  Sum(h, S) = Sum(h, B) + Sum(h, S \ B)
<1> DEFINE C == S \ B
           T == {A \in SUBSET C : Sum(h, B \union A) = Sum(h, B) + Sum(h, A)}
<1>1. \A A \in SUBSET S : Sum(h, A) \in Nat
  <2> TAKE A \in SUBSET S
  <2>1. IsFiniteSet(A) /\ OnNat(h, A)
    BY Parts DEF OnNat
  <2>2. QED BY <2>1, SumTyped
<1>2. IsFiniteSet(C)
  BY Parts
<1>3. {} \in T
  <2>1. Sum(h, {}) = 0
    BY SumStep, FS_EmptySet
  <2>2. B \union {} = B
    OBVIOUS
  <2>3. QED BY <1>1, <2>1, <2>2
<1>4. ASSUME NEW A \in SUBSET C, NEW x \in C \ A, A \in T PROVE A \union {x} \in T
  <2>1. A \in SUBSET S /\ x \in S \ A /\ B \union A \in SUBSET S /\ x \in S \ (B \union A)
    OBVIOUS
  <2>2. Sum(h, A \union {x}) = h[x] + Sum(h, A)
    BY <2>1, SumAdd
  <2>3. Sum(h, (B \union A) \union {x}) = h[x] + Sum(h, B \union A)
    BY <2>1, SumAdd
  <2>4. (B \union A) \union {x} = B \union (A \union {x}) /\ A \union {x} \in SUBSET C
    OBVIOUS
  <2>5. h[x] \in Nat /\ Sum(h, A) \in Nat /\ Sum(h, B) \in Nat /\ Sum(h, B \union A) = Sum(h, B) + Sum(h, A)
    BY <1>1, <1>4, <2>1 DEF OnNat
  <2>6. Sum(h, B \union (A \union {x})) = Sum(h, B) + Sum(h, A \union {x})
    <3>1. Sum(h, B \union (A \union {x})) = h[x] + Sum(h, B \union A)
      BY <2>3, <2>4, Zenon
    <3>2. QED BY <2>2, <2>5, <3>1
  <2>7. QED BY <2>4, <2>6
<1>5. C \in T
  <2> HIDE DEF T, C
  <2> QED BY <1>2, <1>3, <1>4, FiniteSetSet
<1>6. B \union C = S
  OBVIOUS
<1>7. QED BY <1>5, <1>6

\* A sum of numbers that are nothing outside of A, and no more than others there.
LEMMA SumBelow ==
  ASSUME NEW A, IsFiniteSet(A), NEW h, OnNat(h, A),
         NEW B, IsFiniteSet(B), NEW g, OnNat(g, B),
         \A x \in B : g[x] # 0 => x \in A /\ g[x] <= h[x]
  PROVE  Sum(g, B) <= Sum(h, A)
<1> DEFINE T == {E \in SUBSET B : Sum(g, E) <= Sum(h, E \intersect A)}
<1>1. \A E \in SUBSET B : Sum(g, E) \in Nat
  <2> TAKE E \in SUBSET B
  <2>1. IsFiniteSet(E) /\ OnNat(g, E)
    BY Parts DEF OnNat
  <2>2. QED BY <2>1, SumTyped
<1>2. \A E \in SUBSET A : Sum(h, E) \in Nat
  <2> TAKE E \in SUBSET A
  <2>1. IsFiniteSet(E) /\ OnNat(h, E)
    BY Parts DEF OnNat
  <2>2. QED BY <2>1, SumTyped
<1>3. {} \in T
  <2>1. Sum(g, {}) = 0 /\ {} \intersect A = {} /\ Sum(h, {}) = 0
    BY SumStep, FS_EmptySet
  <2>2. QED BY <2>1
<1>4. ASSUME NEW E \in SUBSET B, NEW x \in B \ E, E \in T PROVE E \union {x} \in T
  <2>1. Sum(g, E \union {x}) = g[x] + Sum(g, E)
    BY SumAdd
  <2>2. g[x] \in Nat /\ Sum(g, E) \in Nat /\ Sum(h, E \intersect A) \in Nat /\ E \union {x} \in SUBSET B
    BY <1>1, <1>2 DEF OnNat
  <2>3. CASE x \in A
    <3>1. (E \union {x}) \intersect A = (E \intersect A) \union {x} /\ x \in A \ (E \intersect A)
      BY <2>3
    <3>2. Sum(h, (E \intersect A) \union {x}) = h[x] + Sum(h, E \intersect A)
      BY <3>1, SumAdd
    <3>3. g[x] <= h[x] /\ h[x] \in Nat
      BY <2>2, <2>3 DEF OnNat
    <3>4. Sum(g, E) <= Sum(h, E \intersect A)
      BY <1>4
    <3>5. Sum(g, E \union {x}) <= Sum(h, (E \union {x}) \intersect A)
      <4>1. Sum(h, (E \union {x}) \intersect A) = h[x] + Sum(h, E \intersect A)
        BY <3>1, <3>2, Zenon
      <4>2. QED BY <2>1, <2>2, <3>3, <3>4, <4>1
    <3>6. QED BY <2>2, <3>5
  <2>4. CASE x \notin A
    <3>1. g[x] = 0 /\ (E \union {x}) \intersect A = E \intersect A
      BY <2>4
    <3>2. QED BY <1>4, <2>1, <2>2, <3>1
  <2>5. QED BY <2>3, <2>4
<1>5. B \in T
  <2> HIDE DEF T
  <2> QED BY <1>3, <1>4, FiniteSetSet
<1>6. Sum(h, A) = Sum(h, B \intersect A) + Sum(h, A \ (B \intersect A))
  BY SumSplit
<1>7. QED BY <1>1, <1>2, <1>5, <1>6

----------------------------------------------------------------------------
(* The budget.  While nobody is about to scan the directory, what is in it *)
(* and not about to be removed is within the budget: whoever writes scans  *)
(* afterwards, and the last one to scan sees no temp file.                 *)

\* c has an eviction ahead of it.
Owes(c) == job[c] # NoJob /\ job[c].op # "remove"
Doomed(f) == \E c \in Callers : job[c] # NoJob /\ job[c].op = "remove" /\ f \in job[c].victims
Spared(f) == IF Doomed(f) THEN 0 ELSE Held(f)
Rest == [k \in Keys |-> Spared(<<k, "bin">>) + Spared(<<k, "json">>)]

Attended ==
  /\ strays = {}
  /\ \A c \in Callers : pc[c] # "storing" => job[c] = NoJob
  /\ \A n \in DOMAIN tmp :
       \E c \in Callers : job[c] # NoJob /\ job[c].op \in {"fill", "rename"} /\ n = TmpName(job[c])

BudgetInv ==
  calm => Attended /\ ((\A c \in Callers : ~Owes(c)) => Sum(Rest, Keys) <= MaxBytes)

LEMMA HeldTyped ==
  CoverTyped => \A k \in Keys, d \in Kinds : Held(<<k, d>>) \in Nat /\ Spared(<<k, d>>) \in Nat
<1> SUFFICES ASSUME CoverTyped, NEW k \in Keys, NEW d \in Kinds
             PROVE  Held(<<k, d>>) \in Nat /\ Spared(<<k, d>>) \in Nat
  OBVIOUS
<1>1. ASSUME file[<<k, d>>] # NoFile PROVE file[<<k, d>>].resp.id \in Fetches
  BY <1>1 DEF CoverTyped, Content, Resp
<1>2. QED
  BY <1>1, CoverArtAssumption DEF Held, Bytes, Spared

LEMMA RestTyped == CoverTyped => OnNat(Rest, Keys)
BY HeldTyped, OpsListed DEF OnNat, Rest

\* Where each key keeps no more, all of them keep no more.
LEMMA RestShrinks ==
  ASSUME CoverTyped, CoverTyped', Sum(Rest, Keys) <= MaxBytes,
         \A k \in Keys, d \in Kinds : Spared(<<k, d>>)' <= Spared(<<k, d>>)
  PROVE  (Sum(Rest, Keys) <= MaxBytes)'
<1> DEFINE g == Rest'
<1>1. IsFiniteSet(Keys) /\ MaxBytes \in Nat /\ OnNat(Rest, Keys) /\ OnNat(g, Keys)
  <2>1. CoverTyped' => OnNat(Rest, Keys)'
    BY RestTyped, PTL
  <2>2. QED
    BY <2>1, CoverArtAssumption, RestTyped
<1>a. \A k \in Keys, d \in Kinds : Spared(<<k, d>>)' \in Nat /\ Spared(<<k, d>>) \in Nat
  <2>1. CoverTyped' => (\A k \in Keys, d \in Kinds : Held(<<k, d>>) \in Nat /\ Spared(<<k, d>>) \in Nat)'
    BY HeldTyped, PTL
  <2>2. QED
    BY <2>1, HeldTyped
<1>2. ASSUME NEW k \in Keys PROVE g[k] <= Rest[k]
  <2>1. /\ g[k] = Spared(<<k, "bin">>)' + Spared(<<k, "json">>)'
        /\ Rest[k] = Spared(<<k, "bin">>) + Spared(<<k, "json">>)
    BY DEF Rest
  <2>2. /\ Spared(<<k, "bin">>)' \in Nat /\ Spared(<<k, "json">>)' \in Nat
        /\ Spared(<<k, "bin">>) \in Nat /\ Spared(<<k, "json">>) \in Nat
    BY <1>a, OpsListed
  <2>3. Spared(<<k, "bin">>)' <= Spared(<<k, "bin">>) /\ Spared(<<k, "json">>)' <= Spared(<<k, "json">>)
    BY OpsListed
  <2>4. QED
    BY <2>1, <2>2, <2>3
<1> HIDE DEF g
<1>3. Sum(g, Keys) <= Sum(Rest, Keys)
  BY <1>1, <1>2, SumBelow
<1>4. Sum(g, Keys) \in Nat /\ Sum(Rest, Keys) \in Nat
  BY <1>1, SumTyped
<1>5. Sum(g, Keys) <= MaxBytes
  BY <1>1, <1>3, <1>4
<1>6. QED
  BY <1>5 DEF g

\* A step that leaves the directory and its operations alone.
LEMMA BudgetQuiet ==
  ASSUME BudgetInv, UNCHANGED <<file, tmp, job, strays, calm>>,
         \A c \in Callers : pc'[c] # "storing" => pc[c] # "storing" \/ job[c] = NoJob
  PROVE  BudgetInv'
<1>1. Rest' = Rest
  BY DEF Rest, Spared, Doomed, Held
<1>2. \A c \in Callers : Owes(c)' = Owes(c)
  BY DEF Owes
<1>3. calm => Attended'
  BY DEF BudgetInv, Attended, TmpName
<1>4. QED
  BY <1>1, <1>2, <1>3 DEF BudgetInv

\* A step of c's own operation j: the others' are what they were.
LEMMA AttendedNext ==
  ASSUME CoverTyped, Attended, NEW c \in Callers, pc[c] = "storing", NEW next,
         job' = [job EXCEPT ![c] = next],
         pc' = [pc EXCEPT ![c] = IF next = NoJob THEN "stored" ELSE @], UNCHANGED strays,
         \A n \in DOMAIN tmp' :
           \/ n \in DOMAIN tmp /\ n # TmpName(job[c])
           \/ next # NoJob /\ next.op \in {"fill", "rename"} /\ n = TmpName(next)
           \/ n \in DOMAIN tmp /\ job[c].op \notin {"fill", "rename"}
  PROVE  Attended'
<1>1. \A d \in Callers : job'[d] = IF d = c THEN next ELSE job[d]
  BY DEF CoverTyped
<1>2. \A d \in Callers : pc'[d] # "storing" => job'[d] = NoJob
  BY <1>1 DEF CoverTyped, Attended
<1>3. ASSUME NEW n \in DOMAIN tmp'
      PROVE  \E d \in Callers : job'[d] # NoJob /\ job'[d].op \in {"fill", "rename"} /\ n = TmpName(job'[d])
  <2>1. CASE next # NoJob /\ next.op \in {"fill", "rename"} /\ n = TmpName(next)
    BY <1>1, <2>1
  <2>2. CASE n \in DOMAIN tmp /\ (n # TmpName(job[c]) \/ job[c].op \notin {"fill", "rename"})
    <3>1. PICK d \in Callers : job[d] # NoJob /\ job[d].op \in {"fill", "rename"} /\ n = TmpName(job[d])
      BY <2>2 DEF Attended
    <3>2. d # c
      BY <2>2, <3>1
    <3>3. QED
      BY <1>1, <3>1, <3>2
  <2>3. QED
    BY <1>3, <2>1, <2>2
<1>4. QED
  BY <1>2, <1>3 DEF Attended, TmpName

\* A write goes on, and its caller still has an eviction ahead of it.
LEMMA WriteKeeps ==
  ASSUME CoverInv, BudgetInv, calm, UNCHANGED calm, NEW c \in Callers, pc[c] = "storing",
         Open(c, job[c]) \/ Fill(c, job[c]) \/ Rename(c, job[c])
  PROVE  BudgetInv'
<1> DEFINE j == job[c]
<1>1. j \in Job /\ j # NoJob /\ c # NoCaller /\ CoverTyped /\ Attended
  BY CoverArtAssumption DEF CoverInv, CoverTyped, Leased, BudgetInv
<1>2. CASE Open(c, j)
  <2> DEFINE next == [j EXCEPT !.op = "fill"]
  <2>1. next \in Job /\ next.op = "fill" /\ TmpName(next) = TmpName(j) /\ next # NoJob
    BY <1>1, OpsListed, Staged, CoverArtAssumption DEF TmpName
  <2>2. /\ job' = [job EXCEPT ![c] = next]
        /\ pc' = [pc EXCEPT ![c] = IF next = NoJob THEN "stored" ELSE @] /\ UNCHANGED strays
    BY <1>1, <1>2, <2>1 DEF Open, Continue
  <2>3. DOMAIN tmp' = DOMAIN tmp \union {TmpName(j)} /\ j.op = "open"
    BY <1>2 DEF Open
  <2> HIDE DEF next
  <2>4. Attended'
    BY <1>1, <2>1, <2>2, <2>3, AttendedNext
  <2>5. Owes(c)'
    BY <2>1, <2>2 DEF Owes, CoverInv, CoverTyped
  <2>6. QED
    BY <2>4, <2>5 DEF BudgetInv
<1>3. CASE Fill(c, j)
  <2> DEFINE next == [j EXCEPT !.op = "rename"]
  <2>1. /\ next \in Job /\ next.op = "rename" /\ TmpName(next) = TmpName(j) /\ next # NoJob
        /\ Following(j) = next
    BY <1>1, <1>3, OpsListed, Staged, CoverArtAssumption DEF TmpName, Following, Fill
  <2>2. /\ job' = [job EXCEPT ![c] = next]
        /\ pc' = [pc EXCEPT ![c] = IF next = NoJob THEN "stored" ELSE @] /\ UNCHANGED strays
    BY <1>1, <1>3, <2>1 DEF Fill, Continue
  <2>3. DOMAIN tmp' = DOMAIN tmp
    BY <1>3 DEF Fill
  <2> HIDE DEF next
  <2>4. Attended'
    BY <1>1, <2>1, <2>2, <2>3, AttendedNext
  <2>5. Owes(c)'
    BY <2>1, <2>2 DEF Owes, CoverInv, CoverTyped
  <2>6. QED
    BY <2>4, <2>5 DEF BudgetInv
<1>4. CASE Rename(c, j)
  <2> DEFINE next == Following(j)
  <2>1. next \in Job /\ next.op \in {"open", "scan"} /\ next # NoJob
    <3>1. CASE j.kind = "bin"
      <4> DEFINE i == [j EXCEPT !.op = "open", !.kind = "json"]
      <4>1. next = i
        BY <1>4, <3>1 DEF Following, Rename
      <4>2. i \in Job /\ i.op = "open"
        <5>1. "open" \in Ops /\ "json" \in Kinds
          BY OpsListed
        <5>2. QED
          BY <1>1, <5>1 DEF Job
      <4> HIDE DEF i, next
      <4>3. QED
        BY <4>1, <4>2, CoverArtAssumption
    <3>2. CASE j.kind # "bin"
      <4> DEFINE i == [j EXCEPT !.op = "scan"]
      <4>1. next = i
        BY <1>4, <3>2 DEF Following, Rename
      <4>2. i \in Job /\ i.op = "scan"
        BY <1>1, OpsListed, Staged
      <4> HIDE DEF i, next
      <4>3. QED
        BY <4>1, <4>2, CoverArtAssumption
    <3>3. QED
      BY <3>1, <3>2
  <2>2. /\ job' = [job EXCEPT ![c] = next]
        /\ pc' = [pc EXCEPT ![c] = IF next = NoJob THEN "stored" ELSE @] /\ UNCHANGED strays
    BY <1>1, <1>4 DEF Rename, Continue
  <2>3. DOMAIN tmp' = DOMAIN tmp \ {TmpName(j)}
    BY <1>4 DEF Rename, Restrict
  <2> HIDE DEF next
  <2>4. Attended'
    BY <1>1, <2>2, <2>3, AttendedNext
  <2>5. Owes(c)'
    BY <2>1, <2>2 DEF Owes, CoverInv, CoverTyped
  <2>6. QED
    BY <2>4, <2>5 DEF BudgetInv
<1>5. QED
  BY <1>2, <1>3, <1>4

\* A file is removed: no key keeps more than before.
LEMMA RemoveKeeps ==
  ASSUME CoverInv, CoverTyped', BudgetInv, calm, UNCHANGED calm, NEW c \in Callers, pc[c] = "storing",
         Remove(c, job[c])
  PROVE  BudgetInv'
<1> DEFINE j == job[c]
<1>1. j \in Job /\ j # NoJob /\ c # NoCaller /\ CoverTyped /\ Attended /\ j.op = "remove"
  BY CoverArtAssumption DEF CoverInv, CoverTyped, Leased, BudgetInv, Remove
<1>2. PICK f \in j.victims :
        /\ file' = [file EXCEPT ![f] = NoFile]
        /\ Continue(c, j, IF j.victims = {f} THEN NoJob ELSE [j EXCEPT !.victims = @ \ {f}])
  BY DEF Remove
<1> DEFINE m == [j EXCEPT !.victims = @ \ {f}]
           next == IF j.victims = {f} THEN NoJob ELSE m
<1>3. m \in Job /\ m # NoJob /\ m.op = "remove" /\ m.victims = j.victims \ {f}
  <2>1. m \in Job /\ m.op = "remove" /\ m.victims = j.victims \ {f}
    BY <1>1 DEF Job
  <2> HIDE DEF m
  <2>2. QED
    BY <2>1, CoverArtAssumption
<1>4. Following(j) = NoJob
  BY <1>1 DEF Following
<1> HIDE DEF m
<1>5. /\ job' = [job EXCEPT ![c] = next]
      /\ pc' = [pc EXCEPT ![c] = IF next = NoJob THEN "stored" ELSE @] /\ UNCHANGED strays
  BY <1>1, <1>2, <1>3, <1>4 DEF Continue, m
<1>6. UNCHANGED tmp
  BY DEF Remove
<1>7. Attended'
  <2> HIDE DEF next
  <2>1. QED
    BY <1>1, <1>5, <1>6, AttendedNext
<1>8. \A d \in Callers : job'[d] = IF d = c THEN next ELSE job[d]
  BY <1>5 DEF CoverInv, CoverTyped
<1>9. ASSUME \A d \in Callers : ~Owes(d)' PROVE (Sum(Rest, Keys) <= MaxBytes)'
  <2>1. \A d \in Callers : ~Owes(d)
    BY <1>1, <1>8, <1>9 DEF Owes
  <2>2. Sum(Rest, Keys) <= MaxBytes
    BY <2>1 DEF BudgetInv
  <2>3. ASSUME NEW k \in Keys, NEW d \in Kinds PROVE Spared(<<k, d>>)' <= Spared(<<k, d>>)
    <3> DEFINE g == <<k, d>>
    <3>1. Spared(g) \in Nat /\ Held(g) \in Nat
      BY <1>1, HeldTyped
    <3>2. CASE Doomed(g)'
      BY <3>1, <3>2 DEF Spared
    <3>3. CASE ~Doomed(g)' /\ g = f
      <4>1. Held(g)' = 0
        BY <1>1, <1>2, <3>3 DEF Held, CoverTyped
      <4>2. QED
        BY <3>1, <3>3, <4>1 DEF Spared
    <3>4. CASE ~Doomed(g)' /\ g # f
      <4>1. ~Doomed(g)
        <5> SUFFICES ASSUME NEW e \in Callers, job[e] # NoJob, job[e].op = "remove", g \in job[e].victims
                     PROVE  Doomed(g)'
          BY <3>4 DEF Doomed
        <5>1. CASE e # c
          BY <1>8, <5>1 DEF Doomed
        <5>2. CASE e = c
          <6>1. next = m /\ g \in m.victims
            BY <1>3, <3>4, <5>2
          <6>2. QED
            BY <1>3, <1>8, <6>1 DEF Doomed
        <5>3. QED
          BY <5>1, <5>2
      <4>2. Held(g)' = Held(g)
        BY <1>1, <1>2, <3>4 DEF Held, CoverTyped
      <4>3. QED
        BY <3>1, <3>4, <4>1, <4>2 DEF Spared
    <3>5. QED
      BY <3>2, <3>3, <3>4
  <2>4. QED
    BY <1>1, <2>2, <2>3, RestShrinks
<1>10. QED
  BY <1>7, <1>9 DEF BudgetInv

\* With no temp file there are only the stems of keys.
LEMMA StemsOfKeys ==
  ASSUME CoverTyped, DOMAIN tmp = {}
  PROVE  /\ Stems \subseteq Keys /\ IsFiniteSet(Stems)
         /\ \A k \in Stems : StemBytes[k] = Held(<<k, "bin">>) + Held(<<k, "json">>)
         /\ OnNat(StemBytes, Stems)
         /\ Total = Sum(StemBytes, Stems)
         /\ \A k \in Keys \ Stems, d \in Kinds : Held(<<k, d>>) = 0
<1>1. Stems \subseteq Keys
  BY DEF Stems
<1>2. IsFiniteSet(Stems)
  BY <1>1, CoverArtAssumption, FS_Subset
<1>3. \A k \in Stems : StemBytes[k] = Held(<<k, "bin">>) + Held(<<k, "json">>)
  BY <1>1 DEF StemBytes
<1>4. OnNat(StemBytes, Stems)
  <2>1. ASSUME NEW k \in Stems PROVE StemBytes[k] \in Nat
    <3>1. Held(<<k, "bin">>) \in Nat /\ Held(<<k, "json">>) \in Nat
      BY <1>1, HeldTyped, OpsListed
    <3>2. QED
      BY <1>3, <3>1
  <2>2. QED
    BY <2>1 DEF OnNat
<1>5. Total = Sum(StemBytes, Stems)
  BY DEF Total, SumFunction, Sum, StemBytes
<1>6. \A k \in Keys \ Stems, d \in Kinds : Held(<<k, d>>) = 0
  BY DEF Stems, Held
<1>7. QED
  BY <1>1, <1>2, <1>3, <1>4, <1>5, <1>6

\* The last one to scan leaves the budget kept by what it does not remove.
LEMMA ScanKeeps ==
  ASSUME CoverInv, CoverTyped', BudgetInv, calm, UNCHANGED calm, NEW c \in Callers, pc[c] = "storing",
         Scan(c, job[c])
  PROVE  BudgetInv'
<1> DEFINE j == job[c]
<1>1. j \in Job /\ j # NoJob /\ c # NoCaller /\ CoverTyped /\ Attended /\ j.op = "scan"
  BY CoverArtAssumption DEF CoverInv, CoverTyped, Leased, BudgetInv, Scan
<1>2. PICK V \in SUBSET Stems :
        /\ Victims(V)
        /\ Continue(c, j, IF V \intersect Keys = {} THEN NoJob
             ELSE [j EXCEPT !.op = "remove", !.victims = (V \intersect Keys) \X Kinds])
  BY DEF Scan
<1> DEFINE U == (V \intersect Keys) \X Kinds
           m == [j EXCEPT !.op = "remove", !.victims = U]
           next == IF V \intersect Keys = {} THEN NoJob ELSE m
<1>3. m \in Job /\ m # NoJob /\ m.op = "remove" /\ m.victims = U
  <2>1. U \in SUBSET (Keys \X Kinds)
    OBVIOUS
  <2> HIDE DEF U
  <2>2. m \in Job /\ m.op = "remove" /\ m.victims = U
    BY <1>1, <2>1, OpsListed DEF Job
  <2> HIDE DEF m
  <2>3. QED
    BY <2>2, CoverArtAssumption
<1>4. Following(j) = NoJob
  BY <1>1 DEF Following
<1>5. /\ job' = [job EXCEPT ![c] = next]
      /\ pc' = [pc EXCEPT ![c] = IF next = NoJob THEN "stored" ELSE @] /\ UNCHANGED strays
  <2>1. Continue(c, j, next)
    BY <1>2
  <2> HIDE DEF m
  <2>2. QED
    BY <1>1, <1>3, <1>4, <2>1 DEF Continue
<1> HIDE DEF m
<1>6. UNCHANGED <<file, tmp>>
  BY DEF Scan, disk
<1>7. Attended'
  <2> HIDE DEF next
  <2>1. QED
    BY <1>1, <1>5, <1>6, AttendedNext
<1>8. \A d \in Callers : job'[d] = IF d = c THEN next ELSE job[d]
  BY <1>5 DEF CoverInv, CoverTyped
<1>9. ASSUME \A d \in Callers : ~Owes(d)' PROVE (Sum(Rest, Keys) <= MaxBytes)'
  <2>1. \A d \in Callers \ {c} : ~Owes(d)
    BY <1>8, <1>9 DEF Owes
  <2>2. DOMAIN tmp = {}
    BY <1>1, <2>1 DEF Attended, Owes
  <2>3. V \subseteq Keys /\ V \subseteq Stems
    BY <1>1, <2>2, StemsOfKeys
  <2>4. Total - Sum(StemBytes, V) <= MaxBytes
    BY <1>2 DEF Victims, Sum
  <2> DEFINE A == Stems \ V
             g == Rest'
  <2>5. Sum(StemBytes, A) <= MaxBytes /\ IsFiniteSet(A) /\ OnNat(StemBytes, A)
    <3>1. /\ IsFiniteSet(Stems) /\ OnNat(StemBytes, Stems) /\ Total = Sum(StemBytes, Stems)
      BY <1>1, <2>2, StemsOfKeys
    <3>2. Sum(StemBytes, Stems) = Sum(StemBytes, V) + Sum(StemBytes, A)
      BY <2>3, <3>1, SumSplit
    <3>3. IsFiniteSet(A) /\ OnNat(StemBytes, A) /\ IsFiniteSet(V) /\ OnNat(StemBytes, V)
      BY <2>3, <3>1, FS_Subset DEF OnNat
    <3> HIDE DEF A
    <3>4. Sum(StemBytes, A) \in Nat /\ Sum(StemBytes, V) \in Nat
      BY <3>3, SumTyped
    <3>5. QED
      BY <2>4, <3>1, <3>2, <3>3, <3>4, CoverArtAssumption
  <2>6. \A k \in Keys, d \in Kinds : Held(<<k, d>>)' = Held(<<k, d>>) /\ Held(<<k, d>>) \in Nat
    BY <1>1, <1>6, HeldTyped DEF Held
  <2>7. ASSUME NEW k \in Keys
        PROVE  g[k] = Spared(<<k, "bin">>)' + Spared(<<k, "json">>)'
    BY DEF Rest
  <2>8. ASSUME NEW k \in Keys, k \notin A PROVE g[k] = 0
    <3>1. ASSUME NEW d \in Kinds PROVE Spared(<<k, d>>)' = 0
      <4>1. CASE k \in V
        <5>1. next = m /\ <<k, d>> \in m.victims
          BY <1>3, <2>3, <4>1
        <5>2. Doomed(<<k, d>>)'
          BY <1>3, <1>8, <5>1 DEF Doomed
        <5>3. QED
          BY <5>2 DEF Spared
      <4>2. CASE k \notin Stems
        <5>1. Held(<<k, d>>) = 0
          BY <1>1, <2>2, <4>2, StemsOfKeys
        <5>2. QED
          BY <2>6, <5>1 DEF Spared
      <4>3. QED
        BY <2>8, <4>1, <4>2
    <3>2. Spared(<<k, "bin">>)' = 0 /\ Spared(<<k, "json">>)' = 0
      BY <3>1, OpsListed
    <3>3. g[k] = Spared(<<k, "bin">>)' + Spared(<<k, "json">>)'
      BY <2>7, <2>8
    <3> HIDE DEF g
    <3>4. QED
      BY <3>2, <3>3
  <2>9. ASSUME NEW k \in A PROVE k \in Keys /\ g[k] <= StemBytes[k]
    <3>1. k \in Keys /\ StemBytes[k] = Held(<<k, "bin">>) + Held(<<k, "json">>)
      BY <1>1, <2>2, StemsOfKeys
    <3>2. ASSUME NEW d \in Kinds PROVE Spared(<<k, d>>)' <= Held(<<k, d>>) /\ Spared(<<k, d>>)' \in Nat
      BY <2>6, <3>1 DEF Spared
    <3>3. /\ Held(<<k, "bin">>) \in Nat /\ Held(<<k, "json">>) \in Nat
          /\ Spared(<<k, "bin">>)' \in Nat /\ Spared(<<k, "json">>)' \in Nat
          /\ Spared(<<k, "bin">>)' <= Held(<<k, "bin">>) /\ Spared(<<k, "json">>)' <= Held(<<k, "json">>)
      BY <2>6, <3>1, <3>2, OpsListed
    <3>4. QED
      BY <2>7, <3>1, <3>3
  <2>10. OnNat(g, Keys) /\ IsFiniteSet(Keys)
    <3>1. CoverTyped' => OnNat(Rest, Keys)'
      BY RestTyped, PTL
    <3>2. QED
      BY <3>1, CoverArtAssumption
  <2> HIDE DEF A, g
  <2>11. Sum(g, Keys) <= Sum(StemBytes, A)
    BY <2>5, <2>8, <2>9, <2>10, SumBelow
  <2>12. Sum(g, Keys) \in Nat /\ Sum(StemBytes, A) \in Nat
    BY <2>5, <2>10, SumTyped
  <2>13. Sum(g, Keys) <= MaxBytes
    BY <2>5, <2>11, <2>12, CoverArtAssumption
  <2>14. QED
    BY <2>13 DEF g
<1>10. QED
  BY <1>7, <1>9 DEF BudgetInv

LEMMA BudgetNext == CoverInv /\ CoverInv' /\ BudgetInv /\ [Next]_vars => BudgetInv'
<1> SUFFICES ASSUME CoverInv, CoverInv', BudgetInv, [Next]_vars PROVE BudgetInv'
  OBVIOUS
<1>1. calm' = calm /\ CoverTyped /\ CoverTyped'
  BY DEF Next, vars, CoverInv
<1> SUFFICES ASSUME calm PROVE BudgetInv'
  BY <1>1 DEF BudgetInv
<1>2. Attended
  BY DEF BudgetInv
<1>3. CASE UNCHANGED vars
  BY <1>3, BudgetQuiet DEF vars
<1>4. ASSUME NEW c \in Callers, Store(c) PROVE BudgetInv'
  BY <1>1, <1>4, WriteKeeps, ScanKeeps, RemoveKeeps DEF Store, Run
<1>5. ASSUME NEW c \in Callers, NEW s \in Statuses, FetchCached(c, s) PROVE BudgetInv'
  <2> DEFINE next == [op |-> "open", kind |-> "bin", victims |-> {},
                      resp |-> [id |-> fetches + 1, key |-> want[c], status |-> s, at |-> now]]
  <2>1. /\ pc[c] = "fetching" /\ pc' = [pc EXCEPT ![c] = "storing"]
        /\ job' = [job EXCEPT ![c] = next] /\ UNCHANGED <<tmp, strays>>
    BY <1>5 DEF FetchCached, Goto, disk
  <2>2. job[c] = NoJob
    BY <1>2, <2>1 DEF Attended
  <2>3. job'[c] = next /\ job'[c] # NoJob
    <3>1. job'[c] = next
      BY <1>1, <2>1 DEF CoverTyped
    <3>2. pc'[c] = "storing"
      BY <1>1, <2>1 DEF CoverTyped
    <3>3. QED
      BY <3>1, <3>2 DEF CoverInv, Leased
  <2>4. next.op = "open"
    OBVIOUS
  <2> HIDE DEF next
  <2>5. \A d \in Callers : d # c => job'[d] = job[d] /\ pc'[d] = pc[d]
    BY <1>1, <2>1 DEF CoverTyped
  <2>6. Attended'
    <3>1. strays' = {}
      BY <1>2, <2>1 DEF Attended
    <3>2. \A d \in Callers : pc'[d] # "storing" => job'[d] = NoJob
      BY <1>1, <1>2, <2>1, <2>5 DEF Attended, CoverTyped
    <3>3. \A n \in DOMAIN tmp' : \E d \in Callers :
            job'[d] # NoJob /\ job'[d].op \in {"fill", "rename"} /\ n = TmpName(job'[d])
      BY <1>2, <2>1, <2>2, <2>5 DEF Attended
    <3>4. QED
      BY <3>1, <3>2, <3>3 DEF Attended, TmpName
  <2>7. Owes(c)'
    BY <2>3, <2>4 DEF Owes
  <2>8. QED
    BY <2>6, <2>7 DEF BudgetInv
<1>6. ASSUME NEW c \in Callers, Depart(c), job[c] = NoJob, UNCHANGED <<file, tmp, strays>>
      PROVE  BudgetInv'
  <2>1. job' = job /\ pc' = [pc EXCEPT ![c] = "idle"]
    BY <1>1, <1>6 DEF Depart, CoverTyped
  <2>2. \A d \in Callers : pc'[d] # "storing" => pc[d] # "storing" \/ job[d] = NoJob
    BY <1>1, <1>6, <2>1 DEF CoverTyped
  <2>3. QED
    BY <1>1, <1>6, <2>1, <2>2, BudgetQuiet
<1>7. ASSUME NEW c \in Callers, Respond(c) PROVE BudgetInv'
  <2>1. job[c] = NoJob /\ Depart(c) /\ UNCHANGED <<file, tmp, strays>>
    BY <1>2, <1>7 DEF Respond, Attended, disk
  <2>2. QED
    BY <1>6, <2>1
<1>8. ASSUME NEW c \in Callers, Cancel(c), pc[c] # "storing" PROVE BudgetInv'
  <2>1. job[c] = NoJob /\ Depart(c) /\ UNCHANGED <<file, tmp>> /\ strays' = strays
    BY <1>2, <1>8 DEF Cancel, Attended, disk
  <2>2. QED
    BY <1>6, <2>1
<1>9. ASSUME NEW c \in Callers,
             ReadMeta(c) \/ ReadBody(c) \/ Acquire(c) \/ FetchUncached(c) \/ \E k \in Keys : Request(c, k)
      PROVE  BudgetInv'
  <2>1. UNCHANGED <<file, tmp, job, strays, calm>>
    BY <1>1, <1>9 DEF ReadMeta, ReadBody, Acquire, FetchUncached, Request, disk
  <2>2. pc[c] # "storing" /\ \E p \in Stages : pc' = [pc EXCEPT ![c] = p]
    BY <1>9, StagesListed DEF ReadMeta, ReadBody, Acquire, FetchUncached, Request, Goto, Miss
  <2>3. \A d \in Callers : pc'[d] # "storing" => pc[d] # "storing" \/ job[d] = NoJob
    BY <1>1, <2>2 DEF CoverTyped
  <2>4. QED
    BY <2>1, <2>3, BudgetQuiet
<1>10. CASE Tick
  BY <1>1, <1>10, BudgetQuiet DEF Tick, disk
<1>11. QED
  BY <1>3, <1>4, <1>5, <1>7, <1>8, <1>9, <1>10 DEF Next, Hazard, Step

LEMMA BudgetInit == Init => BudgetInv
<1> SUFFICES ASSUME Init PROVE BudgetInv
  OBVIOUS
<1>1. CoverTyped
  BY InitSound DEF CoverInv
<1>2. Attended
  BY DEF Init, Attended
<1>3. \A k \in Keys : Rest[k] = 0
  BY OpsListed DEF Init, Rest, Spared, Held
<1>4. Sum(Rest, Keys) <= Sum(Rest, {})
  <2>1. IsFiniteSet({}) /\ OnNat(Rest, {}) /\ OnNat(Rest, Keys) /\ IsFiniteSet(Keys)
    BY <1>1, RestTyped, FS_EmptySet, CoverArtAssumption DEF OnNat
  <2>2. QED
    BY <1>3, <2>1, SumBelow
<1>5. Sum(Rest, {}) = 0
  BY SumStep, FS_EmptySet
<1>6. Sum(Rest, Keys) \in Nat
  BY <1>1, RestTyped, SumTyped, CoverArtAssumption
<1>7. QED
  BY <1>2, <1>4, <1>5, <1>6, CoverArtAssumption DEF BudgetInv

\* Where no request is dropped while it stores and no file operation fails, a request
\* that has stored an entry with nobody else at work leaves the directory within
\* max_bytes (evict_over_budget), however many requests stored and evicted beside it.
THEOREM BudgetIsKept == Spec => []BudgetKept
<1>1. Init => CoverInv /\ BudgetInv
  BY InitSound, BudgetInit
<1>2. CoverInv /\ BudgetInv /\ [Next]_vars => (CoverInv /\ BudgetInv)'
  BY NextSound, BudgetNext
<1>3. CoverInv /\ BudgetInv => BudgetKept
  <2> SUFFICES ASSUME CoverInv, BudgetInv, NEW c \in Callers, calm, pc[c] = "stored",
                      \A d \in Callers \ {c} : pc[d] = "idle"
               PROVE  Total <= MaxBytes
    BY DEF BudgetKept
  <2>1. CoverTyped /\ Attended /\ \A d \in Callers : job[d] = NoJob
    BY DEF CoverInv, BudgetInv, Attended
  <2>2. DOMAIN tmp = {} /\ Sum(Rest, Keys) <= MaxBytes
    BY <2>1 DEF Attended, BudgetInv, Owes
  <2>3. ASSUME NEW k \in Stems PROVE k \in Keys /\ StemBytes[k] <= Rest[k]
    <3>1. k \in Keys /\ StemBytes[k] = Held(<<k, "bin">>) + Held(<<k, "json">>)
      BY <2>1, <2>2, StemsOfKeys
    <3>2. Rest[k] = Held(<<k, "bin">>) + Held(<<k, "json">>)
      BY <2>1, <3>1 DEF Rest, Spared, Doomed
    <3>3. Held(<<k, "bin">>) \in Nat /\ Held(<<k, "json">>) \in Nat
      BY <2>1, <3>1, HeldTyped, OpsListed
    <3>4. QED
      BY <3>1, <3>2, <3>3
  <2>4. /\ IsFiniteSet(Stems) /\ OnNat(StemBytes, Stems) /\ Total = Sum(StemBytes, Stems)
        /\ IsFiniteSet(Keys) /\ OnNat(Rest, Keys)
    BY <2>1, <2>2, StemsOfKeys, RestTyped, CoverArtAssumption
  <2>5. Sum(StemBytes, Stems) <= Sum(Rest, Keys)
    BY <2>3, <2>4, SumBelow
  <2>6. Sum(StemBytes, Stems) \in Nat /\ Sum(Rest, Keys) \in Nat
    BY <2>4, SumTyped
  <2>7. QED
    BY <2>2, <2>4, <2>5, <2>6, CoverArtAssumption
<1>4. QED
  BY <1>1, <1>2, <1>3, PTL DEF Spec
=============================================================================

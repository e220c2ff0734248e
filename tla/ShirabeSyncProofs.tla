-------------------------- MODULE ShirabeSyncProofs --------------------------
(***************************************************************************)
(* Proofs about ShirabeSync for any jobs, plans, datasets, exports, chunks *)
(* and channel, when no two jobs of one source are alive at once: the      *)
(* staging table then has one owner, and what a job reports is so.  (With  *)
(* overlapping jobs it is not: the violation of LiveWhole by TLC.)  And of *)
(* the date arithmetic a job names its export with, for every day, and of  *)
(* the copy text a dump is loaded with, for every dump.                    *)
(***************************************************************************)
EXTENDS ShirabeSync, CivilDate, CopyText, TLAPS, WellFoundedInduction, SequenceTheorems

----------------------------------------------------------------------------
(* The inductive invariant.                                                *)

Table == [ver : Nat, rows : Nat, indexed : BOOLEAN]

JobState ==
  [source : Sources \union {None}, pc : Statements \union {"idle", "persist"},
   at : Nat, ver : Nat, parser : {"off", "running", "ended", "failed"},
   parsed : Nat, sent : Nat, listed : SUBSET (Expected("imdb-fts") \union Expected("imdb-trgm")),
   ok : BOOLEAN, began : Nat, clean : BOOLEAN]

SyncTyped ==
  /\ scheduled \subseteq Sources /\ upstream \in Nat
  /\ job \in [Jobs -> JobState]
  /\ live \in [Tables -> Table] /\ staging \in [Tables -> Table \union {None}]
  /\ id_index \in [Kinds -> [1 .. Chunks -> Nat]]

\* One job of a source at a time.
Alone == \A i, j \in Jobs : job[i].source = job[j].source /\ job[i].source # None => i = j

\* The parser is ahead of the task, and has sent every chunk when it ends well.
ParserOf(j) ==
  /\ job[j].pc = "idle" <=> job[j].source = None
  /\ job[j].began <= upstream
  /\ job[j].sent <= job[j].parsed /\ job[j].parsed <= Chunks
  /\ job[j].parser = "ended" => job[j].parsed = Chunks
  /\ job[j].pc \in {"copy", "upsert"} => job[j].parser # "off"

\* The staging table is the ingest's from its creation on, and whole from its load
\* on; the datasets before this one are live.
LoadOf(j) ==
  job[j].source = "imdb" =>
    /\ job[j].pc \in {"drop", "create", "get", "open", "copy", "stage", "swap"} =>
         /\ job[j].at \in 1 .. Len(Datasets)
         /\ \A k \in 1 .. job[j].at - 1 : job[j].began <= live[Datasets[k]].ver
    /\ job[j].pc \in {"get", "open", "copy", "stage", "swap"} => staging[Loading(j)] \in Table
    /\ job[j].pc \in {"open", "copy"} => job[j].began <= job[j].ver
    /\ job[j].pc \in {"stage", "swap"} =>
         staging[Loading(j)].rows = Chunks /\ job[j].began <= staging[Loading(j)].ver
    /\ job[j].pc = "persist" /\ job[j].ok => \A t \in Tables : job[j].began <= live[t].ver

\* An index job knows every INVALID index of its set until it has dropped them, and
\* then builds the missing ones in order; nobody else adds to the derived table.
BuildOf(j) ==
  LET s == job[j].source IN
  s \in IndexSets =>
    /\ job[j].pc \in {"table", "truncate", "insert"} => s = "imdb-fts"
    /\ job[j].pc \in {"prereqs", "table", "truncate", "insert", "list", "prune"} => job[j].at = 1
    /\ job[j].pc = "prune" => Invalid(s) \subseteq job[j].listed
    /\ job[j].listed \subseteq Expected(s)
    /\ job[j].pc = "ensure" =>
         /\ job[j].at \in 1 .. Len(IndexesOf(s)) /\ Invalid(s) = {}
         /\ job[j].clean => \A k \in 1 .. job[j].at - 1 : IndexesOf(s)[k] \in DOMAIN index
    /\ job[j].pc = "insert" => search = <<>>
    /\ job[j].pc \in {"list", "prune", "ensure"} /\ job[j].clean /\ s = "imdb-fts" =>
         search = <<Derived>>
    /\ job[j].pc = "persist" /\ job[j].ok /\ job[j].clean =>
         /\ Expected(s) \subseteq DOMAIN index /\ Invalid(s) = {}
         /\ s = "imdb-fts" => search = <<Derived>>

\* The enumeration has refreshed every export before this one, and of this one the
\* batches it has sent.
EnumOf(j) ==
  job[j].source = "tmdb" =>
    /\ job[j].pc \in {"request", "upsert"} =>
         /\ job[j].at \in 1 .. Len(Exports)
         /\ \A k \in 1 .. job[j].at - 1, b \in 1 .. Chunks : job[j].began = id_index[Exports[k]][b]
    /\ job[j].pc = "upsert" =>
         /\ job[j].began = job[j].ver
         /\ \A b \in 1 .. job[j].sent : job[j].began = id_index[Exports[job[j].at]][b]
    /\ job[j].pc = "persist" /\ job[j].ok =>
         \A kind \in Kinds, b \in 1 .. Chunks : job[j].began = id_index[kind][b]

JobsInv == \A j \in Jobs : ParserOf(j) /\ LoadOf(j) /\ BuildOf(j) /\ EnumOf(j)

SyncInv == SyncTyped /\ Alone /\ JobsInv /\ LiveWhole

LEMMA IndexNames ==
  ASSUME NEW s \in {"imdb-fts", "imdb-trgm"}
  PROVE  /\ Len(IndexesOf(s)) \in Nat \ {0} /\ DOMAIN IndexesOf(s) = 1 .. Len(IndexesOf(s))
         /\ \A k \in 1 .. Len(IndexesOf(s)) : IndexesOf(s)[k] \in Expected(s)
         /\ \A n \in Expected(s) :
              n[1] = s /\ \E k \in 1 .. Len(IndexesOf(s)) : n = IndexesOf(s)[k]
<1>1. CASE s = "imdb-fts"
  BY <1>1 DEF IndexesOf, Expected
<1>2. CASE s = "imdb-trgm"
  BY <1>2 DEF IndexesOf, Expected
<1> QED BY <1>1, <1>2

\* Each index is of one set.
LEMMA IndexSetsApart ==
  ASSUME NEW s \in {"imdb-fts", "imdb-trgm"}, NEW r \in {"imdb-fts", "imdb-trgm"}, s # r
  PROVE  Expected(s) \intersect Expected(r) = {}
BY IndexNames

LEMMA SequencesTyped ==
  /\ Len(Datasets) \in Nat \ {0} /\ DOMAIN Datasets = 1 .. Len(Datasets)
  /\ Len(Exports) \in Nat \ {0} /\ DOMAIN Exports = 1 .. Len(Exports)
BY IngestAssumption, ExportsAssumption

LEMMA InitInv == Init => SyncInv
<1> SUFFICES ASSUME Init PROVE SyncInv
  OBVIOUS
<1> USE SyncAssumption DEF Init, JobInit, IngestInit, TmdbInit
<1>1. SyncTyped
  BY DEF SyncTyped, JobState, NoJob, Table
<1>2. Alone /\ JobsInv
  BY DEF Alone, JobsInv, ParserOf, LoadOf, BuildOf, EnumOf, NoJob, IndexSets
<1>3. LiveWhole
  BY DEF LiveWhole
<1> QED BY <1>1, <1>2, <1>3 DEF SyncInv

----------------------------------------------------------------------------
(* What a step leaves alone keeps its invariants.                          *)

\* A job is disturbed neither by what it has no part in nor by indexes of others.
LEMMA JobKept ==
  ASSUME NEW j \in Jobs, ParserOf(j) /\ LoadOf(j) /\ BuildOf(j) /\ EnumOf(j),
         SyncTyped, job'[j] = job[j], scheduled' = scheduled, upstream' \in Nat, upstream <= upstream',
         job[j].source = "imdb" => UNCHANGED <<live, staging>>,
         job[j].source = "tmdb" => UNCHANGED id_index,
         job[j].source \in IndexSets =>
           /\ UNCHANGED live
           /\ Invalid(job[j].source)' \subseteq Invalid(job[j].source)
           /\ Expected(job[j].source) \intersect DOMAIN index \subseteq DOMAIN index'
           /\ job[j].source = "imdb-fts" => UNCHANGED search
  PROVE  (ParserOf(j) /\ LoadOf(j) /\ BuildOf(j) /\ EnumOf(j))'
<1> DEFINE s == job[j].source
<1>1. ParserOf(j)'
  BY DEF ParserOf, SyncTyped, JobState
<1>2. LoadOf(j)'
  BY DEF LoadOf, Loading
<1>3. EnumOf(j)'
  BY DEF EnumOf
<1>4. BuildOf(j)'
  <2> SUFFICES ASSUME s \in IndexSets PROVE BuildOf(j)'
    BY DEF BuildOf, IndexSets
  <2>1. s \in {"imdb-fts", "imdb-trgm"} /\ Derived' = Derived
    BY DEF IndexSets, Derived
  <2>2. \A k \in 1 .. Len(IndexesOf(s)) : IndexesOf(s)[k] \in Expected(s)
    BY <2>1, IndexNames
  <2> QED BY <2>1, <2>2 DEF BuildOf, IndexSets, Invalid
<1> QED BY <1>1, <1>2, <1>3, <1>4

\* A job that keeps to its own tables and indexes and takes no other's name has only
\* its own invariants to keep.
LEMMA OwnStep ==
  ASSUME SyncInv, ~Overlap, NEW j \in Jobs, NEW s \in JobState, job' = [job EXCEPT ![j] = s],
         s.source = job[j].source \/ s.source = None \/ Running(s.source) = {},
         UNCHANGED <<scheduled, upstream, live>>, SyncTyped',
         job[j].source # "imdb" => UNCHANGED staging,
         job[j].source # "tmdb" => UNCHANGED id_index,
         job[j].source # "imdb-fts" => UNCHANGED search,
         \A r \in {"imdb-fts", "imdb-trgm"} \ {job[j].source} :
           /\ Invalid(r)' \subseteq Invalid(r)
           /\ Expected(r) \intersect DOMAIN index \subseteq DOMAIN index',
         ParserOf(j)', LoadOf(j)', BuildOf(j)', EnumOf(j)'
  PROVE  SyncInv'
<1> USE DEF SyncInv
<1>1. \A i \in Jobs : job'[i] = IF i = j THEN s ELSE job[i]
  BY DEF SyncTyped
<1>2. Alone'
  BY <1>1 DEF Alone, Running
<1>3. ASSUME NEW i \in Jobs, i # j
      PROVE  (ParserOf(i) /\ LoadOf(i) /\ BuildOf(i) /\ EnumOf(i))'
  <2>1. job'[i] = job[i] /\ ParserOf(i) /\ LoadOf(i) /\ BuildOf(i) /\ EnumOf(i)
    BY <1>1, <1>3 DEF JobsInv
  <2>2. job[i].source # None => job[j].source # job[i].source
    BY <1>3 DEF Alone
  <2>3. job[i].source \in {"imdb", "imdb-fts", "imdb-trgm", "tmdb"} => job[j].source # job[i].source
    BY <2>2, SyncAssumption
  <2>4. job[i].source \in IndexSets => job[i].source \in {"imdb-fts", "imdb-trgm"}
    BY DEF IndexSets
  <2> QED BY <2>1, <2>3, <2>4, JobKept DEF SyncTyped
<1>4. JobsInv'
  BY <1>3 DEF JobsInv
<1>5. LiveWhole'
  BY DEF LiveWhole
<1> QED BY <1>2, <1>4, <1>5

----------------------------------------------------------------------------
(* The job itself and its parser.                                          *)

LEMMA NoJobTyped ==
  /\ NoJob \in JobState /\ NoJob.source = None /\ NoJob.pc = "idle" /\ NoJob.at = 0
  /\ NoJob.parser = "off" /\ NoJob.parsed = 0 /\ NoJob.sent = 0 /\ NoJob.listed = {}
  /\ NoJob.began = 0 /\ ~NoJob.ok
BY DEF NoJob, JobState

LEMMA FailedTyped ==
  ASSUME NEW q \in JobState
  PROVE  /\ Failed(q) \in JobState /\ Failed(q).source = q.source /\ Failed(q).pc = "persist"
         /\ ~Failed(q).ok /\ Failed(q).parser = "off" /\ Failed(q).parsed = 0
         /\ Failed(q).sent = 0 /\ Failed(q).listed = {} /\ Failed(q).began = 0
BY DEF Failed, NoJob, JobState

LEMMA SucceededTyped ==
  ASSUME NEW q \in JobState
  PROVE  /\ Succeeded(q) \in JobState /\ Succeeded(q).source = q.source
         /\ Succeeded(q).pc = "persist" /\ Succeeded(q).parser = "off" /\ Succeeded(q).parsed = 0
         /\ Succeeded(q).sent = 0 /\ Succeeded(q).listed = {} /\ Succeeded(q).began = q.began
         /\ Succeeded(q).clean = q.clean
BY DEF Succeeded, NoJob, JobState

LEMMA StartInv ==
  ASSUME SyncInv, ~Overlap, NEW j \in Jobs, NEW r \in Sources, Start(j, r), UNCHANGED data
  PROVE  SyncInv'
<1> DEFINE s == [NoJob EXCEPT !.source = r, !.pc = FirstStatement(r), !.at = 1,
                              !.began = IF r \in {"imdb", "tmdb"} THEN upstream ELSE 0]
<1> USE SyncAssumption
<1>1. FirstStatement(r) \in Statements /\ FirstStatement(r) \notin {"idle", "copy", "upsert"}
  BY DEF FirstStatement, Statements
<1>2. /\ s \in JobState /\ s.source = r /\ s.pc = FirstStatement(r) /\ s.at = 1
      /\ s.began \in 0 .. upstream /\ s.sent = 0 /\ s.parsed = 0 /\ s.parser = "off" /\ s.listed = {}
  <2>1. upstream \in Nat
    BY DEF SyncInv, SyncTyped
  <2>2. /\ s \in JobState /\ s.source = r /\ s.pc = FirstStatement(r) /\ s.at = 1
        /\ s.began = IF r \in {"imdb", "tmdb"} THEN upstream ELSE 0
        /\ s.sent = 0 /\ s.parsed = 0 /\ s.parser = "off" /\ s.listed = {}
    BY <1>1, <2>1 DEF NoJob, JobState
  <2> QED BY <2>1, <2>2
<1>3. /\ job' = [job EXCEPT ![j] = s] /\ job'[j] = s /\ Running(r) = {}
      /\ UNCHANGED <<scheduled, upstream, live, staging, index, search, id_index>>
  BY DEF Start, Become, data, SyncInv, SyncTyped
<1> HIDE DEF s
<1>4. SyncTyped'
  BY <1>2, <1>3 DEF SyncInv, SyncTyped
<1>5. ParserOf(j)'
  BY <1>1, <1>2, <1>3 DEF ParserOf
<1>6. EnumOf(j)' /\ LoadOf(j)'
  BY <1>2, <1>3, SequencesTyped DEF EnumOf, LoadOf, FirstStatement
<1>7. BuildOf(j)'
  BY <1>2, <1>3 DEF BuildOf, FirstStatement, IndexSets
<1> QED BY <1>2, <1>3, <1>4, <1>5, <1>6, <1>7, OwnStep DEF Invalid

\* A job that fails or ends claims nothing.
LEMMA EndInv ==
  ASSUME SyncInv, ~Overlap, NEW j \in Jobs, NEW s \in {NoJob, Failed(job[j])},
         job[j].source # None, job' = [job EXCEPT ![j] = s], UNCHANGED <<scheduled, upstream, data>>
  PROVE  SyncInv'
<1> USE SyncAssumption DEF SyncInv, data
<1>1. /\ s \in JobState /\ s.source \in {job[j].source, None} /\ s.began = 0 /\ ~s.ok
      /\ s.pc = IF s.source = None THEN "idle" ELSE "persist"
      /\ s.sent = 0 /\ s.parsed = 0 /\ s.parser = "off" /\ s.listed = {}
  <2>1. CASE s = NoJob
    BY <2>1, NoJobTyped
  <2>2. CASE s = Failed(job[j])
    <3>1. job[j] \in JobState
      BY DEF SyncTyped
    <3> QED BY <2>2, <3>1, FailedTyped, SyncAssumption DEF Failed
  <2> QED BY <2>1, <2>2
<1>2. job'[j] = s
  BY DEF SyncTyped
<1>3. SyncTyped'
  BY <1>1 DEF SyncTyped
<1>4. ParserOf(j)' /\ EnumOf(j)' /\ LoadOf(j)' /\ BuildOf(j)'
  BY <1>1, <1>2 DEF ParserOf, EnumOf, LoadOf, BuildOf, SyncTyped
<1> QED BY <1>1, <1>3, <1>4, OwnStep DEF Invalid

\* The parser moves: nothing else of the job does.
LEMMA ParserMoves ==
  ASSUME SyncInv, ~Overlap, NEW j \in Jobs, NEW parser \in {"running", "ended", "failed"},
         NEW parsed \in Nat, job[j].parsed <= parsed, parsed <= Chunks,
         parser = "ended" => parsed = Chunks,
         job' = [job EXCEPT ![j] = [job[j] EXCEPT !.parser = parser, !.parsed = parsed]],
         UNCHANGED <<scheduled, upstream, data>>
  PROVE  SyncInv'
<1> USE SyncAssumption DEF SyncInv, data
<1> DEFINE s == [job[j] EXCEPT !.parser = parser, !.parsed = parsed]
<1>1. job[j] \in JobState /\ job'[j] = s /\ ParserOf(j) /\ LoadOf(j) /\ BuildOf(j) /\ EnumOf(j)
  BY DEF SyncTyped, JobsInv
<1>2. /\ s \in JobState /\ s.source = job[j].source /\ s.pc = job[j].pc /\ s.at = job[j].at
      /\ s.ver = job[j].ver /\ s.sent = job[j].sent /\ s.listed = job[j].listed /\ s.ok = job[j].ok
      /\ s.began = job[j].began /\ s.clean = job[j].clean /\ s.parser = parser /\ s.parsed = parsed
  BY <1>1 DEF JobState
<1> HIDE DEF s
<1>3. SyncTyped'
  BY <1>2 DEF SyncTyped, s
<1>4. ParserOf(j)'
  BY <1>1, <1>2 DEF ParserOf, JobState
<1>5. LoadOf(j)' /\ EnumOf(j)'
  BY <1>1, <1>2 DEF LoadOf, EnumOf, Loading
<1>6. BuildOf(j)'
  BY <1>1, <1>2 DEF BuildOf, IndexSets, Invalid, Derived
<1> QED BY <1>2, <1>3, <1>4, <1>5, <1>6, OwnStep DEF Invalid, s

LEMMA ParserInv ==
  ASSUME SyncInv, ~Overlap, NEW j \in Jobs, Parse(j) \/ ParserEnds(j), UNCHANGED data
  PROVE  SyncInv'
<1> USE SyncAssumption
<1>1. job[j] \in JobState /\ job[j].parsed \in Nat /\ job[j].parsed <= Chunks
  BY DEF SyncInv, SyncTyped, JobsInv, ParserOf, JobState
<1>2. CASE Parse(j)
  <2>1. job' = [job EXCEPT ![j] = [job[j] EXCEPT !.parser = "running", !.parsed = job[j].parsed + 1]]
    BY <1>1, <1>2 DEF Parse, Become, JobState
  <2>2. /\ job[j].parsed + 1 \in Nat /\ job[j].parsed + 1 <= Chunks
        /\ job[j].parsed <= job[j].parsed + 1 /\ UNCHANGED <<scheduled, upstream, data>>
    BY <1>1, <1>2 DEF Parse
  <2> QED BY <1>1, <2>1, <2>2, ParserMoves
<1>3. CASE ParserEnds(j)
  <2>1. PICK parser \in {"ended", "failed"} :
          /\ job' = [job EXCEPT ![j] = [job[j] EXCEPT !.parser = parser, !.parsed = job[j].parsed]]
          /\ parser = "ended" => job[j].parsed = Chunks
    BY <1>1, <1>3 DEF ParserEnds, Become, JobState
  <2>2. job[j].parsed <= job[j].parsed /\ UNCHANGED <<scheduled, upstream, data>>
    BY <1>1, <1>3 DEF ParserEnds
  <2> QED BY <1>1, <2>1, <2>2, ParserMoves
<1> QED BY <1>2, <1>3

----------------------------------------------------------------------------
(* The ingest.                                                             *)

LEMMA DropStagingInv ==
  ASSUME SyncInv, ~Overlap, NEW j \in Jobs, DropStaging(j), UNCHANGED <<search, id_index, row>>
  PROVE  SyncInv'
<1> USE SyncAssumption
<1> DEFINE s == [job[j] EXCEPT !.pc = "create"]
<1>1. job[j] \in JobState /\ upstream \in Nat /\ ParserOf(j) /\ LoadOf(j) /\ BuildOf(j) /\ EnumOf(j)
  BY DEF SyncInv, SyncTyped, JobsInv
<1>2. /\ s \in JobState /\ s.source = job[j].source /\ s.pc = "create" /\ s.at = job[j].at
      /\ s.ver = job[j].ver /\ s.parser = job[j].parser /\ s.parsed = job[j].parsed
      /\ s.sent = job[j].sent /\ s.listed = job[j].listed /\ s.ok = job[j].ok
      /\ s.began = job[j].began /\ s.clean = job[j].clean
  BY <1>1 DEF JobState, Statements
<1>3. /\ job[j].source = "imdb" /\ job[j].pc = "drop" /\ job' = [job EXCEPT ![j] = s] /\ job'[j] = s
      /\ staging' = [staging EXCEPT ![Loading(j)] = None]
      /\ UNCHANGED <<scheduled, upstream, live, index, search, id_index>>
  BY DEF DropStaging, At, Goto, Become, SyncInv, SyncTyped
<1> HIDE DEF s
<1>4. SyncTyped'
  BY <1>2, <1>3 DEF SyncInv, SyncTyped
<1>5. ParserOf(j)'
  BY <1>1, <1>2, <1>3 DEF ParserOf, JobState
<1>6. LoadOf(j)'
  BY <1>1, <1>2, <1>3, SequencesTyped DEF LoadOf, Loading
<1>7. BuildOf(j)' /\ EnumOf(j)'
  BY <1>2, <1>3 DEF BuildOf, EnumOf, IndexSets
<1> QED BY <1>2, <1>3, <1>4, <1>5, <1>6, <1>7, OwnStep DEF Invalid

LEMMA CreateStagingInv ==
  ASSUME SyncInv, ~Overlap, NEW j \in Jobs, CreateStaging(j), UNCHANGED <<search, id_index, row>>
  PROVE  SyncInv'
<1> USE SyncAssumption
<1> DEFINE s == [job[j] EXCEPT !.pc = "get"]
<1>1. job[j] \in JobState /\ upstream \in Nat /\ ParserOf(j) /\ LoadOf(j) /\ BuildOf(j) /\ EnumOf(j)
  BY DEF SyncInv, SyncTyped, JobsInv
<1>2. /\ s \in JobState /\ s.source = job[j].source /\ s.pc = "get" /\ s.at = job[j].at
      /\ s.ver = job[j].ver /\ s.parser = job[j].parser /\ s.parsed = job[j].parsed
      /\ s.sent = job[j].sent /\ s.listed = job[j].listed /\ s.ok = job[j].ok
      /\ s.began = job[j].began /\ s.clean = job[j].clean
  BY <1>1 DEF JobState, Statements
<1>3. /\ job[j].source = "imdb" /\ job[j].pc = "create" /\ job' = [job EXCEPT ![j] = s] /\ job'[j] = s
      /\ staging' = [staging EXCEPT ![Loading(j)] = [ver |-> 0, rows |-> 0, indexed |-> FALSE]]
      /\ UNCHANGED <<scheduled, upstream, live, index, search, id_index>>
  BY DEF CreateStaging, At, Goto, Become, SyncInv, SyncTyped
<1> HIDE DEF s
<1>4. SyncTyped'
  BY <1>2, <1>3 DEF SyncInv, SyncTyped, Table
<1>5. ParserOf(j)'
  BY <1>1, <1>2, <1>3 DEF ParserOf, JobState
<1>6. LoadOf(j)'
  BY <1>1, <1>2, <1>3, SequencesTyped DEF LoadOf, Loading, SyncInv, SyncTyped, Tables, Table
<1>7. BuildOf(j)' /\ EnumOf(j)'
  BY <1>2, <1>3 DEF BuildOf, EnumOf, IndexSets
<1> QED BY <1>2, <1>3, <1>4, <1>5, <1>6, <1>7, OwnStep DEF Invalid

LEMMA GetInv ==
  ASSUME SyncInv, ~Overlap, NEW j \in Jobs, Get(j), UNCHANGED <<search, id_index, row>>
  PROVE  SyncInv'
<1> USE SyncAssumption
<1> DEFINE s == [job[j] EXCEPT !.ver = upstream, !.pc = "open"]
<1>1. job[j] \in JobState /\ upstream \in Nat /\ ParserOf(j) /\ LoadOf(j) /\ BuildOf(j) /\ EnumOf(j)
  BY DEF SyncInv, SyncTyped, JobsInv
<1>2. /\ s \in JobState /\ s.source = job[j].source /\ s.pc = "open" /\ s.at = job[j].at
      /\ s.ver = upstream /\ s.parser = job[j].parser /\ s.parsed = job[j].parsed
      /\ s.sent = job[j].sent /\ s.listed = job[j].listed /\ s.ok = job[j].ok
      /\ s.began = job[j].began /\ s.clean = job[j].clean
  BY <1>1 DEF JobState, Statements
<1>3. /\ job[j].source = "imdb" /\ job[j].pc = "get" /\ job' = [job EXCEPT ![j] = s] /\ job'[j] = s
      /\ UNCHANGED <<scheduled, upstream, live, staging, index, search, id_index>>
  BY DEF Get, At, Goto, Become, SyncInv, SyncTyped
<1> HIDE DEF s
<1>4. SyncTyped'
  BY <1>2, <1>3 DEF SyncInv, SyncTyped
<1>5. ParserOf(j)'
  BY <1>1, <1>2, <1>3 DEF ParserOf, JobState
<1>6. LoadOf(j)'
  BY <1>1, <1>2, <1>3, SequencesTyped DEF LoadOf, Loading, ParserOf
<1>7. BuildOf(j)' /\ EnumOf(j)'
  BY <1>2, <1>3 DEF BuildOf, EnumOf, IndexSets
<1> QED BY <1>2, <1>3, <1>4, <1>5, <1>6, <1>7, OwnStep DEF Invalid

LEMMA OpenCopyInv ==
  ASSUME SyncInv, ~Overlap, NEW j \in Jobs, OpenCopy(j), UNCHANGED <<search, id_index, row>>
  PROVE  SyncInv'
<1> USE SyncAssumption
<1> DEFINE s == [WithParser(job[j]) EXCEPT !.pc = "copy"]
<1>1. job[j] \in JobState /\ upstream \in Nat /\ ParserOf(j) /\ LoadOf(j) /\ BuildOf(j) /\ EnumOf(j)
  BY DEF SyncInv, SyncTyped, JobsInv
<1>2. /\ s \in JobState /\ s.source = job[j].source /\ s.pc = "copy" /\ s.at = job[j].at
      /\ s.ver = job[j].ver /\ s.parser = "running" /\ s.parsed = 0 /\ s.sent = 0
      /\ s.listed = job[j].listed /\ s.ok = job[j].ok /\ s.began = job[j].began
      /\ s.clean = job[j].clean
  BY <1>1 DEF WithParser, JobState, Statements
<1>3. /\ job[j].source = "imdb" /\ job[j].pc = "open" /\ job' = [job EXCEPT ![j] = s] /\ job'[j] = s
      /\ UNCHANGED <<scheduled, upstream, live, staging, index, search, id_index>>
  BY DEF OpenCopy, At, Goto, Become, SyncInv, SyncTyped
<1> HIDE DEF s
<1>4. SyncTyped'
  BY <1>2, <1>3 DEF SyncInv, SyncTyped
<1>5. ParserOf(j)'
  BY <1>1, <1>2, <1>3 DEF ParserOf, JobState
<1>6. LoadOf(j)'
  BY <1>1, <1>2, <1>3, SequencesTyped DEF LoadOf, Loading
<1>7. BuildOf(j)' /\ EnumOf(j)'
  BY <1>2, <1>3 DEF BuildOf, EnumOf, IndexSets
<1> QED BY <1>2, <1>3, <1>4, <1>5, <1>6, <1>7, OwnStep DEF Invalid

LEMMA SendInv ==
  ASSUME SyncInv, ~Overlap, NEW j \in Jobs, Send(j), UNCHANGED <<search, id_index, row>>
  PROVE  SyncInv'
<1> USE SyncAssumption
<1> DEFINE s == [job[j] EXCEPT !.sent = @ + 1]
<1>1. job[j] \in JobState /\ upstream \in Nat /\ ParserOf(j) /\ LoadOf(j) /\ BuildOf(j) /\ EnumOf(j)
  BY DEF SyncInv, SyncTyped, JobsInv
<1>2. /\ s \in JobState /\ s.source = job[j].source /\ s.pc = job[j].pc /\ s.at = job[j].at
      /\ s.ver = job[j].ver /\ s.parser = job[j].parser /\ s.parsed = job[j].parsed
      /\ s.sent = job[j].sent + 1 /\ s.listed = job[j].listed /\ s.ok = job[j].ok
      /\ s.began = job[j].began /\ s.clean = job[j].clean
  BY <1>1 DEF JobState, Statements
<1>3. /\ job[j].source = "imdb" /\ job[j].pc = "copy" /\ job' = [job EXCEPT ![j] = s] /\ job'[j] = s
      /\ job[j].sent < job[j].parsed /\ UNCHANGED <<scheduled, upstream, live, staging, index, search, id_index>>
  BY DEF Send, Received, At, Goto, Become, SyncInv, SyncTyped
<1> HIDE DEF s
<1>4. SyncTyped'
  BY <1>2, <1>3 DEF SyncInv, SyncTyped
<1>5. ParserOf(j)'
  BY <1>1, <1>2, <1>3 DEF ParserOf, JobState
<1>6. LoadOf(j)'
  BY <1>1, <1>2, <1>3, SequencesTyped DEF LoadOf, Loading
<1>7. BuildOf(j)' /\ EnumOf(j)'
  BY <1>2, <1>3 DEF BuildOf, EnumOf, IndexSets
<1> QED BY <1>2, <1>3, <1>4, <1>5, <1>6, <1>7, OwnStep DEF Invalid

\* The load is whole when the parser ended well, and the job fails when it did not.
LEMMA FinishCopyInv ==
  ASSUME SyncInv, ~Overlap, NEW j \in Jobs, FinishCopy(j), UNCHANGED <<search, id_index, row>>
  PROVE  SyncInv'
<1> USE SyncAssumption
<1> DEFINE t == Loading(j)
           next == [job[j] EXCEPT !.pc = IF t \in Structural THEN "stage" ELSE "swap"]
           s == Joined(job[j], next)
<1>1. job[j] \in JobState /\ ParserOf(j) /\ LoadOf(j)
  BY DEF SyncInv, SyncTyped, JobsInv
<1>2. /\ job[j].source = "imdb" /\ job[j].pc = "copy" /\ job' = [job EXCEPT ![j] = s] /\ job'[j] = s
      /\ job[j].parser # "running" /\ ~(job[j].sent < job[j].parsed)
      /\ staging' = [staging EXCEPT ![t].ver = job[j].ver, ![t].rows = job[j].sent]
      /\ UNCHANGED <<scheduled, upstream, live, index, search, id_index>>
  BY DEF FinishCopy, Drained, Received, At, Become, SyncInv, SyncTyped
<1>3. job[j].sent \in Nat /\ job[j].parsed \in Nat /\ job[j].ver \in Nat /\ job[j].began <= job[j].ver
  BY <1>1, <1>2 DEF JobState, LoadOf
<1>4. t \in Tables /\ staging[t] \in Table
  BY <1>1, <1>2, SequencesTyped DEF LoadOf, Tables, Loading
<1>5. /\ staging'[t] \in Table /\ staging'[t].ver = job[j].ver /\ staging'[t].rows = job[j].sent
      /\ staging' \in [Tables -> Table \union {None}]
  BY <1>2, <1>3, <1>4 DEF SyncInv, SyncTyped, Table
<1>6. CASE job[j].parser = "failed"
  <2>1. s = Failed(job[j])
    BY <1>6 DEF Joined
  <2>2. s \in JobState /\ s.source = job[j].source
    BY <1>1, <2>1, FailedTyped
  <2>3. SyncTyped'
    BY <1>2, <1>5, <2>2 DEF SyncInv, SyncTyped
  <2>4. ParserOf(j)' /\ LoadOf(j)' /\ BuildOf(j)' /\ EnumOf(j)'
    BY <1>1, <1>2, <2>1, FailedTyped DEF ParserOf, LoadOf, BuildOf, EnumOf, IndexSets, SyncInv, SyncTyped
  <2> QED BY <1>2, <2>2, <2>3, <2>4, OwnStep DEF Invalid
<1>7. CASE job[j].parser # "failed"
  <2>1. job[j].sent = Chunks
    BY <1>1, <1>2, <1>3, <1>7 DEF ParserOf, JobState
  <2>2. /\ s \in JobState /\ s.source = job[j].source /\ s.pc \in {"stage", "swap"}
        /\ s.at = job[j].at /\ s.began = job[j].began
        /\ s.parser = "off" /\ s.parsed = 0 /\ s.sent = 0
    BY <1>1, <1>7 DEF Joined, JobState, Statements
  <2> HIDE DEF s, t
  <2>3. SyncTyped'
    BY <1>2, <1>5, <2>2 DEF SyncInv, SyncTyped
  <2>4. ParserOf(j)'
    BY <1>1, <1>2, <2>2 DEF ParserOf
  <2>5. Loading(j)' = t
    BY <1>2, <2>2 DEF Loading, t
  <2>6. LoadOf(j)'
    BY <1>1, <1>2, <1>3, <1>5, <2>1, <2>2, <2>5 DEF LoadOf
  <2>7. BuildOf(j)' /\ EnumOf(j)'
    BY <1>2, <2>2 DEF BuildOf, EnumOf, IndexSets
  <2> QED BY <1>2, <2>2, <2>3, <2>4, <2>6, <2>7, OwnStep DEF Invalid
<1> QED BY <1>6, <1>7

LEMMA StageIndexesInv ==
  ASSUME SyncInv, ~Overlap, NEW j \in Jobs, StageIndexes(j), UNCHANGED <<search, id_index, row>>
  PROVE  SyncInv'
<1> USE SyncAssumption
<1> DEFINE t == Loading(j)
           s == [job[j] EXCEPT !.pc = "swap"]
<1>1. job[j] \in JobState /\ ParserOf(j) /\ LoadOf(j)
  BY DEF SyncInv, SyncTyped, JobsInv
<1>2. /\ s \in JobState /\ s.source = job[j].source /\ s.pc = "swap" /\ s.at = job[j].at
      /\ s.parser = job[j].parser /\ s.parsed = job[j].parsed /\ s.sent = job[j].sent
      /\ s.began = job[j].began
  BY <1>1 DEF JobState, Statements
<1>3. /\ job[j].source = "imdb" /\ job[j].pc = "stage" /\ job' = [job EXCEPT ![j] = s] /\ job'[j] = s
      /\ staging' = [staging EXCEPT ![t].indexed = TRUE]
      /\ UNCHANGED <<scheduled, upstream, live, index, search, id_index>>
  BY DEF StageIndexes, At, Goto, Become, SyncInv, SyncTyped
<1>4. t \in Tables /\ staging[t] \in Table
  BY <1>1, <1>3, SequencesTyped DEF LoadOf, Tables, Loading
<1>5. /\ staging'[t] \in Table /\ staging'[t].ver = staging[t].ver /\ staging'[t].rows = staging[t].rows
      /\ staging' \in [Tables -> Table \union {None}]
  BY <1>3, <1>4 DEF SyncInv, SyncTyped, Table
<1>6. Loading(j)' = t
  BY <1>2, <1>3 DEF Loading
<1> HIDE DEF s, t
<1>7. SyncTyped'
  BY <1>2, <1>3, <1>5 DEF SyncInv, SyncTyped
<1>8. ParserOf(j)'
  BY <1>1, <1>2, <1>3 DEF ParserOf
<1>9. LoadOf(j)'
  BY <1>1, <1>2, <1>3, <1>5, <1>6 DEF LoadOf, t
<1>10. BuildOf(j)' /\ EnumOf(j)'
  BY <1>2, <1>3 DEF BuildOf, EnumOf, IndexSets
<1> QED BY <1>2, <1>3, <1>7, <1>8, <1>9, <1>10, OwnStep DEF Invalid

\* Everybody else is told, or has nothing to do with the tables.
LEMMA DisturbedKept ==
  ASSUME SyncInv, NEW j \in Jobs, Swap(j), UNCHANGED <<search, id_index>>, NEW i \in Jobs, i # j
  PROVE  (ParserOf(i) /\ LoadOf(i) /\ BuildOf(i) /\ EnumOf(i))' /\ job'[i] \in JobState
         /\ job'[i].source = job[i].source
<1> USE SyncAssumption
<1> DEFINE d == Disturbed(job[i], Loading(j))
<1>1. job[i] \in JobState /\ ParserOf(i) /\ LoadOf(i) /\ BuildOf(i) /\ EnumOf(i)
  BY DEF SyncInv, SyncTyped, JobsInv
<1>2. /\ job[j].source = "imdb" /\ job'[i] = d /\ index' = IndexesWithout(Loading(j))
      /\ UNCHANGED <<scheduled, upstream, search, id_index>>
  BY DEF Swap, At
<1>3. job[i].source # "imdb"
  BY <1>2 DEF SyncInv, Alone
<1>4. /\ d \in JobState /\ d.source = job[i].source /\ d.pc = job[i].pc /\ d.at = job[i].at
      /\ d.ver = job[i].ver /\ d.parser = job[i].parser /\ d.parsed = job[i].parsed
      /\ d.sent = job[i].sent /\ d.listed = job[i].listed /\ d.ok = job[i].ok
      /\ d.began = job[i].began
  BY <1>1 DEF Disturbed, JobState
<1>5. job[i].source \notin {"tmdb", None} => ~d.clean
  BY <1>1 DEF Disturbed, JobState
<1> HIDE DEF d
<1>6. ParserOf(i)' /\ LoadOf(i)' /\ EnumOf(i)'
  BY <1>1, <1>2, <1>3, <1>4 DEF ParserOf, LoadOf, EnumOf
<1>7. BuildOf(i)'
  <2>1. IndexSets' = IndexSets /\ Invalid(job[i].source)' \subseteq Invalid(job[i].source)
    BY <1>2, <1>4 DEF IndexSets, Invalid, IndexesWithout
  <2>2. job[i].source \in IndexSets => ~d.clean
    BY <1>5 DEF IndexSets
  <2> QED BY <1>1, <1>2, <1>4, <2>1, <2>2 DEF BuildOf, Invalid
<1> QED BY <1>2, <1>4, <1>6, <1>7

\* A whole load goes live, and the job to the next dataset or its report.
LEMMA SwapInv ==
  ASSUME SyncInv, NEW j \in Jobs, Swap(j), UNCHANGED <<search, id_index, row>>
  PROVE  SyncInv'
<1> USE SyncAssumption
<1> DEFINE t == Loading(j)
           s == Advance(job[j])
<1>1. job[j] \in JobState /\ ParserOf(j) /\ LoadOf(j)
  BY DEF SyncInv, SyncTyped, JobsInv
<1>2. /\ job[j].source = "imdb" /\ job[j].pc = "swap" /\ job'[j] = s /\ DOMAIN job' = Jobs
      /\ live' = [live EXCEPT ![t] = staging[t]] /\ staging' = [staging EXCEPT ![t] = None]
      /\ t \in Structural => staging[t].indexed
  BY DEF Swap, At
<1>3. UNCHANGED <<scheduled, upstream, search, id_index>>
  BY DEF Swap
<1>4. /\ t \in Tables /\ staging[t] \in Table /\ staging[t].rows = Chunks
      /\ job[j].began <= staging[t].ver /\ job[j].at \in 1 .. Len(Datasets) /\ t = Datasets[job[j].at]
  BY <1>1, <1>2, SequencesTyped DEF LoadOf, Tables, Loading
<1>5. live' \in [Tables -> Table] /\ \A r \in Tables : live'[r] = IF r = t THEN staging[t] ELSE live[r]
  BY <1>2, <1>4 DEF SyncInv, SyncTyped
<1>6. s \in JobState /\ s.source = job[j].source /\ s.began = job[j].began
  <2>1. CASE job[j].at < Len(Datasets)
    <3>1. s = [job[j] EXCEPT !.at = job[j].at + 1, !.pc = "drop"] /\ job[j].at + 1 \in Nat
      BY <1>1, <2>1 DEF Advance, JobState
    <3>2. [job[j] EXCEPT !.at = job[j].at + 1, !.pc = "drop"] \in JobState
      BY <1>1, <3>1 DEF JobState, Statements
    <3> QED BY <1>1, <3>1, <3>2 DEF JobState
  <2>2. CASE ~(job[j].at < Len(Datasets))
    BY <1>1, <2>2, SucceededTyped DEF Advance
  <2> QED BY <2>1, <2>2
<1>7. \/ /\ s.pc = "drop" /\ s.at = job[j].at + 1 /\ s.at <= Len(Datasets)
      \/ s.pc = "persist" /\ job[j].at = Len(Datasets)
  BY <1>1, <1>4, SequencesTyped, SucceededTyped DEF Advance, JobState
<1>8. /\ s.parser = "ended" => s.parsed = Chunks
      /\ s.sent <= s.parsed /\ s.parsed <= Chunks
  BY <1>1, <1>4, SequencesTyped, SucceededTyped DEF Advance, ParserOf, JobState
<1>9. \A k \in 1 .. job[j].at : job[j].began <= live'[Datasets[k]].ver
  <2> TAKE k \in 1 .. job[j].at
  <2>1. Datasets[k] \in Tables
    BY <1>4, SequencesTyped DEF Tables
  <2>2. k # job[j].at => k \in 1 .. job[j].at - 1
    BY <1>4, SequencesTyped
  <2> QED BY <1>1, <1>2, <1>4, <1>5, <2>1, <2>2 DEF LoadOf
<1> HIDE DEF s
<1>10. SyncTyped'
  <2>1. job' \in [Jobs -> JobState]
    BY <1>2, <1>6, DisturbedKept DEF Swap
  <2>2. staging' \in [Tables -> Table \union {None}]
    BY <1>2 DEF SyncInv, SyncTyped
  <2> QED BY <1>3, <1>5, <2>1, <2>2 DEF SyncInv, SyncTyped
<1>11. Alone'
  BY <1>2, <1>6, DisturbedKept DEF SyncInv, Alone
<1>12. ParserOf(j)'
  BY <1>1, <1>2, <1>3, <1>6, <1>7, <1>8 DEF ParserOf
<1>13. LoadOf(j)'
  <2>1. CASE s.pc = "drop"
    BY <1>2, <1>4, <1>6, <1>7, <1>9, <2>1, SequencesTyped DEF LoadOf
  <2>2. CASE s.pc = "persist"
    BY <1>2, <1>6, <1>7, <1>9, <2>2, SequencesTyped DEF LoadOf, Tables
  <2> QED BY <1>7, <2>1, <2>2
<1>14. BuildOf(j)' /\ EnumOf(j)'
  BY <1>2, <1>3, <1>6 DEF BuildOf, EnumOf, IndexSets
<1>15. LiveWhole'
  BY <1>2, <1>4, <1>5 DEF SyncInv, LiveWhole
<1> QED BY <1>10, <1>11, <1>12, <1>13, <1>14, <1>15, DisturbedKept DEF SyncInv, JobsInv

----------------------------------------------------------------------------
(* Index maintenance.                                                      *)

\* A job of an index set keeps to that set, and to the derived table if it is its.
LEMMA OwnIndexStep ==
  ASSUME SyncInv, ~Overlap, NEW j \in Jobs, job[j].source \in IndexSets,
         NEW s \in JobState, job' = [job EXCEPT ![j] = s], s.source = job[j].source,
         UNCHANGED <<scheduled, upstream, live, staging, id_index>>,
         job[j].source # "imdb-fts" => UNCHANGED search,
         \A r \in {"imdb-fts", "imdb-trgm"} \ {job[j].source} :
           /\ Invalid(r)' \subseteq Invalid(r)
           /\ Expected(r) \intersect DOMAIN index \subseteq DOMAIN index',
         ParserOf(j)', BuildOf(j)'
  PROVE  SyncInv'
<1>1. job[j].source \notin {"imdb", "tmdb"}
  BY DEF IndexSets
<1>2. job'[j] = s
  BY DEF SyncInv, SyncTyped
<1>3. LoadOf(j)' /\ EnumOf(j)'
  BY <1>1, <1>2 DEF LoadOf, EnumOf
<1>4. SyncTyped'
  BY DEF SyncInv, SyncTyped
<1> QED BY <1>1, <1>3, <1>4, OwnStep

LEMMA PrerequisitesInv ==
  ASSUME SyncInv, ~Overlap, NEW j \in Jobs, Prerequisites(j), UNCHANGED <<id_index, row>>
  PROVE  SyncInv'
<1> USE SyncAssumption
<1> DEFINE s == [job[j] EXCEPT !.pc = IF job[j].source = "imdb-fts" THEN "table" ELSE "list"]
<1>1. job[j] \in JobState /\ ParserOf(j) /\ BuildOf(j)
  BY DEF SyncInv, SyncTyped, JobsInv
<1>2. /\ job[j].source \in IndexSets /\ job[j].source \in {"imdb-fts", "imdb-trgm"}
      /\ job[j].pc = "prereqs" /\ job' = [job EXCEPT ![j] = s] /\ job'[j] = s
      /\ UNCHANGED <<scheduled, upstream, live, staging, index, search, id_index>>
  BY DEF Prerequisites, Maintaining, Goto, Become, Unchanged, IndexSets, SyncInv, SyncTyped
<1>3. /\ s \in JobState /\ s.pc = IF job[j].source = "imdb-fts" THEN "table" ELSE "list"
      /\ s.source = job[j].source /\ s.at = job[j].at /\ s.parser = job[j].parser
      /\ s.parsed = job[j].parsed /\ s.sent = job[j].sent /\ s.began = job[j].began
      /\ s.clean = job[j].clean /\ s.listed = job[j].listed
  BY <1>1, <1>2 DEF JobState, Statements
<1> HIDE DEF s
<1>4. ParserOf(j)'
  BY <1>1, <1>2, <1>3 DEF ParserOf
<1>5. BuildOf(j)'
  BY <1>1, <1>2, <1>3 DEF BuildOf, IndexSets, Invalid
<1> QED BY <1>1, <1>2, <1>3, <1>4, <1>5, OwnIndexStep DEF Invalid

LEMMA CreateSearchTableInv ==
  ASSUME SyncInv, ~Overlap, NEW j \in Jobs, CreateSearchTable(j), UNCHANGED <<id_index, row>>
  PROVE  SyncInv'
<1> USE SyncAssumption
<1> DEFINE s == [job[j] EXCEPT !.pc = "truncate"]
<1>1. job[j] \in JobState /\ ParserOf(j) /\ BuildOf(j)
  BY DEF SyncInv, SyncTyped, JobsInv
<1>2. /\ job[j].source \in IndexSets /\ job[j].source \in {"imdb-fts", "imdb-trgm"}
      /\ job[j].pc = "table" /\ job' = [job EXCEPT ![j] = s] /\ job'[j] = s
      /\ UNCHANGED <<scheduled, upstream, live, staging, index, id_index>>
  BY DEF CreateSearchTable, Maintaining, Goto, Become, Unchanged, IndexSets, SyncInv, SyncTyped
<1>3. /\ s \in JobState /\ s.pc = "truncate" /\ s.source = job[j].source /\ s.at = job[j].at
      /\ s.parser = job[j].parser /\ s.parsed = job[j].parsed /\ s.sent = job[j].sent
      /\ s.began = job[j].began /\ s.clean = job[j].clean /\ s.listed = job[j].listed
  BY <1>1, <1>2 DEF JobState, Statements
<1> HIDE DEF s
<1>4. ParserOf(j)'
  BY <1>1, <1>2, <1>3 DEF ParserOf
<1>5. BuildOf(j)'
  BY <1>1, <1>2, <1>3 DEF BuildOf, IndexSets, Invalid
<1>6. job[j].source = "imdb-fts"
  BY <1>1, <1>2 DEF BuildOf
<1> QED BY <1>1, <1>2, <1>3, <1>4, <1>5, <1>6, OwnIndexStep DEF Invalid

LEMMA TruncateInv ==
  ASSUME SyncInv, ~Overlap, NEW j \in Jobs, Truncate(j), UNCHANGED <<id_index, row>>
  PROVE  SyncInv'
<1> USE SyncAssumption
<1> DEFINE s == [job[j] EXCEPT !.pc = "insert"]
<1>1. job[j] \in JobState /\ ParserOf(j) /\ BuildOf(j)
  BY DEF SyncInv, SyncTyped, JobsInv
<1>2. /\ job[j].source \in IndexSets /\ job[j].source \in {"imdb-fts", "imdb-trgm"}
      /\ job[j].pc = "truncate" /\ job' = [job EXCEPT ![j] = s] /\ job'[j] = s
      /\ search' = <<>>
      /\ UNCHANGED <<scheduled, upstream, live, staging, index, id_index>>
  BY DEF Truncate, Maintaining, Goto, Become, Unchanged, IndexSets, SyncInv, SyncTyped
<1>3. /\ s \in JobState /\ s.pc = "insert" /\ s.source = job[j].source /\ s.at = job[j].at
      /\ s.parser = job[j].parser /\ s.parsed = job[j].parsed /\ s.sent = job[j].sent
      /\ s.began = job[j].began /\ s.clean = job[j].clean /\ s.listed = job[j].listed
  BY <1>1, <1>2 DEF JobState, Statements
<1> HIDE DEF s
<1>4. ParserOf(j)'
  BY <1>1, <1>2, <1>3 DEF ParserOf
<1>5. BuildOf(j)'
  BY <1>1, <1>2, <1>3 DEF BuildOf, IndexSets, Invalid
<1>6. job[j].source = "imdb-fts"
  BY <1>1, <1>2 DEF BuildOf
<1> QED BY <1>1, <1>2, <1>3, <1>4, <1>5, <1>6, OwnIndexStep DEF Invalid

LEMMA InsertInv ==
  ASSUME SyncInv, ~Overlap, NEW j \in Jobs, Insert(j), UNCHANGED <<id_index, row>>
  PROVE  SyncInv'
<1> USE SyncAssumption
<1> DEFINE s == [job[j] EXCEPT !.pc = "list"]
<1>1. job[j] \in JobState /\ ParserOf(j) /\ BuildOf(j)
  BY DEF SyncInv, SyncTyped, JobsInv
<1>2. /\ job[j].source \in IndexSets /\ job[j].source \in {"imdb-fts", "imdb-trgm"}
      /\ job[j].pc = "insert" /\ job' = [job EXCEPT ![j] = s] /\ job'[j] = s
      /\ search' = Append(search, Derived)
      /\ UNCHANGED <<scheduled, upstream, live, staging, index, id_index>>
  BY DEF Insert, Maintaining, Goto, Become, Unchanged, IndexSets, SyncInv, SyncTyped
<1>3. /\ s \in JobState /\ s.pc = "list" /\ s.source = job[j].source /\ s.at = job[j].at
      /\ s.parser = job[j].parser /\ s.parsed = job[j].parsed /\ s.sent = job[j].sent
      /\ s.began = job[j].began /\ s.clean = job[j].clean /\ s.listed = job[j].listed
  BY <1>1, <1>2 DEF JobState, Statements
<1> HIDE DEF s
<1>4. ParserOf(j)'
  BY <1>1, <1>2, <1>3 DEF ParserOf
<1>5. BuildOf(j)'
  <2>1. search = <<>> /\ Derived' = Derived
    BY <1>1, <1>2 DEF BuildOf, Derived
  <2>2. search' = <<Derived>>
    BY <1>2, <2>1
  <2> QED BY <1>1, <1>2, <1>3, <2>1, <2>2 DEF BuildOf, IndexSets, Invalid
<1>6. job[j].source = "imdb-fts"
  BY <1>1, <1>2 DEF BuildOf
<1> QED BY <1>1, <1>2, <1>3, <1>4, <1>5, <1>6, OwnIndexStep DEF Invalid

LEMMA ListInv ==
  ASSUME SyncInv, ~Overlap, NEW j \in Jobs, List(j), UNCHANGED <<id_index, row>>
  PROVE  SyncInv'
<1> USE SyncAssumption
<1> DEFINE s == [job[j] EXCEPT !.pc = IF Invalid(job[j].source) = {} THEN "ensure" ELSE "prune",
                              !.listed = Invalid(job[j].source)]
<1>1. job[j] \in JobState /\ ParserOf(j) /\ BuildOf(j)
  BY DEF SyncInv, SyncTyped, JobsInv
<1>2. /\ job[j].source \in IndexSets /\ job[j].source \in {"imdb-fts", "imdb-trgm"}
      /\ job[j].pc = "list" /\ job' = [job EXCEPT ![j] = s] /\ job'[j] = s
      /\ UNCHANGED <<scheduled, upstream, live, staging, index, search, id_index>>
  BY DEF List, Maintaining, Goto, Become, Unchanged, IndexSets, SyncInv, SyncTyped
<1>3. /\ s \in JobState /\ s.pc = IF Invalid(job[j].source) = {} THEN "ensure" ELSE "prune"
      /\ s.listed = Invalid(job[j].source) /\ s.source = job[j].source /\ s.at = job[j].at
      /\ s.parser = job[j].parser /\ s.parsed = job[j].parsed /\ s.sent = job[j].sent
      /\ s.began = job[j].began /\ s.clean = job[j].clean
  <2>1. Invalid(job[j].source) \in SUBSET (Expected("imdb-fts") \union Expected("imdb-trgm"))
    BY <1>2 DEF Invalid
  <2> QED BY <1>1, <1>2, <2>1 DEF JobState, Statements
<1> HIDE DEF s
<1>4. ParserOf(j)'
  BY <1>1, <1>2, <1>3 DEF ParserOf
<1>5. BuildOf(j)'
  <2>1. Derived' = Derived /\ Invalid(job[j].source)' = Invalid(job[j].source)
    BY <1>2, <1>3 DEF Invalid, Derived
  <2>2. Len(IndexesOf(job[j].source)) \in Nat \ {0}
    BY <1>2, IndexNames
  <2>3. Invalid(job[j].source) \subseteq Expected(job[j].source)
    BY DEF Invalid
  <2> QED BY <1>1, <1>2, <1>3, <2>1, <2>2, <2>3 DEF BuildOf, IndexSets
<1> QED BY <1>1, <1>2, <1>3, <1>4, <1>5, OwnIndexStep DEF Invalid

\* An INVALID index goes; the last one gone, nothing INVALID is left of the set.
LEMMA PruneInv ==
  ASSUME SyncInv, ~Overlap, NEW j \in Jobs, Prune(j), UNCHANGED <<id_index, row>>
  PROVE  SyncInv'
<1> USE SyncAssumption
<1>1. job[j] \in JobState /\ ParserOf(j) /\ BuildOf(j)
  BY DEF SyncInv, SyncTyped, JobsInv
<1>2. PICK n \in job[j].listed \intersect DOMAIN index :
        /\ Maintaining(j, "prune") /\ index' = [m \in DOMAIN index \ {n} |-> index[m]]
        /\ Become(j, [job[j] EXCEPT !.listed = @ \ {n},
                                    !.pc = IF job[j].listed = {n} THEN "ensure" ELSE "prune"])
        /\ UNCHANGED <<scheduled, upstream, live, staging, search>>
  BY DEF Prune, Unchanged
<1> DEFINE s == [job[j] EXCEPT !.listed = @ \ {n},
                               !.pc = IF job[j].listed = {n} THEN "ensure" ELSE "prune"]
<1>3. /\ job[j].source \in IndexSets /\ job[j].source \in {"imdb-fts", "imdb-trgm"}
      /\ job[j].pc = "prune" /\ job' = [job EXCEPT ![j] = s] /\ job'[j] = s
  BY <1>2 DEF Maintaining, Become, IndexSets, SyncInv, SyncTyped
<1>4. /\ s \in JobState /\ s.pc = IF job[j].listed = {n} THEN "ensure" ELSE "prune"
      /\ s.listed = job[j].listed \ {n} /\ s.source = job[j].source /\ s.at = job[j].at
      /\ s.parser = job[j].parser /\ s.parsed = job[j].parsed /\ s.sent = job[j].sent
      /\ s.began = job[j].began /\ s.clean = job[j].clean
  BY <1>1, <1>3 DEF JobState, Statements
<1> HIDE DEF s
<1>5. n \in Expected(job[j].source) /\ Invalid(job[j].source) \subseteq job[j].listed
  BY <1>1, <1>2, <1>3 DEF BuildOf
<1>6. ParserOf(j)'
  BY <1>1, <1>2, <1>3, <1>4 DEF ParserOf
<1>7. BuildOf(j)'
  <2>1. Derived' = Derived /\ Invalid(job[j].source)' = Invalid(job[j].source) \ {n}
    BY <1>2, <1>3, <1>4 DEF Invalid, Derived
  <2>2. Len(IndexesOf(job[j].source)) \in Nat \ {0}
    BY <1>3, IndexNames
  <2> QED BY <1>1, <1>2, <1>3, <1>4, <1>5, <2>1, <2>2 DEF BuildOf, IndexSets
<1>8. ASSUME NEW r \in {"imdb-fts", "imdb-trgm"} \ {job[j].source}
      PROVE  /\ Invalid(r)' \subseteq Invalid(r)
             /\ Expected(r) \intersect DOMAIN index \subseteq DOMAIN index'
  <2>1. n \notin Expected(r)
    BY <1>3, <1>5, IndexSetsApart
  <2> QED BY <1>2, <2>1 DEF Invalid
<1> QED BY <1>2, <1>3, <1>4, <1>6, <1>7, <1>8, OwnIndexStep

\* The missing indexes are built one after the other, valid.
LEMMA EnsureInv ==
  ASSUME SyncInv, ~Overlap, NEW j \in Jobs, Ensure(j), UNCHANGED <<id_index, row>>
  PROVE  SyncInv'
<1> USE SyncAssumption
<1> DEFINE set == job[j].source
           names == IndexesOf(set)
           name == names[job[j].at]
           s == IF job[j].at < Len(names) THEN [job[j] EXCEPT !.at = @ + 1] ELSE Succeeded(job[j])
<1>1. job[j] \in JobState /\ ParserOf(j) /\ BuildOf(j)
  BY DEF SyncInv, SyncTyped, JobsInv
<1>2. /\ set \in IndexSets /\ set \in {"imdb-fts", "imdb-trgm"} /\ job[j].pc = "ensure"
      /\ job' = [job EXCEPT ![j] = s] /\ job'[j] = s
      /\ UNCHANGED <<scheduled, upstream, live, staging, search, id_index>>
  BY DEF Ensure, Maintaining, Become, Unchanged, IndexSets, SyncInv, SyncTyped
<1>3. index' = IF name \in DOMAIN index THEN index
               ELSE [n \in DOMAIN index \union {name} |-> n = name \/ index[n]]
  BY DEF Ensure
<1>4. /\ job[j].at \in 1 .. Len(names) /\ Len(names) \in Nat /\ name \in Expected(set)
      /\ \A n \in Expected(set) : \E k \in 1 .. Len(names) : n = names[k]
  BY <1>1, <1>2, IndexNames DEF BuildOf
<1>5. /\ s \in JobState /\ s.source = set /\ s.began = job[j].began /\ s.clean = job[j].clean
      /\ s.sent <= s.parsed /\ s.parsed <= Chunks
      /\ s.parser = "ended" => s.parsed = Chunks
      /\ s.listed \subseteq Expected(set)
  <2>1. job[j].listed \subseteq Expected(set)
    BY <1>1, <1>2 DEF BuildOf
  <2>2. job[j].at + 1 \in Nat /\ [job[j] EXCEPT !.at = job[j].at + 1] \in JobState
    BY <1>1 DEF JobState
  <2>3. CASE job[j].at < Len(names)
    <3>1. s = [job[j] EXCEPT !.at = job[j].at + 1]
      BY <1>1, <2>3 DEF JobState
    <3> QED BY <1>1, <2>1, <2>2, <3>1 DEF ParserOf, JobState
  <2>4. CASE ~(job[j].at < Len(names))
    BY <1>1, <2>4, SucceededTyped
  <2> QED BY <2>3, <2>4
<1>6. \/ s.pc = "ensure" /\ s.at = job[j].at + 1 /\ job[j].at < Len(names)
      \/ s.pc = "persist" /\ job[j].at = Len(names)
  BY <1>1, <1>2, <1>4, SucceededTyped DEF JobState
<1>7. Invalid(set)' = {} /\ name \in DOMAIN index' /\ DOMAIN index \subseteq DOMAIN index'
  <2>1. Invalid(set) = {}
    BY <1>1, <1>2 DEF BuildOf
  <2>2. CASE name \in DOMAIN index
    BY <1>2, <1>3, <1>5, <2>1, <2>2 DEF Invalid
  <2>3. CASE name \notin DOMAIN index
    <3>1. index' = [n \in DOMAIN index \union {name} |-> n = name \/ index[n]]
      BY <1>3, <2>3
    <3> HIDE DEF name
    <3>2. \A n \in DOMAIN index : n \in DOMAIN index' /\ (index[n] => index'[n])
      BY <3>1
    <3>3. DOMAIN index' = DOMAIN index \union {name} /\ index'[name]
      BY <3>1
    <3>4. job'[j].source = set
      BY <1>2, <1>5
    <3> QED BY <2>1, <3>2, <3>3, <3>4 DEF Invalid
  <2> QED BY <2>2, <2>3
<1> HIDE DEF s, name
<1>8. ParserOf(j)'
  BY <1>1, <1>2, <1>5, <1>6 DEF ParserOf
<1>9. job[j].clean => \A k \in 1 .. job[j].at : names[k] \in DOMAIN index'
  BY <1>1, <1>2, <1>4, <1>7 DEF BuildOf, name
<1>10. BuildOf(j)'
  <2>1. Derived' = Derived
    BY <1>2 DEF Derived
  <2>2. CASE s.pc = "ensure"
    BY <1>1, <1>2, <1>4, <1>5, <1>6, <1>7, <1>9, <2>1, <2>2 DEF BuildOf, IndexSets
  <2>3. CASE s.pc = "persist"
    BY <1>1, <1>2, <1>4, <1>5, <1>6, <1>7, <1>9, <2>1, <2>3 DEF BuildOf, IndexSets
  <2> QED BY <1>6, <2>2, <2>3
<1>11. ASSUME NEW r \in {"imdb-fts", "imdb-trgm"} \ {set}
       PROVE  /\ Invalid(r)' \subseteq Invalid(r)
              /\ Expected(r) \intersect DOMAIN index \subseteq DOMAIN index'
  <2>1. name \notin Expected(r)
    BY <1>2, <1>4, IndexSetsApart
  <2> QED BY <1>3, <2>1 DEF Invalid
<1> QED BY <1>2, <1>5, <1>8, <1>10, <1>11, OwnIndexStep

----------------------------------------------------------------------------
(* The enumeration.                                                        *)

LEMMA GetExportInv ==
  ASSUME SyncInv, ~Overlap, NEW j \in Jobs, GetExport(j),
         UNCHANGED <<live, staging, index, search, row>>
  PROVE  SyncInv'
<1> USE SyncAssumption
<1> DEFINE s == [WithParser(job[j]) EXCEPT !.ver = job[j].began, !.pc = "upsert"]
<1>1. job[j] \in JobState /\ upstream \in Nat /\ ParserOf(j) /\ EnumOf(j)
  BY DEF SyncInv, SyncTyped, JobsInv
<1>2. /\ s \in JobState /\ s.source = job[j].source /\ s.pc = "upsert" /\ s.at = job[j].at
      /\ s.ver = job[j].began /\ s.parser = "running" /\ s.parsed = 0 /\ s.sent = 0
      /\ s.began = job[j].began
  BY <1>1 DEF WithParser, JobState, Statements
<1>3. /\ job[j].source = "tmdb" /\ job[j].pc = "request" /\ job' = [job EXCEPT ![j] = s]
      /\ job'[j] = s /\ UNCHANGED <<scheduled, upstream, id_index>>
  BY DEF GetExport, At, Become, SyncInv, SyncTyped
<1> HIDE DEF s
<1>4. SyncTyped'
  BY <1>2, <1>3 DEF SyncInv, SyncTyped
<1>5. ParserOf(j)' /\ EnumOf(j)'
  BY <1>1, <1>2, <1>3 DEF ParserOf, EnumOf
<1>6. LoadOf(j)' /\ BuildOf(j)'
  BY <1>2, <1>3 DEF LoadOf, BuildOf, IndexSets
<1> QED BY <1>2, <1>3, <1>4, <1>5, <1>6, OwnStep DEF Invalid

LEMMA UpsertInv ==
  ASSUME SyncInv, ~Overlap, NEW j \in Jobs, Upsert(j),
         UNCHANGED <<live, staging, index, search, row>>
  PROVE  SyncInv'
<1> USE SyncAssumption
<1> DEFINE s == [job[j] EXCEPT !.sent = @ + 1]
           kind == Exports[job[j].at]
           batch == job[j].sent + 1
<1>1. job[j] \in JobState /\ ParserOf(j) /\ EnumOf(j)
  BY DEF SyncInv, SyncTyped, JobsInv
<1>2. /\ s \in JobState /\ s.source = job[j].source /\ s.pc = job[j].pc /\ s.at = job[j].at
      /\ s.ver = job[j].ver /\ s.parser = job[j].parser /\ s.parsed = job[j].parsed
      /\ s.sent = batch /\ s.began = job[j].began
  BY <1>1 DEF JobState
<1>3. /\ job[j].source = "tmdb" /\ job[j].pc = "upsert" /\ job' = [job EXCEPT ![j] = s]
      /\ job'[j] = s /\ job[j].sent < job[j].parsed
      /\ id_index' = [id_index EXCEPT ![kind][batch] = job[j].ver]
      /\ UNCHANGED <<scheduled, upstream>>
  BY DEF Upsert, Received, At, Become, SyncInv, SyncTyped
<1>4. /\ kind \in Kinds /\ batch \in 1 .. Chunks /\ job[j].at \in 1 .. Len(Exports)
      /\ job[j].ver \in Nat /\ job[j].began \in Nat
  BY <1>1, <1>3, SequencesTyped DEF ParserOf, EnumOf, Kinds, JobState
<1>5. /\ id_index' \in [Kinds -> [1 .. Chunks -> Nat]]
      /\ \A q \in Kinds, b \in 1 .. Chunks :
           id_index'[q][b] = IF q = kind /\ b = batch THEN job[j].ver ELSE id_index[q][b]
  BY <1>3, <1>4 DEF SyncInv, SyncTyped
<1> HIDE DEF s
<1>6. SyncTyped'
  BY <1>2, <1>3, <1>5 DEF SyncInv, SyncTyped
<1>7. ParserOf(j)'
  BY <1>1, <1>2, <1>3, <1>4 DEF ParserOf, JobState
<1>8. EnumOf(j)'
  <2>1. \A k \in 1 .. Len(Exports) : Exports[k] \in Kinds
    BY SequencesTyped DEF Kinds
  <2>2. \A k \in 1 .. job[j].at - 1, b \in 1 .. Chunks : job[j].began = id_index'[Exports[k]][b]
    BY <1>1, <1>3, <1>4, <1>5, <2>1, SequencesTyped DEF EnumOf
  <2>3. job[j].began = job[j].ver
    BY <1>1, <1>3 DEF EnumOf
  <2>4. \A b \in 1 .. batch : job[j].began = id_index'[kind][b]
    <3> TAKE b \in 1 .. batch
    <3>1. b \in 1 .. Chunks /\ (b = batch \/ b \in 1 .. job[j].sent)
      BY <1>1, <1>4 DEF JobState
    <3> QED BY <1>1, <1>3, <1>4, <1>5, <2>3, <3>1 DEF EnumOf
  <2> QED BY <1>2, <1>3, <1>4, <2>3, <2>2, <2>4 DEF EnumOf
<1>9. LoadOf(j)' /\ BuildOf(j)'
  BY <1>2, <1>3 DEF LoadOf, BuildOf, IndexSets
<1> QED BY <1>2, <1>3, <1>6, <1>7, <1>8, <1>9, OwnStep DEF Invalid

\* The parser ended well and everything it sent is in, or the job fails.
LEMMA EndExportInv ==
  ASSUME SyncInv, ~Overlap, NEW j \in Jobs, EndExport(j),
         UNCHANGED <<live, staging, index, search, row>>
  PROVE  SyncInv'
<1> USE SyncAssumption
<1> DEFINE next == IF job[j].at < Len(Exports)
                   THEN [job[j] EXCEPT !.pc = "request", !.at = @ + 1]
                   ELSE Succeeded(job[j])
           s == Joined(job[j], next)
<1>1. job[j] \in JobState /\ ParserOf(j) /\ EnumOf(j)
  BY DEF SyncInv, SyncTyped, JobsInv
<1>2. /\ job[j].source = "tmdb" /\ job[j].pc = "upsert" /\ job' = [job EXCEPT ![j] = s]
      /\ job'[j] = s /\ job[j].parser # "running" /\ ~(job[j].sent < job[j].parsed)
      /\ UNCHANGED <<scheduled, upstream, id_index>>
  BY DEF EndExport, Drained, Received, At, Become, SyncInv, SyncTyped
<1>3. job[j].at \in 1 .. Len(Exports)
  BY <1>1, <1>2 DEF EnumOf
<1>4. CASE job[j].parser = "failed"
  <2>1. s = Failed(job[j])
    BY <1>4 DEF Joined
  <2> QED BY <1>2, <2>1, EndInv DEF data
<1>5. CASE job[j].parser # "failed"
  <2>1. job[j].sent = Chunks
    BY <1>1, <1>2, <1>5 DEF ParserOf, JobState
  <2>2. /\ next \in JobState /\ next.source = "tmdb" /\ next.began = job[j].began
        /\ \/ next.pc = "request" /\ next.at = job[j].at + 1 /\ next.at <= Len(Exports)
           \/ next.pc = "persist" /\ job[j].at = Len(Exports)
    <3>1. CASE job[j].at < Len(Exports)
      <4>1. next = [job[j] EXCEPT !.pc = "request", !.at = job[j].at + 1] /\ job[j].at + 1 \in Nat
        BY <1>1, <3>1 DEF JobState
      <4> HIDE DEF next
      <4>2. [job[j] EXCEPT !.pc = "request", !.at = job[j].at + 1] \in JobState
        BY <1>1, <4>1 DEF JobState, Statements
      <4>3. /\ next \in JobState /\ next.source = job[j].source /\ next.began = job[j].began
            /\ next.pc = "request" /\ next.at = job[j].at + 1
        BY <1>1, <4>1, <4>2 DEF JobState
      <4> QED BY <1>2, <1>3, <3>1, <4>3, SequencesTyped
    <3>2. CASE ~(job[j].at < Len(Exports))
      BY <1>1, <1>2, <1>3, <3>2, SequencesTyped, SucceededTyped
    <3> QED BY <3>1, <3>2
  <2> HIDE DEF next
  <2>3. /\ s \in JobState /\ s.source = "tmdb" /\ s.pc = next.pc /\ s.at = next.at
        /\ s.began = job[j].began /\ s.parser = "off" /\ s.parsed = 0 /\ s.sent = 0
    BY <1>5, <2>2 DEF Joined, JobState
  <2> HIDE DEF s
  <2>4. SyncTyped'
    BY <1>2, <2>3 DEF SyncInv, SyncTyped
  <2>5. ParserOf(j)'
    BY <1>1, <1>2, <2>2, <2>3 DEF ParserOf
  <2>6. \A k \in 1 .. job[j].at, b \in 1 .. Chunks : job[j].began = id_index'[Exports[k]][b]
    <3> TAKE k \in 1 .. job[j].at, b \in 1 .. Chunks
    <3>1. k = job[j].at \/ k \in 1 .. job[j].at - 1
      BY <1>3
    <3> QED BY <1>1, <1>2, <2>1, <3>1 DEF EnumOf
  <2>7. EnumOf(j)'
    <3>1. CASE next.pc = "request"
      <4>1. next.at = job[j].at + 1 /\ next.at <= Len(Exports) /\ next.at \in 1 .. Len(Exports)
        BY <1>3, <2>2, <3>1, SequencesTyped
      <4>2. \A k \in 1 .. next.at - 1, b \in 1 .. Chunks : job[j].began = id_index'[Exports[k]][b]
        BY <1>3, <2>6, <4>1
      <4>3. /\ job'[j].pc = "request" /\ job'[j].at = next.at /\ job'[j].began = job[j].began
            /\ Exports' = Exports /\ Chunks' = Chunks
        BY <1>2, <2>3, <3>1
      <4> QED BY <4>1, <4>2, <4>3 DEF EnumOf
    <3>2. CASE next.pc = "persist"
      <4>1. \A kind \in Kinds : \E k \in 1 .. job[j].at : kind = Exports[k]
        BY <2>2, <3>2, SequencesTyped DEF Kinds
      <4>2. \A kind \in Kinds, b \in 1 .. Chunks : job[j].began = id_index'[kind][b]
        BY <2>6, <4>1
      <4>3. Kinds' = Kinds
        BY DEF Kinds
      <4> QED BY <1>2, <2>3, <3>2, <4>2, <4>3 DEF EnumOf
    <3> QED BY <2>2, <3>1, <3>2
  <2>8. LoadOf(j)' /\ BuildOf(j)'
    BY <1>2, <2>3 DEF LoadOf, BuildOf, IndexSets
  <2> QED BY <1>2, <2>3, <2>4, <2>5, <2>7, <2>8, OwnStep DEF Invalid
<1> QED BY <1>4, <1>5

----------------------------------------------------------------------------
(* Migrations and publications.                                            *)

LEMMA MigrateInv ==
  ASSUME SyncInv, Migrate, UNCHANGED <<id_index, row>>
  PROVE  SyncInv'
<1> DEFINE missing == {n \in Names \ DOMAIN index : n[2] # "imdb_search_titles"}
<1>1. /\ index' = [n \in DOMAIN index \union missing |-> n \in missing \/ index[n]]
      /\ UNCHANGED <<scheduled, job, upstream, live, staging, search, id_index>>
  BY DEF Migrate
<1>2. missing \intersect DOMAIN index = {}
  OBVIOUS
<1> HIDE DEF missing
<1>3. \A n \in DOMAIN index' : ~index'[n] => n \in DOMAIN index /\ ~index[n]
  BY <1>1, <1>2
<1>4. DOMAIN index \subseteq DOMAIN index'
  BY <1>1
<1>5. ASSUME NEW i \in Jobs
      PROVE  (ParserOf(i) /\ LoadOf(i) /\ BuildOf(i) /\ EnumOf(i))'
  <2>1. Invalid(job[i].source)' \subseteq Invalid(job[i].source)
    BY <1>1, <1>3 DEF Invalid
  <2> QED BY <1>1, <1>4, <2>1, JobKept DEF SyncInv, SyncTyped, JobsInv
<1>6. SyncTyped' /\ Alone' /\ LiveWhole'
  BY <1>1 DEF SyncInv, SyncTyped, Alone, LiveWhole
<1> QED BY <1>5, <1>6 DEF SyncInv, JobsInv

LEMMA PublishInv ==
  ASSUME SyncInv, Publish, UNCHANGED <<data, row>>
  PROVE  SyncInv'
<1>1. /\ upstream' = upstream + 1 /\ upstream \in Nat
      /\ UNCHANGED <<scheduled, job, live, staging, index, search, id_index>>
  BY DEF Publish, data, SyncInv, SyncTyped
<1>2. ASSUME NEW i \in Jobs
      PROVE  (ParserOf(i) /\ LoadOf(i) /\ BuildOf(i) /\ EnumOf(i))'
  <2>1. Invalid(job[i].source)' \subseteq Invalid(job[i].source)
    BY <1>1 DEF Invalid
  <2> QED BY <1>1, <2>1, JobKept DEF SyncInv, SyncTyped, JobsInv
<1>3. SyncTyped' /\ Alone' /\ LiveWhole'
  BY <1>1 DEF SyncInv, SyncTyped, Alone, LiveWhole
<1> QED BY <1>2, <1>3 DEF SyncInv, JobsInv

----------------------------------------------------------------------------
(* Every step.                                                             *)

LEMMA JobStepInv ==
  ASSUME SyncInv, ~Overlap, JobStep
  PROVE  SyncInv'
<1>1. UNCHANGED data
  BY DEF JobStep
<1>2. ASSUME NEW j \in Jobs, StatementFails(j)
      PROVE  SyncInv'
  <2>1. job[j].source # None
    BY <1>2 DEF StatementFails, Statements, SyncInv, JobsInv, ParserOf
  <2> QED BY <1>1, <1>2, <2>1, EndInv DEF StatementFails, Become
<1> QED BY <1>1, <1>2, StartInv, ParserInv DEF JobStep

LEMMA EndedInv ==
  ASSUME SyncInv, ~Overlap, NEW j \in Jobs, Persist(j) \/ Crash(j)
  PROVE  SyncInv'
<1>1. job' = [job EXCEPT ![j] = NoJob] /\ UNCHANGED <<scheduled, upstream, data>>
  BY DEF Persist, Crash, Become
<1>2. job[j].source # None
  BY DEF Persist, Crash, SyncInv, JobsInv, ParserOf
<1> QED BY <1>1, <1>2, EndInv

LEMMA NextInv == ~Overlap /\ SyncInv /\ [Next]_vars => SyncInv'
<1> SUFFICES ASSUME ~Overlap, SyncInv, [Next]_vars
             PROVE  SyncInv'
  OBVIOUS
<1>1. CASE IngestStep
  BY <1>1, DropStagingInv, CreateStagingInv, GetInv, OpenCopyInv, SendInv, FinishCopyInv,
     StageIndexesInv, SwapInv DEF IngestStep
<1>2. CASE IndexStep
  BY <1>2, PrerequisitesInv, CreateSearchTableInv, TruncateInv, InsertInv, ListInv, PruneInv,
     EnsureInv DEF IndexStep
<1>3. CASE TmdbStep
  BY <1>3, GetExportInv, UpsertInv, EndExportInv DEF TmdbStep
<1>4. CASE UNCHANGED vars
  <2>1. UNCHANGED <<scheduled, job, upstream, live, staging, index, search, id_index>>
    BY <1>4 DEF vars
  <2>2. ASSUME NEW i \in Jobs
        PROVE  (ParserOf(i) /\ LoadOf(i) /\ BuildOf(i) /\ EnumOf(i))'
    <3>1. Invalid(job[i].source)' \subseteq Invalid(job[i].source)
      BY <2>1 DEF Invalid
    <3> QED BY <2>1, <3>1, JobKept DEF SyncInv, SyncTyped, JobsInv
  <2>3. SyncTyped' /\ Alone' /\ LiveWhole'
    BY <2>1 DEF SyncInv, SyncTyped, Alone, LiveWhole
  <2> QED BY <2>2, <2>3 DEF SyncInv, JobsInv
<1> QED BY <1>1, <1>2, <1>3, <1>4, JobStepInv, EndedInv, MigrateInv, PublishInv DEF Next

THEOREM SyncSound == ~Overlap => (Spec => []SyncInv)
<1> SUFFICES ASSUME ~Overlap PROVE Spec => []SyncInv
  OBVIOUS
<1>1. SyncInv /\ [Next]_vars => SyncInv'
  BY NextInv
<1> QED BY <1>1, InitInv, PTL DEF Spec

----------------------------------------------------------------------------
(* The properties.                                                         *)

\* A table readers see is whole whatever failed, died or was published meanwhile,
\* because no other job of the source touches its staging table.
THEOREM LoadsAreWhole == ~Overlap => (Spec => []LiveWhole)
<1>1. SyncInv => LiveWhole
  BY DEF SyncInv
<1> QED BY <1>1, SyncSound, PTL

\* An imdb report of success means that every table was loaded from a version at
\* least as new as the one published when the job began.
THEOREM SuccessIsLoaded == ~Overlap => (Spec => []OkMeansLoaded)
<1>1. SyncInv => OkMeansLoaded
  BY DEF SyncInv, JobsInv, LoadOf, OkMeansLoaded, At
<1> QED BY <1>1, SyncSound, PTL

\* An index job that succeeds undisturbed leaves its indexes built and valid and
\* the derived table filled once, whatever was INVALID when it began.
THEOREM SuccessIsIndexed == ~Overlap => (Spec => []OkMeansIndexed)
<1>1. SyncInv => OkMeansIndexed
  <2> SUFFICES ASSUME SyncInv, NEW j \in Jobs, job[j].source \in IndexSets,
                      job[j].pc = "persist", job[j].ok, job[j].clean
               PROVE  /\ \A n \in Expected(job[j].source) : n \in DOMAIN index /\ index[n]
                      /\ job[j].source = "imdb-fts" => search = <<Derived>>
    BY DEF OkMeansIndexed
  <2>1. /\ Expected(job[j].source) \subseteq DOMAIN index /\ Invalid(job[j].source) = {}
        /\ job[j].source = "imdb-fts" => search = <<Derived>>
    BY DEF SyncInv, JobsInv, BuildOf
  <2> QED BY <2>1 DEF Invalid
<1> QED BY <1>1, SyncSound, PTL

\* A tmdb report of success means that every id of every export was upserted from the
\* version published when the job began, and from no other.
THEOREM SuccessIsEnumerated == ~Overlap => (Spec => []OkMeansEnumerated)
<1>1. SyncInv => OkMeansEnumerated
  BY DEF SyncInv, JobsInv, EnumOf, OkMeansEnumerated, At
<1> QED BY <1>1, SyncSound, PTL

----------------------------------------------------------------------------
(* CivilDate.  A day is a place in the cycle of 400 years; the arithmetic  *)
(* finds the place, and the next place is the next day of the calendar.    *)

\* A quotient is known by its remainder.
LEMMA Quotient ==
  ASSUME NEW x \in Int, NEW k \in Nat \ {0}, NEW q \in Int, k * q <= x, x < k * q + k
  PROVE  x \div k = q
BY SMT

\* Where a day is: the 400 years e, of them the century a, of it the four years b and of
\* those the year c, and the day r of that year, which begins in March.
Place(e, a, b, c, r) ==
  /\ e \in Int /\ a \in 0 .. 3 /\ b \in 0 .. 24 /\ c \in 0 .. 3 /\ r \in 0 .. 365
  /\ r = 365 => c = 3 /\ (b = 24 => a = 3)

Year(e, a, b, c) == 400 * e + 100 * a + 4 * b + c
Day(e, a, b, c, r) == 146097 * e + 36524 * a + 1461 * b + 365 * c + r - 719468

\* The date of the r-th day of a year that begins in March.
Month(r) == LET mp == (5 * r + 2) \div 153 IN IF mp < 10 THEN mp + 3 ELSE mp - 9
DayOfMonth(r) == r - (153 * ((5 * r + 2) \div 153) + 2) \div 5 + 1
Date(y, r) == <<y + (IF Month(r) <= 2 THEN 1 ELSE 0), Month(r), DayOfMonth(r)>>

LEMMA EveryDayHasAPlace ==
  ASSUME NEW day \in Int
  PROVE  \E e, a, b, c, r : Place(e, a, b, c, r) /\ day = Day(e, a, b, c, r)
<1> DEFINE z == day + 719468
           e == z \div 146097
           doe == z - 146097 * e
<1>1. e \in Int /\ doe \in Int /\ 0 <= doe /\ doe <= 146096
  BY SMT
<1> HIDE DEF e
<1>2. PICK a \in 0 .. 3 : 36524 * a <= doe /\ (doe < 36524 * a + 36524 \/ a = 3)
  BY SMT, <1>1
<1> DEFINE t == doe - 36524 * a
<1>3. t \in Int /\ 0 <= t /\ t <= 36524 /\ (a # 3 => t # 36524)
  BY SMT, <1>1, <1>2
<1> DEFINE b == t \div 1461
           u == t - 1461 * b
<1>4. z = 146097 * e + 36524 * a + t
  BY SMT, <1>1
<1> HIDE DEF t
<1>5. b \in 0 .. 24 /\ u \in 0 .. 1460 /\ t = 1461 * b + u
  BY SMT, <1>3
<1> HIDE DEF b, u
<1>6. PICK c \in 0 .. 3 : 365 * c <= u /\ (u < 365 * c + 365 \/ c = 3)
  BY SMT, <1>5
<1> DEFINE r == u - 365 * c
<1>7. r \in 0 .. 365 /\ (r = 365 => c = 3)
  BY SMT, <1>5, <1>6
<1>8. r = 365 /\ b = 24 => a = 3
  BY SMT, <1>3, <1>5, <1>6
<1>9. z = 146097 * e + 36524 * a + 1461 * b + 365 * c + r
  BY SMT, <1>1, <1>2, <1>3, <1>4, <1>5, <1>6
<1> HIDE DEF r
<1>10. Place(e, a, b, c, r)
  BY SMT, <1>1, <1>2, <1>5, <1>6, <1>7, <1>8 DEF Place
<1>11. day = Day(e, a, b, c, r)
  BY SMT, <1>1, <1>2, <1>5, <1>6, <1>7, <1>9 DEF Day
<1>12. QED
  BY SMT, <1>10, <1>11

LEMMA PlaceHasItsDate ==
  ASSUME NEW e, NEW a, NEW b, NEW c, NEW r, Place(e, a, b, c, r)
  PROVE  CivilFromDays(Day(e, a, b, c, r)) = Date(Year(e, a, b, c), r)
<1> DEFINE day == Day(e, a, b, c, r)
           z == day + 719468
           n == 100 * a + 4 * b + c
           doe == 36524 * a + 1461 * b + 365 * c + r
           over == IF 24 * a + b + 365 * c + r >= 1460 THEN 1 ELSE 0
           last == IF doe = 146096 THEN 1 ELSE 0
<1>1. /\ e \in Int /\ a \in 0 .. 3 /\ b \in 0 .. 24 /\ c \in 0 .. 3 /\ r \in 0 .. 365
      /\ r = 365 => c = 3 /\ (b = 24 => a = 3)
  BY SMT DEF Place
<1>2. doe \in Int /\ 0 <= doe /\ doe <= 146096 /\ over \in 0 .. 1 /\ n \in 0 .. 399
  BY SMT, <1>1
<1>3. z = 146097 * e + doe
  BY SMT, <1>1 DEF Day
<1> HIDE DEF day
<1>4. z \div 146097 = e /\ z - e * 146097 = doe
  BY SMT, <1>1, <1>2, <1>3
<1>5. doe \div 1460 = 25 * a + b + over
  BY SMT, <1>1
<1>6. doe \div 36524 = a + last
  BY SMT, <1>1
<1>7. doe \div 146096 = last
  BY SMT, <1>2
<1>8. (doe - doe \div 1460 + doe \div 36524 - doe \div 146096) \div 365 = n
  <2>1. doe - doe \div 1460 + doe \div 36524 - doe \div 146096 = 365 * n + (r - over)
    BY SMT, <1>1, <1>2, <1>5, <1>6, <1>7
  <2>2. r - over \in 0 .. 364
    BY SMT, <1>1
  <2>3. QED
    BY SMT, <1>1, <1>2, <2>1, <2>2, Quotient
<1>9. n \div 4 = 25 * a + b /\ n \div 100 = a
  BY SMT, <1>1
<1>10. doe - (365 * n + n \div 4 - n \div 100) = r
  BY SMT, <1>1, <1>9
<1>11. CivilFromDays(day) = Date(n + e * 400, r)
  BY SMT, <1>4, <1>8, <1>10 DEF CivilFromDays, Date, Month, DayOfMonth
<1>12. n + e * 400 = Year(e, a, b, c)
  BY SMT, <1>1 DEF Year
<1>13. QED
  BY SMT, <1>11, <1>12 DEF day

\* The year in which a March year ends is a leap year if the March year has 366 days.
LEMMA LongYears ==
  ASSUME NEW e, NEW a, NEW b, NEW c, NEW r, Place(e, a, b, c, r)
  PROVE  Leap(Year(e, a, b, c) + 1) <=> (c = 3 /\ (b = 24 => a = 3))
<1> DEFINE y == Year(e, a, b, c) + 1
<1>1. /\ e \in Int /\ a \in 0 .. 3 /\ b \in 0 .. 24 /\ c \in 0 .. 3
      /\ y = 400 * e + 100 * a + 4 * b + c + 1
  BY SMT DEF Place, Year
<1> HIDE DEF y
<1>2. y % 4 = 0 <=> c = 3
  BY SMT, <1>1
<1>3. c = 3 => (y % 100 = 0 <=> b = 24)
  BY SMT, <1>1
<1>4. c = 3 /\ b = 24 => (y % 400 = 0 <=> a = 3)
  BY SMT, <1>1
<1>5. Leap(y) <=> (c = 3 /\ (b = 24 => a = 3))
  BY SMT, <1>2, <1>3, <1>4 DEF Leap
<1>6. QED
  BY SMT, <1>5 DEF y

LEMMA NextPlace ==
  ASSUME NEW e, NEW a, NEW b, NEW c, NEW r, Place(e, a, b, c, r)
  PROVE  \/ /\ r < (IF Leap(Year(e, a, b, c) + 1) THEN 365 ELSE 364)
            /\ Place(e, a, b, c, r + 1)
            /\ Day(e, a, b, c, r + 1) = Day(e, a, b, c, r) + 1
         \/ /\ r = (IF Leap(Year(e, a, b, c) + 1) THEN 365 ELSE 364)
            /\ \E f, i, j, k : /\ Place(f, i, j, k, 0)
                               /\ Year(f, i, j, k) = Year(e, a, b, c) + 1
                               /\ Day(f, i, j, k, 0) = Day(e, a, b, c, r) + 1
<1>1. /\ e \in Int /\ a \in 0 .. 3 /\ b \in 0 .. 24 /\ c \in 0 .. 3 /\ r \in 0 .. 365
      /\ r = 365 => c = 3 /\ (b = 24 => a = 3)
  BY SMT DEF Place
<1> DEFINE long == c = 3 /\ (b = 24 => a = 3)
<1>2. Leap(Year(e, a, b, c) + 1) <=> long
  BY LongYears
<1>3. CASE r < (IF long THEN 365 ELSE 364)
  <2>1. Place(e, a, b, c, r + 1)
    BY SMT, <1>1, <1>3 DEF Place
  <2>2. Day(e, a, b, c, r + 1) = Day(e, a, b, c, r) + 1
    BY SMT, <1>1 DEF Day
  <2>3. QED
    BY <1>2, <1>3, <2>1, <2>2
<1>4. CASE ~(r < (IF long THEN 365 ELSE 364))
  <2>1. r = (IF long THEN 365 ELSE 364)
    BY SMT, <1>1, <1>4
  <2>2. \E f, i, j, k : /\ Place(f, i, j, k, 0)
                        /\ Year(f, i, j, k) = Year(e, a, b, c) + 1
                        /\ Day(f, i, j, k, 0) = Day(e, a, b, c, r) + 1
    <3>1. CASE c < 3
      <4>1. /\ Place(e, a, b, c + 1, 0)
            /\ Year(e, a, b, c + 1) = Year(e, a, b, c) + 1
            /\ Day(e, a, b, c + 1, 0) = Day(e, a, b, c, r) + 1
        BY SMT, <1>1, <2>1, <3>1 DEF Place, Year, Day
      <4>2. QED
        BY Zenon, <4>1
    <3>2. CASE c = 3 /\ b < 24
      <4>1. /\ Place(e, a, b + 1, 0, 0)
            /\ Year(e, a, b + 1, 0) = Year(e, a, b, c) + 1
            /\ Day(e, a, b + 1, 0, 0) = Day(e, a, b, c, r) + 1
        BY SMT, <1>1, <2>1, <3>2 DEF Place, Year, Day
      <4>2. QED
        BY Zenon, <4>1
    <3>3. CASE c = 3 /\ b = 24 /\ a < 3
      <4>1. /\ Place(e, a + 1, 0, 0, 0)
            /\ Year(e, a + 1, 0, 0) = Year(e, a, b, c) + 1
            /\ Day(e, a + 1, 0, 0, 0) = Day(e, a, b, c, r) + 1
        BY SMT, <1>1, <2>1, <3>3 DEF Place, Year, Day
      <4>2. QED
        BY Zenon, <4>1
    <3>4. CASE c = 3 /\ b = 24 /\ a = 3
      <4>1. /\ Place(e + 1, 0, 0, 0, 0)
            /\ Year(e + 1, 0, 0, 0) = Year(e, a, b, c) + 1
            /\ Day(e + 1, 0, 0, 0, 0) = Day(e, a, b, c, r) + 1
        BY SMT, <1>1, <2>1, <3>4 DEF Place, Year, Day
      <4>2. QED
        BY Zenon, <4>1
    <3>5. QED
      BY SMT, <1>1, <3>1, <3>2, <3>3, <3>4
  <2>3. QED
    BY <1>2, <2>1, <2>2
<1>5. QED
  BY <1>3, <1>4

\* The calendar's next day of a day in March to January of a March year, and of one in
\* its February.
LEMMA NextDate ==
  ASSUME NEW y \in Int, NEW r \in 0 .. 365
  PROVE  /\ r < (IF Leap(y + 1) THEN 365 ELSE 364) => DayAfter(Date(y, r)) = Date(y, r + 1)
         /\ r = (IF Leap(y + 1) THEN 365 ELSE 364) => DayAfter(Date(y, r)) = Date(y + 1, 0)
<1> DEFINE mp == (5 * r + 2) \div 153
<1>1. mp \in 0 .. 11
  BY SMT
<1>2. CASE mp \in 0 .. 4
  BY SMT, <1>2 DEF Date, Month, DayOfMonth, DayAfter, DaysIn
<1>3. CASE mp \in 5 .. 9
  BY SMT, <1>3 DEF Date, Month, DayOfMonth, DayAfter, DaysIn
<1>4. CASE mp \in 10 .. 11
  BY SMT, <1>4 DEF Date, Month, DayOfMonth, DayAfter, DaysIn
<1>5. QED
  BY SMT, <1>1, <1>2, <1>3, <1>4

\* The date computed for a day is the calendar's, in every year before and after 1970,
\* and the same through every second of the day.
THEOREM EveryDayFollowsCalendar == \A day \in Int : FollowsCalendar(day)
<1>1. SUFFICES ASSUME NEW day \in Int
               PROVE  FollowsCalendar(day)
  OBVIOUS
<1>2. CivilFromDays(0) = <<1970, 1, 1>>
  BY SMT DEF CivilFromDays
<1>3. CivilFromDays(day + 1) = DayAfter(CivilFromDays(day))
  <2>1. PICK e, a, b, c, r : Place(e, a, b, c, r) /\ day = Day(e, a, b, c, r)
    BY EveryDayHasAPlace
  <2> DEFINE y == Year(e, a, b, c)
  <2>2. CivilFromDays(day) = Date(y, r)
    BY <2>1, PlaceHasItsDate
  <2>3. y \in Int /\ r \in 0 .. 365
    BY SMT, <2>1 DEF Place, Year
  <2>4. CASE /\ r < (IF Leap(y + 1) THEN 365 ELSE 364)
             /\ Place(e, a, b, c, r + 1)
             /\ Day(e, a, b, c, r + 1) = Day(e, a, b, c, r) + 1
    <3>1. CivilFromDays(day + 1) = Date(y, r + 1)
      BY <2>1, <2>4, PlaceHasItsDate
    <3>2. QED
      BY <2>2, <2>3, <2>4, <3>1, NextDate
  <2>5. CASE /\ r = (IF Leap(y + 1) THEN 365 ELSE 364)
             /\ \E f, i, j, k : /\ Place(f, i, j, k, 0)
                                /\ Year(f, i, j, k) = y + 1
                                /\ Day(f, i, j, k, 0) = Day(e, a, b, c, r) + 1
    <3>1. PICK f, i, j, k : /\ Place(f, i, j, k, 0)
                            /\ Year(f, i, j, k) = y + 1
                            /\ Day(f, i, j, k, 0) = Day(e, a, b, c, r) + 1
      BY <2>5
    <3>2. CivilFromDays(day + 1) = Date(y + 1, 0)
      BY <2>1, <3>1, PlaceHasItsDate
    <3>3. QED
      BY <2>2, <2>3, <2>5, <3>2, NextDate
  <2>6. QED
    BY <2>1, <2>4, <2>5, NextPlace
<1>4. ASSUME NEW s \in {0, 1, 86399}
      PROVE  CivilFromUnix(86400 * day + s) = CivilFromDays(day)
  <2>1. (86400 * day + s) \div 86400 = day
    BY SMT
  <2>2. QED
    BY <2>1 DEF CivilFromUnix
<1>5. QED
  BY <1>2, <1>3, <1>4 DEF FollowsCalendar

\* So today's TMDB export is always looked for under the calendar's date.
THEOREM ExportsFollowCalendar == DateSpec => []DatesFollowCalendar
<1>1. DateInit => today \in Int
  BY DEF DateInit
<1>2. today \in Int /\ [Midnight]_today => (today \in Int)'
  BY SMT DEF Midnight
<1>3. today \in Int => DatesFollowCalendar
  BY EveryDayFollowsCalendar DEF DatesFollowCalendar
<1>4. QED
  BY <1>1, <1>2, <1>3, PTL DEF DateSpec

----------------------------------------------------------------------------
(* The copy text of a dump is read back as what it was made from.  What a    *)
(* recursive function computes is proved by induction over a given set.      *)

\* A set that has 0 and every successor has every number: induction over a set
\* that is given, of which the lemmas below are instances.
LEMMA NatSet ==
  ASSUME NEW T, 0 \in T, \A n \in Nat : n \in T => n + 1 \in T
  PROVE  Nat \subseteq T
<1> DEFINE left == Nat \ T
<1>1. ASSUME left # {} PROVE FALSE
  <2>1. IsWellFoundedOn(OpToRel(<, Nat), Nat)
    BY NatLessThanWellFounded
  <2>2. PICK x \in left : \A y \in left : ~(<<y, x>> \in OpToRel(<, Nat))
    <3> HIDE DEF left
    <3>1. left \subseteq Nat
      BY DEF left
    <3>2. QED BY <1>1, <2>1, <3>1, WFMin
  <2>3. x # 0 /\ x \in Nat
    OBVIOUS
  <2>4. x - 1 \in Nat /\ x - 1 \notin T
    BY <2>3
  <2>5. <<x - 1, x>> \in OpToRel(<, Nat)
    BY <2>3 DEF OpToRel
  <2>6. QED BY <2>2, <2>4, <2>5
<1>2. QED BY <1>1

\* f runs from b by the steps g: a function on the first numbers defined by its step.
Runs(N, S, b, g, f) ==
  f \in [0 .. N -> S] /\ f[0] = b /\ \A i \in 1 .. N : f[i] = g[<<i, f[i - 1]>>]

LEMMA Recursion ==
  ASSUME NEW N \in Nat, NEW S, NEW b \in S, NEW g \in [(1 .. N) \X S -> S]
  PROVE  \E f : Runs(N, S, b, g, f)
<1> DEFINE T == {n \in Nat : n <= N => \E f : Runs(n, S, b, g, f)}
<1>1. 0 \in T
  <2> DEFINE f == [i \in 0 .. 0 |-> b]
  <2>1. Runs(0, S, b, g, f)
    BY DEF Runs
  <2> HIDE DEF f
  <2>2. QED BY <2>1
<1>2. ASSUME NEW n \in Nat, n \in T PROVE n + 1 \in T
  <2>1. SUFFICES ASSUME n + 1 <= N
                 PROVE  \E f : Runs(n + 1, S, b, g, f)
    OBVIOUS
  <2>2. PICK f : Runs(n, S, b, g, f)
    BY <1>2, <2>1
  <2> DEFINE h == [i \in 0 .. n + 1 |-> IF i = n + 1 THEN g[<<n + 1, f[n]>>] ELSE f[i]]
  <2>3. f \in [0 .. n -> S] /\ f[0] = b /\ \A i \in 1 .. n : f[i] = g[<<i, f[i - 1]>>]
    BY <2>2 DEF Runs
  <2>4. g[<<n + 1, f[n]>>] \in S
    BY <2>1, <2>3
  <2>5. h \in [0 .. n + 1 -> S] /\ h[0] = b
    BY <2>3, <2>4
  <2>6. ASSUME NEW i \in 1 .. n + 1 PROVE h[i] = g[<<i, h[i - 1]>>]
    <3>1. i - 1 \in 0 .. n + 1 /\ i \in 0 .. n + 1 /\ i - 1 # n + 1
      OBVIOUS
    <3>2. h[i - 1] = f[i - 1]
      BY <3>1
    <3>3. CASE i = n + 1
      BY <3>1, <3>2, <3>3
    <3>4. CASE i # n + 1
      <4>1. h[i] = f[i] /\ i \in 1 .. n
        BY <3>1, <3>4
      <4>2. QED BY <4>1, <3>2, <2>3
    <3>5. QED BY <3>3, <3>4
  <2>7. Runs(n + 1, S, b, g, h)
    <3> HIDE DEF h
    <3> QED BY <2>5, <2>6 DEF Runs
  <2> HIDE DEF h
  <2>8. QED BY <2>7
<1>3. N \in T
  <2> HIDE DEF T
  <2>1. QED BY <1>1, <1>2, NatSet
<1>4. QED BY <1>3

\* And only one function does.
Obeys(N, S, b, g, h) ==
  /\ h = [i \in 0 .. N |-> h[i]] /\ h[0] = b
  /\ \A i \in 1 .. N : h[i - 1] \in S => h[i] = g[<<i, h[i - 1]>>]

LEMMA RunsAgree ==
  ASSUME NEW N \in Nat, NEW S, NEW b \in S, NEW g \in [(1 .. N) \X S -> S],
         NEW f, Runs(N, S, b, g, f), NEW h, Obeys(N, S, b, g, h)
  PROVE  h = f
<1> USE DEF Obeys
<1>1. f \in [0 .. N -> S] /\ f[0] = b /\ \A i \in 1 .. N : f[i] = g[<<i, f[i - 1]>>]
  BY DEF Runs
<1> DEFINE T == {n \in Nat : n <= N => h[n] = f[n]}
<1>2. 0 \in T
  BY <1>1
<1>3. ASSUME NEW n \in Nat, n \in T PROVE n + 1 \in T
  <2>1. SUFFICES ASSUME n + 1 <= N PROVE h[n + 1] = f[n + 1]
    OBVIOUS
  <2>2. n + 1 \in 1 .. N /\ n \in 0 .. N /\ (n + 1) - 1 = n
    BY <2>1
  <2>3. h[n] = f[n] /\ f[n] \in S
    BY <1>1, <1>3, <2>2
  <2>4. QED BY <1>1, <2>2, <2>3
<1>4. Nat \subseteq T
  <2> HIDE DEF T
  <2> QED BY <1>2, <1>3, NatSet
<1>5. \A n \in 0 .. N : h[n] = f[n]
  BY <1>4
<1>6. QED BY <1>1, <1>5


\* The value a run of N steps ends with.
Ends(N, S, b, g, v) == \E f : Runs(N, S, b, g, f) /\ f[N] = v

LEMMA EndsTyped ==
  ASSUME NEW N \in Nat, NEW S, NEW b, NEW g, NEW v, Ends(N, S, b, g, v)
  PROVE  v \in S /\ (N = 0 => v = b)
BY DEF Ends, Runs

SameSteps(N, S, g, h) == \A i \in 1 .. N, s \in S : h[<<i, s>>] = g[<<i, s>>]

\* A run of one step more ends one step further.
LEMMA EndsNext ==
  ASSUME NEW N \in Nat, NEW S, NEW b, NEW g, NEW h, NEW v, NEW w,
         Ends(N, S, b, g, v), Ends(N + 1, S, b, h, w),
         SameSteps(N, S, g, h)
  PROVE  w = h[<<N + 1, v>>]
<1>1. PICK f : Runs(N, S, b, g, f) /\ f[N] = v
  BY DEF Ends
<1>2. PICK k : Runs(N + 1, S, b, h, k) /\ k[N + 1] = w
  BY DEF Ends
<1>3. f \in [0 .. N -> S] /\ f[0] = b /\ \A i \in 1 .. N : f[i] = g[<<i, f[i - 1]>>]
  BY <1>1 DEF Runs
<1>4. k[0] = b /\ \A i \in 1 .. N + 1 : k[i] = h[<<i, k[i - 1]>>]
  BY <1>2 DEF Runs
<1> DEFINE T == {n \in Nat : n <= N => k[n] = f[n]}
<1>5. 0 \in T
  BY <1>3, <1>4
<1>6. ASSUME NEW n \in Nat, n \in T PROVE n + 1 \in T
  <2>1. SUFFICES ASSUME n + 1 <= N PROVE k[n + 1] = f[n + 1]
    OBVIOUS
  <2>2. n + 1 \in 1 .. N /\ n + 1 \in 1 .. N + 1 /\ n \in 0 .. N /\ (n + 1) - 1 = n
    BY <2>1
  <2>3. k[n] = f[n] /\ f[n] \in S
    BY <1>3, <1>6, <2>2
  <2>4. f[n + 1] = g[<<n + 1, f[n]>>] /\ k[n + 1] = h[<<n + 1, k[n]>>]
    BY <1>3, <1>4, <2>2
  <2>5. QED BY <2>2, <2>3, <2>4 DEF SameSteps
<1>7. N \in T
  <2> HIDE DEF T
  <2> QED BY <1>5, <1>6, NatSet
<1>8. N + 1 \in 1 .. N + 1 /\ (N + 1) - 1 = N
  OBVIOUS
<1>9. QED BY <1>1, <1>2, <1>4, <1>7, <1>8

\* The same over a set of sequences.
LEMMA SeqSet ==
  ASSUME NEW C, NEW T, <<>> \in T,
         \A s \in Seq(C), c \in C : s \in T => Append(s, c) \in T
  PROVE  Seq(C) \subseteq T
<1> DEFINE U == {n \in Nat : \A s \in Seq(C) : Len(s) = n => s \in T}
<1>1. 0 \in U
  OBVIOUS
<1>2. ASSUME NEW n \in Nat, n \in U PROVE n + 1 \in U
  <2>1. SUFFICES ASSUME NEW s \in Seq(C), Len(s) = n + 1 PROVE s \in T
    OBVIOUS
  <2> DEFINE front == SubSeq(s, 1, n)
  <2>2. front \in Seq(C) /\ Len(front) = n /\ s[n + 1] \in C
    BY <2>1
  <2>3. s = Append(front, s[n + 1])
    BY <2>1
  <2> HIDE DEF front
  <2>4. front \in T
    BY <1>2, <2>2
  <2>5. QED BY <2>2, <2>3, <2>4
<1>3. Nat \subseteq U
  <2> HIDE DEF U
  <2> QED BY <1>1, <1>2, NatSet
<1>4. QED BY <1>3

(* Concat, Cut and the server's reader, a step at a time.                   *)

ConcatStep(C, parts) == [p \in (1 .. Len(parts)) \X Seq(C) |-> p[2] \o parts[p[1]]]

LEMMA ConcatRuns ==
  ASSUME NEW C, NEW parts \in Seq(Seq(C))
  PROVE  Ends(Len(parts), Seq(C), <<>>, ConcatStep(C, parts), Concat(parts))
<1> DEFINE S == Seq(C)
           N == Len(parts)
           step == ConcatStep(C, parts)
           upTo[n \in 0 .. N] == IF n = 0 THEN <<>> ELSE upTo[n - 1] \o parts[n]
<1>1. <<>> \in S /\ N \in Nat /\ step \in [(1 .. N) \X S -> S]
  BY DEF ConcatStep
<1>2. Concat(parts) = upTo[N]
  BY DEF Concat
<1>3. \A s \in S, i \in 1 .. N : step[<<i, s>>] = s \o parts[i]
  BY DEF ConcatStep
<1> HIDE DEF S, N, step
<1>4. PICK r : Runs(N, S, <<>>, step, r)
  BY <1>1, Recursion, Zenon
<1>5. r \in [0 .. N -> S] /\ r[0] = <<>> /\ \A i \in 1 .. N : r[i] = step[<<i, r[i - 1]>>]
  BY <1>4 DEF Runs
<1>6. \A i \in 1 .. N : r[i] = r[i - 1] \o parts[i]
  <2>1. ASSUME NEW i \in 1 .. N PROVE r[i] = r[i - 1] \o parts[i]
    <3>1. i - 1 \in 0 .. N
      BY <1>1
    <3>2. r[i - 1] \in S
      BY <1>5, <3>1
    <3>3. r[i] = step[<<i, r[i - 1]>>]
      BY <1>5
    <3>4. QED BY <1>3, <3>2, <3>3
  <2>2. QED BY <2>1
<1>7. r = [n \in 0 .. N |-> IF n = 0 THEN <<>> ELSE r[n - 1] \o parts[n]]
  <2>1. ASSUME NEW n \in 0 .. N
        PROVE  r[n] = IF n = 0 THEN <<>> ELSE r[n - 1] \o parts[n]
    <3>1. CASE n = 0
      BY <1>5, <3>1
    <3>2. CASE n # 0
      <4>1. n \in 1 .. N
        BY <1>1, <3>2
      <4>2. QED BY <1>6, <3>2, <4>1
    <3>3. QED BY <3>1, <3>2
  <2>2. QED BY <1>5, <2>1
<1>8. upTo = [n \in 0 .. N |-> IF n = 0 THEN <<>> ELSE upTo[n - 1] \o parts[n]]
  BY <1>7
<1> HIDE DEF upTo
<1>9. Obeys(N, S, <<>>, step, upTo)
  <2>1. ASSUME NEW i \in 1 .. N PROVE upTo[i] = upTo[i - 1] \o parts[i]
    <3>1. i \in 0 .. N /\ i # 0
      BY <1>1
    <3>2. QED BY <1>8, <3>1
  <2>2. upTo = [n \in 0 .. N |-> upTo[n]]
    BY <1>8
  <2>3. upTo[0] = <<>>
    BY <1>1, <1>8
  <2>4. QED BY <1>3, <2>1, <2>2, <2>3 DEF Obeys
<1>10. upTo = r
  BY <1>1, <1>4, <1>9, RunsAgree, Zenon
<1>11. QED BY <1>2, <1>4, <1>10 DEF S, N, step, Ends

LEMMA ConcatAppend ==
  ASSUME NEW C, NEW parts \in Seq(Seq(C)), NEW part \in Seq(C)
  PROVE  /\ Concat(parts) \in Seq(C)
         /\ (parts = <<>> => Concat(parts) = <<>>)
         /\ Concat(Append(parts, part)) = Concat(parts) \o part
<1> DEFINE S == Seq(C)
           N == Len(parts)
           more == Append(parts, part)
           g == ConcatStep(C, parts)
           h == ConcatStep(C, more)
<1>1. more \in Seq(Seq(C)) /\ Len(more) = N + 1 /\ N \in Nat
  OBVIOUS
<1>2. SameSteps(N, S, g, h)
  BY <1>1 DEF ConcatStep, SameSteps
<1>3. \A s \in S : h[<<N + 1, s>>] = s \o part
  <2>1. N + 1 \in 1 .. Len(more) /\ more[N + 1] = part
    BY <1>1
  <2>2. QED BY <2>1 DEF ConcatStep
<1>4. parts = <<>> => N = 0
  OBVIOUS
<1> HIDE DEF S, g, h, more, N
<1>5. Ends(N, S, <<>>, g, Concat(parts))
  BY ConcatRuns DEF S, N, g
<1>6. Ends(N + 1, S, <<>>, h, Concat(more))
  BY ConcatRuns, <1>1 DEF S, h
<1>7. Concat(parts) \in S /\ (N = 0 => Concat(parts) = <<>>)
  BY <1>1, <1>5, EndsTyped, Zenon
<1>8. Concat(more) = h[<<N + 1, Concat(parts)>>]
  BY <1>1, <1>2, <1>5, <1>6, EndsNext, Zenon
<1>9. QED BY <1>3, <1>4, <1>7, <1>8 DEF S, more

LEMMA ConcatEmpty == Concat(<<>>) = <<>>
<1>1. <<>> \in Seq(Seq({})) /\ <<>> \in Seq({})
  OBVIOUS
<1>2. QED BY <1>1, ConcatAppend, Zenon

Pieces(C) == {p \in Seq(Seq(C)) : p # <<>>}

LEMMA CutAtTyped ==
  ASSUME NEW C, NEW pieces \in Pieces(C), NEW ch \in C, NEW seps
  PROVE  CutAt(pieces, ch, seps) \in Pieces(C)
BY DEF Pieces, CutAt

CutStep(C, text, seps) == [p \in (1 .. Len(text)) \X Pieces(C) |-> CutAt(p[2], text[p[1]], seps)]

LEMMA CutRuns ==
  ASSUME NEW C, NEW text \in Seq(C), NEW seps
  PROVE  Ends(Len(text), Pieces(C), << <<>> >>, CutStep(C, text, seps), Cut(text, seps))
<1> DEFINE S == Pieces(C)
           N == Len(text)
           b == << <<>> >>
           step == CutStep(C, text, seps)
           pieces[n \in 0 .. N] == IF n = 0 THEN << <<>> >> ELSE CutAt(pieces[n - 1], text[n], seps)
<1>1. b \in S /\ N \in Nat
  BY DEF Pieces
<1>a. step \in [(1 .. N) \X S -> S]
  BY CutAtTyped DEF CutStep
<1>2. Cut(text, seps) = pieces[N]
  BY DEF Cut
<1>3. \A s \in S, i \in 1 .. N : step[<<i, s>>] = CutAt(s, text[i], seps)
  BY DEF CutStep
<1> HIDE DEF S, N, step
<1>4. PICK r : Runs(N, S, b, step, r)
  BY <1>1, <1>a, Recursion, Zenon
<1>5. r \in [0 .. N -> S] /\ r[0] = b /\ \A i \in 1 .. N : r[i] = step[<<i, r[i - 1]>>]
  BY <1>4 DEF Runs
<1>6. \A i \in 1 .. N : r[i] = CutAt(r[i - 1], text[i], seps)
  <2>1. ASSUME NEW i \in 1 .. N PROVE r[i] = CutAt(r[i - 1], text[i], seps)
    <3>1. i - 1 \in 0 .. N
      BY <1>1
    <3>2. r[i - 1] \in S
      BY <1>5, <3>1
    <3>3. r[i] = step[<<i, r[i - 1]>>]
      BY <1>5
    <3>4. QED BY <1>3, <3>2, <3>3
  <2>2. QED BY <2>1
<1>7. r = [n \in 0 .. N |-> IF n = 0 THEN << <<>> >> ELSE CutAt(r[n - 1], text[n], seps)]
  <2>1. ASSUME NEW n \in 0 .. N
        PROVE  r[n] = IF n = 0 THEN << <<>> >> ELSE CutAt(r[n - 1], text[n], seps)
    <3>1. CASE n = 0
      BY <1>5, <3>1
    <3>2. CASE n # 0
      <4>1. n \in 1 .. N
        BY <1>1, <3>2
      <4>2. QED BY <1>6, <3>2, <4>1
    <3>3. QED BY <3>1, <3>2
  <2>2. QED BY <1>5, <2>1
<1>8. pieces = [n \in 0 .. N |-> IF n = 0 THEN << <<>> >> ELSE CutAt(pieces[n - 1], text[n], seps)]
  BY <1>7
<1> HIDE DEF pieces
<1>9. Obeys(N, S, b, step, pieces)
  <2>1. ASSUME NEW i \in 1 .. N PROVE pieces[i] = CutAt(pieces[i - 1], text[i], seps)
    <3>1. i \in 0 .. N /\ i # 0
      BY <1>1
    <3>2. QED BY <1>8, <3>1
  <2>2. pieces = [n \in 0 .. N |-> pieces[n]]
    BY <1>8
  <2>3. pieces[0] = b
    BY <1>1, <1>8
  <2>4. QED BY <1>3, <2>1, <2>2, <2>3 DEF Obeys
<1> HIDE DEF b
<1>10. pieces = r
  BY <1>1, <1>a, <1>4, <1>9, RunsAgree, Zenon
<1>11. QED BY <1>2, <1>4, <1>10 DEF S, N, b, step, Ends

LEMMA CutTyped ==
  ASSUME NEW C, NEW text \in Seq(C), NEW seps
  PROVE  Cut(text, seps) \in Pieces(C) /\ (text = <<>> => Cut(text, seps) = << <<>> >>)
BY CutRuns, EndsTyped

LEMMA CutAppend ==
  ASSUME NEW C, NEW text \in Seq(C), NEW ch \in C, NEW seps
  PROVE  Cut(Append(text, ch), seps) = CutAt(Cut(text, seps), ch, seps)
<1> DEFINE S == Pieces(C)
           N == Len(text)
           b == << <<>> >>
           more == Append(text, ch)
           g == CutStep(C, text, seps)
           h == CutStep(C, more, seps)
<1>1. more \in Seq(C) /\ Len(more) = N + 1 /\ N \in Nat
  OBVIOUS
<1>2. SameSteps(N, S, g, h)
  BY <1>1 DEF CutStep, SameSteps
<1>3. \A s \in S : h[<<N + 1, s>>] = CutAt(s, ch, seps)
  BY <1>1 DEF CutStep
<1>4. text = <<>> => N = 0
  OBVIOUS
<1> HIDE DEF S, g, h, more, N, b
<1>5. Ends(N, S, b, g, Cut(text, seps))
  BY CutRuns DEF S, N, g, b
<1>6. Ends(N + 1, S, b, h, Cut(more, seps))
  BY CutRuns, <1>1 DEF S, h, b
<1>7. Cut(text, seps) \in S /\ (N = 0 => Cut(text, seps) = b)
  BY <1>1, <1>5, EndsTyped, Zenon
<1>8. Cut(more, seps) = h[<<N + 1, Cut(text, seps)>>]
  BY <1>1, <1>2, <1>5, <1>6, EndsNext, Zenon
<1>9. QED BY <1>3, <1>4, <1>7, <1>8 DEF S, more, b

Ch == Characters \cup {"\\", "\t", "\n", "\r", "t", "n", "r", "f", "N"}
Text == Seq(Ch)
ReadStates == [out : Text, esc : BOOLEAN]

LEMMA ReadCharTyped ==
  ASSUME NEW s \in ReadStates, NEW ch \in Ch
  PROVE  ReadChar(s, ch) \in ReadStates
<1>1. Plain(ch) \in Ch
  BY DEF Plain, Ch
<1>2. Append(s.out, ch) \in Text /\ Append(s.out, Plain(ch)) \in Text /\ s.out \in Text
  BY <1>1 DEF ReadStates, Text
<1>3. QED BY <1>2 DEF ReadStates, ReadChar

ReadStep(raw) == [p \in (1 .. Len(raw)) \X ReadStates |-> ReadChar(p[2], raw[p[1]])]

LEMMA ReadRuns ==
  ASSUME NEW raw \in Text
  PROVE  Ends(Len(raw), ReadStates, [out |-> <<>>, esc |-> FALSE], ReadStep(raw), Reading(raw))
<1> DEFINE S == ReadStates
           N == Len(raw)
           b == [out |-> <<>>, esc |-> FALSE]
           step == ReadStep(raw)
           read[n \in 0 .. N] == IF n = 0 THEN [out |-> <<>>, esc |-> FALSE] ELSE ReadChar(read[n - 1], raw[n])
<1>1. b \in S /\ N \in Nat
  BY DEF ReadStates, Text
<1>a. step \in [(1 .. N) \X S -> S]
  BY ReadCharTyped DEF ReadStep, Text
<1>2. Reading(raw) = read[N]
  BY DEF Reading
<1>3. \A s \in S, i \in 1 .. N : step[<<i, s>>] = ReadChar(s, raw[i])
  BY DEF ReadStep
<1> HIDE DEF S, N, step
<1>4. PICK r : Runs(N, S, b, step, r)
  BY <1>1, <1>a, Recursion, Zenon
<1>5. r \in [0 .. N -> S] /\ r[0] = b /\ \A i \in 1 .. N : r[i] = step[<<i, r[i - 1]>>]
  BY <1>4 DEF Runs
<1>6. \A i \in 1 .. N : r[i] = ReadChar(r[i - 1], raw[i])
  <2>1. ASSUME NEW i \in 1 .. N PROVE r[i] = ReadChar(r[i - 1], raw[i])
    <3>1. i - 1 \in 0 .. N
      BY <1>1
    <3>2. r[i - 1] \in S
      BY <1>5, <3>1
    <3>3. r[i] = step[<<i, r[i - 1]>>]
      BY <1>5
    <3>4. QED BY <1>3, <3>2, <3>3
  <2>2. QED BY <2>1
<1>7. r = [n \in 0 .. N |-> IF n = 0 THEN [out |-> <<>>, esc |-> FALSE] ELSE ReadChar(r[n - 1], raw[n])]
  <2>1. ASSUME NEW n \in 0 .. N
        PROVE  r[n] = IF n = 0 THEN [out |-> <<>>, esc |-> FALSE] ELSE ReadChar(r[n - 1], raw[n])
    <3>1. CASE n = 0
      BY <1>5, <3>1
    <3>2. CASE n # 0
      <4>1. n \in 1 .. N
        BY <1>1, <3>2
      <4>2. QED BY <1>6, <3>2, <4>1
    <3>3. QED BY <3>1, <3>2
  <2>2. QED BY <1>5, <2>1
<1>8. read = [n \in 0 .. N |-> IF n = 0 THEN [out |-> <<>>, esc |-> FALSE] ELSE ReadChar(read[n - 1], raw[n])]
  BY <1>7
<1> HIDE DEF read
<1>9. Obeys(N, S, b, step, read)
  <2>1. ASSUME NEW i \in 1 .. N PROVE read[i] = ReadChar(read[i - 1], raw[i])
    <3>1. i \in 0 .. N /\ i # 0
      BY <1>1
    <3>2. QED BY <1>8, <3>1
  <2>2. read = [n \in 0 .. N |-> read[n]]
    BY <1>8
  <2>3. read[0] = b
    BY <1>1, <1>8
  <2>4. QED BY <1>3, <2>1, <2>2, <2>3 DEF Obeys
<1> HIDE DEF b
<1>10. read = r
  BY <1>1, <1>a, <1>4, <1>9, RunsAgree, Zenon
<1>11. QED BY <1>2, <1>4, <1>10 DEF S, N, b, step, Ends

LEMMA ReadTyped ==
  ASSUME NEW raw \in Text
  PROVE  /\ Reading(raw) \in ReadStates
         /\ (raw = <<>> => Reading(raw) = [out |-> <<>>, esc |-> FALSE])
BY ReadRuns, EndsTyped DEF Text

LEMMA ReadAppend ==
  ASSUME NEW raw \in Text, NEW ch \in Ch
  PROVE  Reading(Append(raw, ch)) = ReadChar(Reading(raw), ch)
<1> DEFINE S == ReadStates
           N == Len(raw)
           b == [out |-> <<>>, esc |-> FALSE]
           more == Append(raw, ch)
           g == ReadStep(raw)
           h == ReadStep(more)
<1>1. more \in Text /\ Len(more) = N + 1 /\ N \in Nat
  BY DEF Text
<1>2. SameSteps(N, S, g, h)
  BY <1>1 DEF ReadStep, SameSteps
<1>3. \A s \in S : h[<<N + 1, s>>] = ReadChar(s, ch)
  BY <1>1 DEF ReadStep
<1>4. raw = <<>> => N = 0
  OBVIOUS
<1> HIDE DEF S, g, h, more, N, b
<1>5. Ends(N, S, b, g, Reading(raw))
  BY ReadRuns DEF S, N, g, b
<1>6. Ends(N + 1, S, b, h, Reading(more))
  BY ReadRuns, <1>1 DEF S, h, b
<1>7. Reading(raw) \in S /\ (N = 0 => Reading(raw) = b)
  BY <1>1, <1>5, EndsTyped, Zenon
<1>8. Reading(more) = h[<<N + 1, Reading(raw)>>]
  BY <1>1, <1>2, <1>5, <1>6, EndsNext, Zenon
<1>9. QED BY <1>3, <1>4, <1>7, <1>8 DEF S, more, b

\* The last piece goes on.
Extended(pieces, part) == [pieces EXCEPT ![Len(pieces)] = @ \o part]

LEMMA ExtendedEmpty ==
  ASSUME NEW C, NEW pieces \in Pieces(C)
  PROVE  Extended(pieces, <<>>) = pieces
<1>1. Len(pieces) \in DOMAIN pieces /\ pieces[Len(pieces)] \in Seq(C) /\ pieces \in Seq(Seq(C))
  BY DEF Pieces
<1>2. pieces[Len(pieces)] \o <<>> = pieces[Len(pieces)]
  BY <1>1
<1>3. QED BY <1>1, <1>2 DEF Extended

LEMMA ExtendedFacts ==
  ASSUME NEW C, NEW pieces \in Pieces(C), NEW seps, NEW part \in Seq(C), NEW ch \in C, ch \notin seps
  PROVE  CutAt(Extended(pieces, part), ch, seps) = Extended(pieces, Append(part, ch))
<1>1. Len(pieces) \in DOMAIN pieces /\ pieces[Len(pieces)] \in Seq(C) /\ pieces \in Seq(Seq(C))
  BY DEF Pieces
<1>2. Extended(pieces, part) \in Seq(Seq(C)) /\ Len(Extended(pieces, part)) = Len(pieces)
  BY <1>1 DEF Extended
<1>4. Append(pieces[Len(pieces)] \o part, ch) = pieces[Len(pieces)] \o Append(part, ch)
  <2> DEFINE s == pieces[Len(pieces)]
  <2>1. s \in Seq(C)
    BY <1>1
  <2> HIDE DEF s
  <2>2. Append(s \o part, ch) = s \o Append(part, ch)
    BY <2>1
  <2>3. QED BY <2>2 DEF s
<1>6. CutAt(Extended(pieces, part), ch, seps)
        = [Extended(pieces, part) EXCEPT ![Len(pieces)] = Append(@, ch)]
  BY <1>2 DEF CutAt
<1>7. QED BY <1>1, <1>4, <1>6 DEF Extended

LEMMA ExtendedNew ==
  ASSUME NEW C, NEW pieces \in Seq(Seq(C)), NEW part \in Seq(C)
  PROVE  Extended(Append(pieces, <<>>), part) = Append(pieces, part)
<1>1. <<>> \o part = part
  OBVIOUS
<1>2. Len(Append(pieces, <<>>)) = Len(pieces) + 1 /\ Append(pieces, <<>>)[Len(pieces) + 1] = <<>>
  OBVIOUS
<1>3. Extended(Append(pieces, <<>>), part) = [Append(pieces, <<>>) EXCEPT ![Len(pieces) + 1] = part]
  BY <1>1, <1>2 DEF Extended
<1> DEFINE n == Len(pieces)
           x == [Append(pieces, <<>>) EXCEPT ![n + 1] = part]
           y == Append(pieces, part)
<1>4. x \in Seq(Seq(C)) /\ y \in Seq(Seq(C)) /\ Len(x) = n + 1 /\ Len(y) = n + 1
  BY <1>2
<1>5. ASSUME NEW i \in 1 .. n + 1 PROVE x[i] = y[i]
  <2>1. CASE i = n + 1
    BY <1>2, <2>1
  <2>2. CASE i # n + 1
    <3>1. i \in 1 .. n
      BY <2>2
    <3>2. y[i] = pieces[i] /\ Append(pieces, <<>>)[i] = pieces[i]
      BY <3>1
    <3>3. x[i] = Append(pieces, <<>>)[i]
      <4> DEFINE w == Append(pieces, <<>>)
      <4>1. i \in DOMAIN w
        BY <1>2, <3>1
      <4>2. x = [w EXCEPT ![n + 1] = part]
        OBVIOUS
      <4> HIDE DEF w, x
      <4>3. x[i] = w[i]
        BY <2>2, <4>1, <4>2
      <4>4. QED BY <4>3 DEF w
    <3>4. QED BY <3>2, <3>3
  <2>3. QED BY <2>1, <2>2
<1> HIDE DEF x, y, n
<1>6. x = y
  BY <1>4, <1>5, SeqEqual
<1>7. QED BY <1>3, <1>6 DEF x, y, n

\* Characters that separate nothing stay in the last piece.
LEMMA CutExtends ==
  ASSUME NEW C, NEW text \in Seq(C), NEW seps, NEW part \in Seq(C \ seps)
  PROVE  Cut(text \o part, seps) = Extended(Cut(text, seps), part)
<1> DEFINE T == {p \in Seq(C \ seps) : Cut(text \o p, seps) = Extended(Cut(text, seps), p)}
<1>1. <<>> \in T
  <2>1. text \o <<>> = text /\ <<>> \in Seq(C) /\ <<>> \in Seq(C \ seps)
    OBVIOUS
  <2>2. Cut(text, seps) \in Pieces(C)
    BY CutTyped
  <2>3. Extended(Cut(text, seps), <<>>) = Cut(text, seps)
    BY <2>2, ExtendedEmpty
  <2>4. QED BY <2>1, <2>3
<1>2. ASSUME NEW p \in Seq(C \ seps), NEW ch \in C \ seps, p \in T PROVE Append(p, ch) \in T
  <2> DEFINE t == text \o p
  <2>1. p \in Seq(C) /\ ch \in C /\ ch \notin seps /\ t \in Seq(C)
    OBVIOUS
  <2>2. text \o Append(p, ch) = Append(t, ch)
    BY <2>1
  <2>a. Cut(t, seps) = Extended(Cut(text, seps), p)
    BY <1>2
  <2> HIDE DEF t
  <2>3. Cut(text, seps) \in Pieces(C)
    BY CutTyped
  <2>4. Cut(Append(t, ch), seps) = CutAt(Cut(t, seps), ch, seps)
    BY CutAppend, <2>1
  <2>5. CutAt(Extended(Cut(text, seps), p), ch, seps) = Extended(Cut(text, seps), Append(p, ch))
    BY ExtendedFacts, <2>1, <2>3
  <2>6. Append(p, ch) \in Seq(C \ seps)
    OBVIOUS
  <2>7. QED BY <2>2, <2>a, <2>4, <2>5, <2>6
<1>3. part \in T
  <2> HIDE DEF T
  <2> QED BY <1>1, <1>2, SeqSet
<1>4. QED BY <1>3

\* A separator, and what goes before the next one.
Begins(more, sep, part) == more = <<sep>> \o part
Adds(text, more, sep, part) == Cut(text \o more, {sep}) = Append(Cut(text, {sep}), part)

LEMMA CutNewPiece ==
  ASSUME NEW C, NEW text \in Seq(C), NEW sep \in C, NEW part \in Seq(C \ {sep}),
         NEW more, Begins(more, sep, part)
  PROVE  Adds(text, more, sep, part)
<1> DEFINE t == Append(text, sep)
           pieces == Cut(text, {sep})
<1>1. t \in Seq(C) /\ part \in Seq(C)
  OBVIOUS
<1>2. text \o more = t \o part
  BY <1>1 DEF Begins
<1>3. pieces \in Pieces(C)
  BY CutTyped
<1>4. Cut(t, {sep}) = Append(pieces, <<>>)
  <2>1. Cut(t, {sep}) = CutAt(pieces, sep, {sep})
    BY CutAppend
  <2>2. QED BY <2>1 DEF CutAt
<1> HIDE DEF t, pieces
<1>5. Cut(t \o part, {sep}) = Extended(Cut(t, {sep}), part)
  BY <1>1, CutExtends
<1>6. Extended(Append(pieces, <<>>), part) = Append(pieces, part)
  BY <1>1, <1>3, ExtendedNew DEF Pieces
<1>7. QED BY <1>2, <1>4, <1>5, <1>6 DEF pieces, Adds

LEMMA CutOnePiece ==
  ASSUME NEW C, NEW sep \in C, NEW part \in Seq(C \ {sep})
  PROVE  Cut(part, {sep}) = <<part>>
<1>1. <<>> \in Seq(C) /\ part \in Seq(C)
  OBVIOUS
<1>2. Cut(<<>>, {sep}) = << <<>> >>
  BY <1>1, CutTyped
<1>3. <<>> \o part = part
  BY <1>1
<1>4. Cut(<<>> \o part, {sep}) = Extended(Cut(<<>>, {sep}), part)
  <2> DEFINE e == <<>>
  <2>1. e \in Seq(C)
    BY <1>1
  <2> HIDE DEF e
  <2>2. Cut(e \o part, {sep}) = Extended(Cut(e, {sep}), part)
    BY <2>1, CutExtends
  <2>3. QED BY <2>2 DEF e
<1>5. Extended(<< <<>> >>, part) = <<part>>
  BY <1>1, <1>3 DEF Extended
<1>6. QED BY <1>2, <1>3, <1>4, <1>5

LEMMA IsSeq ==
  ASSUME NEW S, NEW n \in Nat, NEW f \in [1 .. n -> S]
  PROVE  f \in Seq(S) /\ Len(f) = n
OBVIOUS

\* What one more part adds to a joined text.
Joining(parts, sep, part) == IF parts = <<>> THEN part ELSE <<sep>> \o part

\* The pieces a joined text consists of.
JoinPieces(parts, sep) == [i \in DOMAIN parts |-> IF i = 1 THEN parts[i] ELSE <<sep>> \o parts[i]]

LEMMA JoinPiecesAppend ==
  ASSUME NEW C, NEW parts \in Seq(Seq(C)), NEW sep \in C, NEW part \in Seq(C)
  PROVE  /\ JoinPieces(parts, sep) \in Seq(Seq(C))
         /\ JoinPieces(Append(parts, part), sep)
              = Append(JoinPieces(parts, sep), Joining(parts, sep, part))
<1> DEFINE n == Len(parts)
           new == Joining(parts, sep, part)
           x == JoinPieces(Append(parts, part), sep)
           y == Append(JoinPieces(parts, sep), new)
<1>1. new \in Seq(C) /\ n \in Nat
  BY DEF Joining
<1>2. JoinPieces(parts, sep) \in Seq(Seq(C)) /\ Len(JoinPieces(parts, sep)) = n
  <2>1. ASSUME NEW i \in 1 .. n
        PROVE  (IF i = 1 THEN parts[i] ELSE <<sep>> \o parts[i]) \in Seq(C)
    OBVIOUS
  <2>2. JoinPieces(parts, sep) \in [1 .. n -> Seq(C)]
    BY <2>1 DEF JoinPieces
  <2>3. QED BY <1>1, <2>2, IsSeq, Zenon
<1>3. Append(parts, part) \in Seq(Seq(C)) /\ Len(Append(parts, part)) = n + 1
  OBVIOUS
<1>4. x \in Seq(Seq(C)) /\ Len(x) = n + 1
  BY <1>3 DEF JoinPieces
<1>5. y \in Seq(Seq(C)) /\ Len(y) = n + 1
  BY <1>1, <1>2
<1>6. ASSUME NEW i \in 1 .. n + 1 PROVE x[i] = y[i]
  <2>1. x[i] = IF i = 1 THEN Append(parts, part)[i] ELSE <<sep>> \o Append(parts, part)[i]
    BY <1>3 DEF JoinPieces
  <2>2. CASE i = n + 1
    <3>1. y[i] = new /\ Append(parts, part)[i] = part
      BY <1>1, <1>2, <2>2
    <3>2. parts = <<>> <=> i = 1
      BY <1>1, <2>2
    <3>3. QED BY <2>1, <3>1, <3>2 DEF Joining
  <2>3. CASE i # n + 1
    <3>1. i \in 1 .. n
      BY <2>3
    <3>2. y[i] = JoinPieces(parts, sep)[i] /\ Append(parts, part)[i] = parts[i]
      BY <1>1, <1>2, <3>1
    <3>3. JoinPieces(parts, sep)[i] = IF i = 1 THEN parts[i] ELSE <<sep>> \o parts[i]
      BY <3>1 DEF JoinPieces
    <3>4. QED BY <2>1, <3>2, <3>3
  <2>4. QED BY <2>2, <2>3
<1> HIDE DEF x, y
<1>7. x = y
  BY <1>4, <1>5, <1>6, SeqEqual
<1>8. QED BY <1>2, <1>7 DEF x, y

LEMMA JoinAppend ==
  ASSUME NEW C, NEW parts \in Seq(Seq(C)), NEW sep \in C, NEW part \in Seq(C)
  PROVE  /\ Join(parts, sep) \in Seq(C)
         /\ Join(Append(parts, part), sep)
              = Join(parts, sep) \o Joining(parts, sep, part)
<1> DEFINE new == Joining(parts, sep, part)
<1>1. new \in Seq(C) /\ Append(parts, part) \in Seq(Seq(C))
  BY DEF Joining
<1>2. \A p : Join(p, sep) = Concat(JoinPieces(p, sep))
  BY DEF Join, JoinPieces
<1> HIDE DEF new
<1>3. /\ JoinPieces(parts, sep) \in Seq(Seq(C))
      /\ JoinPieces(Append(parts, part), sep) = Append(JoinPieces(parts, sep), new)
  BY JoinPiecesAppend DEF new
<1>4. /\ Concat(JoinPieces(parts, sep)) \in Seq(C)
      /\ Concat(Append(JoinPieces(parts, sep), new)) = Concat(JoinPieces(parts, sep)) \o new
  BY <1>1, <1>3, ConcatAppend
<1>5. QED BY <1>2, <1>3, <1>4, Zenon DEF new

\* What Join has put together, Cut takes apart.
LEMMA JoinRead ==
  ASSUME NEW C, NEW sep \in C, NEW parts \in Seq(Seq(C \ {sep})), parts # <<>>
  PROVE  Cut(Join(parts, sep), {sep}) = parts
<1> DEFINE D == Seq(C \ {sep})
           T == {p \in Seq(D) : p # <<>> => Cut(Join(p, sep), {sep}) = p}
<1>1. <<>> \in T
  OBVIOUS
<1>2. ASSUME NEW p \in Seq(D), NEW d \in D, p \in T PROVE Append(p, d) \in T
  <2>1. p \in Seq(Seq(C)) /\ d \in Seq(C) /\ Append(p, d) \in Seq(D)
    OBVIOUS
  <2>2. /\ Join(p, sep) \in Seq(C)
        /\ Join(Append(p, d), sep) = Join(p, sep) \o Joining(p, sep, d)
    BY <2>1, JoinAppend, Zenon
  <2>3. CASE p = <<>>
    <3>1. Join(p, sep) = <<>>
      BY <2>3, ConcatEmpty DEF Join
    <3>2. Join(Append(p, d), sep) = d
      BY <2>1, <2>2, <2>3, <3>1 DEF Joining
    <3>3. Cut(d, {sep}) = <<d>> /\ Append(p, d) = <<d>>
      BY <2>3, CutOnePiece
    <3>4. QED BY <2>1, <3>2, <3>3
  <2>4. CASE p # <<>>
    <3>1. Join(Append(p, d), sep) = Join(p, sep) \o (<<sep>> \o d)
      BY <2>2, <2>4 DEF Joining
    <3>2. Cut(Join(p, sep) \o (<<sep>> \o d), {sep}) = Append(Cut(Join(p, sep), {sep}), d)
      <4> DEFINE m == <<sep>> \o d
                 t == Join(p, sep)
      <4>1. Begins(m, sep, d) /\ d \in Seq(C \ {sep}) /\ t \in Seq(C)
        BY <2>2 DEF Begins
      <4> HIDE DEF m, t, D
      <4>2. Cut(t \o m, {sep}) = Append(Cut(t, {sep}), d)
        <5>1. Adds(t, m, sep, d)
          BY <4>1, CutNewPiece, Zenon
        <5>2. QED BY <5>1 DEF Adds
      <4>3. QED BY <4>2 DEF m, t
    <3>3. Cut(Join(p, sep), {sep}) = p
      BY <1>2, <2>4
    <3>4. QED BY <2>1, <3>1, <3>2, <3>3
  <2>5. QED BY <2>3, <2>4
<1>3. parts \in T
  <2> HIDE DEF T
  <2> QED BY <1>1, <1>2, SeqSet
<1>4. QED BY <1>3

Mapped(s, g) == [i \in DOMAIN s |-> g[s[i]]]

MapsOn(s, g, a, B) ==
  Mapped(s, g) \in Seq(B) /\ Mapped(Append(s, a), g) = Append(Mapped(s, g), g[a])

LEMMA MappedAppend ==
  ASSUME NEW A, NEW B, NEW g \in [A -> B], NEW s \in Seq(A), NEW a \in A
  PROVE  MapsOn(s, g, a, B)
<1> DEFINE n == Len(s)
           more == Append(s, a)
           x == Mapped(more, g)
           y == Append(Mapped(s, g), g[a])
<1>1. n \in Nat /\ more \in Seq(A) /\ Len(more) = n + 1 /\ more[n + 1] = a
  OBVIOUS
<1>2. Mapped(s, g) \in Seq(B) /\ Len(Mapped(s, g)) = n
  BY DEF Mapped
<1>3. \A i \in 1 .. n : more[i] = s[i]
  OBVIOUS
<1> HIDE DEF more
<1>4. x \in Seq(B) /\ Len(x) = n + 1
  <2>1. x \in [1 .. n + 1 -> B]
    BY <1>1 DEF Mapped
  <2> HIDE DEF x
  <2>2. QED BY <1>1, <2>1
<1>5. y \in Seq(B) /\ Len(y) = n + 1
  BY <1>2
<1>6. ASSUME NEW i \in 1 .. n + 1 PROVE x[i] = y[i]
  <2>1. x[i] = g[more[i]]
    BY <1>1 DEF Mapped
  <2>2. CASE i = n + 1
    BY <1>1, <1>2, <2>1, <2>2
  <2>3. CASE i # n + 1
    <3>1. i \in 1 .. n
      BY <1>1, <2>3
    <3>2. y[i] = Mapped(s, g)[i]
      BY <1>2, <3>1
    <3>3. Mapped(s, g)[i] = g[s[i]]
      BY <3>1 DEF Mapped
    <3>4. QED BY <1>3, <2>1, <3>1, <3>2, <3>3
  <2>4. QED BY <2>2, <2>3
<1> HIDE DEF x, y
<1>7. x = y
  BY <1>4, <1>5, <1>6, SeqEqual
<1>8. QED BY <1>2, <1>7 DEF x, y, more, MapsOn

\* Lines that end in a separator are read back, and an empty one after them.
Ended(C, lines, sep) == Mapped(lines, [l \in Seq(C) |-> l \o <<sep>>])

LEMMA LinesRead ==
  ASSUME NEW C, NEW sep \in C, NEW lines \in Seq(Seq(C \ {sep}))
  PROVE  Cut(Concat(Ended(C, lines, sep)), {sep}) = Append(lines, <<>>)
<1> DEFINE D == Seq(C \ {sep})
           g == [l \in Seq(C) |-> l \o <<sep>>]
           T == {p \in Seq(D) : Cut(Concat(Mapped(p, g)), {sep}) = Append(p, <<>>)}
<1>1. <<>> \in T
  <2>1. Mapped(<<>>, g) = <<>>
    BY DEF Mapped
  <2>2. <<>> \in Seq(C) /\ <<>> \in Seq(D)
    OBVIOUS
  <2>3. Cut(<<>>, {sep}) = << <<>> >>
    BY <2>2, CutTyped
  <2> HIDE DEF g
  <2>4. QED BY <2>1, <2>2, <2>3, ConcatEmpty
<1>2. ASSUME NEW p \in Seq(D), NEW d \in D, p \in T PROVE Append(p, d) \in T
  <2> DEFINE t == Concat(Mapped(p, g))
  <2>1. g \in [Seq(C) -> Seq(C)] /\ p \in Seq(Seq(C)) /\ d \in Seq(C) /\ g[d] = d \o <<sep>>
    OBVIOUS
  <2>0. Cut(t, {sep}) = Append(p, <<>>)
    BY <1>2
  <2> HIDE DEF g
  <2>2. Mapped(p, g) \in Seq(Seq(C)) /\ Mapped(Append(p, d), g) = Append(Mapped(p, g), g[d])
    <3> DEFINE S == Seq(C)
    <3>1. g \in [S -> S] /\ p \in Seq(S) /\ d \in S
      BY <2>1
    <3> HIDE DEF S, D
    <3>2. MapsOn(p, g, d, S)
      BY <3>1, MappedAppend, Zenon
    <3>3. QED BY <3>2 DEF MapsOn, S
  <2>3. t \in Seq(C) /\ Concat(Mapped(Append(p, d), g)) = t \o (d \o <<sep>>)
    <3> DEFINE parts == Mapped(p, g)
               part == g[d]
    <3>1. parts \in Seq(Seq(C)) /\ part \in Seq(C)
      BY <2>1, <2>2
    <3> HIDE DEF parts, part
    <3>2. Concat(parts) \in Seq(C) /\ Concat(Append(parts, part)) = Concat(parts) \o part
      BY <3>1, ConcatAppend
    <3>3. QED BY <2>1, <2>2, <3>2 DEF parts, part
  <2> HIDE DEF t
  <2> DEFINE u == t \o d
  <2>4. u \in Seq(C) /\ t \o (d \o <<sep>>) = Append(u, sep)
    BY <2>1, <2>3
  <2>5. Cut(u, {sep}) = Extended(Cut(t, {sep}), d)
    <3>1. d \in Seq(C \ {sep}) /\ t \in Seq(C)
      BY <2>3
    <3> HIDE DEF D
    <3>2. QED BY <3>1, CutExtends
  <2> HIDE DEF u
  <2>6. Cut(Append(u, sep), {sep}) = CutAt(Cut(u, {sep}), sep, {sep})
    BY <2>4, CutAppend
  <2>7. Extended(Append(p, <<>>), d) = Append(p, d)
    BY <2>1, ExtendedNew
  <2>8. CutAt(Append(p, d), sep, {sep}) = Append(Append(p, d), <<>>)
    BY DEF CutAt
  <2>9. Append(p, d) \in Seq(D)
    OBVIOUS
  <2>10. QED BY <2>0, <2>3, <2>4, <2>5, <2>6, <2>7, <2>8, <2>9
<1>3. lines \in T
  <2> HIDE DEF T
  <2> QED BY <1>1, <1>2, SeqSet
<1>4. QED BY <1>3 DEF Ended

LEMMA TextIsTyped == <<>> \in Text /\ \A t \in Text, c \in Ch : Append(t, c) \in Text
BY DEF Text

Framing == {"\t", "\n", "\r"}

LEMMA EscapeCharTyped ==
  ASSUME NEW c \in Ch
  PROVE  EscapeChar(c) \in Seq(Ch \ Framing)
<1> DEFINE D == Ch \ Framing
<1>1. "\\" \in D /\ "t" \in D /\ "n" \in D /\ "r" \in D
  BY DEF Ch, Framing
<1>2. c \in D \/ c \in Framing
  OBVIOUS
<1>3. \/ \E a \in D : EscapeChar(c) = <<"\\", a>>
      \/ c \in D /\ EscapeChar(c) = <<c>>
  BY <1>1, <1>2 DEF EscapeChar, Framing
<1> HIDE DEF D
<1>4. EscapeChar(c) \in Seq(D)
  <2>1. CASE \E a \in D : EscapeChar(c) = <<"\\", a>>
    <3>1. PICK a \in D : EscapeChar(c) = <<"\\", a>>
      BY <2>1
    <3>2. <<"\\", a>> \in Seq(D)
      BY <1>1
    <3>3. QED BY <3>1, <3>2
  <2>2. CASE c \in D /\ EscapeChar(c) = <<c>>
    <3>1. <<c>> \in Seq(D)
      BY <2>2
    <3>2. QED BY <2>2, <3>1
  <2>3. QED BY <1>3, <2>1, <2>2
<1>5. QED BY <1>4 DEF D

Escapes == [c \in Ch |-> EscapeChar(c)]

LEMMA EscapeAppend ==
  ASSUME NEW v \in Text, NEW c \in Ch
  PROVE  /\ EscapeCopy(v) \in Seq(Ch \ Framing)
         /\ EscapeCopy(Append(v, c)) = EscapeCopy(v) \o EscapeChar(c)
<1> DEFINE D == Ch \ Framing
           S == Seq(D)
           parts == Mapped(v, Escapes)
           part == EscapeChar(c)
<1>1. \A t \in Text : EscapeCopy(t) = Concat(Mapped(t, Escapes))
  <2>1. ASSUME NEW t \in Text
        PROVE  [i \in DOMAIN t |-> EscapeChar(t[i])] = Mapped(t, Escapes)
    BY DEF Text, Mapped, Escapes
  <2>2. QED BY <2>1 DEF EscapeCopy
<1>2. Escapes \in [Ch -> S] /\ Escapes[c] = part
  BY EscapeCharTyped DEF Escapes
<1>3. v \in Seq(Ch) /\ Append(v, c) \in Text
  BY DEF Text
<1> HIDE DEF S, part
<1> HIDE DEF parts
<1>a. /\ Mapped(v, Escapes) \in Seq(S)
      /\ Mapped(Append(v, c), Escapes) = Append(Mapped(v, Escapes), Escapes[c])
  <2> DEFINE g == Escapes
             A == Ch
  <2>1. g \in [A -> S] /\ v \in Seq(A) /\ c \in A
    BY <1>2, <1>3
  <2> HIDE DEF g, A
  <2>2. Mapped(v, g) \in Seq(S) /\ Mapped(Append(v, c), g) = Append(Mapped(v, g), g[c])
    <3>1. MapsOn(v, g, c, S)
      BY <2>1, MappedAppend, Zenon
    <3>2. QED BY <3>1 DEF MapsOn
  <2>3. QED BY <2>2 DEF g
<1>4. parts \in Seq(S) /\ Mapped(Append(v, c), Escapes) = Append(parts, part)
  BY <1>a, <1>2 DEF parts
<1>5. part \in Seq(D) /\ parts \in Seq(Seq(D))
  BY <1>4, EscapeCharTyped DEF S, part
<1> HIDE DEF D
<1>6. Concat(parts) \in Seq(D) /\ Concat(Append(parts, part)) = Concat(parts) \o part
  BY <1>5, ConcatAppend
<1>7. QED BY <1>1, <1>3, <1>4, <1>6 DEF parts, part, D

LEMMA ReadCharIs ==
  ASSUME NEW o, NEW ch
  PROVE  /\ ReadChar([out |-> o, esc |-> TRUE], ch) = [out |-> Append(o, Plain(ch)), esc |-> FALSE]
         /\ ch # "\\" => ReadChar([out |-> o, esc |-> FALSE], ch) = [out |-> Append(o, ch), esc |-> FALSE]
         /\ ReadChar([out |-> o, esc |-> FALSE], "\\") = [out |-> o, esc |-> TRUE]
<1>1. [out |-> o, esc |-> TRUE].esc = TRUE /\ [out |-> o, esc |-> FALSE].esc = FALSE
  BY Zenon
<1>2. [out |-> o, esc |-> TRUE].out = o /\ [out |-> o, esc |-> FALSE].out = o
  OBVIOUS
<1>3. QED BY <1>1, <1>2, Zenon DEF ReadChar

\* Reading what was escaped gives the character back.
LEMMA EscapeReads ==
  ASSUME NEW t \in Text, NEW v \in Text, NEW c \in Ch, Reading(t) = [out |-> v, esc |-> FALSE]
  PROVE  Reading(t \o EscapeChar(c)) = [out |-> Append(v, c), esc |-> FALSE]
<1>1. ASSUME NEW a \in Ch, NEW u \in Text
      PROVE  Reading(Append(u, a)) = ReadChar(Reading(u), a)
  BY ReadAppend
<1>2. ASSUME NEW a \in Ch, EscapeChar(c) = <<a>>, a # "\\", a = c
      PROVE  Reading(t \o EscapeChar(c)) = [out |-> Append(v, c), esc |-> FALSE]
  <2>1. t \o EscapeChar(c) = Append(t, a)
    BY <1>2 DEF Text
  <2>2. Reading(Append(t, a)) = ReadChar(Reading(t), a)
    BY <1>1
  <2>3. QED BY <1>2, <2>1, <2>2, ReadCharIs
<1>3. ASSUME NEW a \in Ch, EscapeChar(c) = <<"\\", a>>, Plain(a) = c
      PROVE  Reading(t \o EscapeChar(c)) = [out |-> Append(v, c), esc |-> FALSE]
  <2> DEFINE u == Append(t, "\\")
  <2>1. u \in Text /\ "\\" \in Ch /\ t \o EscapeChar(c) = Append(u, a)
    BY <1>3 DEF Text, Ch
  <2>2. Reading(u) = ReadChar(Reading(t), "\\")
    BY <1>1, <2>1
  <2>3. Reading(u) = [out |-> v, esc |-> TRUE]
    BY <2>2, ReadCharIs
  <2> HIDE DEF u
  <2>4. Reading(Append(u, a)) = ReadChar(Reading(u), a)
    BY <1>1, <2>1
  <2>5. QED BY <1>3, <2>1, <2>3, <2>4, ReadCharIs
<1>4. CASE c \in Framing \cup {"\\"}
  <2>1. \E a \in Ch : EscapeChar(c) = <<"\\", a>> /\ Plain(a) = c
    BY <1>4 DEF Framing, EscapeChar, Plain, Ch
  <2>2. QED BY <1>3, <2>1
<1>5. CASE c \notin Framing \cup {"\\"}
  <2>1. EscapeChar(c) = <<c>> /\ c # "\\"
    BY <1>5 DEF Framing, EscapeChar
  <2>2. QED BY <1>2, <2>1
<1>6. QED BY <1>4, <1>5

LEMMA EscapeRead ==
  ASSUME NEW v \in Text
  PROVE  Reading(EscapeCopy(v)) = [out |-> v, esc |-> FALSE]
<1> DEFINE T == {t \in Text : Reading(EscapeCopy(t)) = [out |-> t, esc |-> FALSE]}
<1>1. <<>> \in T
  <2>1. EscapeCopy(<<>>) = <<>>
    BY ConcatEmpty DEF EscapeCopy
  <2>2. QED BY <2>1, ReadTyped, TextIsTyped
<1>2. ASSUME NEW t \in Seq(Ch), NEW c \in Ch, t \in T PROVE Append(t, c) \in T
  <2> DEFINE e == EscapeCopy(t)
  <2>1. t \in Text /\ Append(t, c) \in Text
    BY DEF Text
  <2>2. Reading(e) = [out |-> t, esc |-> FALSE]
    BY <1>2
  <2>3. e \in Text /\ EscapeCopy(Append(t, c)) = e \o EscapeChar(c)
    <3>1. e \in Seq(Ch \ Framing) /\ EscapeCopy(Append(t, c)) = e \o EscapeChar(c)
      BY <2>1, EscapeAppend
    <3>2. QED BY <3>1 DEF Text
  <2> HIDE DEF e
  <2>4. Reading(e \o EscapeChar(c)) = [out |-> Append(t, c), esc |-> FALSE]
    BY <2>1, <2>2, <2>3, EscapeReads
  <2>5. QED BY <2>1, <2>3, <2>4
<1>3. v \in T
  <2> HIDE DEF T
  <2> QED BY <1>1, <1>2, SeqSet DEF Text
<1>4. QED BY <1>3

\* No value looks like NULL.
LEMMA EscapeNotNull ==
  ASSUME NEW v \in Text
  PROVE  EscapeCopy(v) # <<"\\", "N">>
<1> SUFFICES ASSUME EscapeCopy(v) = <<"\\", "N">> PROVE FALSE
  OBVIOUS
<1> DEFINE one == Append(<<>>, "\\")
           n == Append(<<>>, "N")
<1>1. <<>> \in Text /\ one \in Text /\ n \in Text /\ "\\" \in Ch /\ "N" \in Ch
  BY DEF Text, Ch
<1>2. Reading(<<>>) = [out |-> <<>>, esc |-> FALSE]
  BY <1>1, ReadTyped
<1>3. Reading(one) = [out |-> <<>>, esc |-> TRUE]
  BY <1>1, <1>2, ReadAppend, ReadCharIs
<1>4. <<"\\", "N">> = Append(one, "N")
  OBVIOUS
<1> HIDE DEF one
<1>5. Reading(Append(one, "N")) = ReadChar(Reading(one), "N")
  BY <1>1, ReadAppend
<1>a. Plain("N") = "N"
  BY DEF Plain
<1>6. Reading(<<"\\", "N">>).out = n
  <2>1. ReadChar([out |-> <<>>, esc |-> TRUE], "N") = [out |-> n, esc |-> FALSE]
    BY <1>a, ReadCharIs
  <2> HIDE DEF n
  <2>2. [out |-> n, esc |-> FALSE].out = n
    OBVIOUS
  <2>3. Reading(<<"\\", "N">>) = [out |-> n, esc |-> FALSE]
    BY <1>3, <1>4, <1>5, <2>1, Zenon
  <2>4. QED BY <2>2, <2>3, Zenon
<1>7. Reading(EscapeCopy(v)).out = v
  BY EscapeRead
<1>8. v = n
  BY <1>6, <1>7
<1>9. EscapeCopy(<<>>) = <<>> /\ EscapeChar("N") = <<"N">>
  BY ConcatEmpty DEF EscapeCopy, EscapeChar
<1>10. EscapeCopy(n) = EscapeCopy(<<>>) \o EscapeChar("N")
  BY <1>1, EscapeAppend
<1>11. EscapeCopy(n) = <<"N">>
  BY <1>9, <1>10
<1>12. QED BY <1>8, <1>11

FieldValues == {{}} \cup {{v} : v \in Text}
DataRows == {rec \in Seq(Text) : Len(rec) >= Columns}

LEMMA CopyFieldReads ==
  ASSUME NEW f \in FieldValues
  PROVE  CopyField(f) \in Seq(Ch \ Framing) /\ Value(CopyField(f)) = f
<1>1. CASE f = {}
  <2>1. CopyField(f) = <<"\\", "N">>
    BY <1>1 DEF CopyField
  <2>2. "\\" \in Ch \ Framing /\ "N" \in Ch \ Framing
    BY DEF Ch, Framing
  <2>3. <<"\\", "N">> \in Seq(Ch \ Framing)
    BY <2>2
  <2>4. QED BY <1>1, <2>1, <2>3 DEF Value
<1>2. CASE f # {}
  <2>1. PICK v \in Text : f = {v}
    BY <1>2 DEF FieldValues
  <2>2. CopyField(f) = EscapeCopy(v)
    BY <2>1 DEF CopyField
  <2>3. EscapeCopy(v) \in Seq(Ch \ Framing)
    <3>1. "t" \in Ch
      BY DEF Ch
    <3>2. QED BY <3>1, EscapeAppend
  <2>4. EscapeCopy(v) # <<"\\", "N">>
    BY EscapeNotNull
  <2>5. Unescaped(EscapeCopy(v)) = v
    BY EscapeRead DEF Unescaped
  <2>6. QED BY <2>1, <2>2, <2>3, <2>4, <2>5 DEF Value
<1>3. QED BY <1>1, <1>2

LEMMA CopyLineReads ==
  ASSUME NEW fields \in [1 .. Columns -> FieldValues]
  PROVE  CopyLine(fields) \in Seq(Ch \ {"\n"}) /\ Fields(CopyLine(fields)) = fields
<1> DEFINE P == [i \in DOMAIN fields |-> CopyField(fields[i])]
<1>1. Columns \in Nat /\ Columns >= 1
  BY CopyTextAssumption
<1>2. P \in [1 .. Columns -> Seq(Ch \ Framing)] /\ DOMAIN P = 1 .. Columns
  BY CopyFieldReads
<1>3. \A i \in 1 .. Columns : Value(P[i]) = fields[i]
  BY CopyFieldReads
<1>4. CopyLine(fields) = Join(P, "\t")
  BY DEF CopyLine
<1> HIDE DEF P
<1>5. P \in Seq(Seq(Ch \ Framing)) /\ Len(P) = Columns /\ P # <<>>
  BY <1>1, <1>2
<1>6. "\t" \in Ch /\ "\t" \in Ch \ {"\n"} /\ "\n" \in Framing /\ "\t" \in Framing
  BY DEF Ch, Framing
<1>7. P \in Seq(Seq(Ch \ {"\t"})) /\ P \in Seq(Seq(Ch \ {"\n"}))
  <2>1. Seq(Ch \ Framing) \subseteq Seq(Ch \ {"\t"}) /\ Seq(Ch \ Framing) \subseteq Seq(Ch \ {"\n"})
    BY <1>6
  <2>2. QED BY <1>5, <2>1, SeqMonotonic
<1>8. Cut(Join(P, "\t"), {"\t"}) = P
  BY <1>5, <1>6, <1>7, JoinRead
<1>9. Join(P, "\t") \in Seq(Ch \ {"\n"})
  <2> DEFINE C == Ch \ {"\n"}
  <2>1. <<>> \in Seq(C) /\ "\t" \in C /\ P \in Seq(Seq(C))
    BY <1>6, <1>7
  <2> HIDE DEF C
  <2>2. Join(P, "\t") \in Seq(C)
    BY <2>1, JoinAppend
  <2>3. QED BY <2>2 DEF C
<1>10. Fields(CopyLine(fields)) = [i \in DOMAIN P |-> Value(P[i])]
  BY <1>4, <1>8 DEF Fields
<1>11. [i \in DOMAIN P |-> Value(P[i])] = fields
  BY <1>2, <1>3
<1>12. QED BY <1>4, <1>9, <1>10, <1>11

LEMMA ConcatTyped ==
  ASSUME NEW C, NEW parts \in Seq(Seq(C))
  PROVE  Concat(parts) \in Seq(C)
<1>1. <<>> \in Seq(C)
  OBVIOUS
<1>2. QED BY <1>1, ConcatAppend

LEMMA RowsTyped ==
  ASSUME NEW text \in Text
  PROVE  Rows(text) \in Seq(DataRows)
<1>1. Columns \in Nat
  BY CopyTextAssumption
<1>2. \A t \in Text : \A seps : Cut(t, seps) \in Seq(Text)
  BY CutTyped DEF Pieces, Text
<1>3. Records(text) \in Seq(Seq(Text))
  <2> DEFINE lines == Cut(text, {"\n", "\r"})
             parts == [i \in DOMAIN lines |-> IF lines[i] = <<>> THEN <<>> ELSE <<Cut(lines[i], {"\t"})>>]
  <2>1. lines \in Seq(Text)
    BY <1>2
  <2>2. Records(text) = Concat(parts)
    BY DEF Records
  <2> HIDE DEF lines
  <2>3. ASSUME NEW i \in DOMAIN lines
        PROVE  (IF lines[i] = <<>> THEN <<>> ELSE <<Cut(lines[i], {"\t"})>>) \in Seq(Seq(Text))
    <3>1. Cut(lines[i], {"\t"}) \in Seq(Text)
      BY <1>2, <2>1
    <3>2. QED BY <3>1
  <2>4. parts \in [1 .. Len(lines) -> Seq(Seq(Text))] /\ Len(lines) \in Nat
    BY <2>1, <2>3
  <2> HIDE DEF parts
  <2>5. parts \in Seq(Seq(Seq(Text)))
    BY <2>4
  <2>6. QED BY <2>2, <2>5, ConcatTyped
<1>4. ASSUME NEW records \in Seq(Seq(Text))
      PROVE  Loaded(records) \in Seq(DataRows)
  <2> DEFINE header(i) == i = 1 /\ records[i][1] = <<"H">>
             skipped(i) == header(i) \/ Len(records[i]) < Columns
             parts == [i \in DOMAIN records |-> IF skipped(i) THEN <<>> ELSE <<records[i]>>]
  <2>1. Loaded(records) = Concat(parts)
    BY DEF Loaded
  <2>2. ASSUME NEW i \in DOMAIN records
        PROVE  (IF skipped(i) THEN <<>> ELSE <<records[i]>>) \in Seq(DataRows)
    <3>1. CASE skipped(i)
      BY <3>1
    <3>2. CASE ~skipped(i)
      <4>1. records[i] \in Seq(Text) /\ Len(records[i]) \in Nat /\ ~(Len(records[i]) < Columns)
        BY <3>2
      <4>2. records[i] \in DataRows
        BY <1>1, <4>1 DEF DataRows
      <4>3. QED BY <3>2, <4>2
    <3>3. QED BY <3>1, <3>2
  <2>3. parts \in [1 .. Len(records) -> Seq(DataRows)] /\ Len(records) \in Nat
    BY <2>2
  <2> HIDE DEF parts
  <2>4. parts \in Seq(Seq(DataRows))
    BY <2>3, IsSeq, Zenon
  <2>5. QED BY <2>1, <2>4, ConcatTyped
<1>5. QED BY <1>3, <1>4 DEF Rows

LEMMA CopyFieldsTyped ==
  ASSUME NEW rec \in DataRows
  PROVE  CopyFields(rec) \in [1 .. Columns -> FieldValues]
<1>1. rec \in Seq(Text) /\ Len(rec) >= Columns /\ Columns \in Nat
  BY CopyTextAssumption DEF DataRows
<1>2. <<"f">> \in Text /\ <<"t">> \in Text
  BY DEF Text, Ch
<1>3. ASSUME NEW i \in 1 .. Columns
      PROVE  BoolField(rec[i]) \in FieldValues /\ Field(rec[i]) \in FieldValues
  <2>1. rec[i] \in Text
    BY <1>1
  <2>2. QED BY <1>2, <2>1 DEF BoolField, Field, FieldValues
<1>4. QED BY <1>3 DEF CopyFields

\* What the server copies in is what the dump says, whatever the dump.
LEMMA Lossless ==
  ASSUME NEW text \in Text
  PROVE  CopiedIn(Stream(text)) = [i \in DOMAIN Rows(text) |-> CopyFields(Rows(text)[i])]
<1> DEFINE rows == Rows(text)
           C == Ch
           D == Ch \ {"\n"}
           L == [i \in DOMAIN rows |-> CopyLine(CopyFields(rows[i]))]
<1>1. rows \in Seq(DataRows) /\ Len(rows) \in Nat
  BY RowsTyped
<1>2. Stream(text) = Concat([i \in DOMAIN rows |-> CopyLine(CopyFields(rows[i])) \o <<"\n">>])
  BY DEF Stream
<1> HIDE DEF rows
<1>3. ASSUME NEW i \in DOMAIN rows
      PROVE  /\ CopyLine(CopyFields(rows[i])) \in Seq(D)
             /\ Fields(CopyLine(CopyFields(rows[i]))) = CopyFields(rows[i])
  BY <1>1, CopyFieldsTyped, CopyLineReads
<1>4. L \in [1 .. Len(rows) -> Seq(D)] /\ DOMAIN L = DOMAIN rows
  BY <1>1, <1>3
<1>5. \A i \in DOMAIN rows : L[i] = CopyLine(CopyFields(rows[i])) /\ Fields(L[i]) = CopyFields(rows[i])
  BY <1>3
<1> HIDE DEF L
<1>6. L \in Seq(Seq(D)) /\ Len(L) = Len(rows)
  BY <1>1, <1>4
<1>7. [i \in DOMAIN rows |-> CopyLine(CopyFields(rows[i])) \o <<"\n">>] = Ended(C, L, "\n")
  <2>1. \A i \in DOMAIN L : L[i] \in Seq(C)
    BY <1>6
  <2>2. QED BY <1>4, <1>5, <2>1 DEF Ended, Mapped
<1>8. "\n" \in C
  BY DEF Ch
<1> HIDE DEF C
<1>9. Cut(Concat(Ended(C, L, "\n")), {"\n"}) = Append(L, <<>>)
  BY <1>6, <1>8, LinesRead DEF C
<1>10. CopiedIn(Stream(text)) = [i \in 1 .. Len(Append(L, <<>>)) - 1 |-> Fields(Append(L, <<>>)[i])]
  BY <1>2, <1>7, <1>9 DEF CopiedIn
<1>11. Len(Append(L, <<>>)) - 1 = Len(rows) /\ \A i \in DOMAIN rows : Append(L, <<>>)[i] = L[i]
  BY <1>1, <1>6
<1>12. QED BY <1>1, <1>5, <1>10, <1>11 DEF rows

DumpTyped == dump \in Seq(Characters)

\* Whatever dumps are read, one after another, the server gets out of the stream the
\* values that to_copy_fields put in: escape_copy and the row framing lose nothing.
THEOREM CopiesNothingLost == CopySpec => []CopyLossless
<1>1. CopyInit => DumpTyped
  BY DEF CopyInit, DumpTyped
<1>2. DumpTyped /\ [Read \/ Finish]_dump => DumpTyped'
  <2> SUFFICES ASSUME DumpTyped, [Read \/ Finish]_dump PROVE DumpTyped'
    OBVIOUS
  <2> USE DEF DumpTyped
  <2>1. CASE Read
    BY <2>1 DEF Read
  <2>2. CASE Finish
    BY <2>2 DEF Finish
  <2>3. CASE UNCHANGED dump
    BY <2>3
  <2>4. QED BY <2>1, <2>2, <2>3
<1>3. DumpTyped => CopyLossless
  <2>1. DumpTyped => dump \in Text
    BY DEF DumpTyped, Text, Ch
  <2>2. QED BY <2>1, Lossless DEF CopyLossless
<1>4. QED BY <1>1, <1>2, <1>3, PTL DEF CopySpec
==============================================================================

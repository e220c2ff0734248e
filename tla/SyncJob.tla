------------------------------- MODULE SyncJob -------------------------------
(***************************************************************************)
(* `shirabe sync <source>` jobs (src/sources/mod.rs, src/lib.rs) and what  *)
(* the bulk ingests share: a blocking parser thread that feeds a bounded   *)
(* channel the job's task drains into the database.                        *)
(*                                                                         *)
(* A job is one process.  Its pc names the statement it is about to run;   *)
(* every statement is atomic in the database and may fail, and the process *)
(* may die between any two.                                                *)
(***************************************************************************)
EXTENDS Naturals, Sequences

CONSTANTS
  Jobs,       \* sync processes that may be alive at once
  Sources,    \* the sources there are
  Plans,      \* the sets of sources a deployment may schedule syncs of
  Overlap,    \* whether two jobs of one source may be alive at once
  Chunks,     \* chunks of parsed rows a download consists of
  Channel,    \* capacity of the parser's channel
  MaxVersion, \* bound on the number of upstream publications
  None        \* sentinel

ASSUME SyncAssumption ==
  /\ Sources \subseteq {"imdb", "imdb-fts", "imdb-trgm", "tmdb"}
  /\ Plans \subseteq SUBSET Sources /\ Overlap \in BOOLEAN
  /\ Chunks \in Nat \ {0} /\ Channel \in Nat \ {0} /\ MaxVersion \in Nat \ {0}
  /\ None \notin {"imdb", "imdb-fts", "imdb-trgm", "tmdb"}

VARIABLES
  scheduled,\* the sources this deployment syncs
  job,      \* the state of each process
  upstream  \* the version the upstream publishes

Versions == 0 .. MaxVersion

\* The statements of each refresh, in order.
Statements ==
  {"drop", "create", "get", "open", "copy", "stage", "swap",
   "prereqs", "table", "truncate", "insert", "list", "prune", "ensure",
   "request", "upsert"}

NoJob ==
  [source |-> None, pc |-> "idle",        \* whose refresh, and the statement it is at
   at |-> 0,                              \* the dataset, export or index it is at
   ver |-> 0,                             \* the version it is downloading
   parser |-> "off",                      \* off, running, ended or failed
   parsed |-> 0,                          \* chunks the parser sent to the channel
   sent |-> 0,                            \* chunks the task received and wrote
   listed |-> {},                         \* INVALID indexes to drop
   ok |-> FALSE,                          \* the report
   began |-> 0,                           \* what was upstream when it started: the day a tmdb
                                          \* job names its files with, else a ghost
   clean |-> TRUE]                        \* ghost: nobody replaced its tables meanwhile

JobInit == scheduled \in Plans /\ job = [j \in Jobs |-> NoJob] /\ upstream = 1

At(j, s, pc) == job[j].source = s /\ job[j].pc = pc

Become(j, state) == job' = [job EXCEPT ![j] = state]

Goto(j, pc) == Become(j, [job[j] EXCEPT !.pc = pc])

\* RefreshReport::failed, out of any early return.
Failed(state) == [NoJob EXCEPT !.source = state.source, !.pc = "persist", !.ok = FALSE]

\* RefreshReport::ok
Succeeded(state) == [NoJob EXCEPT !.source = state.source, !.began = state.began,
                                  !.clean = state.clean, !.pc = "persist", !.ok = TRUE]

Running(s) == {j \in Jobs : job[j].source = s}

----------------------------------------------------------------------------
(* run_refresh, and the start of each source's own refresh.                *)

FirstStatement(s) ==
  CASE s = "imdb" -> "drop"
    [] s = "tmdb" -> "request"
    [] OTHER      -> "prereqs"

Start(j, s) ==
  /\ job[j] = NoJob /\ s \in scheduled
  /\ Overlap \/ Running(s) = {}
  /\ Become(j, [NoJob EXCEPT !.source = s, !.pc = FirstStatement(s), !.at = 1,
                              !.began = IF s \in {"imdb", "tmdb"} THEN upstream ELSE 0])
  /\ UNCHANGED <<scheduled, upstream>>

\* A statement returns an error.  The commit of a swap may have happened all the
\* same, its reply lost: then the job fails at the statement after it.
StatementFails(j) ==
  /\ job[j].pc \in Statements
  /\ Become(j, Failed(job[j]))
  /\ UNCHANGED <<scheduled, upstream>>

\* The upstream publishes a new version of its files.
Publish == upstream < MaxVersion /\ upstream' = upstream + 1 /\ UNCHANGED <<scheduled, job>>

----------------------------------------------------------------------------
(* The parser thread and its channel.                                      *)

\* The thread is spawned over a fresh channel.
WithParser(state) == [state EXCEPT !.parser = "running", !.parsed = 0, !.sent = 0]

\* blocking_send
Parse(j) ==
  /\ job[j].parser = "running" /\ job[j].parsed < Chunks
  /\ job[j].parsed - job[j].sent < Channel
  /\ Become(j, [job[j] EXCEPT !.parsed = @ + 1])
  /\ UNCHANGED <<scheduled, upstream>>

\* The thread reaches the end of the file, or a read or decode error, which it
\* returns; either way it drops its end of the channel.
ParserEnds(j) ==
  /\ job[j].parser = "running"
  /\ \/ job[j].parsed = Chunks /\ Become(j, [job[j] EXCEPT !.parser = "ended"])
     \/ Become(j, [job[j] EXCEPT !.parser = "failed"])
  /\ UNCHANGED <<scheduled, upstream>>

\* rx.recv() has a chunk for the task.
Received(j) == job[j].sent < job[j].parsed

\* rx.recv() says that the thread is gone and the channel is empty.
Drained(j) == job[j].parser # "running" /\ ~Received(j)

\* Mutant of Joined: the thread's error is dropped.
JoinedUnchecked(state, next) == [next EXCEPT !.parser = "off", !.ver = 0, !.parsed = 0, !.sent = 0]

\* parse_handle.await??: the thread's error fails the job.
Joined(state, next) ==
  IF state.parser = "failed" THEN Failed(state)
  ELSE [next EXCEPT !.parser = "off", !.ver = 0, !.parsed = 0, !.sent = 0]
==============================================================================

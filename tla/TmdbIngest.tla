----------------------------- MODULE TmdbIngest -----------------------------
(***************************************************************************)
(* The TMDB id enumeration (src/sources/tmdb.rs): each of the day's exports*)
(* is streamed through a parser thread and upserted batch by batch, every  *)
(* batch a statement of its own.  A batch of ids is modelled by the version*)
(* of the export its rows were last written from, 0 before any.            *)
(***************************************************************************)
EXTENDS SyncJob

CONSTANT Exports \* the kinds of the exports, in order

ASSUME ExportsAssumption == Exports \in Seq(STRING) \ {<<>>}

VARIABLE id_index \* tmdb_id_index: kind and batch to version

Kinds == {Exports[k] : k \in DOMAIN Exports}

TmdbInit == id_index = [kind \in Kinds |-> [b \in 1 .. Chunks |-> 0]]

\* Mutant of GetExport: every request asks for the file of its own day.
GetExportToday(j) ==
  /\ At(j, "tmdb", "request")
  /\ Become(j, [WithParser(job[j]) EXCEPT !.ver = upstream, !.pc = "upsert"])
  /\ UNCHANGED <<scheduled, upstream, id_index>>

\* The response to the request for the file of the day the refresh began, and the
\* parser thread.
GetExport(j) ==
  /\ At(j, "tmdb", "request")
  /\ Become(j, [WithParser(job[j]) EXCEPT !.ver = job[j].began, !.pc = "upsert"])
  /\ UNCHANGED <<scheduled, upstream, id_index>>

\* upsert_id_index: INSERT ... ON CONFLICT (id, kind) DO UPDATE
Upsert(j) ==
  /\ At(j, "tmdb", "upsert") /\ Received(j)
  /\ id_index' = [id_index EXCEPT ![Exports[job[j].at]][job[j].sent + 1] = job[j].ver]
  /\ Become(j, [job[j] EXCEPT !.sent = @ + 1])
  /\ UNCHANGED <<scheduled, upstream>>

\* The channel is closed and empty: the parser's result, then the next export or
\* the report.
EndExport(j) ==
  /\ At(j, "tmdb", "upsert") /\ Drained(j)
  /\ Become(j, Joined(job[j], IF job[j].at < Len(Exports)
                              THEN [job[j] EXCEPT !.pc = "request", !.at = @ + 1]
                              ELSE Succeeded(job[j])))
  /\ UNCHANGED <<scheduled, upstream, id_index>>
==============================================================================

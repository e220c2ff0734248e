------------------------- MODULE MCSearchCacheFresh -------------------------
(* SearchCache with the arrival time of each request as a history variable, *)
(* and a clock that ticks in minutes: it never ticks while a task is ready. *)
EXTENDS SearchCache, TLC

VARIABLE since  \* when each caller's current request arrived

HistoryInit == Init /\ since = [c \in Callers |-> 0]

\* Nothing but running searches and the callers waiting for them.
Settled ==
  \A c \in Callers :
    \/ pc[c] \in {"idle", "computing"}
    \/ pc[c] = "waiting" /\ guard[mine[c]] # NoCaller

HistoryNext ==
  \/ \E c \in Callers, k \in Keys :
       Request(c, k) /\ since' = [since EXCEPT ![c] = now]
  \/ (\E c \in Callers : Step(c)) /\ UNCHANGED since
  \/ Settled /\ Tick /\ UNCHANGED since

HistorySpec == HistoryInit /\ [][HistoryNext]_<<vars, since>>

Symmetry == Permutations(Callers) \union Permutations(Keys) \union Permutations(Slots)

\* A request is never served a body that had already expired when it arrived
\* (handlers.rs: "serve a fresh hit, otherwise execute `search`").
ServesFresh ==
  \A c \in Callers : answer[c] \in Body => answer[c].born + Ttl > since[c]
=============================================================================

----------------------------- MODULE MCSyncData -----------------------------
(* ShirabeSync beside the conversions of its data, on instances of their own *)
(* for TLC: the jobs, the dumps they copy (two columns, the second a boolean,*)
(* up to five characters) and the days they run on (four centuries).         *)
EXTENDS MCShirabeSync, CopyText, CivilDate

VARIABLE instance

TheCharacters == {"\t", "\n", "\\", "N", "1", "H"}
Second == {2}

MCInit ==
  /\ Init /\ CopyInit
  /\ \/ instance \in {"jobs", "dumps"} /\ today = 0
     \/ instance = "days" /\ today \in 0..146096 /\ scheduled = {"tmdb"}

RunJobs == instance = "jobs" /\ Next /\ UNCHANGED <<instance, dump, today>>

RunDump ==
  /\ instance = "dumps"
  /\ \/ Len(dump) < 5 /\ Read
     \/ Len(dump) = 5 /\ Finish
  /\ UNCHANGED <<instance, today, vars>>

RunDays ==
  /\ instance = "days"
  /\ \/ today < 146096 /\ Midnight
     \/ today = 146096 /\ today' = 0     \* which begins the cycle anew
  /\ UNCHANGED <<instance, dump, vars>>

MCNext == RunJobs \/ RunDump \/ RunDays

MCSpec == MCInit /\ [][MCNext]_<<vars, instance, dump, today>>
=============================================================================

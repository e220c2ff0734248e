---------------------------- MODULE ReleaseDates ----------------------------
(* date.rs: the release date among the date events of a release. An event is *)
(* a year, month and day, each missing or given (a set of at most one), and  *)
(* whether the country is XW, which breaks ties.                             *)
EXTENDS Integers, Sequences

\* A missing component sorts after every other (i32::MAX, NULLS LAST).
Missing == 9999
Component(column) == IF column = {} THEN Missing ELSE CHOOSE x \in column : TRUE

OrderKey(e) == <<Component(e.y), Component(e.m), Component(e.d), IF e.xw THEN 0 ELSE 1>>
Precedes(a, b) ==
  \E i \in DOMAIN a : a[i] < b[i] /\ \A j \in 1..(i - 1) : a[j] = b[j]

\* A partial date: the components up to the first missing one.
Render(e) ==
  CASE e.y = {} -> <<>>
    [] e.m = {} -> <<Component(e.y)>>
    [] e.d = {} -> <<Component(e.y), Component(e.m)>>
    [] OTHER -> <<Component(e.y), Component(e.m), Component(e.d)>>

SelectReleaseDate(events) ==
  LET dated == {e \in events : e.y # {}}
  IN  IF dated = {} THEN <<>>
      ELSE Render(CHOOSE e \in dated : \A f \in dated : ~Precedes(OrderKey(f), OrderKey(e)))
=============================================================================

-------------------------- MODULE SingleFlightStore --------------------------
(***************************************************************************)
(* What the search cache promises its callers, without slots, locks or     *)
(* reference counts.  Each key has a set of servable bodies.  A body       *)
(* becomes servable only by the search that produced it, once forgotten it *)
(* never returns, at most one search per key runs, one starts only when    *)
(* nothing is servable any more, and every answer was servable or is the   *)
(* caller's own.                                                           *)
(***************************************************************************)
CONSTANTS Callers, Keys, Bodies, NoCaller, NoKey, NoBody, Failed

VARIABLES
  want,       \* the key each caller asked for, or NoKey
  searching,  \* the caller searching for each key, or NoCaller
  servable,   \* the bodies each key may be answered with
  answer      \* each caller's answer, or NoBody

vars == <<want, searching, servable, answer>>

Init ==
  /\ want = [c \in Callers |-> NoKey]
  /\ searching = [k \in Keys |-> NoCaller]
  /\ servable = [k \in Keys |-> {}]
  /\ answer = [c \in Callers |-> NoBody]

\* Expiry, eviction and released slots only ever take bodies away.
Forgets(except) ==
  /\ servable' \in [Keys -> SUBSET Bodies]
  /\ \A k \in Keys : servable'[k] \subseteq servable[k] \union except[k]

Nothing == [k \in Keys |-> {}]

Unanswered(c) == want[c] # NoKey /\ answer[c] = NoBody

Ask(c, k) ==
  /\ want[c] = NoKey
  /\ want' = [want EXCEPT ![c] = k]
  /\ answer' \in {answer} \union {[answer EXCEPT ![c] = b] : b \in servable[k]}
  /\ Forgets(Nothing)
  /\ UNCHANGED searching

Serve(c) ==
  /\ Unanswered(c)
  /\ \E b \in servable[want[c]] : answer' = [answer EXCEPT ![c] = b]
  /\ UNCHANGED <<want, searching, servable>>

Start(c) ==
  /\ Unanswered(c) /\ searching[want[c]] = NoCaller
  /\ searching' = [searching EXCEPT ![want[c]] = c]
  /\ Forgets(Nothing) /\ servable'[want[c]] = {}
  /\ UNCHANGED <<want, answer>>

Finish(c) ==
  /\ Unanswered(c) /\ searching[want[c]] = c
  /\ searching' = [searching EXCEPT ![want[c]] = NoCaller]
  /\ \/ /\ answer' = [answer EXCEPT ![c] = Failed]
        /\ Forgets(Nothing)
     \/ \E b \in Bodies :
          /\ answer' = [answer EXCEPT ![c] = b]
          /\ Forgets([Nothing EXCEPT ![want[c]] = {b}])
  /\ UNCHANGED want

Leave(c) ==
  /\ want[c] # NoKey
  /\ want' = [want EXCEPT ![c] = NoKey]
  /\ answer' = [answer EXCEPT ![c] = NoBody]
  /\ searching' = [searching EXCEPT ![want[c]] = IF @ = c THEN NoCaller ELSE @]
  /\ Forgets(Nothing)

Forget == Forgets(Nothing) /\ UNCHANGED <<want, searching, answer>>

Next ==
  \/ \E c \in Callers :
       Serve(c) \/ Start(c) \/ Finish(c) \/ Leave(c) \/ \E k \in Keys : Ask(c, k)
  \/ Forget

Spec == Init /\ [][Next]_vars
=============================================================================

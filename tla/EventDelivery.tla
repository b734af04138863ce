---------------------------- MODULE EventDelivery ----------------------------
(***************************************************************************)
(* What the replay promises the exchanges in one run, whatever is added to *)
(* the sources meanwhile: an exchange hears an event that was recorded at  *)
(* it, once, never before its time, and never after an event it precedes.  *)
(***************************************************************************)
EXTENDS Replay

CONSTANTS Exchanges, OwnerOf

VARIABLES heard,    \* per exchange the events of this run, as they were applied
          horizon   \* the moment the run has reached

dvars == <<heard, horizon>>

Silence == [x \in Exchanges |-> << >>]

Init == heard = Silence /\ horizon \in Nat

Hear(x, e) ==
  /\ OwnerOf[e] = x
  /\ TimeOf[e] <= horizon
  /\ \A i \in DOMAIN heard[x] : heard[x][i] # e /\ ~Precedes(e, heard[x][i])
  /\ heard' = [heard EXCEPT ![x] = Append(@, e)]
  /\ UNCHANGED horizon

Advance == horizon' \in Nat /\ horizon' >= horizon /\ UNCHANGED heard

Restart == heard' = Silence /\ horizon' \in Nat

Next == Advance \/ Restart \/ \E x \in Exchanges, e \in EventIds : Hear(x, e)

Spec == Init /\ [][Next]_dvars

-----------------------------------------------------------------------------
\* Of any two events an exchange hears in a run the later does not precede the
\* earlier; none is heard twice, and none is from the future or another's.
HeardInOrder ==
  \A x \in Exchanges :
    /\ InOrder(heard[x])
    /\ \A i, j \in DOMAIN heard[x] : heard[x][i] = heard[x][j] => i = j
    /\ \A i \in DOMAIN heard[x] :
         OwnerOf[heard[x][i]] = x /\ TimeOf[heard[x][i]] <= horizon
=============================================================================

----------------------------- MODULE IndexPool -----------------------------
(***************************************************************************)
(* What the env-index registry promises: an environment is given an index  *)
(* nobody else has, keeps exactly that index until it is released, and     *)
(* only then may another one be given it.                                  *)
(***************************************************************************)
CONSTANTS
  Names,    \* environment names
  Indices,  \* the indices an environment may be given
  None

VARIABLE assigned

Claim(n, i) ==
  /\ assigned[n] = None
  /\ \A m \in Names : assigned[m] # i
  /\ assigned' = [assigned EXCEPT ![n] = i]

Release(n) ==
  /\ assigned[n] # None
  /\ assigned' = [assigned EXCEPT ![n] = None]

\* What a kill may do: the pool as a whole is forgotten, never part of it.
Lose == assigned' = [n \in Names |-> None]

Init == assigned = [n \in Names |-> None]

Next ==
  \E n \in Names : Release(n) \/ \E i \in Indices : Claim(n, i)

Spec == Init /\ [][Next]_assigned
=============================================================================

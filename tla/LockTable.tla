----------------------------- MODULE LockTable -----------------------------
(***************************************************************************)
(* What .winter/config.lock promises the workers that write it: the entry  *)
(* of one repository is replaced at once and every other entry stays.  A   *)
(* kill may leave nothing that can be read, until the user restores it.    *)
(***************************************************************************)
CONSTANTS Repos, Entries, NoEntry, Torn

VARIABLE lock

Locks == [Repos -> Entries \union {NoEntry}]

Put(r, e) == lock \in Locks /\ lock' = [lock EXCEPT ![r] = e]
Spoil == lock' = Torn
Restore == lock = Torn /\ lock' \in Locks

Init == lock \in Locks

Next ==
  \/ \E r \in Repos, e \in Entries : Put(r, e)
  \/ Spoil
  \/ Restore

Spec == Init /\ [][Next]_lock
=============================================================================

----------------------------- MODULE ConfigLock -----------------------------
(***************************************************************************)
(* .winter/config.lock under the fan-out of one command: init and pull     *)
(* work on every standalone repository in a thread of its own, and each of *)
(* these workers may replace its repository's entry.  An upsert reads the  *)
(* file, merges its entry and writes the file anew while it holds the      *)
(* repository object's mutex.  The write is a plain write_text: the file   *)
(* is truncated first, and what it then holds does not parse as a lock.    *)
(* The read with which init decides whether an entry is fresh takes no     *)
(* mutex.                                                                  *)
(***************************************************************************)
EXTENDS FiniteSets

CONSTANTS
  Repos,     \* standalone repositories that carry a `ref`
  Entries,   \* what an upsert may record for one of them
  NoEntry,
  Torn,      \* the content of a file that is truncated and not yet written
  Nobody,
  Crashing   \* whether the command may be killed half-way

LockNames ==
  /\ NoEntry \notin Entries
  /\ Torn \notin [Repos -> Entries \union {NoEntry}]
  /\ Nobody \notin Repos
  /\ Crashing \in BOOLEAN

VARIABLES
  file,    \* what a read of config.lock returns (absent: no entry at all)
  mutex,   \* the worker that holds _mutate_lock
  pc,      \* the step of each repository's worker
  new,     \* the entry the worker is to record
  loaded,  \* the entries the worker's upsert read
  failed   \* workers whose command ended in a ConfigLockError

vars == <<file, mutex, pc, new, loaded, failed>>

Locks == [Repos -> Entries \union {NoEntry}]
Empty == [r \in Repos |-> NoEntry]
Steps == {"idle", "look", "wait", "read", "truncate", "fill"}

Goto(r, step) == pc' = [pc EXCEPT ![r] = step]
Quiet == \A r \in Repos : pc[r] = "idle"

(***************************************************************************)
(* A command starts its workers: init looks at the lock first, pull upserts*)
(* for the repositories it fast-forwarded.                                 *)
(***************************************************************************)

Begin(step, workers) ==
  /\ Quiet
  /\ pc' = [r \in Repos |-> IF r \in workers THEN step ELSE "idle"]
  /\ new' \in [Repos -> Entries]
  /\ failed' = {}
  /\ UNCHANGED <<file, mutex, loaded>>

BeginInit == Begin("look", Repos)
BeginPull(workers) == workers # {} /\ Begin("wait", workers)

(***************************************************************************)
(* init: is the entry fresh?                                               *)
(***************************************************************************)

LookFresh(r) ==
  /\ pc[r] = "look"
  /\ file # Torn /\ file[r] = new[r]
  /\ Goto(r, "idle")
  /\ UNCHANGED <<file, mutex, new, loaded, failed>>

LookStale(r) ==
  /\ pc[r] = "look"
  /\ file # Torn /\ file[r] # new[r]
  /\ Goto(r, "wait")
  /\ UNCHANGED <<file, mutex, new, loaded, failed>>

\* "unsupported lock file version None": _run_per_repo's backstop reports it.
LookTorn(r) ==
  /\ pc[r] = "look"
  /\ file = Torn
  /\ Goto(r, "idle")
  /\ failed' = failed \union {r}
  /\ UNCHANGED <<file, mutex, new, loaded>>

(***************************************************************************)
(* upsert                                                                  *)
(***************************************************************************)

\* Mutant: no mutex around the read-merge-write.
EnterUnlocked(r) ==
  /\ pc[r] = "wait"
  /\ mutex' = r
  /\ Goto(r, "read")
  /\ UNCHANGED <<file, new, loaded, failed>>

Enter(r) ==
  /\ pc[r] = "wait"
  /\ mutex = Nobody
  /\ mutex' = r
  /\ Goto(r, "read")
  /\ UNCHANGED <<file, new, loaded, failed>>

Read(r) ==
  /\ pc[r] = "read"
  /\ file # Torn
  /\ loaded' = [loaded EXCEPT ![r] = file]
  /\ Goto(r, "truncate")
  /\ UNCHANGED <<file, mutex, new, failed>>

\* The read raises, and `with` gives the mutex back.
ReadTorn(r) ==
  /\ pc[r] = "read"
  /\ file = Torn
  /\ failed' = failed \union {r}
  /\ mutex' = Nobody
  /\ Goto(r, "idle")
  /\ UNCHANGED <<file, new, loaded>>

Truncate(r) ==
  /\ pc[r] = "truncate"
  /\ file' = Torn
  /\ Goto(r, "fill")
  /\ UNCHANGED <<mutex, new, loaded, failed>>

Fill(r) ==
  /\ pc[r] = "fill"
  /\ file' = [loaded[r] EXCEPT ![r] = new[r]]
  /\ mutex' = Nobody
  /\ loaded' = [loaded EXCEPT ![r] = Empty]
  /\ Goto(r, "idle")
  /\ UNCHANGED <<new, failed>>

(***************************************************************************)
(* The surroundings: the process is killed, and takes its mutex with it;   *)
(* the user restores a lock that no longer parses.                         *)
(***************************************************************************)

Crash ==
  /\ Crashing
  /\ ~Quiet
  /\ pc' = [r \in Repos |-> "idle"]
  /\ mutex' = Nobody
  /\ loaded' = [r \in Repos |-> Empty]
  /\ UNCHANGED <<file, new, failed>>

Restore ==
  /\ Quiet
  /\ file = Torn
  /\ file' \in Locks
  /\ UNCHANGED <<mutex, pc, new, loaded, failed>>

Init ==
  /\ file \in Locks
  /\ mutex = Nobody
  /\ pc = [r \in Repos |-> "idle"]
  /\ new \in [Repos -> Entries]
  /\ loaded = [r \in Repos |-> Empty]
  /\ failed = {}

Worker(r) ==
  \/ LookFresh(r) \/ LookStale(r) \/ LookTorn(r)
  \/ Enter(r) \/ Read(r) \/ ReadTorn(r) \/ Truncate(r) \/ Fill(r)

Next ==
  \/ BeginInit
  \/ \E workers \in SUBSET Repos : BeginPull(workers)
  \/ \E r \in Repos : Worker(r)
  \/ Crash
  \/ Restore

Spec == Init /\ [][Next]_vars

(***************************************************************************)
(* Properties.                                                             *)
(***************************************************************************)

\* Type correctness; a worker between its read and its fill is the holder of
\* the mutex.
TypeOK ==
  /\ file \in Locks \union {Torn}
  /\ mutex \in Repos \union {Nobody}
  /\ pc \in [Repos -> Steps]
  /\ new \in [Repos -> Entries]
  /\ loaded \in [Repos -> Locks]
  /\ failed \subseteq Repos
  /\ \A r \in Repos : pc[r] \in {"read", "truncate", "fill"} <=> mutex = r

\* While a writer fills the file, the entries it read stand for it.
Recorded == IF file = Torn /\ mutex # Nobody /\ pc[mutex] = "fill"
            THEN loaded[mutex] ELSE file

Table == INSTANCE LockTable WITH lock <- Recorded

=============================================================================

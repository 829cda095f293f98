---------------------------- MODULE EnvRegistry ----------------------------
(***************************************************************************)
(* The life of the env-index registry (.winter/state.toml) under the       *)
(* commands that write it, `winter ws init <env>` and `winter ws destroy   *)
(* <env>`.  Every registry operation reads the file anew; a write loads    *)
(* the document, changes one entry, and stores it with a plain write_text, *)
(* which first truncates the file.  Nothing locks the file between these   *)
(* steps: TomlEnvIndexRegistry relies on one command running at a time.    *)
(*                                                                         *)
(* Overlap = FALSE is that reliance; Overlap = TRUE lets commands of       *)
(* different processes interleave at every file access.                    *)
(***************************************************************************)
EXTENDS EnvIndex

CONSTANTS
  Procs,     \* processes that run winter commands
  Overlap,   \* whether a command may start while another one runs
  Crashing   \* the processes that may be killed in the middle of a command

ASSUME ProcAssumption == Overlap \in BOOLEAN /\ Crashing \subseteq Procs

VARIABLES
  aliases,  \* env_aliases as configured
  file,     \* the registry that a read of state.toml returns
  dirs,     \* environment directories on disk
  held,     \* the index the first init of an environment handed out, until
            \* its destroy, a config edit, or a kill that wiped the file
  lists,    \* history: the lists that env_aliases has been configured with
  pc, env, slot, doc  \* a process's step, its target, the entry it is about
                      \* to write (None deletes), the document it loaded

vars == <<aliases, file, dirs, held, lists, pc, env, slot, doc>>

Steps == {"idle", "lookup", "probe", "load", "store", "fill", "rmtree", "unload"}

Idle(p) == pc[p] = "idle"
Quiet == \A p \in Procs : Idle(p)
Goto(p, step) == pc' = [pc EXCEPT ![p] = step]

\* An init hands index i out for n; only the first one since n's last destroy
\* sets what later commands of the user rely on.
HandOut(n, i) == held' = [held EXCEPT ![n] = IF @ = None THEN i ELSE @]

\* The command of p is over, and with it all the process knew.
End(p) ==
  /\ Goto(p, "idle")
  /\ env' = [env EXCEPT ![p] = None]
  /\ slot' = [slot EXCEPT ![p] = None]
  /\ doc' = [doc EXCEPT ![p] = EmptyRegistry]

(***************************************************************************)
(* winter ws init <env>                                                    *)
(***************************************************************************)

BeginInit(p, n) ==
  /\ Idle(p)
  /\ Overlap \/ Quiet
  /\ Goto(p, "lookup")
  /\ env' = [env EXCEPT ![p] = n]
  /\ dirs' = dirs \union {n}
  /\ UNCHANGED <<aliases, lists, file, held, slot, doc>>

\* An alias is written to its fixed index without a look at the registry.
ClaimFixed(p) ==
  /\ pc[p] = "lookup"
  /\ IsAlias(aliases, env[p])
  /\ slot' = [slot EXCEPT ![p] = FixedIndex(aliases, env[p])]
  /\ Goto(p, "load")
  /\ UNCHANGED <<aliases, lists, file, dirs, held, env, doc>>

\* Mutant: an index already recorded is computed again.
ProbeAgain(p) ==
  /\ pc[p] = "lookup"
  /\ ~IsAlias(aliases, env[p])
  /\ file[env[p]] # None
  /\ Goto(p, "probe")
  /\ UNCHANGED <<aliases, lists, file, dirs, held, env, slot, doc>>

KeepRecorded(p) ==
  /\ pc[p] = "lookup"
  /\ ~IsAlias(aliases, env[p])
  /\ file[env[p]] # None
  /\ HandOut(env[p], file[env[p]])
  /\ End(p)
  /\ UNCHANGED <<aliases, lists, file, dirs>>

FindNothing(p) ==
  /\ pc[p] = "lookup"
  /\ ~IsAlias(aliases, env[p])
  /\ file[env[p]] = None
  /\ Goto(p, "probe")
  /\ UNCHANGED <<aliases, lists, file, dirs, held, env, slot, doc>>

Probe(p) ==
  /\ pc[p] = "probe"
  /\ \E k \in 0..(BandSize(aliases) - 1) :
       /\ FirstFree(aliases, file, env[p], k)
       /\ slot' = [slot EXCEPT ![p] = ProbeSlot(aliases, env[p], k)]
  /\ Goto(p, "load")
  /\ UNCHANGED <<aliases, lists, file, dirs, held, env, doc>>

\* IndexError: reconcile_env reports it; the directory made before stays.
BandFull(p) ==
  /\ pc[p] = "probe"
  /\ FreeDistances(aliases, file, env[p]) = {}
  /\ End(p)
  /\ UNCHANGED <<aliases, lists, file, dirs, held>>

(***************************************************************************)
(* The load-modify-store of assign and remove.                             *)
(***************************************************************************)

LoadDoc(p) ==
  /\ pc[p] = "load"
  /\ doc' = [doc EXCEPT ![p] = file]
  /\ Goto(p, "store")
  /\ UNCHANGED <<aliases, lists, file, dirs, held, env, slot>>

\* write_text opens the file for writing: until the text is in, a reader
\* finds an empty document.
Truncate(p) ==
  /\ pc[p] = "store"
  /\ file' = EmptyRegistry
  /\ Goto(p, "fill")
  /\ UNCHANGED <<aliases, lists, dirs, held, env, slot, doc>>

Stored(p) == [doc[p] EXCEPT ![env[p]] = slot[p]]

Fill(p) ==
  /\ pc[p] = "fill"
  /\ file' = Stored(p)
  /\ IF slot[p] = None
     THEN held' = [held EXCEPT ![env[p]] = None]
     ELSE HandOut(env[p], slot[p])
  /\ End(p)
  /\ UNCHANGED <<aliases, lists, dirs>>

(***************************************************************************)
(* winter ws destroy <env>                                                 *)
(***************************************************************************)

\* A name with no directory is refused before anything is read.
BeginDestroy(p, n) ==
  /\ Idle(p)
  /\ Overlap \/ Quiet
  /\ n \in dirs
  /\ Goto(p, "rmtree")
  /\ env' = [env EXCEPT ![p] = n]
  /\ slot' = [slot EXCEPT ![p] = None]
  /\ UNCHANGED <<aliases, lists, file, dirs, held, doc>>

\* The registry entry goes whether or not the directory could be removed.
RemoveTree(p) ==
  /\ pc[p] = "rmtree"
  /\ dirs' \in {dirs, dirs \ {env[p]}}
  /\ Goto(p, "unload")
  /\ UNCHANGED <<aliases, lists, file, held, env, slot, doc>>

\* Mutant: the removal starts from an empty document.
RemoveFromNothing(p) ==
  /\ pc[p] = "unload"
  /\ file[env[p]] # None
  /\ doc' = [doc EXCEPT ![p] = EmptyRegistry]
  /\ Goto(p, "store")
  /\ UNCHANGED <<aliases, lists, file, dirs, held, env, slot>>

LoadForRemove(p) ==
  /\ pc[p] = "unload"
  /\ file[env[p]] # None
  /\ doc' = [doc EXCEPT ![p] = file]
  /\ Goto(p, "store")
  /\ UNCHANGED <<aliases, lists, file, dirs, held, env, slot>>

NothingToRemove(p) ==
  /\ pc[p] = "unload"
  /\ file[env[p]] = None
  /\ held' = [held EXCEPT ![env[p]] = None]
  /\ End(p)
  /\ UNCHANGED <<aliases, lists, file, dirs>>

(***************************************************************************)
(* The surroundings: a killed command, a removal by hand, a config edit.   *)
(***************************************************************************)

Crash(p) ==
  /\ p \in Crashing
  /\ ~Idle(p)
  /\ held' = IF pc[p] = "fill" THEN EmptyRegistry ELSE held
  /\ End(p)
  /\ UNCHANGED <<aliases, lists, file, dirs>>

RemoveByHand(n) ==
  /\ Quiet
  /\ n \in dirs
  /\ dirs' = dirs \ {n}
  /\ UNCHANGED <<aliases, lists, file, held, pc, env, slot, doc>>

EditAliases(al) ==
  /\ Quiet
  /\ al # aliases
  /\ aliases' = al
  /\ lists' = lists \union {al}
  /\ held' = EmptyRegistry
  /\ UNCHANGED <<file, dirs, pc, env, slot, doc>>

Init ==
  /\ aliases \in AliasLists
  /\ file = EmptyRegistry
  /\ dirs = {}
  /\ held = EmptyRegistry
  /\ lists = {aliases}
  /\ pc = [p \in Procs |-> "idle"]
  /\ env = [p \in Procs |-> None]
  /\ slot = [p \in Procs |-> None]
  /\ doc = [p \in Procs |-> EmptyRegistry]

Command(p) ==
  \/ \E n \in Names : BeginInit(p, n) \/ BeginDestroy(p, n)
  \/ ClaimFixed(p) \/ KeepRecorded(p) \/ FindNothing(p) \/ Probe(p) \/ BandFull(p)
  \/ LoadDoc(p) \/ Truncate(p) \/ Fill(p)
  \/ RemoveTree(p) \/ LoadForRemove(p) \/ NothingToRemove(p)
  \/ Crash(p)

Next ==
  \/ \E p \in Procs : Command(p)
  \/ \E n \in Names : RemoveByHand(n)
  \/ \E al \in AliasLists : EditAliases(al)

Spec == Init /\ [][Next]_vars

(***************************************************************************)
(* Properties.                                                             *)
(***************************************************************************)

\* Type correctness: what each variable may hold, and that a running command
\* has a target.
TypeOK ==
  /\ aliases \in AliasLists
  /\ file \in Registries
  /\ dirs \subseteq Names
  /\ held \in Registries
  /\ lists \subseteq AliasLists /\ aliases \in lists
  /\ pc \in [Procs -> Steps]
  /\ env \in [Procs -> Names \union {None}]
  /\ slot \in [Procs -> 1..EnvsPerWorkspace \union {None}]
  /\ doc \in [Procs -> Registries]
  /\ \A p \in Procs : ~Idle(p) => env[p] \in Names

\* The lists of S differ by an alias that one of them has at its end.
Appended(S) ==
  \A al, bl \in S : /\ Len(bl) <= Len(al) + 1
                    /\ \A i \in 1..Len(al) : i <= Len(bl) => al[i] = bl[i]

\* The allocator promises "collision-free env indices", which is more than it keeps: an alias
\* takes its fixed index without a look at who is recorded with it.  What it
\* keeps, whatever a killed command left behind and
\* however env_aliases is edited: two environments come to share an index only
\* where one of them was written to its fixed index as an alias, and only when
\* the lists configured so far differ by more than an alias at the end.  The
\* probe never makes a pair that shares.
UniqueIndices ==
  \A m, n \in Entries(file) : m # n /\ file[m] = file[n] =>
    /\ \E al \in lists, w \in {m, n} : IsAlias(al, w) /\ file[w] = FixedIndex(al, w)
    /\ ~Appended(lists)

\* env_aliases was edited since the workspace exists.
Edited == lists # {aliases}

\* Until the alias list is edited, a recorded index is one is_valid_env_index
\* accepts: never the shared
\* services' 0, never the buffer N+1, never past M; and an alias is recorded
\* at its own fixed index, out of the other names' reach.
RecordedInBand ==
  ~Edited => \A n \in Entries(file) :
    /\ IsValidEnvIndex(aliases, file[n])
    /\ IF IsAlias(aliases, n) THEN file[n] = FixedIndex(aliases, n)
                             ELSE file[n] \in HashBand(aliases)

\* From the end of its first init to its destroy, every command that starts reads
\* for an environment the index that init handed out, however many other
\* environments come and go meanwhile.
HandedOutStays ==
  Quiet => \A n \in Entries(held) : EnvTrioIndex(aliases, file, n) = held[n]

(***************************************************************************)
(* Refinement.  While a store is half done the truncated file stands for   *)
(* the document the process is about to write back.                        *)
(***************************************************************************)

Recorded ==
  IF \E p \in Procs : pc[p] = "fill"
  THEN doc[CHOOSE p \in Procs : pc[p] = "fill"]
  ELSE file

Pool == INSTANCE IndexPool WITH
          assigned <- Recorded,
          Indices <- 1..EnvsPerWorkspace

\* With one command at a time and an alias list that is not edited, the
\* truncating load-modify-store registry behaves as the pool: an index is
\* claimed only when free and kept unchanged until the destroy, and a kill
\* loses either nothing or everything.
Killed == \E p \in Procs : Crash(p)
ImplementsPool ==
  Pool!Init /\ [][Pool!Next \/ Edited' \/ (Killed /\ Pool!Lose)]_Recorded
=============================================================================

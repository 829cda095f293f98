------------------------------ MODULE PinsLock ------------------------------
(***************************************************************************)
(* The lock file of the standalone pins, under names of its own: an        *)
(* instance of ConfigLock that a module may extend beside StandalonePins.   *)
(***************************************************************************)
CONSTANTS Repos, Entries, NoEntry, Torn, Nobody, Crashing
VARIABLES file, mutex, writer, new, loaded, failed

Lock == INSTANCE ConfigLock WITH pc <- writer

ASSUME LockAssumption == Lock!LockNames

LockSpec == Lock!Spec

\* upsert's promise to the fan-out: it replaces its own repository's entry and
\* preserves all others, however many workers upsert at once; only a kill can
\* do worse, and then the file as a whole is unreadable.
ImplementsTable == Lock!Table!Init /\ [][Lock!Table!Next]_(Lock!Recorded)

=============================================================================

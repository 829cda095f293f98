------------------------------- MODULE EnvBands -------------------------------
(***************************************************************************)
(* How the bands of environment variables become one set of values:        *)
(* EnvBandResolverService.resolve, a fixpoint over the declared entries,   *)
(* as `winter env` and every provider call it, for the workspace and for   *)
(* one feature environment, with command entries run or left as            *)
(* placeholders.                                                           *)
(*                                                                         *)
(* A setup is the sequence of the declared entries, lower bands first, so  *)
(* that an entry's index is its position. An entry is a record [band, key, *)
(* kind, shell, refs, emits]: kind is literal, raw (a command whose output *)
(* is the key's value) or multi (one whose output names the keys it        *)
(* writes); refs are the names its text refers to, emits those of its      *)
(* output that its exports list lets through. A value is what it was made  *)
(* of: [by, from, bases], the entry that wrote it (0 for none), and the    *)
(* entries and the managed variables that went into it, each of these with *)
(* the scope it speaks of.                                                 *)
(***************************************************************************)
EXTENDS Integers, FiniteSets, Sequences

CONSTANTS Setups,
          Names,        \* every name an entry may declare, emit or refer to
          Managed,      \* the WINTER_* variables among them
          PortBase,     \* the one a workspace scope does not have
          ScopeNamed,   \* those whose value is the scope's own: WINTER_ENV, WINTER_ENV_INDEX, WINTER_PORT_BASE
          Underscored,  \* the names that are never exported
          Runs          \* the computations to make: a sequence of [scope, commands]

ASSUME NamesAssumption == /\ Managed \cup Underscored \subseteq Names
                          /\ PortBase \in ScopeNamed /\ ScopeNamed \subseteq Managed

Run == [scope : {"workspace", "feature"}, commands : BOOLEAN]

ASSUME RunsAssumption == Runs \in Seq(Run)

Entry == [band : Nat, key : Names, kind : {"literal", "raw", "multi"}, shell : BOOLEAN,
          refs : SUBSET Names, emits : SUBSET Names]

ASSUME SetupsAssumption == Setups \subseteq Seq(Entry)

VARIABLES
    setup,
    todo,       \* the computations that are left, this one first
    phase,      \* start, first, second: where the round is
    queue,      \* the entries of this pass still to try
    shells,     \* those the second pass is to try
    waiting,    \* those left for the next round
    blocking,   \* multi-value commands that may still claim a key
    moved,      \* something was resolved in this round
    resolved,   \* [Names -> value or Unset]
    confined,   \* the same for what workspace entries wrote
    derived,    \* the names a command's output holds
    outcomes    \* how each computation so far ended, and what workspace entries wrote

vars == <<setup, todo, phase, queue, shells, waiting, blocking, moved,
          resolved, confined, derived, outcomes>>
roundVars == <<queue, shells, waiting, blocking, moved>>
valueVars == <<resolved, confined, derived>>

Scope == Head(todo).scope
Running == Head(todo).commands

-----------------------------------------------------------------------------
(* The entries of a computation. *)

\* The workspace scope has one band only.
Declared == {i \in DOMAIN setup : Scope = "feature" \/ setup[i].band = 0}

\* A key of a higher band shadows the lower one's entry, which never runs.
Effective == {i \in Declared : ~\E j \in Declared : j > i /\ setup[j].key = setup[i].key}
EntryOf(name) == CHOOSE i \in Effective : setup[i].key = name
Keys == {setup[i].key : i \in Effective}

\* The table keeps a shadowed key at the place where it was first declared.
FirstDeclared(i) == CHOOSE j \in Declared : /\ setup[j].key = setup[i].key
                                            /\ \A k \in Declared : setup[k].key = setup[i].key => j <= k
FirstInTable(i, s) == \A j \in s : FirstDeclared(i) <= FirstDeclared(j)
FirstInPosition(i, s) == \A j \in s : i <= j

IsCommand(i) == setup[i].kind # "literal"
Multi(i) == setup[i].kind = "multi"
Restricted(i) == setup[i].band = 0

Unset == [by |-> 0, from |-> {}, bases |-> {}]

\* The value of a managed variable is the same in every scope, or the scope's own.
SpeaksOf(name) == IF name \in ScopeNamed THEN Scope ELSE "every"
Base(name) == [by |-> 0, from |-> {}, bases |-> {<<name, SpeaksOf(name)>>}]
Placeholder(name) == [by |-> EntryOf(name), from |-> {}, bases |-> {}]
BaseKeys == IF Scope = "feature" THEN Managed ELSE Managed \ {PortBase}

\* Mutant: only what this computation has counts.
IsBaseVarHere(name) == name \in BaseKeys

IsBaseVar(name) == name \in BaseKeys \/ name = PortBase

\* Commands that are not run leave a placeholder, if their key is exported.
Held == {i \in Effective : IsCommand(i) /\ ~Running}
Gated == {setup[i].key : i \in Held} \ Underscored

-----------------------------------------------------------------------------
(* What an entry sees. *)

\* What a workspace entry wrote, whoever overwrote it since.
ConfinedValue(name) == confined[name]

\* A workspace entry sees the managed variables but the port base, and the
\* other workspace entries.
Visible(i) ==
    [n \in Names |->
        IF ~Restricted(i)
        THEN IF n = setup[i].key /\ n \in BaseKeys /\ resolved[n] = Unset THEN Base(n) ELSE resolved[n]
        ELSE IF IsBaseVar(n) THEN IF n \in BaseKeys \ {PortBase} THEN Base(n) ELSE Unset
        ELSE IF n \in Keys /\ Restricted(EntryOf(n)) THEN ConfinedValue(n) ELSE Unset]

Missing(i) == {n \in setup[i].refs : Visible(i)[n] = Unset /\ n \notin Gated}

-----------------------------------------------------------------------------
(* Claims. *)

\* Mutant: the last write holds the key.
OutranksLast(i, held) == TRUE

\* A key goes to the entry of the highest position, whichever comes first.
Outranks(i, held) == held.by < i

\* A literal that is declared further down holds its key from the start.
Yields(i, name) == name \in Keys /\ ~IsCommand(EntryOf(name)) /\ EntryOf(name) > i

Kept(i) == setup[i].emits \ (Underscored \cup Managed)
Merged(i) == {n \in Kept(i) : ~Yields(i, n)}

\* Text is made of what it refers to; a command also has its environment.
Made(i) ==
    LET v == Visible(i)
        parts == (IF IsCommand(i) THEN Names ELSE setup[i].refs) \ Gated
    IN  [by |-> i, from |-> {i} \cup UNION {v[n].from : n \in parts}, bases |-> UNION {v[n].bases : n \in parts}]

Claim(i, names, value) ==
    /\ resolved' = [n \in Names |-> IF n \in names /\ Outranks(i, resolved[n]) THEN value ELSE resolved[n]]
    /\ confined' = [n \in Names |-> IF n \in names /\ Restricted(i) /\ Outranks(i, confined[n]) THEN value ELSE confined[n]]
    /\ LET taken == {n \in names : Outranks(i, resolved[n])}
       IN  derived' = IF IsCommand(i) THEN derived \cup taken ELSE derived \ taken

-----------------------------------------------------------------------------
(* What is said of the entries that are left at the end. *)

Leads == [k \in {setup[i].key : i \in waiting} |-> setup[EntryOf(k)].refs \cap {setup[i].key : i \in waiting}]

\* Mutant: only an entry that refers to itself is one.
InCyclesDirectly == {k \in DOMAIN Leads : k \in Leads[k]}

\* The keys that are reached from themselves.
InCycles ==
    LET after[d \in 0..Cardinality(waiting)] ==
            [k \in DOMAIN Leads |-> IF d = 0 THEN Leads[k] ELSE after[d - 1][k] \cup UNION {after[d - 1][l] : l \in Leads[k]}]
    IN  {k \in DOMAIN Leads : k \in after[Cardinality(waiting)][k]}

Reachable(i) == IF Restricted(i)
                THEN (BaseKeys \ {PortBase}) \cup {k \in Keys : Restricted(EntryOf(k)) /\ ~IsBaseVar(k)}
                ELSE BaseKeys \cup Keys

Reason(i, name) ==
    CASE name \notin Reachable(i) -> "undefined"
      [] name \in Reachable(i) /\ name \in Keys /\ IsCommand(EntryOf(name)) /\ EntryOf(name) \notin waiting -> "never supplied"
      [] name \in Reachable(i) /\ name \in InCycles -> "cycle"
      [] name \in Reachable(i) /\ name \in DOMAIN Leads \ InCycles -> "blocked"
      [] OTHER -> "not visible"

Reasons(i) == IF Missing(i) = {} THEN {"withheld"} ELSE {Reason(i, n) : n \in Missing(i)}

-----------------------------------------------------------------------------
(* The rounds. *)

Nothing == [n \in Names |-> Unset]

Start ==
    /\ todo # <<>> /\ phase = "start"
    /\ LET pending == Effective \ Held
       IN  /\ resolved' = [n \in Names |-> IF n \in Gated THEN Placeholder(n)
                                           ELSE IF n \in BaseKeys \ Keys THEN Base(n) ELSE Unset]
           /\ confined' = [n \in Names |-> IF n \in Gated /\ Restricted(EntryOf(n))
                                           THEN Placeholder(n) ELSE Unset]
           /\ queue' = {i \in pending : ~setup[i].shell}
           /\ shells' = {i \in pending : setup[i].shell}
           /\ phase' = IF pending = {} THEN "over" ELSE "first"
    /\ waiting' = {} /\ blocking' = {} /\ moved' = FALSE /\ derived' = {}
    /\ UNCHANGED <<setup, todo, outcomes>>

\* A computation ends, and the next one begins.
Ends(how) == /\ outcomes' = Append(outcomes, [how |-> how, wrote |-> confined])
             /\ todo' = Tail(todo) /\ phase' = "start"

Wait(i) == waiting' = waiting \cup {i} /\ UNCHANGED <<valueVars, moved, phase, todo, outcomes>>

\* A shell command may not be given what another command wrote.
Refuses(i) == IsCommand(i) /\ setup[i].shell /\ setup[i].refs \cap derived # {}

Resolve(i) ==
    /\ Claim(i, IF IsCommand(i) THEN Merged(i) ELSE {setup[i].key}, Made(i))
    /\ moved' = TRUE
    /\ UNCHANGED <<waiting, phase, todo, outcomes>>

\* It ends badly, or its output makes no sense.
CommandFails(i) == IsCommand(i) /\ Ends("failed") /\ UNCHANGED <<valueVars, waiting, moved>>

Try(i) ==
    IF Missing(i) # {} THEN Wait(i)
    ELSE IF Refuses(i) THEN Ends("refused") /\ UNCHANGED <<valueVars, waiting, moved>>
    ELSE \/ Resolve(i)
         \/ CommandFails(i)

\* First the entries without a shell, in the order of the table.
TryFirst ==
    /\ phase = "first"
    /\ \E i \in queue : FirstInTable(i, queue) /\ Try(i) /\ queue' = queue \ {i}
    /\ UNCHANGED <<setup, shells, blocking>>

FirstDone ==
    /\ phase = "first" /\ queue = {}
    /\ queue' = shells
    /\ blocking' = {i \in shells \cup waiting : Multi(i)}
    /\ phase' = "second"
    /\ UNCHANGED <<setup, todo, shells, waiting, moved, valueVars, outcomes>>

\* A shell command with references waits for every other multi-value command.
Admitted(i, others) == others = {} \/ setup[i].refs = {}

TryShell ==
    /\ phase = "second"
    /\ \E i \in queue :
        /\ FirstInPosition(i, queue)
        /\ queue' = queue \ {i} /\ blocking' = blocking \ {i}
        /\ IF Admitted(i, blocking \ {i}) THEN Try(i) ELSE Wait(i)
    /\ UNCHANGED <<setup, shells>>

\* Another round, as long as the last one resolved something.
RoundDone ==
    /\ phase = "second" /\ queue = {}
    /\ IF waiting # {} /\ moved
       THEN /\ queue' = {i \in waiting : ~setup[i].shell}
            /\ shells' = {i \in waiting : setup[i].shell}
            /\ waiting' = {} /\ blocking' = {} /\ moved' = FALSE
            /\ phase' = "first"
       ELSE phase' = "over" /\ UNCHANGED roundVars
    /\ UNCHANGED <<setup, todo, valueVars, outcomes>>

Over == /\ phase = "over"
        /\ Ends(IF waiting = {} THEN "resolved" ELSE "unresolved")
        /\ UNCHANGED <<setup, roundVars, valueVars>>

Init ==
    /\ setup \in Setups
    /\ todo = Runs /\ phase = "start" /\ outcomes = <<>>
    /\ queue = {} /\ shells = {} /\ waiting = {} /\ blocking = {} /\ moved = FALSE
    /\ resolved = Nothing /\ confined = Nothing /\ derived = {}

Next == Start \/ TryFirst \/ FirstDone \/ TryShell \/ RoundDone \/ Over

Spec == Init /\ [][Next]_vars
-----------------------------------------------------------------------------
(* Properties. *)

Complete == todo # <<>> /\ phase = "over" /\ waiting = {}

\* Everyone who has something to put under a name.
Contributors(name) == {i \in Effective \ Held : name \in IF IsCommand(i) THEN Kept(i) ELSE {setup[i].key}}

\* Each key finally holds the value of the contributor declared furthest down,
\* literal or command, whatever the order in which they were resolved: "a
\* key's final value never depends on resolution order, for any collision
\* shape" (env_band_resolver_service.py:220).
FurthestDownHolds ==
    Complete => \A n \in Names : Contributors(n) # {} /\ ~(n \in Gated) =>
                    \A i \in Contributors(n) : resolved[n].by >= i

\* No value a workspace entry writes is made of a feature or named band's
\* entries, or of the port base; not even when a feature command has
\* overwritten the workspace key it refers to (visible_scope,
\* env_band_resolver_service.py:664). It may be made of the other managed
\* variables, some of which are the scope's own.
WorkspaceConfined ==
    todo # <<>> /\ phase # "start" =>
        \A n \in Names : \A v \in {confined[n], resolved[n]} :
            v.by \in DOMAIN setup /\ Restricted(v.by) =>
                /\ \A i \in v.from : Restricted(i)
                /\ \A base \in v.bases : base[1] # PortBase

WorkspaceKeys == {setup[i].key : i \in {i \in DOMAIN setup : Restricted(i)}}

\* No upper band declares a workspace key again.
Unshadowed == \A i, j \in DOMAIN setup : setup[i].key = setup[j].key /\ Restricted(i) => Restricted(j)

\* Pairs of what workspace entries wrote under a workspace key in two scopes.
Counterparts ==
    LET done == {r \in DOMAIN outcomes : outcomes[r].how = "resolved"}
        pairs == {p \in done \X done : Runs[p[1]].commands = Runs[p[2]].commands}
    IN  {<<outcomes[p[1]].wrote[n], outcomes[p[2]].wrote[n]>> : p \in pairs, n \in WorkspaceKeys}

\* What a workspace entry makes in a feature environment it makes in the
\* workspace: the same entry writes the key, of the same entries and of the
\* same managed variables, whatever the upper bands add, whichever round they
\* delay it to and whatever their commands overwrite (env_band_resolver_service.py:42).
\* Two things set apart: a managed variable may itself be the scope's own, so that
\* the value need not be the same ("resolves identically", the docstring has it), and
\* an upper band that declares a workspace key again takes the entry away.
SameButForTheScope ==
    Unshadowed =>
        \A p \in Counterparts :
            LET Anonymous(v) == [v EXCEPT !.bases = {base[1] : base \in @}]
            IN  Anonymous(p[1]) = Anonymous(p[2])

\* Where a computation ends unresolved, following the references that are said
\* to be blocked from any entry leads to one whose own line names a cause:
\* "whose own line carries the real cause" (env_band_resolver_service.py:94).
BlameReachesACause ==
    todo # <<>> /\ phase = "over" =>
        \A i \in waiting : \E path \in [1..Cardinality(waiting) -> waiting] :
            /\ path[1] = i
            /\ \E last \in DOMAIN path :
                /\ Reasons(path[last]) \subseteq {"undefined", "never supplied", "cycle", "withheld"}
                /\ \A p \in 1..(last - 1) : \E n \in Missing(path[p]) :
                        Reason(path[p], n) = "blocked" /\ EntryOf(n) = path[p + 1]
=============================================================================

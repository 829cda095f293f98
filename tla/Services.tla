------------------------------ MODULE Services ------------------------------
(***************************************************************************)
(* The service layer: one `dispatch(action, patterns)` fans out over the   *)
(* bound providers, and `collect(patterns)` asks them what runs.           *)
(*                                                                         *)
(* A selection pattern <env>/<service> is what it matches: `scopes`, the   *)
(* scopes of its env segment (the reserved scope Workspace is matched by   *)
(* its own name only), `names`, the services of its service segment, and   *)
(* `bare` when it has no service segment.  A running service is a record   *)
(* [by, scope, name]; a provider owns names per environment and names of   *)
(* the workspace scope, which its `describe` tells unless it is `mute`.    *)
(***************************************************************************)
EXTENDS Naturals, FiniteSets, SequencesExt

CONSTANTS Workspace,    \* the reserved scope
          Setups,       \* the workspaces to look at, see setup below
          MaxFaults     \* provider calls that fail, in one behaviour

VARIABLES
    setup,      \* [providers, owns, mute, envs, clash, unresolved, slow, ...]
    running,    \* the services that run
    sick,       \* of those, the ones that report unhealthy
    disp,       \* the dispatch in progress
    faults

dispatchVars == <<setup, running, sick, disp, faults>>

-----------------------------------------------------------------------------
(* Who owns what. *)

Providers == ToSet(setup.providers)
Envs == ToSet(setup.envs)
Sole == Len(setup.providers) = 1

Kind(scope) == IF scope = Workspace THEN "workspace" ELSE "env"

\* What the provider p runs in a scope, and what it says it runs.
Offers(p, scope) == setup.owns[p][Kind(scope)]
Owned(p, scope) == IF p \in setup.mute THEN {} ELSE Offers(p, scope)

Instances ==
    UNION {{[by |-> p, scope |-> s, name |-> n] : n \in Offers(p, s)} :
               p \in Providers, s \in Envs \cup {Workspace}}

\* Two providers claim the same service: no index can be built.
Duplicated == \E p, q \in Providers : p # q /\
                 \E s \in Envs \cup {Workspace} : Owned(p, s) \cap Owned(q, s) # {}
\* describe is asked of two or more providers, and is strict for restart and
\* for the poll.
IndexFails(strict) ==
    ~Sole /\ (Duplicated \/ (strict /\ setup.mute \cap Providers # {}))

Hits(pat, s) == s.scope \in pat.scopes /\ s.name \in pat.names
Chosen(pats, s) == \E i \in DOMAIN pats : Hits(pats[i], s)

-----------------------------------------------------------------------------
(* The matrix of (provider, scope) cells. *)

OnScope(scope, pats) == SelectSeq(pats, LAMBDA x : scope \in x.scopes)

\* Only when every pattern names services is the provider axis narrowed.
HasServiceFilter(pats) == pats # <<>> /\ \A i \in DOMAIN pats : ~pats[i].bare

OwnsMatch(p, scope, pats) ==
    \E i \in DOMAIN pats : scope \in pats[i].scopes /\ pats[i].names \cap Owned(p, scope) # {}

HasCell(p, scope, pats) ==
    /\ pats = <<>> \/ OnScope(scope, pats) # <<>>
    /\ \/ Sole
       \/ /\ Owned(p, scope) # {}
          /\ HasServiceFilter(pats) => OwnsMatch(p, scope, pats)

\* Mutant: several filters collapse to the whole scope, as they may for status.
FiltersCollapsed(scope, pats) ==
    LET on == OnScope(scope, pats)
    IN  IF Len(on) # 1 \/ on[1].bare THEN <<>> ELSE <<on[1].names>>

\* The service filters of a scope, each once and in the user's order; none
\* when a bare pattern takes the whole scope.
Filters(scope, pats) ==
    LET on == OnScope(scope, pats)
        firsts == {i \in DOMAIN on : \A j \in 1..(i - 1) : on[j].names # on[i].names}
    IN  IF \E i \in DOMAIN on : on[i].bare THEN <<>>
        ELSE [k \in 1..Cardinality(firsts) |->
                 on[SetToSortSeq(firsts, LAMBDA x, y : x < y)[k]].names]

Call(p, scope, names) == [by |-> p, scope |-> scope, hits |-> {scope} \X names]

\* One call per cell, or one per filter: up and down have no filter on the way
\* back that would narrow a call for the whole scope.
CellCalls(p, scope, pats) ==
    LET f == Filters(scope, pats)
    IN  IF ~HasCell(p, scope, pats) THEN <<>>
        ELSE IF f = <<>> THEN <<Call(p, scope, Offers(p, scope))>>
        ELSE [k \in DOMAIN f |-> Call(p, scope, f[k])]

\* Environments in order, then the workspace; providers in binding order.
FanOutCells(pats) ==
    FlattenSeq([i \in 1..(Len(setup.envs) + 1) |->
        FlattenSeq([j \in DOMAIN setup.providers |->
            CellCalls(setup.providers[j], Append(setup.envs, Workspace)[i], pats)])])

-----------------------------------------------------------------------------
(* restart. *)

EnvKnown(pat) == pat.scopes \cap (Envs \cup {Workspace}) # {}

\* A pattern finds a service the provider describes: `*/<svc>` answers for
\* any environment, configured or not.
Routes(pat, p) == \E s \in pat.scopes : pat.names \cap Owned(p, s) # {}

\* Patterns that reject the whole restart.
Invalid(pats) ==
    {i \in DOMAIN pats :
        \/ ~EnvKnown(pats[i])
        \/ ~Sole /\ ~pats[i].bare /\ \A p \in Providers : ~Routes(pats[i], p)}

\* Each provider is handed the patterns it owns a service of.
RestartCalls(pats) ==
    LET owned(p) == SelectSeq(pats, LAMBDA x : Sole \/ Routes(x, p))
        reach(p) == UNION {x.scopes \X x.names : x \in ToSet(owned(p))}
        called == SelectSeq(setup.providers, LAMBDA p : owned(p) # <<>>)
    IN  [i \in DOMAIN called |->
            [by |-> called[i], scope |-> Workspace, hits |-> reach(called[i])]]

-----------------------------------------------------------------------------
(* One dispatch. *)

Idle == [phase |-> "idle", verb |-> "none", pats |-> <<>>, cells |-> <<>>, code |-> 0]
Asked(verb, pats) == [Idle EXCEPT !.phase = "asked", !.verb = verb, !.pats = pats]
Done(d, code) == [d EXCEPT !.phase = "done", !.cells = <<>>, !.code = code]
Raised(d) == [d EXCEPT !.phase = "raised", !.cells = <<>>, !.code = 1]
Calling(d, cells) == [d EXCEPT !.phase = "cells", !.cells = cells]

\* Everything before the first provider is called.
Resolved(d) ==
    IF setup.providers = <<>> \/ IndexFails(d.verb = "restart") THEN Raised(d)
    ELSE IF d.verb = "restart"
    THEN IF Invalid(d.pats) # {} THEN Done(d, 1) ELSE Calling(d, RestartCalls(d.pats))
    ELSE IF FanOutCells(d.pats) = <<>> THEN Done(d, 1)
    ELSE IF d.verb = "up" /\ setup.clash THEN Raised(d)
    ELSE Calling(d, FanOutCells(d.pats))

Resolve ==
    /\ disp.phase = "asked"
    /\ disp' = Resolved(disp)
    /\ UNCHANGED <<setup, running, sick, faults>>

\* The services a call is about.
Reach(c) == {s \in Instances : s.by = c.by /\ <<s.scope, s.name>> \in c.hits}

Start(got) == /\ running' = running \cup got
              /\ sick' = sick \cup (got \cap setup.slow)
Stop(got) == /\ running' = running \ got
             /\ sick' = sick \ got

\* The environment of a scope is computed before its first call; for up a
\* command entry that fails ends the fan-out there.
Provisioned(d, c) == d.verb # "up" \/ c.scope \notin setup.unresolved

CallSucceeds ==
    LET c == Head(disp.cells)
    IN  /\ disp.phase = "cells" /\ disp.cells # <<>> /\ Provisioned(disp, c)
        /\ IF disp.verb = "down" THEN Stop(Reach(c)) ELSE Start(Reach(c))
        /\ disp' = [disp EXCEPT !.cells = Tail(@)]
        /\ UNCHANGED <<setup, faults>>

\* Mutant: the exit code of the last call wins.
AfterFailureLast(d) ==
    IF d.verb = "up" /\ Len(d.cells) = 1 THEN Done(d, 1)
    ELSE [d EXCEPT !.cells = Tail(@)]

\* up gives up at the first failure, down and restart visit every cell.
AfterFailure(d) ==
    IF d.verb = "up" THEN Done(d, 1)
    ELSE [d EXCEPT !.cells = Tail(@), !.code = 1]

CallFails ==
    LET c == Head(disp.cells)
    IN  /\ disp.phase = "cells" /\ disp.cells # <<>> /\ Provisioned(disp, c)
        /\ faults < MaxFaults
        /\ faults' = faults + 1
        /\ \E got \in SUBSET Reach(c) :
              IF disp.verb = "up" THEN Start(got) ELSE Stop(got)
        /\ disp' = AfterFailure(disp)
        /\ UNCHANGED setup

ProvisionRaises ==
    /\ disp.phase = "cells" /\ disp.cells # <<>>
    /\ ~Provisioned(disp, Head(disp.cells))
    /\ disp' = Raised(disp)
    /\ UNCHANGED <<setup, running, sick, faults>>

FanOutEnds ==
    /\ disp.phase = "cells" /\ disp.cells = <<>>
    /\ disp' = Done(disp, disp.code)
    /\ UNCHANGED <<setup, running, sick, faults>>

DispatchStep == Resolve \/ CallSucceeds \/ CallFails \/ ProvisionRaises \/ FanOutEnds

-----------------------------------------------------------------------------
(* collect: what the poll and the service check see. *)

CollectRaises == setup.providers = <<>> \/ IndexFails(TRUE)

\* A word that is not in the schema of the document reads as unknown.
Word(w, words) == IF w \in words THEN w ELSE "unknown"

\* What a provider says of a service, and what the parser makes of it.
Says(s) == [svc |-> s, state |-> IF s \in running THEN "running" ELSE "stopped",
            health |-> IF s \in sick THEN "unhealthy" ELSE "starting"]
Parsed(said) == [said EXCEPT !.state = Word(@, {"running", "stopped"}),
                             !.health = Word(@, {"healthy", "unhealthy"})]

\* The document of a cell, and one document for all of them: without those
\* that do not parse.
Document(p, scope) == {Parsed(Says(s)) : s \in {x \in Instances : x.by = p /\ x.scope = scope}}
Merged(cells) == UNION {Document(c[1], c[2]) : c \in cells}

Reported(pats, garbled) ==
    LET cells == {c \in (Providers \ garbled) \X (Envs \cup {Workspace}) :
                     HasCell(c[1], c[2], pats)}
    IN  {e \in Merged(cells) : Chosen(pats, e.svc)}
Unhealthy(doc) == {e \in doc : e.health = "unhealthy"}
=============================================================================

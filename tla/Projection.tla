------------------------------ MODULE Projection ------------------------------
(***************************************************************************)
(* The bare `winter ws init`, which clones what the configuration declares *)
(* and projects the extensions among it, a lane per repository, and        *)
(* `winter ws prune`, which lists what belongs to no repository any more,  *)
(* asks, and removes it. Between the commands, and while prune waits for   *)
(* its answer, the user goes on working.                                   *)
(***************************************************************************)
EXTENDS Extensions

CONSTANTS Setups,       \* the workspaces to start from
          MaxEdits,     \* changes by the user
          MaxCommands,  \* commands
          MaxFaults     \* clones, hooks and removals that fail, kills

VARIABLES
    at,         \* where the command is; idle between commands
    lane,       \* [Repos -> how far the projection of each has come]
    ok,         \* init: nothing failed so far; prune: something was removed
    listed,     \* the orphans prune listed
    seen,       \* the clones as they were then
    spent       \* [edits, commands, faults]

cmdVars == <<at, lane, ok, listed, seen, spent>>
vars == <<configVars, source, clone, diskVars, cmdVars>>

Spend(what) == spent' = [spent EXCEPT ![what] = @ + 1]
CanFail == spent.faults < MaxFaults

\* A lane clones, serves one vendor after the other, then renders agents.
Cloning == 0
Agenting == Len(Vendors) + 1
Done == Len(Vendors) + 2
Idle == [r \in Repos |-> Done]

-----------------------------------------------------------------------------
(* winter ws init *)

BeginInit ==
    /\ at = "idle" /\ spent.commands < MaxCommands /\ Spend("commands")
    /\ at' = "projects" /\ ok' = TRUE
    /\ UNCHANGED <<configVars, source, clone, diskVars, lane, listed, seen>>

\* The workspace's own skills, vendor by vendor until one does not fit.
InstallOwn ==
    FoldLeft(LAMBDA s, v : IF s.fits THEN [fs |-> InstallSkills(s.fs, Ws, v), fits |-> SkillsFit(s.fs, Ws, v)] ELSE s,
             [fs |-> files, fits |-> TRUE], Vendors)

ReconcileProjects ==
    /\ at = "projects" /\ at' = "standalones"
    /\ \E failed \in SUBSET {r \in ProjectRepos : clone[r] = "absent"} :
         /\ spent.faults + Cardinality(failed) <= MaxFaults
         /\ spent' = [spent EXCEPT !.faults = @ + Cardinality(failed)]
         /\ clone' = [r \in Repos |-> IF r \in ProjectRepos \ failed /\ clone[r] = "absent" THEN "clean" ELSE clone[r]]
         /\ IF FrontmatterOffends(Ws)
            THEN files' = files /\ ok' = FALSE
            ELSE files' = InstallOwn.fs /\ ok' = (ok /\ failed = {} /\ InstallOwn.fits)
    /\ UNCHANGED <<configVars, source, blocks, rows, junk, lane, listed, seen>>

BeginStandalones ==
    /\ at = "standalones"
    /\ IF Standalones \cup ExtensionRepos \cup ContextOnly \cup NonExtensionRepos = {}
       THEN FinalizeExcludes({}) /\ at' = "hooks" /\ UNCHANGED lane
       ELSE /\ lane' = [r \in Repos |-> IF r \in Standalones THEN Cloning ELSE Done]
            /\ at' = "lanes" /\ UNCHANGED blocks
    /\ UNCHANGED <<configVars, source, clone, files, rows, junk, ok, listed, seen, spent>>

LaneGoes(r, to) == lane' = [lane EXCEPT ![r] = to]
AfterClone(r) == IF r \in optout THEN Done ELSE 1

CloneStandalone(r) ==
    /\ at = "lanes" /\ lane[r] = Cloning
    /\ clone' = [clone EXCEPT ![r] = IF @ = "absent" THEN "clean" ELSE @]
    /\ LaneGoes(r, AfterClone(r))
    /\ UNCHANGED <<configVars, source, diskVars, at, ok, listed, seen, spent>>

\* The clone fails, or what follows it: identity, excludes, cmd, pin.
StandaloneFails(r) ==
    /\ at = "lanes" /\ lane[r] = Cloning /\ CanFail /\ Spend("faults")
    /\ \E c \in {clone[r]} \cup (IF clone[r] = "absent" THEN {"clean"} ELSE {}) : clone' = [clone EXCEPT ![r] = c]
    /\ LaneGoes(r, Done) /\ ok' = FALSE
    /\ UNCHANGED <<configVars, source, diskVars, at, listed, seen>>

\* The skills of one vendor. A conflict leaves out the vendors after it, a
\* manifest that does not load leaves out the agents too.
ProjectSkills(r) ==
    /\ at \in {"lanes", "projectLanes"} /\ lane[r] \in DOMAIN Vendors
    /\ IF ~Projects(r)
       THEN LaneGoes(r, Done) /\ ok' = (ok /\ ~Eligible(r)) /\ UNCHANGED files
       ELSE IF FrontmatterOffends(r)
       THEN LaneGoes(r, Agenting) /\ ok' = FALSE /\ UNCHANGED files
       ELSE LET fits == SkillsFit(files, r, Vendors[lane[r]])
            IN  /\ files' = InstallSkills(files, r, Vendors[lane[r]])
                /\ LaneGoes(r, IF fits /\ lane[r] < Len(Vendors) THEN lane[r] + 1 ELSE Agenting)
                /\ ok' = (ok /\ fits)
    /\ UNCHANGED <<configVars, source, clone, blocks, rows, junk, at, listed, seen, spent>>

ProjectAgents(r) ==
    /\ lane[r] = Agenting
    /\ files' = RenderAgents(files, r)
    /\ LaneGoes(r, Done)
    /\ UNCHANGED <<configVars, source, clone, blocks, rows, junk, at, ok, listed, seen, spent>>

LanesDone == \A r \in Repos : lane[r] = Done
ProjectExtensions == ExtensionRepos \ Standalones

BeginProjectLanes ==
    /\ at = "lanes" /\ LanesDone
    /\ lane' = [r \in Repos |-> IF r \in ProjectExtensions THEN 1 ELSE Done]
    /\ at' = "projectLanes"
    /\ UNCHANGED <<configVars, source, clone, diskVars, ok, listed, seen, spent>>

\* Only once every live extension has projected.
RetractExtensions ==
    /\ at = "projectLanes" /\ LanesDone
    /\ LET out == {q \in NonExtensionRepos : Present(q) /\ Retracts(q)}
       IN  /\ files' = files \ UNION {Retracted(r) : r \in out}
           /\ ok' = (ok /\ \A r \in out : ~RetractJams(r))
    /\ at' = "excludes"
    /\ UNCHANGED <<configVars, source, clone, blocks, rows, junk, lane, listed, seen, spent>>

WriteExcludes ==
    /\ at = "excludes"
    /\ LET rs == {r \in Standalones \cup ProjectExtensions : Present(r)}
       IN  FinalizeExcludes(rs) /\ ok' = (ok /\ \A r \in rs : ExcludesSound(r))
    /\ at' = "agentsmd"
    /\ UNCHANGED <<configVars, source, clone, files, rows, junk, lane, listed, seen, spent>>

WriteAgentsMd ==
    /\ at = "agentsmd"
    /\ FinalizeAgentsMd
    /\ at' = "hooks"
    /\ UNCHANGED <<configVars, source, clone, files, blocks, junk, lane, ok, listed, seen, spent>>

\* The on_workspace_reconcile hook of every extension with a manifest.
RunHooks ==
    LET hooked == {r \in ExtensionRepos : setup.mode # "none" /\ HasManifest(r)}
    IN  /\ at = "hooks" /\ at' = "idle"
        /\ \/ ok' = (ok /\ \A r \in hooked : Loads(r)) /\ UNCHANGED spent
           \/ hooked # {} /\ CanFail /\ Spend("faults") /\ ok' = FALSE
        /\ UNCHANGED <<configVars, source, clone, diskVars, lane, listed, seen>>

-----------------------------------------------------------------------------
(* winter ws prune *)

\* Mutant: a clone with linked worktrees is taken for a clean one.
SafeUnlessDirty(c) == c # "dirty"

CloneSafety(c) == c = "clean"

Orphan(kind, what, safe) == [kind |-> kind, what |-> what, safe |-> safe]
OrphanClone(r) == Orphan("clone", r, CloneSafety(clone[r]))

\* The blocks of the repositories that are not in the given set.
OrphanBlocks(rs) == {b \in blocks : b.name \notin rs}

FindOrphans ==
    LET kept == ExtensionRepos \cup (Standalones \cap optout)
    IN  {OrphanClone(r) : r \in {q \in Repos \ declared : setup.kind[q] = "project" /\ Present(q)}}
        \cup {OrphanClone(b.name) : b \in {x \in OrphanBlocks(kept) : Present(x.name)}}
        \cup UNION {{Orphan("path", p, TRUE) : p \in b.rules \cap junk} : b \in OrphanBlocks(kept)}
        \cup {Orphan("file", f, TRUE) : f \in {x \in files : x.dir \notin Copies /\ Broken(x)}}
        \cup {Orphan("file", f, TRUE) :
                f \in {x \in files : /\ x.of = "agent" /\ ~Broken(x)
                                     /\ \E b \in OrphanBlocks(ExtensionRepos) :
                                          b.prefix # None /\ ClaimsAgent(b.prefix, x.name)}}

Removable(os) == {o \in os : o.safe}

\* With nothing to remove the command is over at once.
ListOrphans ==
    /\ at = "idle" /\ spent.commands < MaxCommands /\ Spend("commands")
    /\ Removable(FindOrphans) # {}
    /\ listed' = FindOrphans /\ seen' = clone
    /\ at' = "confirm" /\ ok' = FALSE
    /\ UNCHANGED <<configVars, source, clone, diskVars, lane>>

Answer(to) ==
    /\ at = "confirm" /\ at' = to
    /\ listed' = IF to = "remove" THEN Removable(listed) ELSE {}
    /\ UNCHANGED <<configVars, source, clone, diskVars, lane, ok, seen, spent>>

\* What was listed is not looked at again.
RemoveFrom(o) ==
    /\ clone' = IF o.kind = "clone" THEN [clone EXCEPT ![o.what] = "absent"] ELSE clone
    /\ junk' = IF o.kind = "path" THEN junk \ {o.what} ELSE junk
    /\ files' = IF o.kind = "file" THEN files \ {o.what} ELSE files

RemoveOrphan ==
    /\ at = "remove"
    /\ \E o \in listed :
         /\ listed' = listed \ {o}
         /\ \/ RemoveFrom(o) /\ ok' = TRUE /\ UNCHANGED spent
            \/ CanFail /\ Spend("faults") /\ UNCHANGED <<clone, junk, files, ok>>
    /\ UNCHANGED <<configVars, source, blocks, rows, at, lane, seen>>

ReaggregateExcludes ==
    /\ at = "remove" /\ listed = {} /\ at' = "idle"
    /\ IF ok THEN FinalizeExcludes({r \in ExtensionRepos \cup (Standalones \cap optout) : Present(r)})
       ELSE UNCHANGED blocks
    /\ UNCHANGED <<configVars, source, clone, files, rows, junk, lane, ok, listed, seen, spent>>

\* A command is killed wherever it is.
Killed ==
    /\ at # "idle" /\ CanFail /\ Spend("faults")
    /\ at' = "idle" /\ ok' = FALSE /\ lane' = Idle /\ listed' = {}
    /\ UNCHANGED <<configVars, source, clone, diskVars, seen>>

-----------------------------------------------------------------------------
(* The user. *)

Edits == at \in {"idle", "confirm"} /\ spent.edits < MaxEdits /\ Spend("edits")
AtRest == UNCHANGED <<setup, diskVars, at, lane, ok, listed, seen>>

Undeclares(r) == Edits /\ r \in declared /\ declared' = declared \ {r} /\ AtRest /\ UNCHANGED <<optout, source, clone>>
OptsOut(r) == Edits /\ r \in declared \ optout /\ optout' = optout \cup {r} /\ AtRest /\ UNCHANGED <<declared, source, clone>>

\* A pull, or a change at the source itself.
Changes(r, to) == /\ Edits /\ Present(r) /\ source' = [source EXCEPT ![r] = to]
                  /\ AtRest /\ UNCHANGED <<declared, optout, clone>>
Updates(r) == source[r].rev = 1 /\ Changes(r, [source[r] EXCEPT !.rev = 2])
DropsSkill(r) == Skills(r) # <<>> /\ Changes(r, [source[r] EXCEPT !.skills = Tail(@)])
DropsAgents(r) == Agents(r) # {} /\ \/ Changes(r, [source[r] EXCEPT !.agents = {}])
                                    \/ Renderable(r) # {} /\ Changes(r, [source[r] EXCEPT !.untiered = Copies])
ChangesManifest(r) == /\ r # Ws
                      /\ \E m \in {None, "broken", "excludes"} :
                            source[r].manifest \notin {m, None} /\ Changes(r, [source[r] EXCEPT !.manifest = m])

\* Uncommitted changes, a linked worktree, or a clone deleted by hand.
Works(r) == /\ Edits /\ clone[r] = "clean"
            /\ \E c \in {"absent", "dirty", "linked"} : clone' = [clone EXCEPT ![r] = c]
            /\ AtRest /\ UNCHANGED <<declared, optout, source>>

\* A link is pointed at another skill.
Relinks(r) == /\ Edits
              /\ \E f \in files, d \in ToSet(Skills(r)) :
                    /\ f.is = "link" /\ f.by = r /\ f.src # d
                    /\ files' = (files \ {f}) \cup {[f EXCEPT !.src = d]}
              /\ UNCHANGED <<configVars, source, clone, blocks, rows, junk, at, lane, ok, listed, seen>>

UserStep == \/ \E r \in Repos : Undeclares(r) \/ OptsOut(r) \/ Works(r) \/ Relinks(r)
            \/ \E r \in Repos \cup {Ws} : Updates(r) \/ DropsSkill(r) \/ DropsAgents(r) \/ ChangesManifest(r)

-----------------------------------------------------------------------------
Init ==
    /\ setup \in Setups
    /\ declared = Repos /\ optout = setup.optout
    /\ source = setup.source /\ clone = setup.clone
    /\ files = setup.files /\ blocks = {} /\ rows = {} /\ junk = setup.junk
    /\ at = "idle" /\ lane = Idle /\ ok = FALSE /\ listed = {} /\ seen = clone
    /\ spent = [edits |-> 0, commands |-> 0, faults |-> 0]

InitStep == \/ BeginInit \/ ReconcileProjects \/ BeginStandalones
            \/ \E r \in Repos : CloneStandalone(r) \/ StandaloneFails(r) \/ ProjectSkills(r) \/ ProjectAgents(r)
            \/ BeginProjectLanes \/ RetractExtensions \/ WriteExcludes \/ WriteAgentsMd \/ RunHooks
PruneStep == ListOrphans \/ Answer("idle") \/ Answer("remove") \/ RemoveOrphan \/ ReaggregateExcludes

Next == InitStep \/ PruneStep \/ Killed \/ UserStep

Spec == Init /\ [][Next]_vars
-----------------------------------------------------------------------------
(* Properties. *)

Live == {r \in ExtensionRepos : Present(r) /\ Projects(r)}
Apart(r, q) == ~(IsPrefix(Prefix(r), Prefix(q)) \/ IsPrefix(Prefix(q), Prefix(r)))
Alone(r) == \A q \in (Live \cup {Ws}) \ {r} : Apart(r, q)

\* The skills and agents of r in fs, each current in every vendor's directory
\* and nothing else under its prefix.
InPlaceIn(fs, r) ==
    \A v \in ToSet(Vendors) :
        LET is == IF v \in Copies THEN "copy" ELSE "link"
        IN  /\ {f \in Here(fs, "skill", v) : IsPrefix(Prefix(r), f.name) /\ f.is # User}
                 = {Entry("skill", is, r, d, v, SkillName(Prefix(r), d)) : d \in ToSet(Skills(r))}
            /\ r # Ws => {f \in Here(fs, "agent", v) : IsStrictPrefix(Prefix(r), f.name)}
                           = {Entry("agent", "copy", r, a, v, Prefix(r) \o a) : a \in Agents(r)}
Hidden(r) == \E b \in blocks : b.name = r /\ b.prefix = Prefix(r)
Routed(r) == Bullet(r) => Cardinality({row \in rows : row.name = r}) = 1

\* Repositories that opted out and whose leftovers this init retracts.
Leaving == {q \in NonExtensionRepos :
                /\ Present(q) /\ Projects(q)
                /\ \A p \in LivePrefixes : ~IsPrefix(p, Prefix(q)) /\ ~IsPrefix(Prefix(q), p)}
\* Links in a directory of copies that lead nowhere.
Dangling == {f \in files : f.of = "skill" /\ f.dir \in Copies /\ Broken(f)}
Succeeds == at = "hooks" /\ at' = "idle" /\ ok'

\* An init that exits 0 leaves, of every extension whose prefix no other live
\* one and not the workspace can claim and whose agents have a model
\* everywhere, each skill and agent as its source has them now, hidden from
\* the workspace's git status and routed in AGENTS.winter.md: whatever an
\* earlier init, a killed one, a retracted neighbour or the user left there
\* (reconcile_standalones, init_service.py:140), but for a link among the
\* copies that leads nowhere, which no init sees.  The same for the
\* workspace's own skills, but only where no extension and no repository that
\* opted out has a prefix that covers, or is covered by, the workspace's:
\* the retraction looks at the extensions' prefixes alone and takes the
\* workspace's skills with it (init_service.py:187).
InitProjects ==
    [][Succeeds =>
        /\ \A r \in Live : Alone(r) /\ Renderable(r) = Agents(r)
                            => InPlaceIn(files \ Dangling, r) /\ Hidden(r) /\ Routed(r)
        /\ Alone(Ws) /\ (\A q \in Leaving : Apart(q, Ws)) => InPlaceIn(files \ Dangling, Ws)]_vars

\* Prune removes no clone that had uncommitted changes or linked worktrees
\* when it was listed, however it came to be listed (remove_orphan,
\* prune_service.py:75).
PruneKeepsWork ==
    [][at = "remove" => \A r \in Repos : Present(r) /\ clone'[r] = "absent" => seen[r] = "clean"]_vars

=============================================================================

-------------------------------- MODULE Doctor --------------------------------
(***************************************************************************)
(* What `winter doctor` says of a workspace: its probes of the extensions, *)
(* the skills, the agents and the clones. It writes nothing; each probe    *)
(* works out for itself what init should have left, in ways of its own,    *)
(* and compares names and contents with what is there.                     *)
(***************************************************************************)
EXTENDS Projection

Issue(probe, dir, name) == [probe |-> probe, dir |-> dir, name |-> name]

\* A skill or agent that has a source: what it is called, whose it is.
Wanted(name, r, src) == [name |-> name, by |-> r, src |-> src]

\* The file's own content, or what its link leads to, is that of the source.
\* Mutant: an entry of the right name will do.
SameContentByName(f, w) == TRUE

SameContent(f, w) == f.by = w.by /\ f.src = w.src /\ (f.is = "copy" => f.rev = source[w.by].rev)

-----------------------------------------------------------------------------
(* Skills. *)

\* Every skill gets the prefix and a dash, also the one called like the prefix.
ExpectedSkills(r) ==
    IF Projects(r) THEN {Wanted(Prefix(r) \o d, r, d) : d \in ToSet(Skills(r))} ELSE {}

\* Entries with a dash under a known prefix; under any, when none is known.
ActualSkills(v) ==
    {f \in Here(files, "skill", v) :
        /\ Len(f.name) > 1
        /\ LivePrefixes # {} => \E p \in LivePrefixes : IsStrictPrefix(p, f.name)}

\* Where a link leads is not looked at.
SymlinkSound(f) == f.is = "link" /\ ~Broken(f)

\* A link of a copying agent is followed, to a source without the copy's name.
CopySound(f, w) == f.is = "copy" /\ SameContent(f, w)

SkillSound(f, w) == IF f.dir \in Copies THEN CopySound(f, w) ELSE SymlinkSound(f)

Compared(probe, v, found, wanted) ==
    {Issue(probe, v, f.name) : f \in {x \in found : ~\E w \in wanted : w.name = x.name /\ SkillSound(x, w)}}
    \cup {Issue(probe, v, w.name) : w \in {x \in wanted : \A f \in found : f.name # x.name}}

ProbeSkills(v) ==
    IF setup.mode = "none" THEN {}
    ELSE Compared("skill", v, ActualSkills(v), UNION {ExpectedSkills(r) : r \in ExtensionRepos})

OwnSkills == {Wanted(SkillName(Prefix(Ws), d), Ws, d) : d \in ToSet(Skills(Ws))}
ActualOwnSkills(v) == {f \in Here(files, "skill", v) : ClaimsSkill(Prefix(Ws), f.name)}
ProbeOwnSkills(v) == Compared("own skill", v, ActualOwnSkills(v), OwnSkills)

-----------------------------------------------------------------------------
(* Agents. *)

KnownAgents == UNION {{Wanted(Prefix(r) \o a, r, a) : a \in Agents(r)} : r \in {q \in ExtensionRepos : Projects(q)}}

\* A link whose target is gone is no file.
ActualAgents(v) ==
    {f \in Here(files, "agent", v) : ~Broken(f) /\ \E p \in LivePrefixes : ClaimsAgent(p, f.name)}

\* The bytes are compared, so the source itself, through a link, is stale.
CopyStatus(f, w) == IF f.is = "copy" /\ SameContent(f, w) THEN "in_sync" ELSE "stale"

ProbeAgents(v) ==
    IF setup.mode = "none" THEN {}
    ELSE LET failing == {w \in KnownAgents : ~Resolves(w.by, v)}
             found == {f \in ActualAgents(v) : \A w \in failing : w.name # f.name}
             wanted == KnownAgents \ failing
         IN  {Issue("agent", v, f.name) :
                f \in {x \in found : ~\E w \in wanted : w.name = x.name /\ CopyStatus(x, w) = "in_sync"}}
             \cup {Issue("agent", v, w.name) : w \in {x \in wanted : \A f \in found : f.name # x.name}}
             \cup {Issue("agent tier", v, w.name) : w \in failing}

\* One name in two extensions is one name too many for a code agent.
ProbeAgentNames ==
    IF setup.mode = "none" THEN {}
    ELSE {Issue("agent name", None, w.src) :
            w \in {x \in KnownAgents : \E y \in KnownAgents : y.src = x.src /\ y.by # x.by}}

-----------------------------------------------------------------------------
(* The rest of the workspace. *)

ProbeClones == {Issue("clone", None, r) : r \in {q \in declared : ~Present(q)}}
ProbeLinks == {Issue("broken link", f.dir, f.name) : f \in {x \in files : x.dir \notin Copies /\ Broken(x)}}
ProbeExtensions ==
    IF setup.mode = "none" THEN {}
    ELSE {Issue("manifest", None, r) : r \in {q \in ExtensionRepos : ~Loads(q)}}

Diagnosis ==
    ProbeClones \cup ProbeLinks \cup ProbeExtensions \cup ProbeAgentNames
    \cup UNION {ProbeSkills(v) \cup ProbeOwnSkills(v) \cup ProbeAgents(v) : v \in ToSet(Vendors)}

-----------------------------------------------------------------------------
(* Properties. *)

Of(issues, p) == {i \in issues : i.name # None /\ i.probe \in {"skill", "agent", "agent tier"} /\ IsPrefix(p, i.name)}

NoUserFile(r) == \A f \in files : f.is = User => ~IsPrefix(Prefix(r), f.name)
DashedNames(r) == Prefix(r) \notin ToSet(Skills(r)) \cup {f.name : f \in files}

\* Links of the right name to what is there, be it another skill.
Astray(r) == {f \in files : /\ f.of = "skill" /\ f.is = "link" /\ f.dir \notin Copies /\ ~Broken(f)
                            /\ \E d \in ToSet(Skills(r)) : f.name = SkillName(Prefix(r), d)}
Righted(r) == (files \ Astray(r)) \cup
    {Entry("skill", "link", r, CHOOSE d \in ToSet(Skills(r)) : f.name = SkillName(Prefix(r), d), f.dir, f.name) :
        f \in Astray(r)}

\* Whatever was done to the workspace, doctor finds nothing wrong under the
\* prefix of an extension exactly when each of its skills and agents is in
\* place, has a model and nothing else is there, wherever its links lead: what
\* it works out is what init projects, but for the target of a link that has
\* the right name, of which it asks only that it is there (_check_symlink,
\* skill_probe_service.py:322). Not said of a skill called like the prefix,
\* which doctor looks for elsewhere, and where another prefix overlaps
\* (_probe_vendor, skill_probe_service.py:176).
DoctorSeesDrift ==
    at = "idle" =>
        \A r \in Live : Alone(r) /\ DashedNames(r) =>
            (Of(Diagnosis, Prefix(r)) = {}
                <=> InPlaceIn(Righted(r), r) /\ NoUserFile(r) /\ Renderable(r) = Agents(r))
=============================================================================

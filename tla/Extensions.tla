------------------------------ MODULE Extensions ------------------------------
(***************************************************************************)
(* What the repositories of a workspace contribute as extensions, and the  *)
(* artefacts winter projects from them: skills and agents under a prefix   *)
(* in the directory of each code agent, blocks of the exclude file, rows   *)
(* of AGENTS.winter.md.                                                    *)
(*                                                                         *)
(* A prefix and a name are the sequence of their dash-separated parts: the *)
(* skill "fmt" of the prefix "wf" is <<"wf", "fmt">>. A file of an agent's *)
(* directory is a record [of, is, by, src, rev, dir, name]: a link or a    *)
(* copy (is) of what `by` keeps at `src`, in revision `rev`, or a file of  *)
(* the user's own.                                                         *)
(***************************************************************************)
EXTENDS Integers, FiniteSets, Sequences, SequencesExt

CONSTANTS None, User,
          Repos,        \* the repositories the configuration names
          Ws,           \* the workspace itself, which has skills too
          Vendors,      \* the code agents, in the order they are served
          Copies,       \* those that need a copy of a skill, not a link
          Alphabet      \* the parts of names, in the order they sort

VARIABLES
    setup,      \* [mode, kind, name, prefix, load, entry]: the configuration
    declared,   \* the repositories it still names
    optout,     \* those whose entry says extension = false
    source,     \* [Repos \cup {Ws} -> what is checked out]
    clone,      \* [Repos -> absent, clean, dirty or linked]
    files,      \* the entries of the agents' directories
    blocks,     \* the managed blocks of the exclude file
    rows,       \* the rows of AGENTS.winter.md
    junk        \* paths of the workspace root that an extension excludes

configVars == <<setup, declared, optout>>
diskVars == <<files, blocks, rows, junk>>

Present(r) == r \in Repos => clone[r] # "absent"
HasManifest(r) == Present(r) /\ source[r].manifest # None
Standalones == {r \in declared : setup.kind[r] = "standalone"}
ProjectRepos == declared \ Standalones

\* Every repository that may act as an extension.
ExtensionRepos == {r \in declared \ optout : r \in Standalones \/ HasManifest(r)}
NonExtensionRepos == declared \cap optout
ContextOnly == {r \in ProjectRepos \ optout :
                   /\ setup.load[r] # "none" /\ ~HasManifest(r)
                   /\ setup.load[r] # None \/ setup.entry[r]}

-----------------------------------------------------------------------------
(* The manifest. *)

Loads(r) == ~HasManifest(r) \/ source[r].manifest = "ok"

Prefix(r) ==
    IF r = Ws \/ setup.prefix[r] # None THEN setup.prefix[r]
    ELSE IF HasManifest(r) /\ source[r].prefix # None THEN source[r].prefix
    ELSE setup.name[r]

Eligible(r) == setup.mode # "none" /\ (setup.mode = "all" \/ HasManifest(r))
Projects(r) == Eligible(r) /\ Loads(r)

\* Mutant: only equal prefixes are taken to collide.
OverlapEqual(p, q) == p = q

PrefixesOverlap(p, q) == IsPrefix(p, q) \/ IsPrefix(q, p)

LivePrefixes == {Prefix(r) : r \in {q \in ExtensionRepos : Projects(q)}}

-----------------------------------------------------------------------------
(* Skills. *)

\* A directory called like the prefix keeps the bare prefix.
SkillName(p, dir) == IF dir = p THEN p ELSE p \o dir
ClaimsSkill(p, name) == IsPrefix(p, name)
ClaimsAgent(p, name) == IsStrictPrefix(p, name)

Entry(of, is, r, src, v, name) ==
    [of |-> of, is |-> is, by |-> r, src |-> src, dir |-> v, name |-> name,
     rev |-> IF is = "copy" THEN source[r].rev ELSE 0]

Skills(r) == IF Present(r) THEN source[r].skills ELSE <<>>
Agents(r) == IF Present(r) THEN source[r].agents ELSE {}
Here(fs, of, v) == {f \in fs : f.of = of /\ f.dir = v}

Broken(f) == f.is = "link" /\ (~Present(f.by) \/ f.src \notin ToSet(Skills(f.by)) \cup Agents(f.by))

\* The skills are taken in order; one whose name a real file has stops them.
\* Of a copy it is a link that does: what it leads to has no name in its
\* frontmatter, so it differs from the copy, and a link is not removed as a
\* directory nor copied over.
Conflict(fs, r, v, i) ==
    \E f \in Here(fs, "skill", v) : /\ f.name = SkillName(Prefix(r), Skills(r)[i])
                                   /\ f.is = "link" <=> v \in Copies

Reaches(fs, r, v) == {i \in DOMAIN Skills(r) : \A j \in 1..i : ~Conflict(fs, r, v, j)}

Stale(fs, v, p, live) == {f \in Here(fs, "skill", v) : ClaimsSkill(p, f.name) /\ f.name \notin live}

SortsBefore(n, m) ==
    LET rank(part) == CHOOSE k \in DOMAIN Alphabet : Alphabet[k] = part
    IN  \E k \in DOMAIN m : /\ k <= Len(n) + 1 /\ SubSeq(n, 1, k - 1) = SubSeq(m, 1, k - 1)
                            /\ k > Len(n) \/ rank(n[k]) < rank(m[k])

\* Stale copies are removed in the order of their names up to a link: one that
\* leads to a directory counts as one and cannot be removed as one, a broken
\* one is passed over.
Jams(fs, v, p, live) == {f \in Stale(fs, v, p, live) : v \in Copies /\ f.is = "link" /\ ~Broken(f)}
Pruned(fs, v, p, live) ==
    {f \in Stale(fs, v, p, live) :
        IF v \notin Copies THEN f.is = "link"
        ELSE f.is # "link" /\ \A j \in Jams(fs, v, p, live) : SortsBefore(f.name, j.name)}

\* An old link of that name is pointed at the right place. Only when every
\* skill has its link are the stale ones pruned.
InstallLinks(fs, r, v) ==
    LET reached == Reaches(fs, r, v)
        linked == {Entry("skill", "link", r, Skills(r)[i], v, SkillName(Prefix(r), Skills(r)[i])) : i \in reached}
        names == {f.name : f \in linked}
        new == {f \in fs : f \notin Here(fs, "skill", v) \/ f.name \notin names} \cup linked
    IN  IF reached # DOMAIN Skills(r) THEN new
        ELSE new \ Pruned(new, v, Prefix(r), names)

CopyCurrent(f, r) == f.is = "copy" /\ f.by = r /\ f.rev = source[r].rev

InstallCopies(fs, r, v) ==
    LET name(i) == SkillName(Prefix(r), Skills(r)[i])
        reached == Reaches(fs, r, v)
        names == {name(i) : i \in reached}
        kept == {f \in Here(fs, "skill", v) :
                    \E i \in reached : f.name = name(i) /\ f.src = Skills(r)[i] /\ CopyCurrent(f, r)}
        copied == {Entry("skill", "copy", r, Skills(r)[i], v, name(i)) :
                    i \in {j \in reached : \A f \in kept : f.name # name(j)}}
        replaced == {f \in Here(fs, "skill", v) : f.name \in names} \ kept
        new == (fs \ replaced) \cup copied
    IN  IF reached # DOMAIN Skills(r) THEN new ELSE new \ Pruned(fs, v, Prefix(r), names)

InstallSkills(fs, r, v) == IF v \in Copies THEN InstallCopies(fs, r, v) ELSE InstallLinks(fs, r, v)
SkillsFit(fs, r, v) ==
    /\ Reaches(fs, r, v) = DOMAIN Skills(r)
    /\ Jams(fs, v, Prefix(r), {SkillName(Prefix(r), d) : d \in ToSet(Skills(r))}) = {}

\* A name in the frontmatter would override the directory's.
FrontmatterOffends(r) == source[r].named /\ Skills(r) # <<>> /\ (r = Ws \/ setup.mode = "winter")

-----------------------------------------------------------------------------
(* Agents: rendered copies. *)

\* What model an agent runs on is looked up for every code agent; a tier that
\* has none for one of them leaves the agent out everywhere.
Resolves(r, v) == v \notin source[r].untiered
Renderable(r) == IF \A v \in ToSet(Vendors) : Resolves(r, v) THEN Agents(r) ELSE {}

\* A link an older version left is no rendered file: it is unlinked first, or
\* the write would go through to the source.
Rendered(f) == FALSE

RenderAgents(fs, r) ==
    LET agent(v, a) == Entry("agent", "copy", r, a, v, Prefix(r) \o a)
        kept == {f \in fs : f.of = "agent" /\ Rendered(f)}
        mine == {f \in fs \ kept : f.of = "agent" /\ ClaimsAgent(Prefix(r), f.name)}
        all == {agent(v, a) : v \in ToSet(Vendors), a \in Renderable(r)}
    IN  (fs \ mine) \cup {f \in all : ~\E k \in kept : k.dir = f.dir /\ k.name = f.name}

\* A repository that opted out: what an earlier init projected for it goes,
\* which is all that is under its prefix, unless an extension has that.  Only
\* the prefixes of extensions are compared, not the workspace's own.  The
\* skills go vendor by vendor until one cannot be removed.
Retracts(r) == Projects(r) /\ ~\E q \in LivePrefixes : PrefixesOverlap(Prefix(r), q)
RetractJams(r) == \E v \in ToSet(Vendors) : Jams(files, v, Prefix(r), {}) # {}
Retracted(r) ==
    LET p == Prefix(r)
        before(k) == \A j \in 1..(k - 1) : Jams(files, Vendors[j], p, {}) = {}
    IN  UNION {Pruned(files, Vendors[k], p, {}) : k \in {j \in DOMAIN Vendors : before(j)}}
          \cup {f \in files : f.of = "agent" /\ ClaimsAgent(p, f.name)}

-----------------------------------------------------------------------------
(* The exclude file and AGENTS.winter.md. *)

\* The block of a repository: its path, the globs of its prefix, its rules.
Block(r) ==
    IF r \in declared \ optout /\ Projects(r)
    THEN [name |-> r, prefix |-> Prefix(r), rules |-> IF HasManifest(r) THEN source[r].rules ELSE {}]
    ELSE [name |-> r, prefix |-> None, rules |-> {}]
ExcludesSound(r) == ~(r \notin optout /\ Eligible(r) /\ HasManifest(r) /\ source[r].manifest = "excludes")

\* Blocks of repositories that are not handed in are stripped.
FinalizeExcludes(rs) ==
    blocks' = IF setup.mode = "none" THEN blocks ELSE {Block(r) : r \in rs}

Bullet(r) == /\ Present(r) /\ source[r].page /\ setup.load[r] # "none"
             /\ setup.load[r] # None \/ setup.entry[r] \/ Eligible(r)
Load(r) ==
    LET said == IF setup.load[r] # None THEN setup.load[r]
                ELSE IF HasManifest(r) /\ Loads(r) THEN source[r].load ELSE None
    IN  IF setup.kind[r] = "project" THEN "lazy"
        ELSE IF said = None THEN "eager" ELSE said

FinalizeAgentsMd ==
    rows' = IF setup.mode = "none" THEN rows
            ELSE {[name |-> r, load |-> Load(r)] : r \in {q \in ExtensionRepos \cup ContextOnly : Bullet(q)}}
=============================================================================

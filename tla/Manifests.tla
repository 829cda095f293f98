------------------------------ MODULE Manifests ------------------------------
(***************************************************************************)
(* What winter reads before a service or a provision command does          *)
(* anything: which of the declared repositories are extensions, the        *)
(* [provision] and [[service]] tables of the workspace and of each         *)
(* extension, and what `winter doctor` says of them.                       *)
(*                                                                         *)
(* A workspace w holds `standalones` and `projects` (sequences of declared *)
(* repositories [name, on, manifest], on = FALSE for extension = false),   *)
(* `provision` and `services` (its own entries) and `adopts`.  A manifest  *)
(* is [form, prefix, serves, entry, version, provision, services], form    *)
(* being "none", "unreadable", "elsewhere" (a table besides [provision]    *)
(* and [[service]] is refused) or "ok".  A field of an entry holds the form *)
(* of its value: "absent", a form the parser accepts or one it refuses;    *)
(* project and name hold the value itself.                                 *)
(***************************************************************************)
EXTENDS Naturals, FiniteSets, SequencesExt

CONSTANTS None, Project   \* Project: the source of the workspace's own entries

Subtargets == {"dependency", "resource", "data"}
Scopes == {"workspace", "feature", "worktree"}
Given(field) == field # "absent"

-----------------------------------------------------------------------------
(* The extensions. *)

Declared(w, name) == {r \in ToSet(w.standalones \o w.projects) : r.name = name}

\* Standalones, then the project repositories with a manifest at their root; a
\* name declared as both is the standalone, and extension = false on either
\* entry is final.
ExtensionRepos(w) ==
    LET on(r) == \A d \in Declared(w, r.name) : d.on
        standalone == {r.name : r \in ToSet(w.standalones)}
    IN  SelectSeq(w.standalones, on)
          \o SelectSeq(w.projects, LAMBDA r : /\ r.name \notin standalone /\ r.on
                                              /\ r.manifest.form # "none")

-----------------------------------------------------------------------------
(* [provision]. *)

\* A command is a non-empty string or a non-empty list of those.
BadCommand(form, required) ==
    form \notin {"text", "list"} /\ (required \/ Given(form))
BadCommands(e) ==
    BadCommand(e.apply, TRUE) \/ \E act \in {"destroy", "reset", "clean"} : BadCommand(e[act], FALSE)

BadNeeds(e) == Given(e.needs.form) /\ (e.target \notin {"resource", "data"} \/ e.needs.form # "list")
\* An extension's entry may name any project.
UnknownProject(e, projects) == projects # {None} /\ e.project \notin projects
BadProject(e, projects) ==
    Given(e.project) /\ (e.scope # "feature" \/ e.project = "bad" \/ UnknownProject(e, projects))

\* The parser: the first entry it refuses ends it.
Refuses(es, i, projects) ==
    LET e == es[i]
    IN  \/ e.target \notin Subtargets \/ ~e.table \/ e.extra
        \/ e.scope \notin Scopes
        \/ BadCommands(e) \/ BadNeeds(e) \/ BadProject(e, projects)
        \/ e.name = "bad"
        \/ Given(e.name) /\ \E j \in 1..(i - 1) : es[j].name = e.name /\ es[j].scope = e.scope
Parses(es, projects) == \A i \in DOMAIN es : ~Refuses(es, i, projects)

HandlerFrom(e, src, from) ==
    [target |-> e.target, scope |-> e.scope, src |-> src, from |-> from,
     name |-> IF Given(e.name) THEN e.name ELSE None,
     does |-> {act \in {"apply", "destroy", "reset", "clean"} : Given(e[act])},
     needs |-> e.needs.tokens,
     project |-> IF Given(e.project) THEN e.project ELSE None,
     halts |-> e.halts]
HandlersFrom(es, src, from) == [i \in DOMAIN es |-> HandlerFrom(es[i], src, from)]

-----------------------------------------------------------------------------
(* [[service]]. *)

RefusesService(e) ==
    \/ ~e.table \/ e.extra \/ e.name \in {"absent", "bad"}
    \/ e.scope \notin {"absent", "workspace", "feature"}
    \/ (IF Given(e.cmd) THEN e.cmd ELSE e.command) \notin {"absent", "text"}
    \/ e.image = "bad" \/ e.target = "bad" \/ e.ports = "bad"
ParsesServices(es) == \A i \in DOMAIN es : ~RefusesService(es[i])

-----------------------------------------------------------------------------
(* What the commands load. *)

\* A manifest loads whole or not at all.
Loads(m) == m.form = "ok" /\ Parses(m.provision, {None}) /\ ParsesServices(m.services)
LoadedRepos(w) == SelectSeq(ExtensionRepos(w), LAMBDA r : Loads(r.manifest))

ProjectNames(w) == {r.name : r \in ToSet(w.projects)}
Malformed(w) == ~Parses(w.provision, ProjectNames(w))

\* The workspace's handlers, then those of the extensions that load: the
\* others are left out with a warning.
AllHandlers(w) ==
    LET exts == LoadedRepos(w)
    IN  HandlersFrom(w.provision, Project, None)
          \o FlattenSeq([k \in DOMAIN exts |->
                 HandlersFrom(exts[k].manifest.provision, exts[k].manifest.prefix, exts[k].name)])

\* The extension a handler's scripts run for: the first with its prefix.
HomeOf(w, h) ==
    IF h.src = Project THEN None
    ELSE SelectSeq(LoadedRepos(w), LAMBDA r : r.manifest.prefix = h.src)[1].name

\* The names of all the services, of which no two may be equal.
ServiceGroups(w) ==
    LET exts == LoadedRepos(w)
        names(es) == [i \in DOMAIN es |-> es[i].name]
    IN  names(w.services) \o FlattenSeq([k \in DOMAIN exts |-> names(exts[k].manifest.services)])
Collides(names) == \E i, j \in DOMAIN names : i < j /\ names[i] = names[j]
\* `up` has no service manifest to hand to the providers.
Clash(w) == ~ParsesServices(w.services) \/ Collides(ServiceGroups(w))

-----------------------------------------------------------------------------
(* What winter doctor finds in [provision]. *)

\* Mutant: the doctor does not compare the names.
NameFindingsAlone(es, i) == IF es[i].name = "bad" THEN {"name"} ELSE {}

\* Names are compared within a valid scope, whatever else is wrong with the
\* entries.
NameFindings(es, i) ==
    LET e == es[i]
    IN  IF e.name = "bad" \/ /\ Given(e.name) /\ e.scope \in Scopes
                             /\ \E j \in 1..(i - 1) : /\ es[j].target \in Subtargets /\ es[j].table
                                                      /\ es[j].name = e.name /\ es[j].scope = e.scope
        THEN {"name"} ELSE {}

ProjectFindings(e, projects) ==
    (IF Given(e.project) /\ e.scope \in Scopes \ {"feature"} THEN {"project scope"} ELSE {})
      \cup (IF Given(e.project) /\ (e.project = "bad" \/ UnknownProject(e, projects))
            THEN {"project"} ELSE {})

CommandFindings(e) == IF BadCommands(e) THEN {"command"} ELSE {}
\* Of required_services only the sub-target is looked at.
NeedFindings(e) == IF Given(e.needs.form) /\ e.target = "dependency" THEN {"services"} ELSE {}

\* All that is wrong with an entry, where the parser stops at the first.
EntryFindings(es, i, projects) ==
    LET e == es[i]
    IN  IF e.target \notin Subtargets \/ ~e.table THEN {"shape"}
        ELSE (IF e.extra THEN {"keys"} ELSE {})
               \cup (IF e.scope \notin Scopes THEN {"scope"} ELSE {})
               \cup CommandFindings(e) \cup NeedFindings(e)
               \cup ProjectFindings(e, projects) \cup NameFindings(es, i)
Findings(es, projects) == UNION {EntryFindings(es, i, projects) : i \in DOMAIN es}

\* An extension is looked at only when its manifest does not load.
ExtensionFindings(r) ==
    CASE r.manifest.form = "none" \/ Loads(r.manifest) -> {}
      [] r.manifest.form = "unreadable" -> {"unreadable"}
      [] OTHER -> Findings(r.manifest.provision, {None})

ProbeFindings(w) ==
    Findings(w.provision, ProjectNames(w))
      \cup (IF w.adopts THEN UNION {ExtensionFindings(r) : r \in ToSet(ExtensionRepos(w))} ELSE {})
=============================================================================

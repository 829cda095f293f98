--------------------------------- MODULE Lint ---------------------------------
(***************************************************************************)
(* winter lint: the request becomes one or more scopes, and for each scope *)
(* the built-in checks, the workspace's scripts and the extensions'        *)
(* scripts contribute findings, which the [lint.ignore] rules of the       *)
(* linted checkouts and of the workspace then partition.                   *)
(*                                                                         *)
(* A path is the sequence of its segments below the workspace root, a      *)
(* pattern a sequence in which "**" stands for any number of segments and  *)
(* "*" for one. A world is what lies on disk: which files exist (those git *)
(* does not ignore), what the manifests and the configuration declare and  *)
(* what each check has to say of each file. The scripts are external: a    *)
(* healthy one reports its issues of the files in scope.                   *)
(***************************************************************************)
EXTENDS Naturals, FiniteSets, Sequences, SequencesExt

CONSTANTS Worlds,
          Requests,
          MaxFaults    \* scripts, git calls and bindings that fail in one command

VARIABLES world, request,
          phase,       \* resolve, scopes, checks, done, refused
          todo,        \* the scopes that are left
          scope,       \* the one at work: [kind, paths]
          turn,        \* its contributors still to run
          findings,    \* what has been found in it
          broken,      \* the contributors that did not do all of their work, and how
          reports,     \* one record per scope that was reported
          exit,
          faults

vars == <<world, request, phase, todo, scope, turn, findings, broken, reports, exit, faults>>

NoFile == <<"(none)">>
AnyCheck == "(any)"
Config == <<".winter", "config.toml">>

LintFinding(check, status, file) == [check |-> check, status |-> status, file |-> file]

-----------------------------------------------------------------------------
(* Paths and patterns. *)

IsDir(w, p) == \E f \in w.files : IsPrefix(p, f) /\ f # p
RelativeTo(p, base) == SubSeq(p, Len(base) + 1, Len(p))
InScope(p, paths) == \E q \in ToSet(paths) : IsPrefix(q, p)

\* m[i, j]: the first i segments of the pattern match the first j of the path.
\* (Two "**" side by side, which the code's regular expression reads more
\* narrowly, are not among the patterns.)
Matches(pattern, path) ==
    LET m[i \in 0..Len(pattern), j \in 0..Len(path)] ==
          IF i = 0 THEN j = 0
          ELSE IF pattern[i] = "**" THEN \E k \in 0..j : m[i - 1, k]
          ELSE j > 0 /\ pattern[i] \in {"*", path[j]} /\ m[i - 1, j - 1]
    IN  m[Len(pattern), Len(path)]

\* The files and the directories below a root.
RepoFiles(w, root) ==
    {p \in UNION {Prefixes(f) : f \in w.files} : IsPrefix(root, p) /\ p # root}

-----------------------------------------------------------------------------
(* The scopes of a request. *)

Scope(kind, paths) == [kind |-> kind, paths |-> paths]

EnvWorktreePaths(w, env) == [i \in DOMAIN w.repos |-> <<env, w.repos[i]>>]
ResolveAll(w) == Scope("all", FlattenSeq([i \in DOMAIN w.envs |-> EnvWorktreePaths(w, w.envs[i])]))

ResolveDefault(w, cwd) ==
    IF cwd # <<>> /\ Head(cwd) \in ToSet(w.envs)
    THEN Scope("env", EnvWorktreePaths(w, Head(cwd)))
    ELSE ResolveAll(w)

\* A glob stands for every repository and env, a literal for itself.
ResolveNames(w, names) ==
    LET literal == ToSet(names) \ {"*"}
        found   == IF "*" \in ToSet(names) THEN ToSet(w.repos) \cup ToSet(w.envs) ELSE {}
    IN  SetToSeq(literal) \o SetToSeq(found \ literal)

Resolvable(w, name) == (name \in ToSet(w.repos)) # (name \in ToSet(w.envs))
ResolveName(w, name) ==
    IF name \in ToSet(w.repos) THEN Scope("repo", <<<<"projects", name>>>>)
    ELSE Scope("env", EnvWorktreePaths(w, name))

\* `git status` and `git diff` from the upstream each count for nothing when they fail.
ResolveChanged(w, root, answering) ==
    LET dirty    == IF "status" \in answering THEN w.dirty[root] ELSE {}
        unpushed == IF "diff" \in answering THEN w.unpushed[root] ELSE {}
    IN  Scope("changed", SetToSeq(dirty \cup unpushed))
GitToplevels(w, cwd) == {r \in DOMAIN w.dirty : IsPrefix(r, cwd)
                           /\ \A q \in DOMAIN w.dirty : IsPrefix(q, cwd) => Len(q) <= Len(r)}

Exclusive(q) == Cardinality({x \in {"names", "all", "changed"} :
                    (x = "names" /\ q.names # <<>>) \/ (x = "all" /\ q.all) \/ (x = "changed" /\ q.changed)}) <= 1

-----------------------------------------------------------------------------
(* The rules. A rule is [root, glob, check, owner, declared]: the directory *)
(* its glob is relative to, and where it was written.                      *)

\* The nearest directory with a winter-ext.toml, up to the workspace root.
OwningRepoRoot(w, path) ==
    LET start == IF IsDir(w, path) THEN path ELSE Front(path)
        roots == {SubSeq(start, 1, n) : n \in 0..Len(start)} \cap DOMAIN w.manifests
    IN  {r \in roots : \A q \in roots : Len(q) <= Len(r)}

IgnoreRoots(w, paths) == UNION {OwningRepoRoot(w, p) : p \in ToSet(paths)}

Rule(root, entry, owner) ==
    [root |-> root, glob |-> entry.glob, check |-> entry.check, owner |-> owner, names |-> entry.name]

\* An entry of a wrong form, and every entry of an unreadable file, becomes no rule.
RulesFor(w, root) ==
    LET m == w.manifests[root]
    IN  IF ~m.ok THEN <<>>
        ELSE [i \in DOMAIN SelectSeq(m.entries, LAMBDA e : e.form = "rule") |->
                 Rule(root, SelectSeq(m.entries, LAMBDA e : e.form = "rule")[i], "repo")]

NamedRepos(w) == {e.name : e \in ToSet(w.config.entries)} \ {""}
KnownRepo(w, name) == w.repos = <<>> \/ name \in ToSet(w.repos)

RepoDepthsAnywhere(w, path, known) ==   \* Mutant: wherever the name occurs
    {n \in 1..Len(path) : path[n] \in known}
\* The first segment, of the first two, that names a repository and is a directory.
RepoDepths(w, path, known) ==
    {n \in 1..Len(path) : n <= 2 /\ path[n] \in known /\ IsDir(w, SubSeq(path, 1, n))}
ScopedRepoRoots(w, paths, name) ==
    LET known == ToSet(w.repos) \cup NamedRepos(w)
        first(path) == {n \in RepoDepths(w, path, known) : \A k \in RepoDepths(w, path, known) : n <= k}
    IN  UNION {{SubSeq(p, 1, n) : n \in {k \in first(p) : p[k] = name}} : p \in ToSet(paths)}

\* An entry with no name speaks of the workspace's own files.
WorkspaceRules(w, paths) ==
    LET usable == SelectSeq(w.config.entries, LAMBDA e : e.form = "rule" /\ (e.name = "" \/ KnownRepo(w, e.name)))
        bound(e) == IF e.name = "" THEN <<<<>>>> ELSE SetToSeq(ScopedRepoRoots(w, paths, e.name))
    IN  IF ~w.config.ok THEN <<>>
        ELSE FlattenSeq([i \in DOMAIN usable |->
                 [j \in DOMAIN bound(usable[i]) |-> Rule(bound(usable[i])[j], usable[i], "workspace")]])

\* The manifests' rules first; a rule read twice is one rule.
Load(w, paths) ==
    LET roots == SetToSeq(IgnoreRoots(w, paths))
    IN  FlattenSeq([i \in DOMAIN roots |-> RulesFor(w, roots[i])]) \o WorkspaceRules(w, paths)

\* What is wrong with the declarations is itself found, and a file that cannot be read fails.
Complaints(source, file, refused) ==
    IF ~source.ok THEN {LintFinding("lint-ignore", "fail", file)}
    ELSE {LintFinding("lint-ignore", "warn", file) : e \in {x \in ToSet(source.entries) : refused[x]}}
Diagnostics(w, paths) ==
    UNION {Complaints(w.manifests[r], Append(r, "winter-ext.toml"),
                      [e \in ToSet(w.manifests[r].entries) |-> e.form # "rule"]) : r \in IgnoreRoots(w, paths)}
    \cup Complaints(w.config, Config,
                    [e \in ToSet(w.config.entries) |-> e.form # "rule" \/ (e.name # "" /\ ~KnownRepo(w, e.name))])

-----------------------------------------------------------------------------
(* Ignoring. *)

IgnorableAll(f) == TRUE   \* Mutant: the guard is gone
\* A finding about no file is never ignored.
Ignorable(f) == f.file # NoFile
Suppresses(rule, f) ==
    Ignorable(f) /\ rule.check \in {AnyCheck, f.check}
    /\ IsPrefix(rule.root, f.file) /\ Matches(rule.glob, RelativeTo(f.file, rule.root))

FirstMatch(rules, f) == SelectInSeq(rules, LAMBDA r : Suppresses(r, f))
Ignored(rules, found) == {[finding |-> f, rule |-> rules[FirstMatch(rules, f)]] :
                             f \in {g \in found : FirstMatch(rules, g) # 0}}
Kept(rules, found) == {f \in found : FirstMatch(rules, f) = 0}

\* An idle rule is stale when it covers nothing, or something this run linted.
Covered(w, rule) == {p \in RepoFiles(w, rule.root) : Matches(rule.glob, RelativeTo(p, rule.root))}
CanJudgeAlways(covered, paths) == TRUE   \* Mutant: a rule this run had no chance to exercise counts
CanJudge(covered, paths) == covered = {} \/ \E p \in covered : InScope(p, paths)
Stale(w, rules, found, paths) ==
    {r \in ToSet(rules) : CanJudge(Covered(w, r), paths)
                            /\ \A s \in Ignored(rules, found) : s.rule # r}

-----------------------------------------------------------------------------
(* The checks. *)

Contributor(by, check, place) == [by |-> by, check |-> check, place |-> place]
Scripts(by, scripts) == [i \in DOMAIN scripts |-> Contributor(by, scripts[i].check, scripts[i].place)]

\* Without the bundled script no built-in check runs.
CoreChecks(w) == IF ~w.core THEN <<>>
                 ELSE <<Contributor("core", "extractability", "runs"),
                        Contributor("builtin", "file-size", "runs"),
                        Contributor("builtin", "required-services", "runs")>>
ExtensionChecks(w) ==
    IF ~w.adopt THEN <<>>
    ELSE FlattenSeq([i \in DOMAIN w.extensions |->
             CASE w.extensions[i].manifest = "absent" -> <<>>
               [] w.extensions[i].manifest = "broken" -> <<Contributor("extension", "manifest", "unreadable")>>
               [] OTHER -> Scripts("extension", w.extensions[i].scripts)])
Contributors(w) == CoreChecks(w) \o Scripts("project", w.scripts) \o ExtensionChecks(w)

\* Files the agents load by themselves: the root files and what they import,
\* as far as these can be read.
Injected(w) ==
    LET reach[n \in 0..Cardinality(w.imports)] ==
          IF n = 0 THEN {<<"AGENTS.md">>, <<"AGENTS.winter.md">>, <<"CLAUDE.md">>} \cap w.files
          ELSE reach[n - 1] \cup {i[2] : i \in {j \in w.imports : j[1] \in reach[n - 1] \ w.unreadable}}
    IN  reach[Cardinality(w.imports)]
MarkdownIn(w, paths) == {g \in DOMAIN w.sizes : InScope(g, paths)}
Oversized(w, f) == w.sizes[f] \in (IF f \in Injected(w) THEN {"medium", "large"} ELSE {"large"})

\* A file that cannot be read is passed over.
FileSize(w, paths) ==
    {LintFinding("file-size", "fail", f) : f \in {g \in MarkdownIn(w, paths) \ w.unreadable : Oversized(w, g)}}

\* The catalogue: what every provider that answers says it runs.
Catalog(providers) == UNION {p.services : p \in {q \in providers : q.answers}}
InCatalog(providers, token) == \E s \in Catalog(providers) : s.name = token.name /\ (s.scope = "workspace") = (token.scope = "workspace")
Malformed(token) == token.scope = ""
RefProblems(w, providers) ==
    {LintFinding("required-services", "fail", r.file) :
        r \in {x \in w.refs : Malformed(x.token) \/ (providers # {} /\ ~InCatalog(providers, x.token))}}
Unvalidated == LintFinding("required-services", "warn", Config)
RequiredServices(w, providers) ==
    RefProblems(w, providers) \cup (IF w.refs # {} /\ providers = {} THEN {Unvalidated} ELSE {})

Issues(w, check, paths) == {i \in w.issues : i.check = check /\ InScope(i.file, paths)}

\* A script that ends badly adds a failure to whatever it could still print, and
\* a line that makes no sense becomes a warning.
Breach == LintFinding("lint", "warn", NoFile)
ParseLintOutput(printed, outcome) ==
    printed \cup (CASE outcome = "clean" -> {}
                    [] outcome = "garbled" -> {Breach}
                    [] OTHER -> {LintFinding("lint", "fail", NoFile)})

\* All of the issues come out, or none of them.
Printed(w, c, outcome, paths) ==
    CASE outcome = "clean" -> {Issues(w, c.check, paths)}
      [] outcome \in {"garbled", "nonzero"} -> {Issues(w, c.check, paths), {}}
      [] outcome \in {"raises", "misplaced"} -> {{}}

-----------------------------------------------------------------------------
Init ==
    /\ world \in Worlds /\ request \in Requests
    /\ phase = "resolve"
    /\ todo = <<>> /\ scope = Scope("none", <<>>) /\ turn = <<>>
    /\ findings = {} /\ broken = {}
    /\ reports = <<>>
    /\ exit = 0
    /\ faults = 0

Refuse == /\ phase' = "refused" /\ exit' = 1
          /\ UNCHANGED <<world, request, todo, scope, turn, findings, broken, reports>>

\* A request that names no scope it can mean, or an inventory of envs that cannot be read.
RefuseScope ==
    /\ phase = "resolve"
    /\ \/ /\ \/ ~Exclusive(request)
             \/ request.changed /\ GitToplevels(world, request.cwd) = {}
             \/ \E n \in ToSet(ResolveNames(world, request.names)) : ~Resolvable(world, n)
          /\ faults' = faults
       \/ faults < MaxFaults /\ faults' = faults + 1
    /\ Refuse

Resolve ==
    /\ phase = "resolve" /\ Exclusive(request)
    /\ IF request.changed
       THEN \E root \in GitToplevels(world, request.cwd), failing \in SUBSET {"status", "diff"} :
              /\ faults' = faults + Cardinality(failing) /\ faults' <= MaxFaults
              /\ todo' = <<ResolveChanged(world, root, {"status", "diff"} \ failing)>>
       ELSE LET names == ResolveNames(world, request.names) IN
              /\ \A n \in ToSet(names) : Resolvable(world, n)
              /\ todo' = IF request.names # <<>> THEN [i \in DOMAIN names |-> ResolveName(world, names[i])]
                         ELSE IF request.all THEN <<ResolveAll(world)>>
                         ELSE <<ResolveDefault(world, request.cwd)>>
              /\ faults' = faults
    /\ phase' = "scopes"
    /\ UNCHANGED <<world, request, scope, turn, findings, broken, reports, exit>>

Nothing(s) == s.kind = "changed" /\ s.paths = <<>>
EmptyReport(s) == [kind |-> s.kind, paths |-> s.paths, broken |-> {}, rules |-> <<>>,
                   ignored |-> {}, stale |-> {}, told |-> {}]

\* A --changed scope with nothing in it is reported as it is.
NextScope ==
    /\ phase = "scopes" /\ todo # <<>>
    /\ scope' = Head(todo) /\ todo' = Tail(todo)
    /\ findings' = {} /\ broken' = {}
    /\ IF Nothing(Head(todo))
       THEN phase' = "scopes" /\ turn' = <<>> /\ reports' = Append(reports, EmptyReport(Head(todo)))
       ELSE phase' = "checks" /\ turn' = Contributors(world) /\ reports' = reports
    /\ UNCHANGED <<world, request, exit, faults>>

Breaks(how) == broken' = broken \cup {[contributor |-> Head(turn), how |-> how]}

CheckFileSize ==
    /\ phase = "checks" /\ turn # <<>> /\ Head(turn).check = "file-size"
    /\ findings' = findings \cup FileSize(world, scope.paths)
    /\ IF MarkdownIn(world, scope.paths) \cap world.unreadable = {} THEN broken' = broken ELSE Breaks("unreadable")
    /\ turn' = Tail(turn)
    /\ UNCHANGED <<world, request, phase, todo, scope, reports, exit, faults>>

\* Bindings that cannot be resolved count for no provider.
CheckRequiredServices ==
    /\ phase = "checks" /\ turn # <<>> /\ Head(turn).check = "required-services"
    /\ \/ /\ findings' = findings \cup RequiredServices(world, world.providers)
          /\ UNCHANGED <<broken, faults>>
       \/ /\ faults < MaxFaults /\ faults' = faults + 1
          /\ findings' = findings \cup RequiredServices(world, {})
          /\ Breaks("unbound")
    /\ turn' = Tail(turn)
    /\ UNCHANGED <<world, request, phase, todo, scope, reports, exit>>

RunOne ==
    /\ phase = "checks" /\ turn # <<>> /\ Head(turn).by # "builtin"
    /\ \E outcome \in IF Head(turn).place = "runs" THEN {"clean", "garbled", "nonzero", "raises"}
                       ELSE {"misplaced"} :
         /\ faults' = faults + (IF outcome \in {"clean", "misplaced"} THEN 0 ELSE 1) /\ faults' <= MaxFaults
         /\ \E printed \in Printed(world, Head(turn), outcome, scope.paths) :
              findings' = findings \cup ParseLintOutput(printed, outcome)
         /\ IF outcome = "clean" THEN broken' = broken ELSE Breaks(outcome)
    /\ turn' = Tail(turn)
    /\ UNCHANGED <<world, request, phase, todo, scope, reports, exit>>

\* A report: what is told, what was ignored and by which rule, which rules are told stale.
ReportOf(rules) ==
    LET stale == Stale(world, rules, findings, scope.paths)
    IN  [kind |-> scope.kind, paths |-> scope.paths, broken |-> broken, rules |-> rules,
         ignored |-> Ignored(rules, findings), stale |-> stale,
         told |-> Kept(rules, findings) \cup Diagnostics(world, scope.paths)
                    \cup {LintFinding("lint-ignore", "warn", IF r.owner = "workspace" THEN Config
                                                             ELSE Append(r.root, "winter-ext.toml")) : r \in stale}]
Report ==
    /\ phase = "checks" /\ turn = <<>>
    /\ reports' = Append(reports, ReportOf(Load(world, scope.paths)))
    /\ phase' = "scopes"
    /\ UNCHANGED <<world, request, todo, scope, turn, findings, broken, exit, faults>>

SummaryFails(report) == \E f \in report.told : f.status = "fail"
ExitCode(rs) == IF \E i \in DOMAIN rs : SummaryFails(rs[i]) THEN 1 ELSE 0
Finish ==
    /\ phase = "scopes" /\ todo = <<>>
    /\ exit' = ExitCode(reports)
    /\ phase' = "done"
    /\ UNCHANGED <<world, request, todo, scope, turn, findings, broken, reports, faults>>

Next == RefuseScope \/ Resolve \/ NextScope \/ CheckFileSize \/ CheckRequiredServices \/ RunOne \/ Report \/ Finish

Spec == Init /\ [][Next]_vars

-----------------------------------------------------------------------------
(* Properties. *)

\* A lint run succeeds only if each check did its work in every scope that has
\* something in it, or the report says that it did not: a script that breaks
\* down fails the run, whatever the ignore rules hide; one that prints what
\* makes no sense is told by a warning they cannot hide; bindings that cannot be
\* resolved by one that they can; and the declarations of ignore rules that were
\* looked for could be read. The exceptions are a markdown file that cannot
\* be read, which is passed over, and files that a --changed run never got to
\* know of, because git failed (LintService.run, LintHandler.run,
\* parse_lint_output, _first_match).
SuccessMeansChecked ==
    phase = "done" /\ exit = 0 =>
        \A report \in {r \in ToSet(reports) : ~Nothing(r)} :
            /\ \A b \in report.broken :
                \/ b.how = "unreadable"
                \/ b.how = "garbled" /\ Breach \in report.told
                \/ /\ b.how = "unbound"
                   /\ world.refs = {} \/ Unvalidated \in report.told \cup {s.finding : s \in report.ignored}
            /\ world.config.ok
            /\ \A p \in ToSet(report.paths) : \A r \in OwningRepoRoot(world, p) : world.manifests[r].ok

\* A finding is ignored only by someone entitled to speak for its file: the
\* manifest of a directory that holds it, a rule about the workspace's own
\* files, or a rule naming the repository the file is in. An env that bears a
\* repository's name is the known exception (_scoped_repo_roots takes its
\* directory for the repository's).
SuppressedWhereDeclared ==
    \A i \in DOMAIN reports : \A s \in reports[i].ignored :
        LET file == s.finding.file IN
        s.rule.names # "" /\ s.rule.names \notin ToSet(world.envs) =>
            \/ file[1] = s.rule.names
            \/ Len(file) > 1 /\ file[2] = s.rule.names

\* "Delete the rule" is safe to follow: in the checkouts that were linted, all
\* checks working, the rules told stale hide nothing, so a lint without them
\* tells what a lint with them does. Two runs it is not claimed for: one in
\* which a check broke, and --changed with only some of what a rule covers; nor
\* for a workspace declaration that is idle in one env and used in another.
StaleIsSafeToDelete ==
    \A i \in DOMAIN reports :
        LET r        == reports[i]
            whole(x) == LET c == Covered(world, x) IN
                          (\A p \in c : InScope(p, r.paths)) \/ (\A p \in c : ~InScope(p, r.paths))
            gone     == {x \in r.stale : whole(x)}
            roots    == SetToSeq({x.root : x \in gone})
            all      == FileSize(world, roots) \cup RequiredServices(world, world.providers)
                          \cup UNION {Issues(world, c.check, roots) : c \in ToSet(Contributors(world))}
        IN  r.broken = {} =>
              Kept(SelectSeq(r.rules, LAMBDA x : x \notin gone), all) = Kept(r.rules, all)
=============================================================================

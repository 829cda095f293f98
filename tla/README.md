# TLA+ model of winter

`winter` (`src/tools/winter-cli`) manages a workspace of git repositories: clones
of every repository under `projects/`, *feature envs* with one git worktree of
each, standalone repositories pinned in a lock file, extensions projected into
the directories of code agents, service providers, and workspaces nested in
other workspaces. Its state is files and git repositories, written by one-shot
commands that can be killed anywhere, run threads and child processes, and meet
a user who works in the same directories. That is what is modelled here.

Paths below are relative to `src/tools/winter-cli/src/winter_cli/`, unless they
start with `src/`. `PROJECT.json` maps every definition to the lines it models.

1. [The system](#1-the-system)
2. [The modules](#2-the-modules)
3. [The runs](#3-the-runs)
4. [Where the code and its documents disagree](#4-where-the-code-and-its-documents-disagree)
5. [Bounds](#5-bounds)
6. [Fairness](#6-fairness)
7. [What is proved](#7-what-is-proved)
8. [What is only model-checked, and what is not modelled](#8-what-is-only-model-checked-and-what-is-not-modelled)
9. [Plan](#9-plan)

## 1. The system

### Components, their state and their operations

| Component | State it keeps | Operations | Correct when | Module |
|---|---|---|---|---|
| **Env index registry** (`modules/workspace/env_index.py`, `internal/toml_env_index_registry.py`) | `.winter/state.toml`: name → index | `allocate`, `assign`, `remove`, `get` | no two envs share an index (so none share a port), an env keeps the index it was handed | `EnvRegistry` |
| **Lock of the standalone pins** (`internal/config_lock_repository.py`) | `.winter/config.lock`: repository → (ref, commit) | `load`, `upsert` under the process's mutex | an upsert replaces its own entry only, whatever a kill left | `ConfigLock`, `PinsLock` |
| **Standalone pins** (`workspace_sync_service.py`, `init_service.py`) | a checkout, its stash, the configured ref, the lock entry | `ws pull`, `ws update`, `ws freeze`, `ws init` | stashed edits come back on every path, a reported pin is the one in the lock | `StandalonePins` |
| **Restack** (`env_restack_plan_service.py`, `env_restack_service.py`) | branches, reflogs, rebases in progress | plan (refusals, fork points, cuts) and base-ward execution | only an env's own commits replay, each exactly once; a resumed run repeats nothing | `Restack` |
| **Env init and destroy** (`init_service.py`, `destroy_service.py`) | env directory, worktrees, their registration and branches, registry entry, exclude block, provisioned resources | `ws init <env>`, `ws destroy <env>` | no work lost without `--force`, nothing orphaned, success means whole or gone | `EnvLifecycle` |
| **Follow of several providers' logs** (`modules/service/service_logs_service.py`) with the **subprocess runner** (`core/internal/local_subprocess_runner.py`) | reader threads, a bounded queue, process groups, the exit stack | spawn, read, consume, terminate, join | returns, leaves no process, signals no stranger's group, every line in order | `FollowLogs` |
| **Worktree operations** (`workspace_sync_service.py`, `workspace_merge_service.py`, `env_checkout_service.py`, `env_clean_service.py`, `git_ops_service.py`, `internal/write_repo_repository.py`) | worktrees, branches, tracking refs, the stash and the remotes | fetch, pull, merge, push, checkout, reset, clean, connect, disconnect | no work lost; a failure is not told as a success nor hides one; a diverged checkout is left alone | `GitRepo`, `WorktreeOps` |
| **Status and snapshots** (`internal/read_repo_repository.py`, `workspace_snapshot_service.py`, `nested_status.py`) | none | `ws status`, and what an outer workspace reads in its JSON document | what it calls saved is saved | `Status` |
| **Capability binding and manifests** (`modules/capability/`, `modules/provision/manifest.py`, `modules/service/ext_service_manifest.py`) | `winter-ext.toml` files and the workspace's tables | bind, override, parse, probe | the doctor's probe foresees what the parser refuses | `Manifests`, `Capability` |
| **Service dispatch, readiness, provision chain** (`modules/service/`, `modules/provision/`) | the providers' running services; what handlers did | up, down, restart, `up --wait`, apply, reset, destroy, clean | only what was selected is touched; the exit status is honest; a command ends | `Services`, `Provision` |
| **Workspace init, extension projection, prune** (`init_service.py`, `extension_skill_install.py`, `prune_service.py`, `agent_transform/`) | links, copies and rendered agents in the vendors' directories, exclude blocks, rows of `AGENTS.winter.md`, clones | `ws init`, `ws prune` | an init leaves every extension current and hidden, whatever it found; prune takes no work | `Extensions`, `Projection` |
| **Doctor** (`modules/doctor/`) | none | `winter doctor` | it finds something exactly when something is wrong | `Doctor` |
| **Env bands** (`env_band_resolver_service.py`) | none (a fixpoint) | resolve the `[env]` bands | who holds a key does not depend on the order of resolution | `EnvBands` |
| **Lint** (`modules/lint/`) | none | resolve scopes, run checks, apply ignore rules, tell stale rules | success means all was checked; a rule hides only what it may | `Lint` |
| **Configuration and overlays** (`config/workspace.py`) | `config.toml`, `config.local.toml` | merge, load, refuse | what winter writes still loads | `Config` |
| **Nested delegation** (`nested_workspace_service.py`, `nested_overlay.py`) | the nested workspaces' overlays, the chain of calls | verify, delegate, init | slices of ports do not overlap; no unbounded fan-out | `Nesting` |
| Service catalogue, log line processing, the dashboard's screens, scaffolding, agent matrix and graph, plugins, tracing, the command line | none, or derived on every call | queries, rendering, wiring | - | not modelled |

### How they interact

* **Commands** call one service each; a command owns its process. Threads exist
  inside a command only: one worker per repository in `init`, `fetch`, `pull`,
  `merge` and `update`, and one reader per provider in a follow.
* **Init and destroy share** the registry, the exclude file and the source
  checkouts' worktree lists; the registry's index decides the env's ports, so
  `EnvRegistry` sees the same two commands as `EnvLifecycle` does, one at the
  grain of file accesses, the other at the grain of phases. A bare `ws init`
  clones and projects (`Projection`), an env's init also delegates to the
  workspaces nested in it (`Nesting`).
* **Standalone repositories** go through the lock file. Each worker's git steps
  touch its own checkout (`StandalonePins`, one repository), and meet the other
  workers' only in the lock file (`ConfigLock`, many repositories).
* **Destroy calls** nested workspaces (a `winter` of their own), service
  providers, the provision chain's teardown and extension hooks. They can take
  minutes, fail, and run while the user goes on working; in `EnvLifecycle` they
  are steps with an outcome. What a nested workspace says of itself is what
  `Status` composes with `WorktreeOps`.
* **Provision** starts the services its handlers require through the same
  dispatch as `winter service up`: `Provision` extends `Services` (the fan-out)
  and `Capability` (who is bound), which extends `Manifests` (what is declared).
* **Doctor** looks at what `Projection` leaves and works out on its own what that
  should be: `Doctor` extends `Projection`.
* **A follow** owns process groups. Readers, main thread, SIGINT and the
  processes themselves interleave; the queue between them is bounded.

### Where the difficulty is

`PROJECT.json` "hazards" lists each at its line. In short:

* *kills and partial failures*: every write of `state.toml` and `config.lock`
  truncates first; a destroy has ten phases and a failure in most of them does
  not stop it; a lane of a pull raises while the others go on; a chain of
  provision handlers or a fan-out of providers fails half way;
* *stale checks*: destroy's safety check is minutes older than its deletions; the
  restack plan is older than its execution; prune asks a question between its
  list and its removals; a delegation measures nested files and then writes them;
* *interleavings*: the threads of an init wire tracking in any order; extensions
  whose prefixes extend one another install and prune in parallel lanes; a
  reader's `wait` races `terminate`; a push moves a branch that another worktree
  has checked out;
* *repetition*: most commands are meant to be re-run after they stopped, so
  properties range over sequences of commands;
* *two implementations of one rule*: doctor's probes and init, the manifest probe
  and the parser, staleness and suppression in lint;
* *termination*: readers blocked on a full queue, `up --wait` on a service that
  never becomes healthy, entries of the env bands that wait on one another.

## 2. The modules

A module has one action per step that another actor can come between: a file
access in the registry and the lock, a git call in the pins and the worktree
commands, a link of the plan in the restack, a phase (or one repository's part
in it) in the lifecycle, a blocking operation in the follow, a provider call in
the dispatch, a vendor's directory in the projection, an entry in the bands.
Messages, formats and layout are left out.

**Registry.** `EnvIndex` is `env_index.py`'s arithmetic: fixed alias indices
1..N, the buffer N+1, the hash band N+2..M with its wrapping probe. `Digest` is
the first two bytes of a name's SHA-1, as any number. `EnvRegistry` holds
`aliases` (the config), `file` (`state.toml`), `dirs` and, for each process, its
step and the document it has loaded: `BeginInit → ClaimFixed / Probe / KeepRecorded
→ LoadDoc → Truncate → Fill` and `BeginDestroy → RemoveTree → LoadForRemove →
Truncate → Fill`. `Crash` may hit any step, `RemoveByHand` deletes a directory,
`EditAliases` replaces the alias list by any other one of the instance; `lists`
is the history of those configured so far. `IndexPool` is the abstract promise
(claim when free, keep, release); a half-written file stands for the document
being written. `Overlap` lets commands of several processes interleave, which
the registry's docstring excludes (`toml_env_index_registry.py:22`), so the run
has it FALSE.

**Lock.** `ConfigLock`: one worker per repository. `BeginInit` starts with the
unguarded look of `_apply_standalone_pin` (`LookFresh`, `LookStale`,
`LookTorn`); `BeginPull` goes to the upsert directly: `Enter` the mutex, `Read`,
`Truncate`, `Fill`. `LockTable` is the abstract table, and
`PinsLock` the refinement, over entries like those of `StandalonePins`.

**Pins.** `StandalonePins`: one standalone repository. Commits are a position on
origin's trunk plus whether local work is on top; the stash is a sequence of
entries of the user's or winter's own; `ref` and `lock` are the pin and its
entry. Each git call of `ws pull` (`Pull...`), `ws update` (`Update...`),
`ws freeze` and `ws init` is an action with its success and failure outcomes, the
errors nobody catches among them (`PullRaises`, `UpdateRaises`);
`Surroundings` has kills, origin's advance, and the user's edits, commits,
stashes and pin changes.

**Restack.** `Restack`: a commit is the sequence of patches below it, so ancestry
is `IsPrefix`, a merge base the common prefix, and a rebase the replay of what
is past a boundary. `Start` makes the whole plan (every refusal in
`env_restack_plan_service.py`, in its order, then the frozen boundaries from the
reflogs); `Execute` runs one link in one repository: `Skip`, `Rebased`,
`Conflict` or `Fail`. The user edits, commits, amends, switches branches,
continues or aborts a stopped rebase, and pulls main.

**Lifecycle.** `EnvLifecycle`: one env over all its repositories. `cmd` records
the running command with its phase and what it has read. `DestroyCheck` is the
safety check, followed by nested envs, services, teardown (data, resource),
hooks, worktrees, directory, exclude block and entry; init is `MakeDir`,
`WriteExclude` with the inference of the upstream, then per repository
`CreateTree → WireTracking → Bootstrap` in any interleaving, then `InitHooks`.
`cmd.late` is a history variable: what was written after the check.

**Follow.** `FollowLogs`: `pc` is the main thread's place in `_follow_many` and its
exit stack, `call` the `terminate()` it is in (`Acquire`, `TermGroup`,
`KillGroup`, `Reap`), `reader[p]` the step of a reader thread, and
`leader`/`member` a process group: its leader, and a descendant that may hold
the pipe open or outlive the leader. SIGINT arrives at a blocking operation of
the main thread (`SpawnInterrupted`, `LoopEnds`, `DeferSigint`,
`JoinInterrupted`). `StreamMerge` is the abstract stream: each provider's lines
in order, all of them if the stream ends complete.

**Worktrees.** `GitRepo` is one repository as a record (`origin`, `track`, `heads`,
`up`, `stash` and the checkouts `at`) and what `WriteRepoRepository` does to it,
as operators. A history is the set of the changes below a commit: an ancestor is
a subset, a merge and a rebase both end at the union. `WellFormed` is what git makes of
every repository. `WorktreeOps` runs the
commands over it. Fetch, pull and merge have a lane per repository (`Fetch`,
`FetchAgain`, `FetchFails`, `FollowMain`, `Integrate`, `SecondAttempt`, `Abort`,
`Collect`, `Raises`); the other commands go through the checkouts one by one in the
calling thread (`Classify` and then `CheckoutMove`/`ResetMove`, `Preview` and then
`CleanOne`/`CleanPartly`, `PushOne` and its answers, `Connect`). `told` is what was
reported, `done` what was done. `Status` adds the read side over the same
repositories: a visit of a checkout, the snapshot document, and `ReadsSafe`, the
question an outer destroy asks of that document.

**Dispatch and provision.** `Manifests` has the forms of a `[provision]` and a
`[[service]]` entry, what the parser refuses, what the doctor's probe finds, and
which repositories are extensions. `Capability` binds the service capability to
them, explicitly, implicitly or by the override of one invocation. `Services` is
the fan-out: a dispatch (`disp`) is a list of cells (provider, scope), called in
order; `running` is what the providers run. `Provision` has the commands on top:
the poll of `up --wait`, and for each environment and sub-target the service
check, the handlers, and what a failed script leaves to run. `ran` records the
scripts, `stream` whether the event stream was closed.

**Projection and doctor.** `Extensions` says which repositories project what, under
which prefix, and which files of a vendor's directory a prefix reaches; names are
sequences of their dash-separated parts, so that prefixes can overlap. In
`Projection` the bare init clones, serves one vendor after the other and renders
agents, one lane per repository, then retracts opted-out extensions and writes
the routing rows; prune lists, asks and removes. What an earlier winter or the user
left in a vendor's directory is a link, with what it leads to, or a directory; an
opted-out extension's retraction takes links where the vendor has links and
directories where it has copies, under any prefix the live extensions leave it. `Doctor` has the probes of
skills, agents, clones and links, as operators on the same state.

**Bands.** `EnvBands` is the fixpoint of `resolve`: rounds of two passes over the
declared entries, literals, single-value and multi-value commands. A value is
what it was made of: entries, and managed variables, `WINTER_ENV` and
`WINTER_ENV_INDEX` with the scope that gives them. `outcomes` keeps what each scope
ended with, so that two scopes can be compared. `Reason` is the line that is printed for an entry left over.

**Lint.** A request is resolved into scopes; per scope the checks contribute
findings, which the two surfaces of ignore rules partition; stale rules are told.
`broken` records each check that did not do its work and how: a script that exits
badly or prints what is no finding, a markdown file that cannot be read, a provider
whose binding fails. `SuccessMeansChecked` asks what is told of these.

**Configuration and nesting.** `Config` merges two layers and says what the loader
refuses (`Loads`). `Nesting` runs `winter ws init <env>` over the workspaces nested
in the env's worktrees: a nested status verifies which workspace is found
(`Check`, `ReadNested`, `StatusEnds`, with the chain of calls), `Measure` computes
the slice and the inherited keys, `Write` stores them, `NestedInit` starts the
nested command. `Edit` changes a configuration between any two steps.

`MC*.tla` give the constants that a `.cfg` cannot. `*Proof.tla` hold the theorems.
A definition with the comment *Mutant:* is a wrong form of the operator after it,
with the slip a change to the code could make (a guard dropped, a reset
forgotten, an order swapped); no specification uses it. `PROJECT.json` says
which property each one violates when it replaces the operator.

## 3. The runs

`tlc -config <run>.cfg <module>` runs one. Each of these must end without an error.

| Run, module | Instance | Properties |
|---|---|---|
| `registry_core`, `MCEnvRegistry` | 5 indices; one alias and two names that may become one, two hashed names; aliases appended, dropped, inserted before others, moved; digests that collide at the band's end; a kill at any file access | `UniqueIndices`, `HandedOutStays`, `ImplementsPool` |
| `lock_upsert`, `PinsLock` | 3 workers, 2 entries, kills | `ImplementsTable`, no deadlock |
| `pins_core`, `MCStandalonePins` | 2 commits on origin; branch, tag, unresolvable and absent pins; the user's stash entry; each git call may fail | `AutostashRestored`, `ReportedPinHolds` |
| `restack_core`, `MCRestack` | a stack of 2 envs in 2 repositories, with and without `--cut` | `OwnCommitsKept`, `ResumeSkipsCompleted`, `StandsOnPredecessor` |
| `lifecycle_core`, `MCEnvLifecycle` | an ordinary, a pinned and a nested repository; 3 commands, 2 acts of the user, 1 fault or kill | `WorkKept`, `SuccessLeavesNothing`, `NothingOrphaned`, `SuccessIsWhole` |
| `follow_core`, `FollowLogs` | 2 providers, a queue of one event, 1 line each, 2 SIGINTs or faults in any mix | `SignalsOwned`, `NothingLeft`, `ExitHonest`, `ImplementsMerge`, `AlwaysReturns` |
| `worktree_core`, `MCWorktreeOps` | 4 repositories (one with the worktrees of two envs, one with one, one with a pin, a standalone one), 6 situations, 19 command lines, the user at work in the first, others pushing, every attempt at the network and one git call failing | `WorkKept`, `DivergedUntouched`, `CleanStaysClean`, `Accounted`, `ReadsSafeOnlyWhenSaved` |
| `dispatch_core`, `MCProvision` | 9 lists of patterns for up, down and restart, 14 provision command lines; 9 workspaces that differ in who is bound and what `describe` tells, 11 that differ in the binding, 112 with one faulty table; 2 failures | `OnlySelected`, `ExitHonest`, `ChainHolds`, `ProbeForesees`, `EveryRunEnds` |
| `projection_core`, `MCProjection` | 9 workspaces of 2 repositories (prefixes that are equal, extend one another, differ, or are the workspace's own; an extension, a plain repository; links and copies of an older winter or of the user, some to a wrong target); 2 commands, 2 changes by the user, 1 fault | `InitProjects`, `PruneKeepsWork`, `DoctorSeesDrift` |
| `bands_core`, `MCEnvBands` | 4 entries in 6138 arrangements of order and bands, resolved for the workspace and an env, with commands run or held back | `FurthestDownHolds`, `SameButForTheScope`, `BlameReachesACause` |
| `lint_core`, `MCLint` | 9 requests in 288 workspaces of 2 repositories and 2 envs, files that cannot be read among theirs; 1 script, git call or binding that fails | `SuccessMeansChecked`, `SuppressedWhereDeclared`, `StaleIsSafeToDelete` |
| `nested_core`, `MCNesting` | five roots, two levels deep; one opening that is edited once while commands run, and 100 with one section of one configuration changed, or an inherited key; 1 fault | `SlicesDisjoint`, `NoFanOut`, `StillLoads` |

What they show, where the name does not say it:

* `UniqueIndices` says how the promise of uniqueness can fail and how not: two names
  share an index only where one of them was written to its fixed index as an alias,
  and not while the lists configured so far differ by an alias at the end. A kill, a
  removal by hand or the probe never makes such a pair.

* `HandedOutStays` follows an index from the end of an env's *first* init to its
  destroy, through the inits and destroys of other envs, removals by hand and
  later inits of the same env. A kill inside the write, which loses the file, and
  an edit of `env_aliases` end what an env was promised; what comes after them
  is `UniqueIndices`'. `ImplementsPool` is a refinement, and speaks of unedited
  aliases.
* `AutostashRestored` covers the paths that `ws update` and `ws pull` handle. A pull whose
  integration raises after the stash has nothing that pops it; `leftover` says so, as it
  says that a command was killed or its pop conflicted.
* `ReportedPinHolds` looks at a whole command, including one that follows a
  command killed between its checkout and its lock write.
* `OwnCommitsKept` compares each branch with a history variable of the commits
  the user made, as amended, in order; so a duplicated, dropped or reordered
  commit violates it, and so does one from another env only if it pushes out an
  own one; the rest is `StandsOnPredecessor`'s.
* `ResumeSkipsCompleted` ranges over all links. One of a `--cut` whose cut is in its
  base's history may be replayed, and then onto what it stands on already: it says that
  the replay makes the commit that is there.
* `WorkKept` of `EnvLifecycle` excepts what was written after the safety check:
  destroy does delete that (`modules/workspace/destroy_service.py:410`), and no
  document promises otherwise. A nested env's uncommitted changes have no such
  exception, because the nested `winter` checks again.
* `NothingOrphaned` says of every single deletion of a worktree what must be down by
  then, and what `--strict` adds to it.
* `WorkKept` of `WorktreeOps` is about changes, not commits: whatever a command
  rebased, merged, reset or stashed, each change is still in a branch, a stash, a
  checkout or on origin, unless a flag of the command line gives it up, or `GivenUp`
  names it: what the user had resolved in a merge that an abort of winter's takes back,
  a bare sha named on the command line whose merge is aborted, and the commits that a
  soft or mixed reset drops from HEAD and the tree does not show. `Accounted`
  holds the outcomes a command told against what it did to each worktree.
* `DivergedUntouched` compares a checkout reported diverged with what the command found,
  byte for byte of the model; where the second attempt met the user's own unfinished
  merge, with what the checkout was before that merge.
* `ReadsSafeOnlyWhenSaved` composes the read side with all of these commands: in
  every state they reach, a document on which an outer destroy would go on
  describes checkouts whose work is on origin. What it leaves aside is what the
  document has no field for (section 4).
* `ProbeForesees` relates two implementations of one rule over every declaration
  in the instance: when `winter doctor` finds nothing, the `[provision]` tables it looked
  at are accepted and their handlers run. What it does not look at (`Unlooked`) is in the
  instance too: an extension where adopt_extensions is off, a manifest refused for another
  table, a required_services that is no list.
* `InitProjects` makes no assumption about what the init found: the state before
  is what earlier commands, killed or failed, and the user left. `DoctorSeesDrift`
  is an equivalence: no finding without a cause, no cause without a finding, but that
  where a link of the right name leads is not looked at.
* `SameButForTheScope` is about two scopes: the same entry writes the key, of the same
  entries and the same managed variables, whatever the upper bands do. The value may still speak of the scope.
  `WorkspaceConfined`, of one scope, is proved (section 7) and not run.
* `SuccessMeansChecked` names how a run may exit 0 though a check did not do its work: it
  then has a warning told, or a finding that the ignore rules may hide. Two things pass
  without a word: a file that cannot be read, and a `--changed` scope that git could not
  tell (section 4).
* `FurthestDownHolds` compares the fixpoint, computed round by round in the order of
  the declarations, with a definition in which no order occurs.
* `StaleIsSafeToDelete` compares two runs: what a lint reports with a rule it told
  stale, and without.
* `SlicesDisjoint` and `NoFanOut` hold for every prefix of an init, not its end
  only, since the nested commands run between its steps. `SlicesDisjoint` speaks of the
  slices delegated since the last edit that concerns them, and of workspaces that hand out
  ports at all: with a `ports_per_env` of zero or less, which the loader takes, none is.
* `StillLoads` looks into every section of a nested configuration after a delegation. It
  allows two causes of a refusal: an inherited key that fails a check against another
  section (`CrossCheck`), and an inherited table that meets a string.

## 4. Where the code and its documents disagree

Met while modelling, and kept here for whoever changes the code. The models do
what the code does, these cases included. A
property that would be false because of one says so in its comment, and says what holds all
the same; TLC finds the case when the exception is taken out of it. `UniqueIndices`,
`ResumeSkipsCompleted`, `WorkKept` and `DivergedUntouched` of `WorktreeOps`,
`ProbeForesees`, `InitProjects`, `DoctorSeesDrift`, `SameButForTheScope`,
`SuccessMeansChecked` and `StillLoads` have such exceptions.

*Registry, lock and pins*

* An alias gets its fixed slot without a look at the registry
  (`modules/workspace/env_index.py:203`), where `skills/setup/SKILL.md:399` has the
  buffer keep regrown aliases clear of recorded envs. An alias inserted or moved takes the
  fixed slot of a recorded one, two appended at once can reach a slot of the hash band that
  is taken; one appended alias lands on the buffer.
* `_apply_standalone_pin` looks at the lock without the mutex
  (`init_service.py:521`), may meet a sibling's truncated file, and then reports a
  corrupt lock where there is none.
* A pull of a branch pin has no `finally`: an integration that raises leaves the
  stashed edits in the stash (`workspace_sync_service.py:480`), as `update` does not.
  A tree that git cannot tell to be clean is stashed too, with nothing to save.
* A tree that is dirty with untracked files only makes `git stash push` succeed and
  save nothing; the pop then takes the user's own entry
  (`workspace_sync_service.py:482`, `:717`). `AutostashRestored` is about winter's
  own entries.
* A fresh lock of a branch pin checks out the branch as last fetched, not the
  locked commit (`init_service.py:527`; the init page, lines 30 to 32, promises the
  commit). `update` does not rewrite an entry of another ref that names the same
  commit.

*Env lifecycle and restack*

* A completed `--cut` link whose cut is in its base's history is replayed by every next
  run of the same command (`env_restack_service.py:154`), where the restack page (136 to
  138) says it reads as done. The replay makes the commit that is there.
* The port probe advises `winter ws destroy` for an entry without a directory;
  destroy returns before it reaches the registry (`destroy_service.py:203`).
* The rmtree of destroy's last phase runs even when `git worktree remove` refused
  (`destroy_service.py:410`), and the index is freed even when the directory
  survives (`:421`).
* Two `winter` processes can interleave on `state.toml` and `config.lock`; the
  registry's docstring excludes it, and nothing enforces that.

*Worktrees and status*

* `pull --merge`, `merge --merge` and `merge --no-ff` abort a merge the user had not
  finished, and what was resolved in it is gone (`internal/write_repo_repository.py:847`,
  `:923`, `:949`); the repository is then reported `diverged`, which the pull page calls
  left untouched.
* A soft or mixed reset to a sha drops from HEAD what only the reflog then has, and the
  abort of a merge of a bare sha drops commits that no ref ever held.
* A standalone repository whose upstream does not resolve has no ahead count in
  the document (`internal/read_repo_repository.py:316`), and one with a detached
  HEAD no branch: `ReadsSafeOnlyWhenSaved` speaks of what is told. The exit status
  of `ws status` does not reflect commits that are only local, nor stashes.

*Dispatch and provision*

* `service up <env>` with two providers and no workspace-scoped service exits 1 and
  skips `--wait`; `up --wait` exits 0 when the status document does not parse;
  a handler whose required service no provider knows is run as if it were up.
* A provider that prints no `describe` document makes the collection raise; the
  event stream of a provision is then not closed by `finished`.
* The probe does not check the type of `required_services`, or the version of an
  override; with `adopt_extensions` off it looks at nothing while provision still
  meets a broken manifest. A broken `[[service]]` table drops the manifest's
  provision handlers without a finding (`Unlooked` in `ProbeForesees`).
* Two or more implicit providers are bound without the checks one gets; of two
  extensions with one prefix, the second's scripts run in the first's settings.

*Projection and doctor*

* A bare `ws init` strips the marks by which `ws prune` would have found an opted-out
  extension's leftovers. An extension that opts out, and whose manifest has, covers or
  extends the workspace's own prefix, takes the workspace's skills with it, in the init
  that has just installed them (`init_service.py:187`).
  `.opencode/skill` copies are never pruned; a changed prefix
  or a lost manifest leaves its links; prefixes that extend one another prune each
  other's copies, which is why `InitProjects` speaks of unambiguous extensions.
* Prune checks that a clone is safe before it asks, not after
  (`prune_service.py`); and it offers the clone of a declared project that stopped
  being an extension, where its page says undeclared ones only.
* The doctor expects a skill named like its prefix under a doubled name, does not
  see a bare copy, counts every `ws-*` file as an orphan when no prefix is known, and
  does not look where a link leads, which its comment takes for granted
  (`modules/doctor/skill_probe_service.py:337`).

*Env bands, lint, configuration, nesting*

* What a workspace entry makes of `WINTER_ENV` or `WINTER_ENV_INDEX` differs from scope to
  scope, where a docstring has it resolve identically, and whether it
  resolves can depend on the scope too. What it is made of does not
  (`WorkspaceConfined`, `SameButForTheScope`). Holding commands back can mask a reference the
  band forbids, and can fail a computation that running them completes; some
  failures are called a cycle that is none.
* A workspace rule that is idle in one env is told stale although another needs it;
  so can be a rule over files that `--changed` covers in part, or of a check that
  broke (`StaleIsSafeToDelete` is not claimed for these). The lint reporter's
  findings are not cleared between scopes (`modules/lint/lint_reporter.py:74`). A
  failing `git status` makes `--changed` an empty scope with exit 0, and a markdown file
  that cannot be read is passed over. A script that prints what is no
  finding costs a warning, and the run exits 0.
* A nested entry with a url and no name is never found in the order of the
  repositories (`container.py:517`), though its page makes the name optional.
* Keys an outer workspace hands down (layout, tiers, overrides, a prefix) can leave
  a nested configuration refused, and every later init stops at its verification before
  anything is copied, where config-files.md (100) has the copy happen on every one.
  So can a table handed to a workspace whose own file has a string there: the two no longer merge. `StillLoads` says that there is no other way. A key that
  is no longer handed down stays. A zero slice, a `ports_per_env` of zero or less and
  duplicate aliases are not refused.
* A table in the overlay where the base has a string is an error that no message
  explains; an overlay entry of another kind erases the list it meant to extend.

## 5. Bounds

Every bound is a constant or an operator of an MC module.

* `registry_core`: `EnvsPerWorkspace = 5` with one to three aliases leaves a band of
  three slots to one for the hashed names: probes collide, wrap and find
  the band full. From `<<alpha>>` an edit appends one alias, or inserts one and appends
  another. One process suffices where commands do not overlap; more envs only
  lengthen the probe.
* `lock_upsert`: three workers are the least with which one holds the mutex, one waits
  and one looks; two entries tell an old value from a new one.
* `pins_core`: `MaxTip = 2` is the least with which origin, the fetched ref and HEAD
  differ; `MaxStash = 1` entry of the user's besides winter's own. `[work]` is a flag:
  whether local commits exist, not how many.
* `restack_core`: two envs are the least chain with an upper and a lower link, two
  repositories the least in which one can be finished and the other not. One
  edit and one pull, on top of histories that may already hold one commit of each
  env and reflogs that do or do not remember older positions. Histories are
  linear, and reflogs do not expire.
* `lifecycle_core`: one repository of each kind; three commands are the least for
  *init, a destroy that fails half-way, and the command after it*; two acts of
  the user let one happen before and one after the safety check; one fault makes
  every single failure or kill happen at every step.
* `follow_core`: a queue of one event makes every reader meet it full; two providers
  are needed for one to run while the other is terminated; the second SIGINT is
  the one that interrupts the cleaning up after the first, and a fault and a SIGINT
  share the bound.
* `worktree_core`: `MaxCommands = 1` command from each of six situations that stand
  for what earlier commands and the user leave (behind, ahead, diverged, dirty,
  detached, on main). The user may have a merge in progress when any command comes.
  `MaxMeddling = 1` act of the user or push
  of another comes at any step; `MaxFaults = 1` git call fails, besides the
  network, which may fail at each of `MaxAttempts = 2` attempts (the code has three:
  the second already is a retry of what may have been done). Two worktrees of one
  repository, and two of one env, are what lanes and branches share.
* `dispatch_core`: two providers and two scopes; `MaxFaults = 2` lets the call that
  answers a failure fail too; `Deadline = 2` polls see a service become healthy
  before, at, or never by the deadline. The 112 tables are one fault in each
  field of each form, with extensions adopted and not.
* `projection_core`: `MaxCommands = 2` are an init and the init or prune that meets
  what it left; `MaxEdits = 2` let the user change the configuration and the files;
  `MaxFaults = 1` step fails or is killed. Two extensions are the least that collide.
* `bands_core`: four entries make a chain of references across three bands with one
  to spare for a competitor for the same key; a computation reads at most one key.
* `lint_core`: two repositories and two envs are the least with scopes that
  overlap, contain one another and are disjoint; one finding per check and path;
  `MaxFaults = 1`.
* `nested_core`: two siblings compete for a slice, and the third level is what a
  mistaken root makes unbounded. One edit, at any step; `MaxFaults = 1`.

`CHECK_DEADLOCK FALSE` stands where the system may stop: a follow or a lint that has
returned, the bounds on commands or edits used up, or a workspace whose
configuration does not load, in which no command starts. The registry, lock and
pin runs check for deadlock.

## 6. Fairness

Two runs have liveness properties; the others state no fairness.

* `follow_core` (`FollowLogs!FairSpec`): weak fairness for the main thread's step and
  for each reader's, since the threads of the process run on. The providers'
  processes have none: they may write, exit, or hold their pipe for ever, and
  SIGINTs and faults need not happen. This is why `AlwaysReturns` has a premise:
  the follow was interrupted or failed, or every provider is gone.
* `dispatch_core` (`Provision!Spec`): weak fairness for the command's own steps (`Step`).
  A service need not become healthy, nor a provider answer with a document that
  parses: those outcomes are actions outside the fair ones, and `EveryRunEnds` must
  hold because of the deadline and the end of each list alone. Provider calls and
  handler scripts are assumed to return; the code has no timeout for them.

## 7. What is proved

The theorems hold for all values of the constants that satisfy the modules'
ASSUMEs and the hypotheses named here: any number of environments, repositories,
providers and worktrees, any bound on commands, faults and acts of the user, any
interleaving. The provers are given no step on trust.

**Registry** (`EnvRegistryProof`). `TypeCorrect` has no hypothesis. The others
assume that commands do not overlap (`~Overlap`), as the registry's docstring does:

* `RegistryHandedOutStays` (`[]HandedOutStays`) and `RegistryImplementsPool`. `KInv`:
  at most one process is in a command (`Alone`); what it has read is still what the
  file holds (`Known`); an index that was handed out is in the file, or in the
  document of the rewrite under way (`Remembered`). A step that stores is then a
  step of `IndexPool`.
* `RegistryInBand`: until the alias list is edited, every recorded index is an alias's or
  lies in the hash band.
* `RegistryCollisionFree` (`[]UniqueIndices`), for any alias lists and any edits from one
  to another. Uniqueness is not inductive, because a process carries a slot chosen by an
  earlier read, so each half of the property has an invariant that also speaks of the
  slots and documents that processes hold. `SoundSoFar`: while the lists configured so
  far differ by an alias at the end, everything recorded or about to be has its
  place in them, and no two share it. `PairsExcused`: whatever the lists, of a
  pair that shares an index one was written to the place of its alias. The
  first entry of section 4 shows such a pair. `ProbeSlotInBand` is the arithmetic of
  the probe.

**Lock** (`StandalonePinsProof`, whose second part takes `ConfigLock` as the
instance `Lock`). `LockTypeCorrect` and `LockImplementsTable`, for any
number of workers, with kills. `LInv`: what the mutex's holder read is what the file
holds until it truncates it, and the file is unreadable while it fills it.

**Pins** (`StandalonePinsProof`). `PinsTypeCorrect`, `PinsAutostashRestored` and
`PinsReportedPinHolds`, under `PinAssumption` only (bounds are numbers, names are
distinct); the first with the exceptions of the property (a pull whose integration
raises, a kill, a pop that conflicts). `SInv`: at most one entry of winter's own is in the
stash, on top, and only while a pop is still to come. `PInv` follows a command to its report: one that is
about to record has moved HEAD to what it will write, one that pops the stash
first has a result that holds already, and a pop moves neither HEAD nor the lock.

**Restack** (`RestackProof`), for any number of envs and repositories, any edits, pulls,
conflicts, continued or aborted rebases, and kills. `RestackTypeCorrect` has no
hypothesis. The other three assume `CommandsInOrder`: the commands of a behaviour can
be laid along one order of the stack, in which the env that others started on comes
first. The code keeps no record of the stack, and the restack page declares a chain typed
backwards a limit (`restack.md`, 113 to 126): `refused-inverted-order` lets it through in
two shapes. `OwnCommitsKept` and `StandsOnPredecessor` are false of such a chain: TLC,
given `e1 e2 main` besides the run's commands, finds the collapse that the page tells of
after a `--cut`, where e1's commits are in no branch any more. The run's instance has an
order.

* `RestackOwnCommitsKept`. `OwnInv`: a branch, and the two halves of a stopped rebase of it
  put together, carry the env's commits in their order (`TipsCarryOwn`, `StopsCarryOwn`);
  nothing of an env is in a branch, a rebase or a boundary of one below it
  (`BranchesUpward`, `StopsUpward`, `JobsUpward`), so a replay from a boundary drops none.
* `RestackStandsOnPredecessor`. The plan is frozen and executed later, so `PlanHolds`
  says that what was planned is still true: the jobs left go up the chain, and each
  boundary still is its link's, in the branch or in what a rebase stopped with.
  `Unrepeated`, no patch twice on a branch, makes it so that the commits above a
  boundary are the env's; `JobsApart`, that no job moves a branch another has yet to
  move.
* `RestackResumeSkipsCompleted`. `DoneHolds`: a finished link fits its predecessor and so
  do those below it, and what a stop left, once continued, does too. A plan made
  anew of branches that fit has no job for them, unless the link is cut. A cut link may
  have one; its commits sit on its predecessor's already, so the replay makes the
  commit that is there.

Commits are sequences of patches here, and what `Only` and `FlattenSeq` compute of them
is proved by induction on a set of sequences, which needs no operator as a
parameter (`SeqInduction`).

**Lifecycle** (`EnvLifecycleProof`). `LifecycleTypeCorrect`, `LifecycleWorkKept`,
`LifecycleNothingOrphaned`, `LifecycleSuccessLeavesNothing` and
`LifecycleSuccessIsWhole`. `WInv`: past the check of a destroy without `--force`,
every worktree with work that could be lost is in `late`, and a nested env that still
exists is one the nested phase has yet to visit, or one whose failure will stop the
command before it deletes anything. `CInv` adds what each phase leaves done for the
later ones, unless the failure of a phase was reported: services are stopped
(`Stopped`), provisioned resources torn down (`TornDown`), worktrees, directory and
exclude block gone in this order (`Removed`), and, in an init, the parts built so far
(`Built`); `Rooted` says that worktrees and registrations come and go together.

**Follow** (`FollowLogsProof`). For any number of providers, any queue, and any
number of SIGINTs and faults:

* `FollowSignalsOwned`, `FollowNothingLeft`. `FInv`: a group that may be alive has its
  handle on the exit stack, or in the hands of the interrupted spawn (`Held`); a
  terminated handle has no process left (`Groups`); the passes of the clean-up visit
  the whole stack (`Passes`); a `terminate` signals only a group whose leader it has
  found unreaped under the lock, which keeps it so (`CallOK`).
* `FollowExitHonest`, `FollowImplementsMerge`. `SInv`: each line that a reader has put
  and the follow has not shown is in the queue, behind the provider's earlier ones and
  before its code (`Lines`, `Lasts`); `remaining` counts the providers whose last event
  is still to be taken (`Merging`); a follow that left its loop for no other cause has
  shown all that was written, and a code that was bad made the result bad (`Whole`).

**Env bands** (`EnvBandsProof`). `BandsFurthestDownHolds`, `BandsWorkspaceConfined` and
`BandsBlameReachesACause`, for every finite list of entries (`SetupsAssumption`), every
sequence of runs (`RunsAssumption`: each resolves for the workspace or an env, with
commands run or held back) and every order in which a pass may take the entries. `BInv`:
an entry that counts is still to be tried in this pass, the next, or the next round, or
what it has to say is said by it or by one further down (`NoneLost`); and no value of a
workspace entry is made of one from a band above, nor of the managed port
(`Confinement`). The third adds `Supplied` (a managed variable has a value, and a
workspace literal is what workspace entries see, or one further down), so an entry that
is left over without a cause of its own refers to one that is left over. What a blocked
entry reaches by such references shrinks at every step, since one that reaches itself is
called a cycle, which is a cause; so a cause is met in as many steps as there are
entries.

**Nesting** (`NestingProof`), for any tree of workspaces, any files in them, any number
of commands, one after the other, and any edit between two steps:

* `NestingNoFanOut`. `LanesChained`: a call carries the workspaces of all the calls it
  descends from, and only the last may be in one of them.
* `NestingSlicesDisjoint` (`[]SlicesDisjoint`). The assumption is what a TOML parser makes
  of a file (`ParsedFiles`): a key that takes a number has one or something else, an
  array has entries. The property speaks of the files as they are, but a slice was
  measured from the configuration that the command had started with, and of files
  read before the write. `LanesMeasured` says what a lane that has measured knows: the
  slice's base, its size and that the footprint of the files it saw fits; `FilesParsed`,
  that no write or edit leaves a file unlike a parsed one. `FreshFits` is the
  strengthening of the property: a workspace in `fresh` lies, with its whole
  footprint, in the slice that its place in the *present* outer configuration gives it.
  From there it is arithmetic: two places give slices that do not meet
  (`SlicesApart`), two envs give bands that do not, and place 0 is the env's own.

**Worktree commands** (`WorktreeOpsProof`), over all of `GitRepo`, `WorktreeOps` and
`Status`. Each operator of `GitRepo` has a lemma that says what it moves
(`Moved`, one checkout; `Synced`, refs only), and each action one that says whether
it is *calm*: keeps every change, grows refs only, hides nothing, starts and ends no
merge, and leaves no clean checkout dirty. Only the second attempt of an
integration, its abort, a forced checkout and a reset are not calm, and they are
what the invariants are about.

* `TypeCorrect` (`[]TypeInv`): every repository stays `WellFormed` (HEAD is at a
  commit, no two checkouts share a branch, a remote-tracking ref is no further than
  the remote's branch), and every lane is at a step of its command with checkouts of
  its own repository.
* `SafeReads` (`[]ReadsSafeOnlyWhenSaved`), for any outcome of the workspaces nested
  deeper.
* `OutcomesHonest` (`[]Accounted`). `AccountInv`: what was told was done, what was done
  is told or held by a lane that has yet to tell it, and a thread that raises unwound
  before a deletion it would not report.
* `WorkIsKept` (`WorkKept`), for any command lines, with any merge of the user's in
  progress at any time. `WorkInv`: a lane that is to abort knows the checkout it found
  (`BaseInv`); what a stopped merge of the command's own added to a tree is in a ref
  or is the bare sha of the command line (`AbortInv`, `HeldInv`), so that its abort
  loses nothing else; and before a destructive command moves anything, all it saw is
  saved (`SeenInv`). The abort of a merge that was there before the command is
  not covered by `AbortInv`: what it takes back is what `GivenUp` names.
* `DivergedIsUntouched` (`DivergedUntouched`), as unconditional. `BaseInv`: the second
  attempt starts from the checkout as it was found, and the abort of what it left
  returns there; where it met the user's own merge, to what git has on record from
  before that.
* `CleanIsKept` (`CleanStaysClean`). `MergeInv`: a rebase in progress is the command's own;
  `DirtyInv`: a merge in progress shows as a dirty checkout; `LackInv`: the ref that a
  second attempt integrates still has a change that HEAD lacks. It is the only one with
  a hypothesis, `MergesShow`: a merge that is in progress at the start is the user's, and
  the checkout is dirty. A merge that the user begins later satisfies it, since the
  model starts one with something to commit.

The proofs are laid out as one lemma per action or group of actions that says what
it preserves, and a last step per theorem that puts them together.

## 8. What is only model-checked, and what is not modelled

*Out of the prover's reach*: liveness under fairness (`AlwaysReturns`,
`EveryRunEnds`) and ENABLED; theorems on induction, which take an operator; what
`SelectSeq` returns, whose definition the prover does not have, and whatever a
recursive operator computes. Where a proof needs a fold or a filter, as in `Restack`
and `Nesting`, the model has a recursive function (`Only`, `MembersAt`) and the
induction is by a least counterexample in a set.

*Not proved*, and checked on the run's instance only:

* `ExitHonest`, `ChainHolds`, `ProbeForesees` and `OnlySelected` of
  `Provision`: they compare histories that are built with `SelectSeq` over what
  `Manifests` and `Capability` filter with it.
* `InitProjects`, `PruneKeepsWork` and `DoctorSeesDrift` of `Projection` and `Doctor`,
  and the three of `Lint`: the same; and `SuccessMeansChecked` and
  `SuppressedWhereDeclared` compare a run with what a reference definition makes of the
  request.
* `SameButForTheScope` of `EnvBands`: it compares what two runs of one behaviour left,
  and would need an invariant over pairs of resolutions.
* `StillLoads` of `Nesting`: it looks into every section of a configuration, and a value
  of another kind is a model value there (`Bad`), of which TLC cannot evaluate the
  assumption that it is no table.

`WorktreeOps` keeps the jobs of a lane as a set that is taken in the order of the
worktrees, and `EnvBands` the queue of a pass as a set, because their proofs need no
more than that.

*Left out of the modelled components*:

* `EnvRegistry`: several processes at once, excluded by the code's own contract.
* `ConfigLock`: two `winter` processes; the mutex is one process's, and no document
  promises more.
* `StandalonePins`: the fan-out (`ConfigLock` has it) and the reports.
* `Restack`: merge commits in env branches, expiry of reflogs, `--dry-run`.
* `EnvLifecycle`: one command at a time; the source checkouts under `projects/`
  stay in place; `--dry-run` and the confirmation prompt; a destroy of several
  envs, which is one after the other; a nested workspace creates its env while no
  command of the outer one runs.
* `FollowLogs`: the follow of a single provider, the patterns that select lines and
  the line filters. A SIGINT is modelled at a blocking operation, before the
  operation has its effect, which is how the comment at
  `core/internal/local_subprocess_runner.py:127` sees it. Descendants stay in their
  process group; `killpg` fails with `ProcessLookupError` only, and the reaping of
  a killed leader does not fail.
* `GitRepo`, `WorktreeOps`, `Status`: pushes of others that rewrite origin, untracked
  files that a forced checkout overwrites, the limit of four lanes at a time (there
  are no more), an interrupt, and a user at work while a snapshot is read. A
  conflict is a possible outcome of every merge and rebase but a fast-forward.
* `Services`, `Provision`: a handler of scope *worktree* with several directories, the
  scope token of a selector, and the text of what providers stream.
* `Projection`, `Doctor`: what a vendor's rendering of an agent says; a repository
  declared twice (`Manifests` has that); an exclude file outside a repository; the
  doctor's probes of ports, versions and scripts, and its own report. The probes of
  the bands and capabilities are the modules of those.
* `EnvBands`: the arithmetic of an offset, and the formats of a value.
* `Lint`: classes of characters and adjacent `**` in a glob, directories that are
  always skipped, the filter by `.gitignore`, and the report.
* `Config`, `Nesting`: the sections that have a default and are not delegated, how a
  file is laid out when it is rewritten, and two inits at once.

*Components not modelled*: `PROJECT.json` "components" has the reason of each. The
service catalogue, the agent matrix and the graph are derived on every call; the
dashboard, log line processing and the command line parse and render; scaffolding
writes templates once; plugins, tracing and the container wire things together.

## 9. Plan

The order is by what a mistake would cost: data of the user first, then
processes left behind, then wrong reports.

Done: the modules of section 2, with the abstract specifications `IndexPool`,
`LockTable` and `StreamMerge`.

Next, in this order:

1. Theorems about `Provision` and `Services`: `ExitHonest` and `ChainHolds`, with
   `MembersAt` for the filters and the fan-out as a set of cells where its order does
   not matter.
2. Theorems about `Projection` (`PruneKeepsWork`, then `InitProjects`) and `Lint`
   (`SuccessMeansChecked`).
3. A refinement: the teardown steps of `EnvLifecycle` are what `Provision` does in
   a destroy, seen from outside.
4. The engine of key chords in the dashboard, against the table it is built from;
   the doctor's remaining probes.

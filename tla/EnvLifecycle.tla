---------------------------- MODULE EnvLifecycle ----------------------------
(***************************************************************************)
(* The life of one feature env: `winter ws init <env>` (InitService) and   *)
(* `winter ws destroy <env>` (DestroyService), over everything they write: *)
(* the env directory, each repository's worktree, its registration and its *)
(* branch in the source checkout, the registry entry, the exclude block,   *)
(* the provisioned resources, the extensions' per-env state, and what a    *)
(* nested workspace keeps inside its worktree.                             *)
(*                                                                         *)
(* One command runs at a time; its user edits and commits while it runs,   *)
(* and it can be killed between any two steps.  The source checkouts under *)
(* projects/ stay in place.                                                *)
(***************************************************************************)
EXTENDS FiniteSets, Naturals

CONSTANTS
    Repos,        \* the [[project_repository]] entries
    Nested,       \* those declared `nested = true`
    Pinned,       \* those declared pinned
    Refs,         \* the upstream refs a branch can track
    Main,         \* origin/<main_branch>
    MaxCommands,  \* bound: commands issued
    MaxActs,      \* bound: what the user edits, connects or removes
    MaxFaults     \* bound: git, hook, handler and disk failures, and kills

ASSUME RepoAssumption ==
    /\ Nested \subseteq Repos /\ Pinned \subseteq Repos
    /\ Main \in Refs /\ "none" \notin Refs /\ "untracked" \notin Refs
    /\ MaxCommands \in Nat /\ MaxActs \in Nat /\ MaxFaults \in Nat

VARIABLES
    env,         \* the env directory exists
    tree,        \* the worktree of a repository: absent, clean or dirty
    registered,  \* `git worktree list` of the source checkout names it
    branch,      \* the env's branch there: none, untracked, or the ref it tracks
    entry,       \* the env has an entry in .winter/state.toml
    exclude,     \* the exclude file holds the block winter-dir/<env>
    prov,        \* what is provisioned
    hooked,      \* the extensions hold per-env state
    nested,      \* the feature env of a nested workspace: none, clean or dirty
    unpushed,    \* the nested workspace holds work that exists nowhere else
    services,    \* its workspace-scope services run
    cmd,         \* the command that runs
    result,      \* how the last command ended
    issued, acts, faults

disk == <<env, tree, registered, branch, entry, exclude, prov, hooked, nested, unpushed, services>>
vars == <<disk, cmd, result, issued, acts, faults>>

Subtargets == {"data", "resource"}
Phases == {"check", "nested", "services", "data", "resource", "hooks", "worktrees", "dir", "block", "entry",
           "mkdir", "infer", "repos"}
Present == {r \in Repos : tree[r] # "absent"}
Upstream(r) == branch[r] \in Refs

NoCommand == [kind |-> "none"]
Idle == cmd = NoCommand

DestroyCommand == [kind : {"destroy"}, pc : Phases, force : BOOLEAN, strict : BOOLEAN, teardown : BOOLEAN,
                   seen : SUBSET Repos, read : SUBSET Nested, todo : SUBSET Repos, late : SUBSET Repos,
                   nestedOk : BOOLEAN, teardownOk : BOOLEAN, ok : BOOLEAN]

Stages == {"start", "made", "wired", "done"}
InitCommand == [kind : {"init"}, pc : Phases, stage : [Repos -> Stages], new : SUBSET Repos,
                inferred : Refs \cup {"none"}, shared : Refs \cup {"none"}, ok : BOOLEAN]

DiskOK ==
    /\ env \in BOOLEAN /\ entry \in BOOLEAN /\ exclude \in BOOLEAN /\ hooked \in BOOLEAN
    /\ tree \in [Repos -> {"absent", "clean", "dirty"}]
    /\ registered \in [Repos -> BOOLEAN]
    /\ branch \in [Repos -> Refs \cup {"none", "untracked"}]
    /\ prov \subseteq Subtargets
    /\ nested \in [Repos -> {"none", "clean", "dirty"}]
    /\ unpushed \in [Repos -> BOOLEAN]
    /\ services \in [Repos -> BOOLEAN]

\* Worktrees are in the env directory and on a branch, nested envs and work in nested worktrees.
Contained ==
    /\ ~env => Present = {}
    /\ \A r \in Repos : /\ tree[r] # "absent" => branch[r] # "none"
                        /\ nested[r] # "none" \/ unpushed[r] => r \in Nested /\ tree[r] # "absent"

\* An init works in the directory it has made.
InitInside == cmd.kind = "init" /\ cmd.pc # "mkdir" => env

CommandOK ==
    /\ cmd \in DestroyCommand \cup InitCommand \cup {NoCommand}
    /\ result \in {"none", "ok", "failed", "killed"}

Bounded == issued \in 0 .. MaxCommands /\ acts \in 0 .. MaxActs /\ faults \in 0 .. MaxFaults

\* Type correctness, and where a worktree and what it holds can be.
TypeOK == DiskOK /\ Contained /\ InitInside /\ CommandOK /\ Bounded

Init ==
    /\ env = FALSE /\ entry = FALSE /\ exclude = FALSE /\ hooked = FALSE
    /\ tree = [r \in Repos |-> "absent"]
    /\ registered = [r \in Repos |-> FALSE]
    /\ branch = [r \in Repos |-> "none"]
    /\ prov = {}
    /\ nested = [r \in Repos |-> "none"]
    /\ unpushed = [r \in Repos |-> FALSE]
    /\ services = [r \in Repos |-> FALSE]
    /\ cmd = NoCommand /\ result = "none"
    /\ issued = 0 /\ acts = 0 /\ faults = 0

\* A step that fails for no cause in this model uses up one fault.
Fails == faults < MaxFaults /\ faults' = faults + 1
Outcome(ok) == IF ok THEN UNCHANGED faults ELSE Fails

\* A step that must fail when `cause` holds.
CausedOutcome(ok, cause) == IF cause THEN ~ok /\ UNCHANGED faults ELSE Outcome(ok)

Finish(ok) == cmd' = NoCommand /\ result' = IF ok THEN "ok" ELSE "failed"
Goto(pc) == cmd' = [cmd EXCEPT !.pc = pc] /\ UNCHANGED result
At(kind, pc) == cmd.kind = kind /\ cmd.pc = pc

(***************************************************************************)
(* The worktrees of the set S are deleted, with all they hold.             *)
(***************************************************************************)
Delete(S) ==
    /\ tree' = [r \in Repos |-> IF r \in S THEN "absent" ELSE tree[r]]
    /\ nested' = [r \in Repos |-> IF r \in S THEN "none" ELSE nested[r]]
    /\ unpushed' = [r \in Repos |-> unpushed[r] /\ r \notin S]

-----------------------------------------------------------------------------
(***************************************************************************)
(* The user.                                                               *)
(***************************************************************************)
Act == acts < MaxActs /\ acts' = acts + 1

\* The env is provisioned, and each nested workspace gets an env and its services started.
Use ==
    /\ Idle /\ env /\ prov = {}
    /\ prov' = Subtargets
    /\ nested' = [r \in Repos |-> IF r \in Nested \cap Present /\ nested[r] = "none" THEN "clean" ELSE nested[r]]
    /\ services' = [r \in Repos |-> services[r] \/ r \in Nested \cap Present]
    /\ UNCHANGED <<env, tree, registered, branch, entry, exclude, hooked, unpushed, cmd, result, issued, acts, faults>>

\* What is written after destroy's safety check is remembered.
Late(r) == IF cmd.kind = "destroy" THEN [cmd EXCEPT !.late = @ \cup {r}] ELSE cmd

Edit(r) ==
    /\ Act
    /\ \/ tree[r] = "clean" /\ tree' = [tree EXCEPT ![r] = "dirty"] /\ UNCHANGED nested
          /\ cmd' = Late(r)
       \/ nested[r] = "clean" /\ nested' = [nested EXCEPT ![r] = "dirty"] /\ UNCHANGED <<tree, cmd>>
    /\ UNCHANGED <<env, registered, branch, entry, exclude, prov, hooked, unpushed, services, result, issued, faults>>

\* A commit in a nested workspace is local to it until it is pushed.
Commit(r) ==
    /\ \/ tree[r] = "dirty" /\ tree' = [tree EXCEPT ![r] = "clean"] /\ UNCHANGED <<nested, unpushed, cmd>>
       \/ /\ nested[r] = "dirty" /\ nested' = [nested EXCEPT ![r] = "clean"]
          /\ unpushed' = [unpushed EXCEPT ![r] = TRUE] /\ cmd' = Late(r) /\ UNCHANGED tree
    /\ UNCHANGED <<env, registered, branch, entry, exclude, prov, hooked, services, result, issued, acts, faults>>

Push(r) ==
    /\ unpushed[r] /\ unpushed' = [unpushed EXCEPT ![r] = FALSE]
    /\ UNCHANGED <<env, tree, registered, branch, entry, exclude, prov, hooked, nested, services, cmd, result, issued, acts, faults>>

Connect(r, ref) ==
    /\ Act /\ Idle /\ tree[r] # "absent" /\ r \notin Pinned
    /\ branch' = [branch EXCEPT ![r] = ref]
    /\ UNCHANGED <<env, tree, registered, entry, exclude, prov, hooked, nested, unpushed, services, cmd, result, issued, faults>>

\* `git worktree remove` by hand, in a repository nothing else runs from.
DropTree(r) ==
    /\ Act /\ Idle /\ tree[r] = "clean" /\ ~services[r] /\ registered[r]
    /\ Delete({r}) /\ registered' = [registered EXCEPT ![r] = FALSE]
    /\ UNCHANGED <<env, branch, entry, exclude, prov, hooked, services, cmd, result, issued, faults>>

\* `rm -rf <env>/`; the services that ran from it are stopped by hand.
RemoveByHand ==
    /\ Act /\ Idle /\ env /\ env' = FALSE
    /\ Delete(Repos) /\ services' = [r \in Repos |-> FALSE]
    /\ UNCHANGED <<registered, branch, entry, exclude, prov, hooked, cmd, result, issued, faults>>

\* `git worktree prune` in every source checkout.
Prune ==
    /\ Act /\ Idle /\ registered' = [r \in Repos |-> registered[r] /\ tree[r] # "absent"]
    /\ UNCHANGED <<env, tree, branch, entry, exclude, prov, hooked, nested, unpushed, services, cmd, result, issued, faults>>

Issue(c) ==
    /\ Idle /\ issued < MaxCommands /\ issued' = issued + 1
    /\ cmd' = c /\ result' = "none"
    /\ UNCHANGED <<disk, acts, faults>>

Kill ==
    /\ ~Idle /\ Fails /\ cmd' = NoCommand /\ result' = "killed"
    /\ UNCHANGED <<disk, issued, acts>>

-----------------------------------------------------------------------------
(***************************************************************************)
(* winter ws destroy <env> [--force] [--strict] [--no-provision-teardown]  *)
(***************************************************************************)
Destroy(force, strict, teardown) ==
    Issue([kind |-> "destroy", pc |-> "check", force |-> force, strict |-> strict, teardown |-> teardown,
           seen |-> {}, read |-> {}, todo |-> {}, late |-> {}, nestedOk |-> TRUE, teardownOk |-> TRUE, ok |-> TRUE])

\* Mutant: --force is asked only about the worktrees themselves.
OuterUnsafe(read) == \E r \in Present : tree[r] = "dirty"

\* Without --force: a dirty worktree, a dirty nested env or unpushed nested work refuses.
Unsafe(read) ==
    \/ \E r \in Present : tree[r] = "dirty"
    \/ \E r \in read : nested[r] = "dirty" \/ unpushed[r]

\* Phases 0 and 1; `read` are the nested workspaces whose state could be read.
DestroyCheck(read) ==
    /\ At("destroy", "check") /\ read \subseteq Nested \cap Present
    /\ Outcome(read = Nested \cap Present)
    /\ IF ~env \/ (~cmd.force /\ (read # Nested \cap Present \/ Unsafe(read)))
         THEN Finish(FALSE)
         ELSE /\ cmd' = [cmd EXCEPT !.pc = "nested", !.seen = Present, !.read = read, !.late = {},
                                    !.todo = {r \in read : nested[r] # "none"},
                                    !.nestedOk = read = Nested \cap Present]
              /\ UNCHANGED result
    /\ UNCHANGED <<disk, issued, acts>>

\* The loops of a destroy take the repositories one by one, in a fixed order.
NextRepo == CHOOSE r \in Repos : cmd.todo # {} => r \in cmd.todo

\* Phase 1b: the nested `winter ws destroy` refuses a dirty env of its own; it can also fail
\* before or after it removed the env.
NestedDestroy(r, removed, ok) ==
    /\ At("destroy", "nested") /\ cmd.todo # {} /\ r = NextRepo
    /\ CausedOutcome(ok, ~cmd.force /\ nested[r] = "dirty")
    /\ ok => removed
    /\ removed => cmd.force \/ nested[r] # "dirty"
    /\ nested' = [nested EXCEPT ![r] = IF removed THEN "none" ELSE @]
    /\ cmd' = [cmd EXCEPT !.todo = @ \ {r}, !.nestedOk = @ /\ ok]
    /\ UNCHANGED <<env, tree, registered, branch, entry, exclude, prov, hooked, unpushed, services, result, issued, acts>>

\* Mutant: a nested failure is only reported.
NoGate(pc, todo) == cmd' = [cmd EXCEPT !.pc = pc, !.todo = todo] /\ UNCHANGED result

\* Without --force a nested failure aborts; otherwise the destroy goes on to `pc`.
NestedGate(pc, todo) ==
    IF ~cmd.nestedOk /\ ~cmd.force
      THEN Finish(FALSE)
      ELSE cmd' = [cmd EXCEPT !.pc = pc, !.todo = todo] /\ UNCHANGED result

NestedDone ==
    /\ At("destroy", "nested") /\ cmd.todo = {}
    /\ NestedGate("services", cmd.read)
    /\ UNCHANGED <<disk, issued, acts, faults>>

\* Phase 1c: `winter service down workspace` in each nested workspace that was read.
StopServices(r, ok) ==
    /\ At("destroy", "services") /\ cmd.todo # {} /\ r = NextRepo /\ Outcome(ok)
    /\ services' = [services EXCEPT ![r] = @ /\ ~ok]
    /\ cmd' = [cmd EXCEPT !.todo = @ \ {r}, !.nestedOk = @ /\ ok]
    /\ UNCHANGED <<env, tree, registered, branch, entry, exclude, prov, hooked, nested, unpushed, result, issued, acts>>

ServicesDone ==
    /\ At("destroy", "services") /\ cmd.todo = {}
    /\ NestedGate(IF cmd.teardown THEN "data" ELSE "hooks", {})
    /\ UNCHANGED <<disk, issued, acts, faults>>

\* Mutant: the outcome of the second subtarget replaces that of the first.
LastTeardown(ok) ==
    /\ Outcome(ok)
    /\ \/ At("destroy", "data") /\ cmd' = [cmd EXCEPT !.pc = "resource", !.teardownOk = ok] /\ UNCHANGED result
       \/ /\ At("destroy", "resource")
          /\ IF cmd.strict /\ ~ok
               THEN Finish(FALSE)
               ELSE cmd' = [cmd EXCEPT !.pc = "hooks", !.teardownOk = ok] /\ UNCHANGED result
    /\ prov' = IF ok THEN prov \ {cmd.pc} ELSE prov
    /\ UNCHANGED <<env, tree, registered, branch, entry, exclude, hooked, nested, unpushed, services, issued, acts>>

\* Phase 2a: both subtargets are torn down, whether the first fails or not; --strict then stops.
Teardown(ok) ==
    /\ Outcome(ok)
    /\ \/ At("destroy", "data") /\ cmd' = [cmd EXCEPT !.pc = "resource", !.teardownOk = ok] /\ UNCHANGED result
       \/ /\ At("destroy", "resource")
          /\ IF cmd.strict /\ ~(cmd.teardownOk /\ ok)
               THEN Finish(FALSE)
               ELSE cmd' = [cmd EXCEPT !.pc = "hooks", !.teardownOk = @ /\ ok] /\ UNCHANGED result
    /\ prov' = IF ok THEN prov \ {cmd.pc} ELSE prov
    /\ UNCHANGED <<env, tree, registered, branch, entry, exclude, hooked, nested, unpushed, services, issued, acts>>

\* Phase 2b: a failed hook counts only under --strict.
DestroyHooks(ok) ==
    /\ At("destroy", "hooks") /\ Outcome(ok)
    /\ hooked' = (hooked /\ ~ok)
    /\ IF cmd.strict /\ ~ok
         THEN Finish(FALSE)
         ELSE cmd' = [cmd EXCEPT !.pc = "worktrees", !.todo = cmd.seen] /\ UNCHANGED result
    /\ UNCHANGED <<env, tree, registered, branch, entry, exclude, prov, nested, unpushed, services, issued, acts>>

\* Phase 3: `git worktree remove [--force]`; git keeps a dirty worktree, and the branch always.
RemoveWorktree(r, ok) ==
    /\ At("destroy", "worktrees") /\ cmd.todo # {} /\ r = NextRepo
    /\ CausedOutcome(ok, ~registered[r] \/ (tree[r] = "dirty" /\ ~cmd.force))
    /\ cmd' = [cmd EXCEPT !.todo = @ \ {r}, !.ok = @ /\ ok]
    /\ IF ok
         THEN /\ Delete({r}) /\ registered' = [registered EXCEPT ![r] = FALSE]
         ELSE UNCHANGED <<tree, nested, unpushed, registered>>
    /\ UNCHANGED <<env, branch, entry, exclude, prov, hooked, services, result, issued, acts>>

WorktreesDone ==
    /\ At("destroy", "worktrees") /\ cmd.todo = {}
    /\ Goto("dir")
    /\ UNCHANGED <<disk, issued, acts, faults>>

\* Phase 4: rmtree of the whole env directory, whatever phase 3 left in it; when it fails,
\* some of the worktrees are gone.
RemoveDir(ok, gone) ==
    /\ At("destroy", "dir") /\ gone \subseteq Present /\ Outcome(ok)
    /\ ok => gone = Present
    /\ Delete(gone) /\ env' = ~ok
    /\ cmd' = [cmd EXCEPT !.pc = "block", !.ok = @ /\ ok]
    /\ UNCHANGED <<registered, branch, entry, exclude, prov, hooked, services, result, issued, acts>>

\* Phase 5.
StripExclude(ok) ==
    /\ At("destroy", "block") /\ Outcome(ok)
    /\ exclude' = (exclude /\ ~ok)
    /\ cmd' = [cmd EXCEPT !.pc = "entry", !.ok = @ /\ ok]
    /\ UNCHANGED <<env, tree, registered, branch, entry, prov, hooked, nested, unpushed, services, result, issued, acts>>

\* Phase 6, unconditional; the command succeeds when nothing was reported on the way.
RemoveEntry ==
    /\ At("destroy", "entry")
    /\ entry' = FALSE
    /\ Finish(cmd.ok /\ cmd.teardownOk /\ cmd.nestedOk)
    /\ UNCHANGED <<env, tree, registered, branch, exclude, prov, hooked, nested, unpushed, services, issued, acts, faults>>

-----------------------------------------------------------------------------
(***************************************************************************)
(* winter ws init <env>                                                    *)
(***************************************************************************)
Tracked == {branch[r] : r \in {q \in Repos \ Pinned : tree[q] # "absent" /\ Upstream(q)}}
TheOnly(S) == IF \E x \in S : S = {x} THEN CHOOSE x \in S : TRUE ELSE "none"

\* `shared` remembers what the env's worktrees agreed on when the command was issued.
InitEnv ==
    Issue([kind |-> "init", pc |-> "mkdir", stage |-> [r \in Repos |-> "start"], new |-> {},
           inferred |-> "none", shared |-> TheOnly(Tracked), ok |-> TRUE])

\* The directory comes first; an allocation that raises leaves it behind.
MakeDir(ok) ==
    /\ At("init", "mkdir") /\ Outcome(ok)
    /\ env' = TRUE /\ entry' = (entry \/ ok)
    /\ IF ok THEN Goto("infer") ELSE Finish(FALSE)
    /\ UNCHANGED <<tree, registered, branch, exclude, prov, hooked, nested, unpushed, services, issued, acts>>

\* _infer_env_upstream: the one ref all connected, non-pinned worktrees track.
Inferred == TheOnly(Tracked)

WriteExclude(ok) ==
    /\ At("init", "infer") /\ Outcome(ok)
    /\ exclude' = (exclude \/ ok)
    /\ cmd' = [cmd EXCEPT !.pc = "repos", !.inferred = Inferred, !.ok = @ /\ ok]
    /\ UNCHANGED <<env, tree, registered, branch, entry, prov, hooked, nested, unpushed, services, result, issued, acts>>

\* Reading the tracking branches raises: the env fails before any repository is looked at.
InferRaises(ok) ==
    /\ At("init", "infer") /\ Fails
    /\ exclude' = (exclude \/ ok)
    /\ Finish(FALSE)
    /\ UNCHANGED <<env, tree, registered, branch, entry, prov, hooked, nested, unpushed, services, issued, acts>>

\* Mutant: the outcome of a repository's thread is not collected.
Uncollected(r, from, to, ok, created) ==
    /\ At("init", "repos") /\ cmd.stage[r] = from
    /\ cmd' = [cmd EXCEPT !.stage[r] = to, !.new = IF created THEN @ \cup {r} ELSE @]
    /\ UNCHANGED <<env, entry, exclude, prov, hooked, nested, unpushed, services, result, issued, acts>>

\* One thread per repository; `created` says whether this step made its worktree.
Stage(r, from, to, ok, created) ==
    /\ At("init", "repos") /\ cmd.stage[r] = from
    /\ cmd' = [cmd EXCEPT !.stage[r] = to, !.ok = @ /\ ok, !.new = IF created THEN @ \cup {r} ELSE @]
    /\ UNCHANGED <<env, entry, exclude, prov, hooked, nested, unpushed, services, result, issued, acts>>

\* `git worktree add` refuses a path that is registered but missing; it reuses the env's branch.
\* A failure here ends the repository's work.
CreateTree(r, ok) ==
    LET create == ok /\ tree[r] = "absent" IN
    /\ Stage(r, "start", IF ok THEN "made" ELSE "done", ok, create)
    /\ CausedOutcome(ok, tree[r] = "absent" /\ registered[r])
    /\ tree' = [tree EXCEPT ![r] = IF create THEN "clean" ELSE @]
    /\ registered' = [registered EXCEPT ![r] = @ \/ create]
    /\ branch' = [branch EXCEPT ![r] = IF create /\ @ = "none" THEN "untracked" ELSE @]

\* Pinned worktrees track main; one the user connected stays as it is, unless this run created it.
Wired(r) ==
    IF r \in Pinned THEN Main
    ELSE IF cmd.inferred = "none" \/ (Upstream(r) /\ r \notin cmd.new) THEN branch[r]
    ELSE cmd.inferred

\* The identity or the excludes fail, which ends the repository's work; or the tracking fails,
\* wired or not, which does not keep its commands from running.
WireTracking(r, to, wired, ok) ==
    /\ Stage(r, "made", to, ok, FALSE) /\ Outcome(ok)
    /\ \/ to = "wired" /\ (ok => wired)
       \/ to = "done" /\ ~wired /\ ~ok
    /\ branch' = [branch EXCEPT ![r] = IF wired THEN Wired(r) ELSE @]
    /\ UNCHANGED <<tree, registered>>

\* The repository's `cmd` list, then `winter ws init` in a nested workspace.
Bootstrap(r, ok) ==
    /\ Stage(r, "wired", "done", ok, FALSE) /\ Outcome(ok)
    /\ UNCHANGED <<tree, registered, branch>>

\* The hooks run whatever the repositories came to.
InitHooks(ok) ==
    /\ At("init", "repos") /\ Outcome(ok)
    /\ \A r \in Repos : cmd.stage[r] = "done"
    /\ hooked' = (hooked \/ ok)
    /\ Finish(cmd.ok /\ ok)
    /\ UNCHANGED <<env, tree, registered, branch, entry, exclude, prov, nested, unpushed, services, issued, acts>>

-----------------------------------------------------------------------------
DestroyStep ==
    \/ \E read \in SUBSET Nested : DestroyCheck(read)
    \/ \E r \in Repos, removed, ok \in BOOLEAN : NestedDestroy(r, removed, ok)
    \/ NestedDone \/ ServicesDone \/ WorktreesDone \/ RemoveEntry
    \/ \E r \in Repos, ok \in BOOLEAN : StopServices(r, ok) \/ RemoveWorktree(r, ok)
    \/ \E ok \in BOOLEAN : Teardown(ok) \/ DestroyHooks(ok) \/ StripExclude(ok)
    \/ \E ok \in BOOLEAN, gone \in SUBSET Repos : RemoveDir(ok, gone)

InitStep ==
    \/ \E ok \in BOOLEAN : MakeDir(ok) \/ WriteExclude(ok) \/ InferRaises(ok) \/ InitHooks(ok)
    \/ \E r \in Repos, ok \in BOOLEAN : CreateTree(r, ok) \/ Bootstrap(r, ok)
    \/ \E r \in Repos, to \in {"wired", "done"}, wired, ok \in BOOLEAN : WireTracking(r, to, wired, ok)

UserStep ==
    \/ Use \/ RemoveByHand \/ Prune
    \/ \E r \in Repos : Edit(r) \/ Commit(r) \/ Push(r) \/ DropTree(r)
    \/ \E r \in Repos, ref \in Refs : Connect(r, ref)

Next ==
    \/ InitEnv
    \/ \E force, strict, teardown \in BOOLEAN : Destroy(force, strict, teardown)
    \/ DestroyStep \/ InitStep \/ Kill \/ UserStep

Spec == Init /\ [][Next]_vars

-----------------------------------------------------------------------------
Ended(kind) == cmd.kind = kind /\ Idle' /\ result' # "killed"
Gone(r) == tree[r] # "absent" /\ tree'[r] = "absent"

(***************************************************************************)
(* Without --force, a destroy deletes no uncommitted change of a worktree  *)
(* and no unpushed commit of a nested workspace but what was made after    *)
(* its safety check, and no uncommitted change of a nested env at all,     *)
(* whenever it was made.                                                   *)
(***************************************************************************)
WorkKept ==
    [][cmd.kind = "destroy" /\ ~cmd.force =>
         \A r \in Repos : /\ (tree[r] = "dirty" \/ unpushed[r]) /\ Gone(r) => r \in cmd.late
                          /\ nested[r] = "dirty" => nested'[r] # "none"]_vars

(***************************************************************************)
(* A destroy that reports success left nothing: no directory, no worktree  *)
(* or registration it saw, no entry, no exclude block, no nested service,  *)
(* and nothing provisioned unless --no-provision-teardown was given.       *)
(***************************************************************************)
SuccessLeavesNothing ==
    [][Ended("destroy") /\ result' = "ok" =>
         /\ ~env' /\ ~entry' /\ ~exclude'
         /\ \A r \in cmd.seen : ~registered'[r] /\ ~services'[r]
         /\ cmd.teardown => prov' = {}]_vars

(***************************************************************************)
(* No worktree of an env goes while what runs from it is up: its nested    *)
(* workspace's services and env, without --force; what it provisioned and  *)
(* the extensions' state, under --strict.                                  *)
(***************************************************************************)
NothingOrphaned ==
    [][\A r \in Repos : cmd.kind = "destroy" /\ Gone(r) =>
         /\ ~cmd.force => ~services[r] /\ nested[r] = "none"
         /\ cmd.strict => ~hooked /\ (cmd.teardown => prov = {})]_vars

(***************************************************************************)
(* An init that reports success left a whole env, however often it was     *)
(* interrupted before.                                                     *)
(***************************************************************************)
SuccessIsWhole ==
    [][Ended("init") /\ result' = "ok" =>
         /\ env' /\ entry' /\ exclude' /\ hooked'
         /\ \A r \in Repos : tree'[r] # "absent" /\ registered'[r]]_vars

=============================================================================

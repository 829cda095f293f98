------------------------------ MODULE Nesting -------------------------------
(***************************************************************************)
(* Workspaces inside workspaces.  A project repository declared `nested =  *)
(* true` is a workspace of its own in every environment's worktree of it,  *)
(* and `winter ws init <env>` hands it a slice of the environment's ports: *)
(* it verifies, by a nested `winter ws status`, that winter resolves that  *)
(* worktree as its workspace, writes the slice and the inherited keys into *)
(* its config.local.toml and runs `winter ws init` there.                  *)
(*                                                                         *)
(* A root is the path to a workspace: Top, or the root it is nested in     *)
(* followed by an environment and a repository.                            *)
(***************************************************************************)
EXTENDS Config

CONSTANTS
  Roots,        \* Top and the roots that may come to be
  Index,        \* [environment -> its recorded index]
  Openings,     \* what a run may start from: the files of every root, those of a
                \* worktree as its branch holds them, and how many edits follow
  Drafts,       \* [Roots -> SUBSET layers]: what an edit may change the files to
  MaxFaults

Top == <<>>
Outer(root) == SubSeq(root, 1, Len(root) - 2)
EnvOf(root) == root[Len(root) - 1]
RepoOf(root) == root[Len(root)]
NestedIn(root) == {r \in Roots : Len(r) = Len(root) + 2 /\ Outer(r) = root}
Environments == DOMAIN Index

\* The files of a root: a base configuration, unless there is none, and an overlay,
\* each of which may not parse.
ParsedFiles(l) ==
  /\ l = [committed |-> l.committed, local |-> l.local, astray |-> l.astray]
  /\ l.committed # Bad
  /\ l.committed \in {None, Garbled} \/ Parsed(l.committed)
  /\ l.local = Garbled \/ Parsed(l.local)

ASSUME NestingAssumption ==
  /\ Top \in Roots
  /\ \A r \in Roots : r \in Seq({r[i] : i \in DOMAIN r})
  /\ \A r \in Roots \ {Top} : Len(r) >= 2
  /\ \A r \in Roots \ {Top} : Outer(r) \in Roots /\ Index[EnvOf(r)] \in Nat
  /\ \A r, s \in Roots \ {Top} :
        Outer(r) = Outer(s) /\ Index[EnvOf(r)] = Index[EnvOf(s)] => EnvOf(r) = EnvOf(s)
  /\ \A o \in Openings :
        /\ o.layers = [r \in Roots |-> o.layers[r]]
        /\ \A r \in Roots : ParsedFiles(o.layers[r])
  /\ \A r \in Roots : \A l \in Drafts[r] : ParsedFiles(l)

VARIABLES
  layers,   \* [Roots -> the two files of that root, and whether the winter on PATH
            \* there misses it and takes the enclosing workspace]
  there,    \* the roots on disk
  command,  \* the running `winter ws init`: where, for which environment, its configuration
  lanes,    \* [its nested worktrees -> how far each is]
  fresh,    \* history: the roots whose slice was delegated under the present files
  budget    \* edits and faults left

vars == <<layers, there, command, lanes, fresh, budget>>

-----------------------------------------------------------------------------
(* What a loaded configuration says of nested repositories. *)

NestedEntries(m) ==
    LET es == Entries(m, "project_repository") IN MembersAt(es, {i \in DOMAIN es : IsNested(es[i])})
EntryOf(m, repo) ==
    LET es == NestedEntries(m) IN es[CHOOSE i \in DOMAIN es : NameOf(es[i]) = repo]
\* The nested worktrees on disk that the workspace at root knows of.
Inside(root) ==
    {r \in NestedIn(root) \intersect there :
        \E i \in DOMAIN NestedEntries(Effective(layers[root])) :
            NameOf(NestedEntries(Effective(layers[root]))[i]) = RepoOf(r)}

\* The nested entries, in the order that places them.
Places(m) == NestedEntries(m)

SliceSize(m) == PortsPerEnv(m) \div (Len(Places(m)) + 1)

\* The declared name is looked up: an entry with a url only is not found.
Placed(m, repo) == {i \in DOMAIN Places(m) : Get(Places(m)[i], "name", None) = repo}
Position(m, repo) == CHOOSE i \in Placed(m, repo) : \A j \in Placed(m, repo) : i <= j
SliceBase(m, env, repo) == PortBase(m, Index[env]) + Position(m, repo) * SliceSize(m)

\* Mutant: `envs` slots, the reserved one among them.
DelegatedSlots(base, env, repo, e) ==
    Over([base_port |-> base, service_prefix |-> <<env, repo>>],
         IF Has(e, "envs") THEN [env_aliases |-> Empty, envs_per_workspace |-> e.envs] ELSE Empty)

Delegated(base, env, repo, e) ==
    Over([base_port |-> base, service_prefix |-> <<env, repo>>],
         IF Has(e, "envs") THEN [env_aliases |-> Empty, envs_per_workspace |-> e.envs + 1] ELSE Empty)

Inherits(e) == Get(e, "inherit_local", {"git"})

\* Copied from the outer overlay as written; repositories never are.
Inherited(local, e) == [k \in (DOMAIN local \intersect Inherits(e)) \ Arrays |-> local[k]]

\* Mutant: the reserved index 0 is not counted.
FootprintFromOne(committed, local) ==
    LET m == Over(local, committed) IN EnvsPerWorkspace(m) * PortsPerEnv(m)

\* The ports of indices 0 to envs_per_workspace.
Footprint(committed, local) ==
    LET m == Over(local, committed) IN (EnvsPerWorkspace(m) + 1) * PortsPerEnv(m)

-----------------------------------------------------------------------------
(* Nested calls. *)

HasConfig(root) == root \in there /\ layers[root].committed # None

\* Where a winter started in root finds its workspace.
Resolves(root) ==
    LET up == {n \in 0..Len(root) :
                 /\ n % 2 = 0 /\ HasConfig(SubSeq(root, 1, n))
                 /\ n = Len(root) => ~layers[root].astray}
    IN  SubSeq(root, 1, CHOOSE n \in up : \A k \in up : k <= n)

\* The chain a child of this process is given.
ChildChain(call) == call.chain \union {call.at}

\* Mutant: a winter that was started by itself is not noticed.
PreflightOfRoot(call, root) == root \notin call.chain /\ HasConfig(root)

Preflight(call, root) == call.at \notin call.chain /\ root \notin call.chain /\ HasConfig(root)

\* A `winter ws status` in root: it reads the workspaces nested in the one it
\* resolves, if that one's configuration loads.
StatusCall(caller, root) ==
    LET at == Resolves(root)
        loads == Loads(layers[at])
    IN  [asked |-> root, at |-> at, chain |-> ChildChain(caller), loads |-> loads,
         todo |-> IF loads THEN Inside(at) ELSE {}]

-----------------------------------------------------------------------------

Idle == [at |-> None]
Busy == command # Idle
Caller == [at |-> command.at, chain |-> {}]

Lane == [step |-> "worktree", calls |-> <<>>, seen |-> Empty, values |-> Empty]
Goto(x, step) == lanes' = [lanes EXCEPT ![x].step = step]
Fail(x) == Goto(x, "failed")
Spend(kind) == budget[kind] > 0 /\ budget' = [budget EXCEPT ![kind] = @ - 1]

\* `winter ws init env` in a workspace.
InitCommand ==
    /\ ~Busy
    /\ \E root \in there, env \in Environments :
         LET m == Effective(layers[root])
             xs == {x \in NestedIn(root) :
                      /\ EnvOf(x) = env
                      /\ \E i \in DOMAIN NestedEntries(m) : NameOf(NestedEntries(m)[i]) = RepoOf(x)}
         IN  /\ Loads(layers[root]) /\ xs # {}
             /\ command' = [at |-> root, config |-> m]
             /\ lanes' = [x \in xs |-> Lane]
    /\ UNCHANGED <<layers, there, fresh, budget>>

\* The worktree is created unless it is there, then the entry's cmd runs.
Worktree(x) ==
    /\ lanes[x].step = "worktree"
    /\ there' = there \union {x}
    /\ \/ Goto(x, "check") /\ UNCHANGED budget
       \/ Fail(x) /\ Spend("faults")
    /\ UNCHANGED <<layers, command, fresh>>

Check(x) ==
    /\ lanes[x].step = "check"
    /\ IF Preflight(Caller, x)
       THEN lanes' = [lanes EXCEPT ![x].step = "verify", ![x].calls = <<StatusCall(Caller, x)>>]
       ELSE Fail(x)
    /\ UNCHANGED <<layers, there, command, fresh, budget>>

\* The innermost status process reads one workspace nested in its own; one it
\* refuses to call is recorded as unreadable.
ReadNested(x) ==
    LET calls == lanes[x].calls
        last == calls[Len(calls)]
    IN  /\ lanes[x].step = "verify"
        /\ \E r \in last.todo :
             LET rest == [calls EXCEPT ![Len(calls)].todo = @ \ {r}]
             IN  lanes' = [lanes EXCEPT ![x].calls =
                              IF Preflight(last, r) THEN Append(rest, StatusCall(last, r)) ELSE rest]
        /\ UNCHANGED <<layers, there, command, fresh, budget>>

\* It ends; the one called for the worktree must have described that worktree.
StatusEnds(x) ==
    LET calls == lanes[x].calls
        last == calls[Len(calls)]
    IN  /\ lanes[x].step = "verify" /\ last.todo = {}
        /\ lanes' = [lanes EXCEPT
              ![x].calls = SubSeq(calls, 1, Len(calls) - 1),
              ![x].step = IF Len(calls) > 1 THEN "verify"
                          ELSE IF last.loads /\ last.at = x THEN "measure" ELSE "failed"]
        /\ UNCHANGED <<layers, there, command, fresh, budget>>

\* Both workspaces' files, as they are now.
ReadLayers(x) == [outer |-> layers[command.at], inner |-> layers[x]]

\* The slice, from the configuration the command started with, against the files
\* of the nested workspace.
Measure(x) ==
    LET m == command.config
        e == EntryOf(m, RepoOf(x))
        outer == layers[command.at]
        values == Over(Delegated(SliceBase(m, EnvOf(x), RepoOf(x)), EnvOf(x), RepoOf(x), e),
                       Inherited(outer.local, e))
    IN  /\ lanes[x].step = "measure"
        /\ IF /\ Placed(m, RepoOf(x)) # {}
              /\ Inherits(e) # {} => Readable(outer)
              /\ Readable(layers[x])
              /\ Footprint(OrNothing(layers[x].committed), Over(values, layers[x].local)) <= SliceSize(m)
           THEN lanes' = [lanes EXCEPT ![x].step = "write", ![x].values = values,
                                       ![x].seen = ReadLayers(x)]
           ELSE Fail(x)
        /\ UNCHANGED <<layers, there, command, fresh, budget>>

\* Nothing has changed since the slice was measured, and both are workspaces.
UpToDate(x) ==
    /\ HasConfig(x) /\ HasConfig(command.at)
    /\ Readable(layers[command.at]) /\ command.config = Effective(layers[command.at])
    /\ lanes[x].seen = ReadLayers(x)

\* Only the keys it sets change.
Write(x) ==
    LET written == Over(lanes[x].values, layers[x].local)
    IN  /\ lanes[x].step = "write"
        /\ IF layers[x].local = Garbled
           THEN Fail(x) /\ UNCHANGED <<layers, fresh>>
           ELSE /\ layers' = [layers EXCEPT ![x].local = written]
                /\ fresh' = (IF UpToDate(x) THEN fresh \union {x} ELSE fresh \ {x})
                              \ (IF written = layers[x].local THEN {} ELSE NestedIn(x))
                /\ Goto(x, "init")
        /\ UNCHANGED <<there, command, budget>>

\* The nested `winter ws init`, bare: it goes no deeper.
NestedInit(x) ==
    /\ lanes[x].step = "init"
    /\ \/ Goto(x, IF Loads(layers[Resolves(x)]) THEN "done" ELSE "failed") /\ UNCHANGED budget
       \/ Fail(x) /\ Spend("faults")
    /\ UNCHANGED <<layers, there, command, fresh>>

InitEnds ==
    /\ Busy /\ \A x \in DOMAIN lanes : lanes[x].step \in {"done", "failed"}
    /\ command' = Idle /\ lanes' = Empty
    /\ UNCHANGED <<layers, there, fresh, budget>>

\* The user edits the files of a workspace, or checks out another branch there.
Edit ==
    /\ Spend("edits")
    /\ \E root \in there :
         /\ \E l \in Drafts[root] : layers' = [layers EXCEPT ![root] = l]
         /\ fresh' = fresh \ ({root} \union NestedIn(root))
    /\ UNCHANGED <<there, command, lanes>>

LaneStep ==
    \E x \in DOMAIN lanes :
        \/ Worktree(x) \/ Check(x) \/ ReadNested(x) \/ StatusEnds(x)
        \/ Measure(x) \/ Write(x) \/ NestedInit(x)

Init ==
    /\ \E o \in Openings :
         layers = o.layers /\ budget = [edits |-> o.edits, faults |-> MaxFaults]
    /\ there = {Top} /\ command = Idle /\ lanes = Empty /\ fresh = {}

Next == InitCommand \/ InitEnds \/ LaneStep \/ Edit

Spec == Init /\ [][Next]_vars

-----------------------------------------------------------------------------

\* Every port a nested workspace may hand out, under the files as they are: none
\* with a ports_per_env of zero or less, which the loader takes.
Ports(root) ==
    LET m == Effective(layers[root])
    IN  BasePort(m)..(PortBase(m, EnvsPerWorkspace(m) + 1) - 1)

\* The band of its environment, less the slice of the environment's own services.
Band(root) ==
    LET m == Effective(layers[Outer(root)])
        base == PortBase(m, Index[EnvOf(root)])
        own == PortsPerEnv(m) \div (Len(NestedEntries(m)) + 1)
    IN  (base + own)..(base + PortsPerEnv(m) - 1)

\* Two nested workspaces of one workspace, in one environment or in two, never
\* hold a port in common, and none holds one of the services of its environment
\* or of another one, as long as no file has changed since the slices were
\* delegated (nested_workspace_service.py, _write_delegation).  An edit between the
\* measure and the write makes the slice one of other files: nothing is said of it.
SlicesDisjoint ==
    \A x \in fresh :
        /\ Ports(x) \subseteq Band(x)
        /\ \A y \in fresh \ {x} : Outer(x) = Outer(y) => Ports(x) \intersect Ports(y) = {}

\* The checks of the loader that set one section against another, each with the
\* sections it reads: what an outer workspace takes, a nested one may refuse.
CrossCheck(keys, m) ==
    \/ "prefix" \in keys /\ PrefixClash(m)
    \/ keys \intersect {"env_aliases", "envs_per_workspace"} # {} /\ NoHashBand(m)
    \/ keys \intersect {"model_tiers", "agent_model_overrides"} # {} /\ BadOverrides(m)

\* Delegation leaves a nested workspace with a configuration its winter refuses in
\* two ways only: an inherited key fails a check against another section of that
\* workspace, or an inherited table meets a string in its committed file.  It is
\* said of an outer configuration that loads and a nested one that loads with its
\* overlay and without it (nested_workspace_service.py, _write_delegation).
StillLoads ==
    [][\A x \in DOMAIN lanes :
         /\ lanes[x].step = "write" /\ lanes' # lanes
         /\ Loads(lanes[x].seen.outer)
         /\ Loads(layers[x]) /\ Loads([layers[x] EXCEPT !.local = Empty])
         => \/ Loads(layers'[x])
            \/ MergeFails(layers[x].committed, lanes[x].values)
            \/ CrossCheck(Inherits(EntryOf(command.config, RepoOf(x))), Effective(layers'[x]))]_vars

\* A winter that takes the wrong workspace costs one status read: no process of
\* a chain of nested calls runs in a workspace an earlier one runs in, except
\* the last.
NoFanOut ==
    \A x \in DOMAIN lanes :
        LET at == [i \in DOMAIN lanes[x].calls |-> lanes[x].calls[i].at]
        IN  \A i \in 1..(Len(at) - 1) : at[i] # command.at /\ \A j \in 1..(i - 1) : at[i] # at[j]
=============================================================================

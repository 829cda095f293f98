------------------------------- MODULE Restack -------------------------------
(***************************************************************************)
(* `winter ws restack`: a chain of envs is rebased, base-ward first, link   *)
(* by link and in each link repository by repository.  The planner freezes  *)
(* every boundary before anything moves, or refuses; the execution stops at *)
(* the first conflict or git failure and is resumed by running the same     *)
(* command again.  The user commits, amends and pulls at any moment.        *)
(*                                                                         *)
(* A commit is named by its history: the sequence of patches up to it, so   *)
(* "is an ancestor of" is "is a prefix of".  Histories are linear; merge    *)
(* commits are left out.                                                    *)
(***************************************************************************)
EXTENDS Naturals, Sequences, FiniteSets, SequencesExt

CONSTANTS
  Repos,     \* the non-pinned project repositories, in their configured order
  Envs,      \* the feature environments
  Bottoms,   \* the envs another one may have been branched from
  Main,      \* the branch the stack is based on
  Commands,  \* the command lines: [chain, base, cut]
  MaxEdits,  \* bound: commits and amendments of the user's
  MaxPulls,  \* bound: commits that arrive on Main
  None

Branches == Envs \union {Main}
Patch == [by : Branches, n : Nat, v : Nat]
Commit == Seq(Patch)
Stop == [onto : Commit, todo : Commit]

ASSUME RestackAssumption ==
  /\ Repos \in Seq(Range(Repos))
  /\ \A i, k \in DOMAIN Repos : Repos[i] = Repos[k] => i = k
  /\ Main \notin Envs /\ Bottoms \subseteq Envs
  /\ None \notin Commands \union Branches
  /\ None \notin Commit /\ None \notin Stop
  /\ \A c \in Commands :
       /\ c = [chain |-> c.chain, base |-> c.base, cut |-> c.cut]
       /\ c.chain \in Seq(Envs) /\ c.chain # <<>>
       /\ c.base \in Envs \union {Main}
       /\ c.cut \in Envs \union {Main, None}

VARIABLES
  tip,      \* each repository's local branches: a commit, None where there is none
  reflog,   \* where each branch has pointed
  tree,     \* each env worktree: "clean", "dirty", or "parked" off its branch
  rebasing, \* each env worktree: the rebase git stopped in, or None
  jobs,     \* what is left of the running command's plan
  edits, pulls,
  own,      \* history: the commits the user made in each env, as amended
  cmd, done \* history: the last command and what its runs have finished, until
            \* a branch moves otherwise

repos == <<tip, reflog, tree, rebasing>>
run == <<jobs, cmd, done>>
vars == <<repos, run, edits, pulls, own>>

RepoSet == Range(Repos)
By(b) == [by : {b}, n : Nat, v : Nat]

IsAncestor(c, d) == IsPrefix(c, d)

\* `git merge-base` of two commits.
Common(c, d) ==
  LET apart == { k \in DOMAIN c : k > Len(d) \/ c[k] # d[k] }
  IN IF apart = {} THEN c
     ELSE SubSeq(c, 1, (CHOOSE k \in apart : \A l \in apart : k <= l) - 1)
Has(r, b) == tip[r][b] # None

\* The members of s that are in S, in their order.
Only(s, S) ==
  LET only[k \in 0..Len(s)] ==
        IF k = 0 THEN <<>>
        ELSE IF s[k] \in S THEN Append(only[k - 1], s[k]) ELSE only[k - 1]
  IN only[Len(s)]

\* git moves a branch: the reflog remembers every commit it pointed to.
Point(r, b, c) ==
  /\ tip' = [tip EXCEPT ![r][b] = c]
  /\ reflog' = [reflog EXCEPT ![r][b] = @ \union {c}]

(***************************************************************************)
(* The plan.                                                               *)
(***************************************************************************)

Links(c) == DOMAIN c.chain
Env(c, i) == c.chain[i]
Predecessor(c, i) == IF i < Len(c.chain) THEN c.chain[i + 1] ELSE c.base
Participating(c, i) == { r \in RepoSet : Has(r, Env(c, i)) /\ Has(r, Predecessor(c, i)) }

\* Mutant: --cut is not counted as an element of the chain.
ChainOnlyRepeats(c) ==
  Cardinality(Range(Append(c.chain, c.base))) < Len(c.chain) + 1

RepeatedElement(c) ==
  \/ Cardinality(Range(Append(c.chain, c.base))) < Len(c.chain) + 1
  \/ c.cut \in Range(Append(c.chain, c.base))

MissingRef(c) ==
  \/ \E i \in Links(c) : \A r \in RepoSet : ~Has(r, Env(c, i))
  \/ LET bottom == { r \in RepoSet : Has(r, Env(c, Len(c.chain))) }
     IN bottom # {} /\ \A r \in bottom : ~Has(r, c.base)

UnsafeWorktree(c) ==
  \E i \in Links(c) : \E r \in Participating(c, i) :
    tree[r][Env(c, i)] # "clean" \/ rebasing[r][Env(c, i)] # None

\* Mutant: the predecessor's tip alone is looked at, not its reflog.
MergeBase(r, pred, env) == Common(tip[r][pred], tip[r][env])

\* `git merge-base --fork-point`: the best common ancestor of the branch and of
\* everything its predecessor has pointed to, if the predecessor pointed to it.
ForkPoint(r, pred, env) ==
  LET shared == { Common(c, tip[r][env]) : c \in reflog[r][pred] }
      best == CHOOSE c \in shared : \A d \in shared : Len(d) <= Len(c)
  IN IF best \in reflog[r][pred] THEN best ELSE None

CutApplies(r, cut, env) == IsAncestor(tip[r][cut], tip[r][env])
CutAlreadyDone(r, base, env) == IsAncestor(tip[r][base], tip[r][env])

AtCut(c, i) == i = Len(c.chain) /\ c.cut # None

\* The frozen boundary of one repository, None when there is none to freeze.
Boundary(c, i, r) ==
  IF ~AtCut(c, i) THEN ForkPoint(r, Predecessor(c, i), Env(c, i))
  ELSE IF Has(r, c.cut) /\ (CutApplies(r, c.cut, Env(c, i)) \/ CutAlreadyDone(r, c.base, Env(c, i)))
       THEN tip[r][c.cut] ELSE None

UnknownBoundary(c) ==
  \E i \in Links(c) : \E r \in Participating(c, i) : Boundary(c, i, r) = None

\* One repository with nothing past its boundary holds the refusal's fire.
InvertedOrder(c) ==
  \E i \in Links(c) :
    LET bounded == { r \in Participating(c, i) : Boundary(c, i, r) # None }
        upper(r) == tip[r][Env(c, i)]
        lower(r) == tip[r][Predecessor(c, i)]
    IN /\ bounded # {}
       /\ \A r \in bounded : /\ upper(r) # Boundary(c, i, r)
                             /\ upper(r) # lower(r) /\ IsAncestor(upper(r), lower(r))

Refused(c) ==
  \/ RepeatedElement(c) \/ MissingRef(c) \/ UnsafeWorktree(c)
  \/ UnknownBoundary(c) \/ InvertedOrder(c)

Job(c, i, r) ==
  [env |-> Env(c, i), pred |-> Predecessor(c, i), repo |-> r,
   boundary |-> Boundary(c, i, r), cut |-> AtCut(c, i)]

LinkJobs(c, i) ==
  LET in == Only(Repos, Participating(c, i))
  IN [k \in 1..Len(in) |-> Job(c, i, in[k])]

\* Mutant: the links run in the order they were typed, top of the stack first.
TypedOrder(c) == FlattenSeq([i \in 1..Len(c.chain) |-> LinkJobs(c, i)])

\* The bottom link first.
Jobs(c) == FlattenSeq([i \in 1..Len(c.chain) |-> LinkJobs(c, Len(c.chain) + 1 - i)])

\* A refusal moves nothing, and neither does --dry-run, which ends here too.
Start(c) ==
  /\ jobs = <<>>
  /\ ~Refused(c) /\ Jobs(c) # <<>>
  /\ cmd' = c /\ jobs' = Jobs(c)
  /\ done' = IF c = cmd THEN done ELSE {}
  /\ UNCHANGED <<repos, edits, pulls, own>>

(***************************************************************************)
(* The execution of one repository of one link.                            *)
(***************************************************************************)

Upper(j) == tip[j.repo][j.env]
NewBase(j) == tip[j.repo][j.pred]

UpToDate(j) ==
  /\ ~(j.cut /\ IsAncestor(j.boundary, Upper(j)))
  /\ IsAncestor(NewBase(j), Upper(j))

\* What `git rebase` replays: the commits that are not in the old base.
Replayed(j) ==
  LET kept == Common(j.boundary, Upper(j))
  IN SubSeq(Upper(j), Len(kept) + 1, Len(Upper(j)))

\* Replaying a patch that is there already leaves nothing, and git drops it.
Replay(base, patches) ==
  base \o Only(patches, Patch \ Range(base))

Finished(j) == done' = done \union {<<j.repo, j.env>>}

Skip(j) ==
  /\ UpToDate(j)
  /\ jobs' = Tail(jobs)
  /\ Finished(j)
  /\ UNCHANGED <<repos, cmd>>

\* A rebase checks its branch out, and git refuses it on uncommitted changes.
CheckOut(j) ==
  /\ tree[j.repo][j.env] # "dirty"
  /\ tree' = [tree EXCEPT ![j.repo][j.env] = "clean"]

Rebased(j) ==
  /\ ~UpToDate(j)
  /\ CheckOut(j)
  /\ Point(j.repo, j.env, Replay(NewBase(j), Replayed(j)))
  /\ jobs' = Tail(jobs)
  /\ Finished(j)
  /\ UNCHANGED <<rebasing, cmd>>

\* git stops at a patch; the branch has not moved, the run is over.
Conflict(j) ==
  /\ ~UpToDate(j)
  /\ CheckOut(j)
  /\ \E k \in 1..Len(Replayed(j)) :
       rebasing' = [rebasing EXCEPT ![j.repo][j.env] =
         [onto |-> Replay(NewBase(j), SubSeq(Replayed(j), 1, k - 1)),
          todo |-> SubSeq(Replayed(j), k, Len(Replayed(j)))]]
  /\ jobs' = <<>>
  /\ UNCHANGED <<tip, reflog, cmd, done>>

\* RepoError, which git also gives for a worktree the user dirtied meanwhile;
\* or the command is killed.
Fail ==
  /\ jobs' = <<>>
  /\ UNCHANGED <<repos, cmd, done>>

Execute ==
  /\ jobs # <<>>
  /\ LET j == Head(jobs) IN Skip(j) \/ Rebased(j) \/ Conflict(j) \/ Fail
  /\ UNCHANGED <<edits, pulls, own>>

(***************************************************************************)
(* The user, in the worktree of env e in repository r.                     *)
(***************************************************************************)

\* Bound: one worktree at a time is dirty or parked.
AllClean == \A r \in RepoSet, e \in Envs : tree[r][e] = "clean"

AtHand(r, e) == Has(r, e) /\ rebasing[r][e] = None

Edit(r, e) ==
  /\ AtHand(r, e) /\ AllClean
  /\ edits < MaxEdits
  /\ tree' = [tree EXCEPT ![r][e] = "dirty"]
  /\ UNCHANGED <<tip, reflog, rebasing, run, edits, pulls, own>>

Switch(r, e) ==
  /\ AtHand(r, e)
  /\ \/ AllClean /\ edits < MaxEdits /\ tree' = [tree EXCEPT ![r][e] = "parked"]
     \/ tree[r][e] = "parked" /\ tree' = [tree EXCEPT ![r][e] = "clean"]
  /\ UNCHANGED <<tip, reflog, rebasing, run, edits, pulls, own>>

\* What the last command's runs finished no longer stands.
Disturb == cmd' = None /\ done' = {}

UserMoves(r, e, c) ==
  /\ Point(r, e, c)
  /\ tree' = [tree EXCEPT ![r][e] = "clean"]
  /\ edits' = edits + 1
  /\ Disturb
  /\ UNCHANGED <<rebasing, jobs, pulls>>

CommitEdit(r, e) ==
  /\ AtHand(r, e) /\ tree[r][e] = "dirty" /\ edits < MaxEdits
  /\ LET p == [by |-> e, n |-> Len(own[r][e]) + 1, v |-> 0]
     IN /\ UserMoves(r, e, Append(tip[r][e], p))
        /\ own' = [own EXCEPT ![r][e] = Append(@, p)]

Amend(r, e) ==
  /\ AtHand(r, e) /\ tree[r][e] = "dirty" /\ edits < MaxEdits
  /\ own[r][e] # <<>> /\ Last(tip[r][e]) = Last(own[r][e])
  /\ LET p == [Last(own[r][e]) EXCEPT !.v = @ + 1]
     IN /\ UserMoves(r, e, Append(Front(tip[r][e]), p))
        /\ own' = [own EXCEPT ![r][e] = Append(Front(@), p)]

\* Command c rebases env e in repository r.
Rebases(c, r, e) ==
  c # None /\ \E i \in Links(c) : Env(c, i) = e /\ r \in Participating(c, i)

\* `git rebase --continue` with the conflict resolved; a later patch may stop it
\* again.
Continue(r, e) ==
  /\ rebasing[r][e] # None
  /\ LET w == rebasing[r][e] IN
     \/ /\ Point(r, e, Replay(w.onto, w.todo))
        /\ rebasing' = [rebasing EXCEPT ![r][e] = None]
        /\ IF jobs = <<>> /\ Rebases(cmd, r, e)
           THEN done' = done \union {<<r, e>>} /\ UNCHANGED cmd
           ELSE Disturb
     \/ /\ Len(w.todo) > 1
        /\ rebasing' = [rebasing EXCEPT ![r][e] =
             [onto |-> Replay(w.onto, <<Head(w.todo)>>), todo |-> Tail(w.todo)]]
        /\ UNCHANGED <<tip, reflog, cmd, done>>
  /\ UNCHANGED <<tree, jobs, edits, pulls, own>>

Abort(r, e) ==
  /\ rebasing[r][e] # None
  /\ rebasing' = [rebasing EXCEPT ![r][e] = None]
  /\ UNCHANGED <<tip, reflog, tree, run, edits, pulls, own>>

\* A teammate's commit, or a stack's bottom env squash-merged by the forge.
PullMain(r) ==
  /\ pulls < MaxPulls
  /\ Point(r, Main, Append(tip[r][Main], [by |-> Main, n |-> pulls + 2, v |-> 0]))
  /\ pulls' = pulls + 1
  /\ Disturb
  /\ UNCHANGED <<tree, rebasing, jobs, edits, own>>

User == \/ \E r \in RepoSet, e \in Envs :
             Edit(r, e) \/ Switch(r, e) \/ CommitEdit(r, e) \/ Amend(r, e)
             \/ Continue(r, e) \/ Abort(r, e)
        \/ \E r \in RepoSet : PullMain(r)

(***************************************************************************)
(* Every env starts on Main's first commit, some of them stacked on another *)
(* env that already has a commit; the last repository may lack some envs.   *)
(***************************************************************************)

Root == <<[by |-> Main, n |-> 1, v |-> 0]>>
First(e) == [by |-> e, n |-> 1, v |-> 0]

Init ==
  /\ \E under \in Bottoms :
       LET below == Append(Root, First(under))
           onTop(e) == {None, Root, below, Append(below, First(e))}
       IN /\ tip \in [RepoSet -> [Branches -> UNION { onTop(b) : b \in Branches }]]
          /\ \A r \in RepoSet :
               /\ tip[r][Main] = Root
               /\ tip[r][under] \in {None, Root, below}
               /\ \A e \in Envs : Has(r, e) \/ r = Last(Repos)
               /\ \A e \in Envs \ {under} :
                    tip[r][e] \in IF tip[r][under] = below THEN onTop(e) ELSE {None, Root}
          /\ reflog = [r \in RepoSet |-> [b \in Branches |->
               IF ~Has(r, b) THEN {}
               ELSE { c \in {Root, below, tip[r][b]} :
                        /\ IsAncestor(c, tip[r][b])
                        /\ c = Root => b = under \/ c = tip[r][b] }]]
  /\ own = [r \in RepoSet |-> [b \in Branches |->
              IF b \in Envs /\ Has(r, b) THEN Only(tip[r][b], By(b)) ELSE <<>>]]
  /\ tree = [r \in RepoSet |-> [e \in Envs |-> "clean"]]
  /\ rebasing = [r \in RepoSet |-> [e \in Envs |-> None]]
  /\ cmd = None /\ jobs = <<>> /\ done = {}
  /\ edits = 0 /\ pulls = 0

Next == (\E c \in Commands : Start(c)) \/ Execute \/ User

Spec == Init /\ [][Next]_vars

-----------------------------------------------------------------------------
\* However often the stack is restacked, conflicts, is aborted or killed and
\* resumed, while its user goes on working: an env carries every commit made in
\* it, as last amended, exactly once and in the order they were made.
OwnCommitsKept ==
  \A r \in RepoSet, e \in Envs : Has(r, e) =>
    Only(tip[r][e], Range(own[r][e])) = own[r][e]

Superseded(r, p) ==
  p.by \in Envs /\ \E q \in Range(own[r][p.by]) : q.n = p.n /\ q.v > p.v
Current(r, c) == \A p \in Range(c) : ~Superseded(r, p)

\* The env stands on something its predecessor once was, with nothing of other
\* envs on top (a --cut that found the cut done may leave it otherwise).
StoodOnPredecessor(j) ==
  \E c \in reflog[j.repo][j.pred] :
    /\ IsAncestor(c, Upper(j))
    /\ c = NewBase(j) \/ ~IsAncestor(NewBase(j), c)
    /\ \A i \in Len(c) + 1 .. Len(Upper(j)) : Upper(j)[i].by \in {j.env, Main}

\* "Only the env's own commits replay": a finished repository stands on its
\* predecessor as it then is, and what the predecessor's author rewrote does not
\* come back with the env.
StandsOnPredecessor ==
  [][jobs # <<>> =>
       LET j == Head(jobs) IN
       Skip(j) \/ Rebased(j) =>
         /\ IsAncestor(NewBase(j), tip'[j.repo][j.env])
         /\ StoodOnPredecessor(j) /\ ~j.cut /\ cmd # None /\ Current(j.repo, NewBase(j))
              => Current(j.repo, tip'[j.repo][j.env])]_vars

\* An earlier run of the command finished this repository of this link, or its
\* user did by hand after a conflict.
Completed(j) == <<j.repo, j.env>> \in done

\* "A completed link reads up-to-date on that re-run", a --cut link included
\* (restack.md), which is more than the code keeps.  The next run of the same command leaves a completed
\* link alone, except a --cut link whose cut is in its base's history (and so in
\* the env's own): that one is replayed on every re-run, though onto what it
\* stands on already, which changes nothing unless git stops in it.
ResumeSkipsCompleted ==
  jobs # <<>> /\ Completed(Head(jobs)) =>
    LET j == Head(jobs) IN
    \/ UpToDate(j)
    \/ /\ j.cut /\ IsAncestor(j.boundary, NewBase(j))
       /\ Replay(NewBase(j), Replayed(j)) = Upper(j)

=============================================================================

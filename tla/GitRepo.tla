------------------------------- MODULE GitRepo -------------------------------
(***************************************************************************)
(* One project repository with its linked worktrees, and what the         *)
(* adapter of `winter ws` (WriteRepoRepository) does to it through git.   *)
(*                                                                         *)
(* A history is the set of the changes reachable from a commit, so an      *)
(* ancestor is a subset and a fast-forward moves to a superset; a merge    *)
(* and a rebase both end at the union (a replayed commit keeps the         *)
(* identity of its change).  A working tree is the set of changes its      *)
(* tracked files show: it is dirty when that is not the history of HEAD.   *)
(*                                                                         *)
(* A repository record has                                                 *)
(*   origin   the branches of the remote,                                  *)
(*   track    the remote-tracking refs, shared by every worktree,          *)
(*   heads    the local branches, shared by every worktree,                *)
(*   up       branch.<name>.merge of every local branch,                   *)
(*   stash    the changes parked in refs/stash,                            *)
(*   at       the checkouts, the source checkout and one per environment:  *)
(*            the branch HEAD is on (or the history it is detached at),    *)
(*            the tree, the untracked files, and the merge or rebase that  *)
(*            is in progress with the tree it would be aborted to.         *)
(***************************************************************************)
EXTENDS FiniteSets, Sequences

CONSTANTS Absent,       \* a ref that does not resolve
          None,         \* no upstream configured
          Detached,     \* HEAD is on no branch
          Source        \* the source checkout, which has main checked out

Main == "main"

\* HEAD of the checkout p: the history it stands on.
Tip(g, p) ==
    IF g.at[p].on = Detached THEN g.at[p].detached ELSE g.heads[g.at[p].on]

\* Staged or unstaged changes; an untracked file does not count.
Dirty(g, p) == g.at[p].tree # Tip(g, p)

\* A ref is <<"remote", branch>> (origin/<branch>), <<"local", branch>> or
\* <<"sha", history>>, a bare commit.
Lookup(refs, b) == IF b \in DOMAIN refs THEN refs[b] ELSE Absent
Ref(g, ref) == CASE ref[1] = "remote" -> Lookup(g.track, ref[2])
                 [] ref[1] = "local"  -> Lookup(g.heads, ref[2])
                 [] ref[1] = "sha"    -> ref[2]
HasRef(g, ref) == Ref(g, ref) # Absent
OriginMain == <<"remote", Main>>

\* The commits of a history that a ref does not hold.
NotIn(h, g, ref) == h \ Ref(g, ref)

\* `reset`, a merge or a rebase moves whatever is checked out.
MoveTip(g, p, h) ==
    IF g.at[p].on = Detached
    THEN [g EXCEPT !.at[p].detached = h]
    ELSE [g EXCEPT !.heads[g.at[p].on] = h]

\* The tree after HEAD moves with the uncommitted edits carried along.
Carried(g, p, h) == (h \ (Tip(g, p) \ g.at[p].tree)) \cup (g.at[p].tree \ Tip(g, p))
MoveWithTree(g, p, h) ==
    [MoveTip(g, p, h) EXCEPT !.at[p].tree = Carried(g, p, h)]

-----------------------------------------------------------------------------
(* What the configuration says of a checkout. *)

\* The upstream a branch is wired to, when its ref resolves locally.
BranchUpstream(g, b) ==
    IF b = Detached \/ g.up[b] = None \/ ~HasRef(g, <<"remote", g.up[b]>>)
    THEN None ELSE <<"remote", g.up[b]>>

WorktreeUpstream(g, p) == BranchUpstream(g, g.at[p].on)

\* The branch a push lands on is read from the configuration: it need not
\* exist on the remote yet.
PushBranch(g, p) == IF g.at[p].on = Detached THEN None ELSE g.up[g.at[p].on]

\* The ref a destructive move would abandon work relative to.
SafetyRef(g, b) ==
    IF BranchUpstream(g, b) # None THEN BranchUpstream(g, b) ELSE OriginMain

\* branch.<head>.* is keyed by the checked-out branch, or by the name of the
\* environment when HEAD is detached.
HeadBranchName(g, p) == IF g.at[p].on = Detached THEN p ELSE g.at[p].on

SetUpstream(g, p, b) == [g EXCEPT !.up[HeadBranchName(g, p)] = b]
UnsetUpstream(g, p)  == [g EXCEPT !.up[HeadBranchName(g, p)] = None]

-----------------------------------------------------------------------------
(* Integration: every operator is the set of the [repo, result] git and the *)
(* adapter can come back with.                                              *)

Outcome(g, r) == [repo |-> g, result |-> r]

\* Edits that overlap what comes in: git refuses, or with --autostash the
\* edits that do not apply again stay in the stash.
Parked(g, p, h) ==
    [MoveTip(g, p, h) EXCEPT !.at[p].tree = h,
                             !.stash = @ \cup (g.at[p].tree \ Tip(g, p))]

\* The moves of HEAD to h that a checkout with or without edits allows.
Moves(g, p, h, autostash) ==
    {MoveWithTree(g, p, h)}
        \cup (IF autostash /\ Dirty(g, p) THEN {Parked(g, p, h)} ELSE {})

Refusable(g, p, autostash) == Dirty(g, p) /\ ~autostash

\* `git merge --ff-only`: nothing moves in a checkout whose merge is not
\* concluded, nor past a commit the target does not have.
FastForward(g, p, h, autostash) ==
    IF g.at[p].merging # "no" THEN {Outcome(g, "diverged")}
    ELSE IF h \subseteq Tip(g, p) THEN {Outcome(g, "up_to_date")}
    ELSE IF ~(Tip(g, p) \subseteq h) THEN {Outcome(g, "diverged")}
    ELSE {Outcome(n, "fast_forwarded") : n \in Moves(g, p, h, autostash)}
            \cup (IF Refusable(g, p, autostash) THEN {Outcome(g, "diverged")} ELSE {})

\* A replay or a merge that stopped at a conflict: the tree shows both
\* sides and the state git keeps to abort it is on disk.
Stopped(g, p, h, kind) ==
    [g EXCEPT !.at[p].merging = kind,
              !.at[p].before  = g.at[p].tree,
              !.at[p].tree    = g.at[p].tree \cup h]

\* The second attempt of --merge, --no-ff and --rebase.  "failed" is the
\* GitCommandError the caller answers with an abort.
ThreeWay(g, p, h, kind, autostash) ==
    IF g.at[p].merging # "no" THEN {Outcome(g, "failed")}
    ELSE {Outcome(n, IF kind = "rebase" THEN "rebased" ELSE "merged") :
              n \in Moves(g, p, Tip(g, p) \cup h, autostash)}
            \cup {Outcome(Stopped(g, p, h, kind), "failed")}
            \cup (IF Refusable(g, p, autostash) THEN {Outcome(g, "failed")} ELSE {})

\* Mutant: the state of the stopped operation is only dropped.
AbortQuits(g, p, kind) ==
    IF g.at[p].merging = kind
    THEN [g EXCEPT !.at[p].merging = "no", !.at[p].before = {}] ELSE g

\* `git merge --abort` or `git rebase --abort`: restores what git recorded,
\* and fails, harmlessly, when no operation of that kind is in progress.
AbortOp(g, p, kind) ==
    IF g.at[p].merging = kind
    THEN [g EXCEPT !.at[p].merging = "no",
                   !.at[p].tree    = g.at[p].before,
                   !.at[p].before  = {}]
    ELSE g

-----------------------------------------------------------------------------
(* Moves that discard, and the remote. *)

\* `git checkout --force -B <env> --no-track <ref>`: HEAD is attached to the
\* environment's branch, the branch is at the ref, edits are gone.
ForceCheckout(g, p, ref) ==
    [g EXCEPT !.heads[p] = Ref(g, ref),
              !.at[p].on = p, !.at[p].detached = {},
              !.at[p].tree = Ref(g, ref),
              !.at[p].merging = "no", !.at[p].before = {}]

\* `git reset --soft | --mixed | --hard`: only --hard touches the tree.
ResetTo(g, p, mode, ref) ==
    LET moved == MoveTip(g, p, Ref(g, ref))
    IN  CASE mode = "hard"  -> [moved EXCEPT !.at[p].tree = Ref(g, ref),
                                            !.at[p].merging = "no", !.at[p].before = {}]
          [] mode = "mixed" -> [moved EXCEPT !.at[p].merging = "no", !.at[p].before = {}]
          [] mode = "soft"  -> moved

Fetched(g) == [g EXCEPT !.track = [b \in DOMAIN g.track |->
                  IF g.origin[b] # Absent THEN g.origin[b] ELSE g.track[b]]]

\* The remote takes a push that is a fast-forward, or a new branch.
Accepts(g, p, b) == IF g.origin[b] = Absent THEN TRUE ELSE g.origin[b] \subseteq Tip(g, p)
Pushed(g, p, b) == [g EXCEPT !.origin[b] = Tip(g, p), !.track[b] = Tip(g, p)]
\* The same, when the client was killed before it could note the new tip.
PushedUnseen(g, p, b) == [g EXCEPT !.origin[b] = Tip(g, p)]

CheckedOutOn(g, b) == {p \in DOMAIN g.at : g.at[p].on = b}

\* Mutant: the ref is advanced also where a checkout is on it.
FollowPushRef(g, b, pre) ==
    IF g.heads[b] # pre THEN {Outcome(g, "none")}
    ELSE {Outcome([g EXCEPT !.heads[b] = g.track[b]], "advanced")}

\* The local branch of the pushed name follows, if it was exactly at the
\* remote tip before the push: as a bare ref when no checkout is on it,
\* else in the checkout, which has to be clean.
FollowPush(g, b, pre) ==
    LET new == g.track[b]
    IN  IF g.heads[b] = Absent THEN {Outcome(g, "none")}
        ELSE IF g.heads[b] # pre THEN {Outcome(g, "not in sync")}
        ELSE IF new = g.heads[b] THEN {Outcome(g, "none")}
        ELSE IF CheckedOutOn(g, b) = {}
             THEN {Outcome([g EXCEPT !.heads[b] = new], "advanced")}
        ELSE LET q == CHOOSE p \in CheckedOutOn(g, b) : TRUE
             IN  IF Dirty(g, q) THEN {Outcome(g, "dirty")}
                 ELSE {IF o.result = "diverged" THEN Outcome(g, "ff failed")
                       ELSE Outcome(o.repo, "advanced") : o \in FastForward(g, q, new, FALSE)}
=============================================================================

------------------------------- MODULE Status -------------------------------
(***************************************************************************)
(* `winter ws status` over the repositories of WorktreeOps, and what the   *)
(* workspace around this one makes of its JSON document before it deletes  *)
(* the worktree that holds this one: a workspace may be nested in an       *)
(* environment of another.                                                 *)
(*                                                                         *)
(* A count is kept as the set it counts, and a report is read at one       *)
(* instant.  The state of a workspace nested in a worktree of this one is  *)
(* an input: inner gives [dirty, unpushed, error] for those that hold one. *)
(***************************************************************************)
EXTENDS WorktreeOps

CONSTANTS NestedTrees,   \* the worktrees of repositories declared `nested = true`
          Orphans        \* findings of prune and of the drift check

ASSUME NestedAssumption == NestedTrees \subseteq OnDisk

-----------------------------------------------------------------------------
(* One visit of a checkout. *)

\* `git status --porcelain=v2 --branch --untracked-files=all`: branch.ab is
\* printed only when the upstream ref resolves.
Porcelain(g, p) ==
    LET up      == PushBranch(g, p)
        present == BranchUpstream(g, g.at[p].on) # None
        against(h, k) == IF present THEN h \ k ELSE {}
        theirs  == IF present THEN Ref(g, <<"remote", up>>) ELSE {}
    IN  [branch    |-> IF g.at[p].on = Detached THEN None ELSE g.at[p].on,
         upstream  |-> up,
         present   |-> present,
         trackingAhead  |-> against(Tip(g, p), theirs),
         trackingBehind |-> against(theirs, Tip(g, p)),
         changed   |-> (g.at[p].tree \ Tip(g, p)) \cup (Tip(g, p) \ g.at[p].tree),
         untracked |-> g.at[p].files]

\* `git rev-list --left-right --count origin/<main>...HEAD`; nothing when the
\* ref does not resolve.
MainAheadBehind(g, p) ==
    IF HasRef(g, OriginMain)
    THEN [ahead |-> NotIn(Tip(g, p), g, OriginMain), behind |-> Ref(g, OriginMain) \ Tip(g, p)]
    ELSE [ahead |-> {}, behind |-> {}]

\* Mutant: the entries of the stash are not looked for.
LocalWorkNoStash(g) ==
    [local_only_commits |-> (UNION ({g.heads[b] : b \in DOMAIN g.heads} \ {Absent})) \ Saved(g),
     stashes |-> {}]

\* Commits of a local branch that no remote-tracking ref reaches, and the
\* entries of the stash, which every worktree of the repository shares.
LocalWork(g) ==
    [local_only_commits |-> (UNION ({g.heads[b] : b \in DOMAIN g.heads} \ {Absent})) \ Saved(g),
     stashes |-> g.stash]

RepoStatus(g, p) ==
    LET s == Porcelain(g, p)
        vsMain == MainAheadBehind(g, p)
    IN  [branch |-> s.branch, upstream |-> s.upstream, tracking_ref_present |-> s.present,
         tracking_ahead |-> s.trackingAhead, ahead |-> vsMain.ahead, behind |-> vsMain.behind,
         dirty |-> s.changed \cup s.untracked]

\* A standalone is measured against the upstream of its branch: on a detached
\* HEAD against nothing, and when the ref of that upstream does not resolve
\* rev-list fails and the probe raises.
StandaloneRaises(g) ==
    LET p == Source IN PushBranch(g, p) # None /\ WorktreeUpstream(g, p) = None

StandaloneStatus(g) ==
    LET s == Porcelain(g, Source)
    IN  [branch |-> s.branch, ahead |-> s.trackingAhead, behind |-> s.trackingBehind,
         dirty |-> s.changed \cup s.untracked,
         local_only_commits |-> LocalWork(g).local_only_commits, stashes |-> LocalWork(g).stashes]

-----------------------------------------------------------------------------
(* The snapshot. *)

\* A nested workspace that cannot be read is recorded in error.
NestedSnapshot(inner, w) ==
    IF w \notin NestedTrees THEN [dirty |-> FALSE, unpushed |-> FALSE, error |-> FALSE]
    ELSE IF inner[w].error THEN [dirty |-> FALSE, unpushed |-> FALSE, error |-> TRUE]
    ELSE inner[w]

\* The worktrees that a pattern of the command line matches.
Environments(inner, picked) ==
    {[wt |-> w, status |-> RepoStatus(repo[w[1]], w[2]), nested |-> NestedSnapshot(inner, w)] :
        w \in OnDisk \cap picked}

\* The source checkouts that have something to show; the others are left out.
MainStatuses ==
    {[repo |-> r, status |-> RepoStatus(repo[r], Source), work |-> LocalWork(repo[r])] :
        r \in {q \in Repo \ Standalone :
                 LET s == RepoStatus(repo[q], Source)
                     k == LocalWork(repo[q])
                 IN  s.ahead \cup s.behind \cup s.dirty
                        \cup k.local_only_commits \cup k.stashes # {}}}

\* A standalone whose probe raises is logged and left out.
StandaloneStatuses ==
    {[repo |-> s, status |-> StandaloneStatus(repo[s])] :
        s \in {q \in Standalone : ~StandaloneRaises(repo[q])}}

Snapshot(inner, picked) ==
    [environments |-> Environments(inner, picked),
     projects |-> MainStatuses, standalones |-> StandaloneStatuses, orphans |-> Orphans]

-----------------------------------------------------------------------------
(* The exit status of the command. *)

WorktreeIsDirty(e) == e.status.dirty # {} \/ e.nested.dirty \/ e.nested.error

\* With patterns only the worktrees they match count.
StatusExitCode(snapshot, scoped) ==
    IF \/ \E e \in snapshot.environments : WorktreeIsDirty(e)
       \/ /\ ~scoped
          /\ \/ \E c \in snapshot.projects :
                    c.status.behind \cup c.status.ahead \cup c.status.dirty # {}
             \/ \E s \in snapshot.standalones :
                    s.status.behind \cup s.status.ahead \cup s.status.dirty # {}
             \/ snapshot.orphans # {}
    THEN 1 ELSE 0

-----------------------------------------------------------------------------
(* What the workspace around this one reads in the document. *)

\* Ahead of its upstream, or ahead of main with no upstream ref to hold it.
UnpushedReasons(e) ==
    \/ e.status.tracking_ahead # {}
    \/ /\ e.status.ahead # {}
       /\ e.status.upstream = None \/ ~e.status.tracking_ref_present
    \/ e.nested.unpushed

\* The source checkouts and standalones that hold work.
CheckoutsWithLocalWork(doc) ==
    {c.repo : c \in {x \in doc.projects : x.status.dirty \cup x.status.ahead
                          \cup x.work.local_only_commits \cup x.work.stashes # {}}}
        \cup {s.repo : s \in {x \in doc.standalones : x.status.dirty \cup x.status.ahead
                          \cup x.status.local_only_commits \cup x.status.stashes # {}}}

\* [dirty, unpushed] of the document, as the workspace around keeps it.
ParseState(doc) ==
    [dirty    |-> {e.wt : e \in {x \in doc.environments : WorktreeIsDirty(x)}},
     unpushed |-> {e.wt : e \in {x \in doc.environments : UnpushedReasons(x)}}
                    \cup {<<r, Source>> : r \in CheckoutsWithLocalWork(doc)}]

\* The gate of an outer destroy without --force.
ReadsSafe(doc) == ParseState(doc).dirty = {} /\ ParseState(doc).unpushed = {}

-----------------------------------------------------------------------------
(* Property. *)

Inners == [NestedTrees -> [dirty : BOOLEAN, unpushed : BOOLEAN, error : BOOLEAN]]
Lossless(i) == ~i.dirty /\ ~i.unpushed /\ ~i.error

\* What the document does not tell of: the commits of a standalone whose HEAD
\* is detached or whose upstream ref was never fetched.
Told(r) ==
    r \in Standalone => repo[r].at[Source].on # Detached /\ ~StandaloneRaises(repo[r])

\* Whenever the workspace around this one reads that nothing here is dirty or
\* unpushed, deleting all of it loses nothing: every commit, edit and stash
\* of every repository, in whatever checkout and on whatever branch, is on
\* the remote, no untracked file is lost, and no workspace nested deeper
\* holds work or could not be read.
ReadsSafeOnlyWhenSaved ==
    \A inner \in Inners :
        ReadsSafe(Snapshot(inner, OnDisk)) =>
            /\ \A w \in NestedTrees : Lossless(inner[w])
            /\ \A r \in Repo : Told(r) =>
                  /\ Kept(repo[r]) \subseteq UNION ({repo[r].origin[b] : b \in DOMAIN repo[r].origin} \ {Absent})
                  /\ \A p \in Places(r) : repo[r].at[p].files = {}
=============================================================================

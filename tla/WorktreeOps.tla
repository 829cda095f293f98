----------------------------- MODULE WorktreeOps -----------------------------
(***************************************************************************)
(* The commands of `winter ws` that work on the checkouts of a workspace:  *)
(* fetch, pull and merge on a pool of threads, one lane per repository;    *)
(* push, checkout, reset, clean, connect and disconnect in the calling     *)
(* thread, one checkout after the other.                                   *)
(*                                                                         *)
(* The user works in the checkouts and others push to the remote between   *)
(* any two steps, MaxMeddling times at most; git and the network fail      *)
(* MaxFaults times at most.  A lane does not meet the user in the checkout *)
(* it is integrating (git's own index lock).  The remote only grows: a     *)
(* forced push by others is left out.                                      *)
(***************************************************************************)
EXTENDS GitRepo, Integers

CONSTANTS Repo,             \* every repository with a clone
          Standalone,       \* ... that has a single checkout of its own
          Pinned,           \* project repositories that follow main
          Worktrees,        \* <<repo, env>> of the project worktrees on disk, in order
          Branch,           \* the names of the branches, an environment's among them
          Change,           \* every change of a history
          Commands,         \* the command lines the run may start
          InitRepos,        \* the states of the repositories to start from
          Changes,          \* the user's changes
          Pushes,           \* the changes others push
          Files,            \* untracked paths
          Reach,            \* the checkouts the user works in meanwhile
          MaxAttempts,      \* tries of one network operation
          MaxCommands,      \* bound: commands of a run
          MaxFaults,        \* bound: failures of git and of the network
          MaxMeddling,      \* bound: actions of the user and of others
          Caller            \* the lane of the calling thread

VARIABLES repo,      \* the repositories on disk and their remotes
          cmd,       \* the command line that runs, or ran last
          run,       \* its state: phase, refusals, exit status
          lane,      \* the threads: what each still has to do
          told,      \* the outcomes reported so far: [wt, result, what]
          done,      \* history: what the command did, as <<wt, what>>
          seen,      \* history: the changes each repository held at phase 1
          faults, meddled, started

vars == <<repo, cmd, run, lane, told, done, seen, faults, meddled, started>>
history == <<seen, started>>

OnDisk == {Worktrees[i] : i \in DOMAIN Worktrees}

Lanes == Repo \cup {Caller}
Places(r) == DOMAIN repo[r].at
Checkouts == {w \in Repo \X UNION {Places(r) : r \in Repo} : w[2] \in Places(w[1])}

Pooled == {"fetch", "pull", "merge"}

\* Every change a repository holds anywhere.
Kept(g) ==
    LET refs == {g.origin[b] : b \in DOMAIN g.origin} \cup {g.track[b] : b \in DOMAIN g.track}
                    \cup {g.heads[b] : b \in DOMAIN g.heads}
    IN  g.stash \cup (UNION (refs \ {Absent}))
            \cup (UNION {g.at[p].tree \cup g.at[p].detached : p \in DOMAIN g.at})

\* What a remote-tracking ref holds.
Saved(g) == UNION ({g.track[b] : b \in DOMAIN g.track} \ {Absent})

-----------------------------------------------------------------------------
(* What a repository and a command line look like. *)

Envs(r) == {Source} \cup {w[2] : w \in {v \in OnDisk : v[1] = r}}
Spots == {w \in Repo \X (Branch \cup {Source}) : w[2] \in Envs(w[1])}

CheckoutType ==
    [on : Branch \cup {Detached}, detached : SUBSET Change, tree : SUBSET Change,
     files : SUBSET Files, merging : {"no", "merge", "rebase"}, before : SUBSET Change]

RefsType == [Branch -> {Absent} \cup SUBSET Change]

RepoType(r) ==
    [origin : RefsType, track : RefsType, heads : RefsType,
     up : [Branch -> Branch \cup {None}], stash : SUBSET Change,
     at : [Envs(r) -> CheckoutType]]

PullModes == {"ff_only", "no_ff", "merge", "rebase"}
ResetModes == {"soft", "mixed", "hard"}

\* What a checkout can be integrated from or reset to.
RefName == ({"remote", "local"} \X Branch) \cup ({"sha"} \X SUBSET Change)

CommandType ==
    [op : {"fetch", "pull", "merge", "push", "checkout", "reset", "clean", "connect", "disconnect"},
     pick : SUBSET (Repo \X Branch), pinned : {"include", "exclude", "only"},
     standalone : BOOLEAN, autostash : BOOLEAN, force : BOOLEAN, dry : BOOLEAN, fresh : BOOLEAN,
     mode : PullModes \cup ResetModes, ref : RefName, branch : Branch]

\* HEAD is at a commit.
Attached(g) ==
    \A p \in DOMAIN g.at : g.at[p].on # Detached =>
        g.at[p].detached = {} /\ g.heads[g.at[p].on] # Absent

\* A remote-tracking ref is where the branch of the remote was, which only
\* grows; main has been fetched.
Tracked(g) ==
    /\ g.track[Main] # Absent
    /\ \A b \in Branch : g.track[b] # Absent =>
            g.origin[b] # Absent /\ g.track[b] \subseteq g.origin[b]

\* git lets no two checkouts be on one branch, and nobody checks out the
\* branch of another environment.
Apart(g) ==
    \A p, q \in DOMAIN g.at : p # q /\ g.at[p].on # Detached => g.at[p].on \notin {q, g.at[q].on}

WellFormed(r, g) == g \in RepoType(r) /\ Attached(g) /\ Tracked(g) /\ Apart(g)

ASSUME NameAssumption ==
    Main \in Branch /\ None \notin Branch /\ Detached \notin Branch /\ Caller \notin Repo
ASSUME ChangeAssumption ==
    Changes \subseteq Change /\ Pushes \subseteq Change /\ \A h \in SUBSET Change : h # Absent
ASSUME RepoAssumption ==
    /\ Standalone \subseteq Repo /\ Reach \subseteq Spots
    /\ Worktrees \in Seq((Repo \ Standalone) \X Branch)
ASSUME CommandsAssumption ==
    \A c \in Commands : c \in CommandType /\ (c.op = "reset" <=> c.mode \in ResetModes)
ASSUME InitAssumption ==
    \A g \in InitRepos : DOMAIN g = Repo /\ \A r \in Repo : WellFormed(r, g[r])

-----------------------------------------------------------------------------
(* Which checkouts a command line selects. *)

InPinnedScope(c, w) ==
    IF w[1] \in Pinned THEN c.pinned # "exclude" ELSE c.pinned # "only"

NonPinned(w) == w[1] \notin Pinned

Eligible(c, w) ==
    /\ w \in c.pick
    /\ CASE c.op \in {"fetch", "pull"} -> TRUE
         [] c.op \in {"push", "merge"} -> InPinnedScope(c, w)
         [] OTHER                      -> NonPinned(w)

Targets(c) == {w \in OnDisk : Eligible(c, w)}

OfRepo(c, r) == {w \in Targets(c) : w[1] = r}
Own(s) == <<s, Source>>

\* The jobs of a lane: one fetch of the source checkout per repository, the
\* checkouts of a repository, or everything.
Jobs(c, l) ==
    CASE l \in Standalone /\ c.standalone /\ c.op \in Pooled -> {Own(l)}
      [] l \in Repo \ Standalone /\ c.op \in Pooled ->
            IF OfRepo(c, l) = {} THEN {}
            ELSE IF c.op = "fetch" THEN {Own(l)} ELSE OfRepo(c, l)
      [] l = Caller /\ c.op \notin Pooled ->
            Targets(c) \cup (IF c.op = "push" /\ c.standalone
                             THEN {Own(s) : s \in Standalone} ELSE {})
      [] OTHER -> {}

\* They are done one after the other: the worktrees in the order in which
\* they are enumerated, then the standalones.
Place(w) == IF w \in OnDisk THEN CHOOSE i \in DOMAIN Worktrees : Worktrees[i] = w
                            ELSE Len(Worktrees) + 1
First(jobs) == CHOOSE w \in jobs : \A v \in jobs : Place(w) <= Place(v)

\* `reset --hard` of several worktrees asks first, a clean always does.
Asks(c) ==
    /\ ~c.force /\ ~c.dry
    /\ \/ c.op = "reset" /\ c.mode = "hard" /\ Cardinality(Targets(c)) > 1
       \/ c.op = "clean"

FirstStep(c) ==
    CASE c.op \in {"fetch", "pull"}        -> "fetch"
      [] c.op = "merge"                    -> "integrate"
      [] c.op = "checkout"                 -> "classify"
      [] c.op = "reset"                    -> IF Asks(c) THEN "ask" ELSE "classify"
      [] c.op = "clean"                    -> "preview"
      [] OTHER                             -> c.op

\* A thread keeps the tries of its network call, a value it has read (held),
\* and, as history, what the checkout was when it began to integrate (base).
Thread(jobs, step) ==
    [jobs |-> jobs, step |-> step, tries |-> 0, held |-> Absent, base |-> Absent]
Over == Thread({}, "over")
Raised == Thread({}, "raised")

Job(l) == First(lane[l].jobs)
At(l, step) == run.phase = "running" /\ lane[l].step = step
Goto(l, step) == lane' = [lane EXCEPT ![l].step = step, ![l].tries = 0]

\* The lane is through with its checkout.
Next1(l, step) ==
    lane' = [lane EXCEPT ![l] = IF lane[l].jobs = {Job(l)} THEN Over
                                ELSE Thread(lane[l].jobs \ {Job(l)}, step)]

Event(w, r, what) == [wt |-> w, result |-> r, what |-> what]
Tell(w, r, what) == told' = told \cup {Event(w, r, what)}
Did(w, what) == done' = done \cup {<<w, x>> : x \in what}

Moving == {"fast_forwarded", "merged", "rebased"}
What(result) == IF result \in Moving THEN {"head"} ELSE {}

Fault == faults < MaxFaults /\ faults' = faults + 1

-----------------------------------------------------------------------------
(* A command starts, and ends. *)

Init ==
    /\ repo \in InitRepos
    /\ cmd = [op |-> "none"]
    /\ run = [phase |-> "idle", exit |-> 0]
    /\ lane = [l \in Lanes |-> Over]
    /\ told = {} /\ done = {}
    /\ seen = [r \in Repo |-> {}]
    /\ faults = 0 /\ meddled = 0 /\ started = 0

Start(c) ==
    /\ run.phase = "idle" /\ started < MaxCommands
    /\ cmd' = c
    /\ run' = [phase |-> "running", exit |-> 0]
    /\ lane' = [l \in Lanes |-> IF Jobs(c, l) = {} THEN Over
                                ELSE Thread(Jobs(c, l), FirstStep(c))]
    /\ told' = {} /\ done' = {}
    /\ seen' = [r \in Repo |-> {}]
    /\ started' = started + 1
    /\ UNCHANGED <<repo, faults, meddled>>

Bad(e) ==
    CASE cmd.op = "pull"  -> \/ e.result = "diverged"
                             \/ e.wt[1] \in Standalone /\ e.result = "no_upstream"
      [] cmd.op = "merge" -> e.result \in {"diverged", "skipped_missing_ref"}
      [] OTHER            -> e.result = "failed"

\* A pool collects the lanes as they complete.  A lane that raised unwinds
\* the collection, the pool still waits for every lane, and the standalone
\* outcomes that were not collected yet are told to no one.
Collect(l) ==
    /\ run.phase = "running" /\ cmd.op \in Pooled
    /\ l \in Standalone /\ lane[l].step = "collect"
    /\ lane' = [lane EXCEPT ![l] = Over]
    /\ IF run.exit = 2 THEN UNCHANGED told
       ELSE Tell(Own(l), lane[l].held, What(lane[l].held))
    /\ UNCHANGED <<repo, cmd, run, done, history, faults, meddled>>

\* The calling thread that raises has nothing to show: the services return
\* their report at the end.
CollectRaised(l) ==
    /\ At(l, "raised")
    /\ lane' = [lane EXCEPT ![l] = Over]
    /\ run' = [run EXCEPT !.exit = 2]
    /\ told' = IF l = Caller THEN {} ELSE told
    /\ UNCHANGED <<repo, cmd, done, history, faults, meddled>>

Finish ==
    /\ run.phase = "running" /\ \A l \in Lanes : lane[l] = Over
    /\ run' = [phase |-> "idle",
               exit  |-> IF run.exit = 0 /\ \E e \in told : Bad(e) THEN 1 ELSE run.exit]
    /\ UNCHANGED <<repo, cmd, lane, told, done, history, faults, meddled>>

\* A git call that raises: the thread unwinds, nothing it collected so far
\* is returned.  Steps that catch are actions of their own below.
Raises(l) ==
    /\ run.phase = "running"
    /\ lane[l].step \in {"integrate", "move", "track", "untrack", "preview", "connect", "disconnect"}
    /\ Fault
    /\ lane' = [lane EXCEPT ![l] = Raised]
    /\ UNCHANGED <<repo, cmd, run, told, done, history, meddled>>

-----------------------------------------------------------------------------
(* fetch and the first half of pull: GitOpsService tries three times. *)

FetchFailed(l) ==
    IF cmd.op = "pull"
    THEN Goto(l, "integrate") /\ UNCHANGED told
    ELSE Next1(l, "fetch") /\ Tell(Own(l), "failed", {})

Fetch(l) ==
    /\ At(l, "fetch")
    /\ repo' = [repo EXCEPT ![l] = Fetched(repo[l])]
    /\ IF l \notin Standalone THEN Goto(l, "source") /\ UNCHANGED told
       ELSE IF cmd.op = "pull" THEN Goto(l, "integrate") /\ UNCHANGED told
       ELSE Next1(l, "fetch") /\ Tell(Own(l), "fetched", {})
    /\ UNCHANGED <<cmd, run, done, history, faults, meddled>>

\* A transient failure is tried again, silently, until the attempts are up;
\* any other fails at once.
FetchAgain(l) ==
    /\ At(l, "fetch")
    /\ lane[l].tries + 1 < MaxAttempts
    /\ lane' = [lane EXCEPT ![l].tries = @ + 1]
    /\ UNCHANGED <<repo, cmd, run, told, done, history, faults, meddled>>

FetchFails(l) ==
    /\ At(l, "fetch")
    /\ FetchFailed(l)
    /\ UNCHANGED <<repo, cmd, run, done, history, faults, meddled>>

\* The fast-forward of main in the source checkout: best effort for pull,
\* the outcome of fetch.
FollowMain(l) ==
    /\ At(l, "source")
    /\ \E o \in IF HasRef(repo[l], OriginMain)
                THEN FastForward(repo[l], Source, Ref(repo[l], OriginMain), FALSE)
                ELSE {Outcome(repo[l], "diverged")} :
         /\ repo' = [repo EXCEPT ![l] = o.repo]
         /\ IF cmd.op = "pull"
            THEN Goto(l, "integrate") /\ UNCHANGED <<told, done>>
            ELSE /\ Next1(l, "fetch")
                 /\ Tell(Own(l), IF o.result = "diverged" THEN "failed" ELSE o.result,
                         What(o.result))
                 /\ Did(Own(l), What(o.result))
    /\ UNCHANGED <<cmd, run, history, faults, meddled>>

-----------------------------------------------------------------------------
(* The second half of pull, and merge. *)

\* The ref a checkout is integrated from: a pinned worktree follows main,
\* any other its own upstream; merge is given one.
Wanted(l) ==
    LET g == repo[l]
        p == Job(l)[2]
    IN  IF cmd.op = "merge" THEN cmd.ref
        ELSE IF l \in Pinned THEN OriginMain
        ELSE IF l \notin Standalone THEN WorktreeUpstream(g, p)
        ELSE IF PushBranch(g, p) = None THEN None
        ELSE <<"remote", PushBranch(g, p)>>

\* What a diverged outcome promises to leave alone.
Look(g, p) == [tip |-> Tip(g, p), tree |-> g.at[p].tree,
               merging |-> g.at[p].merging, stash |-> g.stash]

\* A project lane reports from inside the task, a standalone's outcome is
\* reported when the pool collects it.
Report(l, result) ==
    /\ IF l \in Standalone
       THEN lane' = [lane EXCEPT ![l].step = "collect", ![l].held = result] /\ UNCHANGED told
       ELSE Next1(l, "integrate") /\ Tell(Job(l), result, What(result))
    /\ Did(Job(l), What(result))

\* The first attempt: a fast-forward, except for --no-ff.
Attempts(l) ==
    LET g == repo[l]
        p == Job(l)[2]
    IN  IF Wanted(l) = None THEN {Outcome(g, "no_upstream")}
        ELSE IF ~HasRef(g, Wanted(l))
             THEN {Outcome(g, IF cmd.op = "merge" THEN "skipped_missing_ref" ELSE "diverged")}
        ELSE IF cmd.mode # "no_ff" THEN FastForward(g, p, Ref(g, Wanted(l)), cmd.autostash)
        ELSE IF Ref(g, Wanted(l)) \subseteq Tip(g, p) THEN {Outcome(g, "up_to_date")}
        ELSE {Outcome(g, "diverged")}

Integrate(l) ==
    /\ At(l, "integrate")
    /\ \E o \in Attempts(l) :
         IF o.result = "diverged" /\ cmd.mode # "ff_only"
         THEN /\ lane' = [lane EXCEPT ![l].step = "second", ![l].held = Wanted(l),
                                      ![l].base = Look(repo[l], Job(l)[2])]
              /\ UNCHANGED <<repo, told, done>>
         ELSE repo' = [repo EXCEPT ![l] = o.repo] /\ Report(l, o.result)
    /\ UNCHANGED <<cmd, run, history, faults, meddled>>

Kind == IF cmd.mode = "rebase" THEN "rebase" ELSE "merge"

SecondAttempt(l) ==
    /\ At(l, "second")
    /\ \E o \in IF HasRef(repo[l], lane[l].held)
                THEN ThreeWay(repo[l], Job(l)[2], Ref(repo[l], lane[l].held), Kind, cmd.autostash)
                ELSE {Outcome(repo[l], "failed")} :
         /\ repo' = [repo EXCEPT ![l] = o.repo]
         /\ IF o.result = "failed"
            THEN Goto(l, "abort") /\ UNCHANGED <<told, done>>
            ELSE Report(l, o.result)
    /\ UNCHANGED <<cmd, run, history, faults, meddled>>

Abort(l) ==
    /\ At(l, "abort")
    /\ repo' = [repo EXCEPT ![l] = AbortOp(@, Job(l)[2], Kind)]
    /\ Report(l, "diverged")
    /\ UNCHANGED <<cmd, run, history, faults, meddled>>

-----------------------------------------------------------------------------
(* push: one checkout after the other, in the calling thread. *)

There == repo[Job(Caller)[1]]
Here == Job(Caller)[2]
Alter(g) == repo' = [repo EXCEPT ![Job(Caller)[1]] = g]
Skip == UNCHANGED repo

Ahead(g, p) ==
    IF WorktreeUpstream(g, p) = None THEN {} ELSE NotIn(Tip(g, p), g, WorktreeUpstream(g, p))

HasCommitsToPush(w) ==
    LET g == repo[w[1]]
    IN  \/ Ahead(g, w[2]) # {}
        \/ w[1] \notin Pinned \cup Standalone /\ NotIn(Tip(g, w[2]), g, OriginMain) # {}

\* The branch is read from the configuration, its remote tip before the
\* push: what "in sync" meant.
PushOne ==
    LET target == PushBranch(There, Here)
        w == Job(Caller)
    IN  /\ At(Caller, "push")
        /\ \/ /\ ~HasCommitsToPush(w)
              /\ w[1] \notin Standalone \/ WorktreeUpstream(There, Here) # None
              /\ Next1(Caller, "push") /\ UNCHANGED told
           \/ /\ IF w[1] \in Standalone THEN WorktreeUpstream(There, Here) = None
                 ELSE HasCommitsToPush(w) /\ target = None
              /\ Next1(Caller, "push") /\ Tell(w, "failed", {})
           \/ /\ HasCommitsToPush(w) /\ target # None
              /\ lane' = [lane EXCEPT ![Caller].step = "send",
                                      ![Caller].held = [branch |-> target, tip |-> There.track[target]]]
              /\ UNCHANGED told
        /\ UNCHANGED <<repo, cmd, run, done, history, faults, meddled>>

Sent == lane[Caller].held.branch

\* The remote takes a fast-forward; a plain push also has to find HEAD on
\* a branch still.
Takes ==
    /\ Accepts(There, Here, Sent)
    /\ Job(Caller)[1] \in Pinned \cup Standalone => There.at[Here].on # Detached

PushAccepted ==
    /\ At(Caller, "send") /\ Takes
    /\ Alter(Pushed(There, Here, Sent))
    /\ Did(Job(Caller), {"pushed"})
    /\ Goto(Caller, "follow")
    /\ UNCHANGED <<cmd, run, told, history, faults, meddled>>

PushFailed == Next1(Caller, "push") /\ Tell(Job(Caller), "failed", {})

\* Refused for good: the remote holds commits this push would drop.
PushRefused ==
    /\ At(Caller, "send") /\ ~Takes
    /\ PushFailed
    /\ UNCHANGED <<repo, cmd, run, done, history, faults, meddled>>

\* A failure before the remote took the push or, when the client is killed
\* at its timeout, after: a transient one is tried again until the attempts
\* are up.
SendAgain(transient) ==
    IF transient /\ lane[Caller].tries + 1 < MaxAttempts
    THEN lane' = [lane EXCEPT ![Caller].tries = @ + 1] /\ UNCHANGED told
    ELSE PushFailed

PushUnsent ==
    /\ At(Caller, "send")
    /\ \E transient \in BOOLEAN : SendAgain(transient)
    /\ UNCHANGED <<repo, cmd, run, done, history, faults, meddled>>

PushUnanswered ==
    /\ At(Caller, "send") /\ Takes /\ Fault
    /\ Alter(PushedUnseen(There, Here, Sent))
    /\ Did(Job(Caller), {"pushed"})
    /\ SendAgain(TRUE)
    /\ UNCHANGED <<cmd, run, history, meddled>>

\* The workspace's own copy of the pushed branch follows.
Follow ==
    /\ At(Caller, "follow")
    /\ \E o \in IF lane[Caller].held.tip = Absent \/ Job(Caller)[1] \in Standalone
                THEN {Outcome(There, "none")} ELSE FollowPush(There, Sent, lane[Caller].held.tip) :
         Alter(o.repo) /\ Tell(Job(Caller), "pushed", {"pushed"})
    /\ Next1(Caller, "push")
    /\ UNCHANGED <<cmd, run, done, history, faults, meddled>>

-----------------------------------------------------------------------------
(* checkout and reset: every target is looked at before any is moved. *)

Feature == <<"remote", cmd.branch>>

\* Without --new, a branch that resolves in no target is a typo.
UnknownBranch ==
    ~cmd.fresh /\ \A w \in Targets(cmd) : ~HasRef(repo[w[1]], Feature)

\* Mutant: the environment's branch is not looked at.
AbandonsHead(g, p) == NotIn(Tip(g, p), g, SafetyRef(g, g.at[p].on)) # {}

\* Commits of HEAD the move would abandon, measured against the branch it
\* moves away from; a checkout also moves the environment's own branch.
Abandons(g, p) ==
    \/ NotIn(Tip(g, p), g, SafetyRef(g, g.at[p].on)) # {}
    \/ /\ cmd.op = "checkout" /\ g.at[p].on # p /\ g.heads[p] # Absent
       /\ NotIn(g.heads[p], g, SafetyRef(g, p)) # {}

Refusal(w) ==
    LET g == repo[w[1]]
        p == w[2]
        target == IF cmd.op = "reset" THEN cmd.ref
                  ELSE IF HasRef(g, Feature) THEN Feature ELSE OriginMain
        guarded == ~cmd.force /\ (cmd.op = "checkout" \/ cmd.mode = "hard")
    IN  CASE cmd.op = "checkout" /\ UnknownBranch -> "unknown_branch"
          [] cmd.op = "reset" /\ cmd.ref[1] = "sha" /\ Cardinality(Targets(cmd)) > 1 -> "ambiguous_sha"
          [] ~HasRef(g, target)        -> "missing_ref"
          [] guarded /\ Dirty(g, p)    -> "dirty"
          [] guarded /\ Abandons(g, p) -> "abandonment"
          [] OTHER                     -> "none"

\* What a move of the checkout puts at stake, and which of it no
\* remote-tracking ref holds.
Stake(w) ==
    LET g == repo[w[1]]
        p == w[2]
    IN  Tip(g, p) \cup g.at[p].tree
            \cup (IF cmd.op = "checkout" /\ g.heads[p] # Absent THEN g.heads[p] ELSE {})

Ask ==
    /\ At(Caller, "ask")
    /\ \/ Goto(Caller, IF cmd.op = "clean" THEN "remove" ELSE "classify") /\ UNCHANGED run
       \/ lane' = [lane EXCEPT ![Caller] = Over] /\ run' = [run EXCEPT !.exit = 1]
    /\ UNCHANGED <<repo, cmd, told, done, history, faults, meddled>>

Blocked(w) == {e \in told : e.result = "refused"} # {} \/ Refusal(w) # "none"

\* Phase 1, one target at a time.  Phase 2 begins only when none refused.
Classify ==
    LET w == Job(Caller)
    IN  /\ At(Caller, "classify")
        /\ IF Refusal(w) = "none" THEN UNCHANGED told ELSE Tell(w, "refused", {})
        /\ lane' = [lane EXCEPT ![Caller] =
              IF @.jobs # {w} THEN Thread(@.jobs \ {w}, "classify")
              ELSE IF Blocked(w) THEN Over
              ELSE Thread(Targets(cmd), "move")]
        /\ run' = [run EXCEPT !.exit = IF Blocked(w) THEN 1 ELSE 0]
        /\ seen' = [seen EXCEPT ![w[1]] = @ \cup Stake(w)]
        /\ UNCHANGED <<repo, cmd, done, started, faults, meddled>>

CheckoutMove ==
    /\ At(Caller, "move") /\ cmd.op = "checkout"
    /\ Alter(ForceCheckout(There, Here, IF HasRef(There, Feature) THEN Feature ELSE OriginMain))
    /\ Did(Job(Caller), {"head"})
    /\ Goto(Caller, "track")
    /\ UNCHANGED <<cmd, run, told, history, faults, meddled>>

CheckoutTrack ==
    /\ At(Caller, "track")
    /\ Alter(SetUpstream(There, Here, cmd.branch))
    /\ Next1(Caller, "move") /\ Tell(Job(Caller), "reset", {"head"})
    /\ UNCHANGED <<cmd, run, done, history, faults, meddled>>

\* git refuses a soft reset in the middle of a merge, and a ref that does
\* not resolve: that raises.
ResetRefused ==
    \/ ~HasRef(There, cmd.ref)
    \/ cmd.mode = "soft" /\ There.at[Here].merging = "merge"

ResetMove ==
    /\ At(Caller, "move") /\ cmd.op = "reset"
    /\ IF cmd.dry THEN Skip /\ Next1(Caller, "move") /\ Tell(Job(Caller), "planned", {}) /\ UNCHANGED done
       ELSE IF ResetRefused THEN Skip /\ lane' = [lane EXCEPT ![Caller] = Raised] /\ UNCHANGED <<told, done>>
       ELSE /\ Alter(ResetTo(There, Here, cmd.mode, cmd.ref))
            /\ Next1(Caller, "move") /\ Tell(Job(Caller), "reset", {"head"})
            /\ Did(Job(Caller), {"head"})
    /\ UNCHANGED <<cmd, run, history, faults, meddled>>

-----------------------------------------------------------------------------
(* clean, connect and disconnect. *)

Untracked(w) == repo[w[1]].at[w[2]].files

\* The list shown before the prompt; nothing untracked ends the command.
Preview ==
    /\ At(Caller, "preview")
    /\ IF \A w \in Targets(cmd) : Untracked(w) = {}
       THEN lane' = [lane EXCEPT ![Caller] = Over]
       ELSE Goto(Caller, IF Asks(cmd) THEN "ask" ELSE "remove")
    /\ UNCHANGED <<repo, cmd, run, told, done, history, faults, meddled>>

Remove(s) == Alter([There EXCEPT !.at[Here].files = @ \ s])

\* What git says it removed, enumerated anew.
CleanOne ==
    /\ At(Caller, "remove")
    /\ IF cmd.dry
       THEN Skip /\ UNCHANGED done /\ Tell(Job(Caller), "would_remove", Untracked(Job(Caller)))
       ELSE /\ Remove(Untracked(Job(Caller)))
            /\ Did(Job(Caller), Untracked(Job(Caller)))
            /\ Tell(Job(Caller), "removed", Untracked(Job(Caller)))
    /\ Next1(Caller, "remove")
    /\ UNCHANGED <<cmd, run, history, faults, meddled>>

\* Mutant: the paths a failing git had already removed are not reported.
CleanPartlyLost ==
    /\ At(Caller, "remove") /\ ~cmd.dry /\ Fault
    /\ \E gone \in SUBSET Untracked(Job(Caller)) :
         /\ Remove(gone)
         /\ Did(Job(Caller), gone)
         /\ Tell(Job(Caller), "failed", {})
    /\ lane' = [lane EXCEPT ![Caller] = Over]
    /\ UNCHANGED <<cmd, run, history, meddled>>

\* git removes what it can before it fails: the run stops, and the report
\* still has what is gone.
CleanPartly ==
    /\ At(Caller, "remove") /\ ~cmd.dry /\ Fault
    /\ \E gone \in SUBSET Untracked(Job(Caller)) :
         /\ Remove(gone)
         /\ Did(Job(Caller), gone)
         /\ Tell(Job(Caller), "failed", gone)
    /\ lane' = [lane EXCEPT ![Caller] = Over]
    /\ UNCHANGED <<cmd, run, history, meddled>>

Connect ==
    /\ \/ At(Caller, "connect") /\ Alter(SetUpstream(There, Here, cmd.branch))
       \/ At(Caller, "disconnect") /\ Alter(UnsetUpstream(There, Here))
    /\ Next1(Caller, cmd.op) /\ Tell(Job(Caller), cmd.op, {})
    /\ UNCHANGED <<cmd, run, done, history, faults, meddled>>

-----------------------------------------------------------------------------
(* The user, and the others who push.  A change is made once. *)

\* Before the command starts is another initial state.
Meddle == run.phase = "running" /\ meddled < MaxMeddling /\ meddled' = meddled + 1
New(r, x) == x \notin Kept(repo[r])

\* A checkout that git holds the index lock of is out of the user's reach.
Busy(w) ==
    \/ \E l \in Lanes : /\ lane[l].step \in {"second", "abort"}
                         /\ Job(l) = w
    \/ lane[Caller].step = "follow" /\ Job(Caller)[1] = w[1]

Edited(w, g) ==
    /\ ~Busy(w) /\ Meddle
    /\ repo' = [repo EXCEPT ![w[1]] = g]
    /\ UNCHANGED <<cmd, run, lane, told, done, history, faults>>

Edit(w, x) ==
    New(w[1], x) /\ Edited(w, [repo[w[1]] EXCEPT !.at[w[2]].tree = @ \cup {x}])

Commit(w, x) ==
    /\ New(w[1], x) /\ repo[w[1]].at[w[2]].merging = "no"
    /\ Edited(w, MoveWithTree(repo[w[1]], w[2], Tip(repo[w[1]], w[2]) \cup {x}))

NewFile(w, f) ==
    f \notin Untracked(w) /\ Edited(w, [repo[w[1]] EXCEPT !.at[w[2]].files = @ \cup {f}])

Detach(w) ==
    /\ repo[w[1]].at[w[2]].on # Detached
    /\ Edited(w, [repo[w[1]] EXCEPT !.at[w[2]].on = Detached,
                                    !.at[w[2]].detached = Tip(repo[w[1]], w[2])])

\* The user merges a branch, resolves what conflicts and has not yet
\* concluded the merge.
StartMerge(w, x) ==
    /\ New(w[1], x)
    /\ repo[w[1]].at[w[2]].merging = "no" /\ ~Dirty(repo[w[1]], w[2])
    /\ Edited(w, Stopped(repo[w[1]], w[2], {x}, "merge"))

OthersPush(r, b, x) ==
    /\ New(r, x) /\ repo[r].origin[b] # Absent /\ Meddle
    /\ repo' = [repo EXCEPT ![r].origin[b] = @ \cup {x}]
    /\ UNCHANGED <<cmd, run, lane, told, done, history, faults>>

-----------------------------------------------------------------------------

LaneStep(l) ==
    \/ Collect(l) \/ CollectRaised(l) \/ Fetch(l) \/ FetchAgain(l) \/ FetchFails(l)
    \/ FollowMain(l) \/ Integrate(l) \/ SecondAttempt(l) \/ Abort(l) \/ Raises(l)

CallerStep ==
    \/ PushOne \/ PushAccepted \/ PushRefused \/ PushUnsent \/ PushUnanswered \/ Follow
    \/ Ask \/ Classify \/ CheckoutMove \/ CheckoutTrack \/ ResetMove
    \/ Preview \/ CleanOne \/ CleanPartly \/ Connect

CommandStep == Finish \/ CallerStep \/ \E l \in Lanes : LaneStep(l)

Meddling ==
    \/ \E w \in Reach, x \in Changes : Edit(w, x) \/ Commit(w, x) \/ StartMerge(w, x)
    \/ \E w \in Reach, f \in Files : NewFile(w, f)
    \/ \E w \in Reach : Detach(w)
    \/ \E r \in Repo, x \in Pushes : \E b \in DOMAIN repo[r].origin : OthersPush(r, b, x)

Next == CommandStep \/ Meddling \/ \E c \in Commands : Start(c)

Spec == Init /\ [][Next]_vars

-----------------------------------------------------------------------------
(* Properties. *)

\* The commands that may drop what is at stake only with --force.
Destructive == cmd.op = "checkout" \/ (cmd.op = "reset" /\ cmd.mode = "hard")

\* The second attempt met a merge (or rebase) that the user had not yet
\* concluded: the abort that follows abandons that one.
UsersOwn(l) == lane[l].step = "abort" /\ lane[l].base.merging = Kind

\* What a step is known to drop of a repository: with the user's unfinished
\* merge the tree it was resolved in; with a stopped merge of a bare commit
\* that the command line names, that commit; with a reset that keeps the
\* tree, the commits of HEAD that the tree does not show.
GivenUp(r) ==
    LET g == repo[r]
        keeping == cmd.op = "reset" /\ cmd.mode # "hard" /\ lane[Caller].step = "move"
    IN  IF lane[r].step = "abort"
        THEN (IF UsersOwn(r) THEN g.at[Job(r)[2]].tree ELSE {})
                \cup (IF cmd.ref[1] = "sha" THEN cmd.ref[2] ELSE {})
        ELSE IF keeping /\ Job(Caller)[1] = r THEN Tip(g, Here) \ g.at[Here].tree ELSE {}

Work(r) == IF Destructive THEN seen[r] \cap Kept(repo[r]) ELSE Kept(repo[r]) \ GivenUp(r)

\* A command that was not forced loses no work but what GivenUp names:
\* fetch, pull, merge, push, connect, clean and the resets that keep the
\* tree lose no change besides, whatever fails; checkout and reset --hard
\* lose nothing that a checkout held when it was classified.  What GivenUp
\* names is lost: nothing in the code looks for a merge of the user's
\* before it aborts, nor compares a reset's target to HEAD.
WorkKept ==
    [][ run.phase = "running" /\ (Destructive => ~cmd.force)
        => \A r \in Repo : Work(r) \subseteq Kept(repo'[r]) ]_vars

Diverges(l) ==
    \/ lane'[l].step = "collect" /\ lane'[l].held = "diverged"
    \/ lane[l].jobs # {} /\ Event(Job(l), "diverged", {}) \in told' \ told

ReportsDiverged(l) == lane[l].step \in {"integrate", "abort"} /\ Diverges(l)

\* The checkout as it was before the command touched it.
Found(l) == IF lane[l].step = "abort" THEN lane[l].base ELSE Look(repo[l], Job(l)[2])

\* ... and as it was before the user's merge, which git has on record.
BeforeMerge(l) ==
    LET was == lane[l].base
    IN [tip |-> was.tip, tree |-> repo[l].at[Job(l)[2]].before, merging |-> "no", stash |-> was.stash]

\* A checkout reported diverged is as it was before the command touched it:
\* same commit, same edits, same stash, no merge or rebase of the command's
\* left in progress.  Only where the second attempt met a merge of the
\* user's that was not concluded, the abort took that one back too: the
\* checkout is as it was before it, with HEAD and stash as found, and not
\* "left untouched" as the pull's documentation has it.
DivergedUntouched ==
    [][ \A l \in Repo : ReportsDiverged(l)
          => Look(repo'[l], Job(l)[2]) = IF UsersOwn(l) THEN BeforeMerge(l) ELSE Found(l) ]_vars

\* No command leaves a clean checkout dirty: not the source checkout that
\* follows main, not one whose branch another checkout pushed to.  A reset
\* that keeps the tree is meant to, and a stopped merge is aborted.
CleanStaysClean ==
    [][ run.phase = "running" /\ meddled' = meddled
            /\ (cmd.op = "reset" => cmd.mode = "hard")
        => \A w \in Checkouts :
             ~Dirty(repo[w[1]], w[2]) /\ repo'[w[1]].at[w[2]].merging = "no"
             => ~Dirty(repo'[w[1]], w[2]) ]_vars

Claimed == {<<e.wt, x>> : e \in told, x \in Files \cup {"head", "pushed"}} \cap
           UNION {{<<e.wt, x>> : x \in e.what} : e \in told}
Project(w) == w[1] \notin Standalone /\ w[2] # Source

\* When a command is over its outcomes match what it did: what they claim
\* was done, and a worktree that pull or merge moved and a file that clean
\* deleted have an outcome that says so, also when another repository's
\* lane raised.
Accounted ==
    run.phase = "idle" /\ started > 0 =>
        /\ cmd.op # "clean" \/ ~cmd.dry => Claimed \subseteq done
        /\ cmd.op \in {"pull", "merge", "clean"} =>
              {d \in done : Project(d[1])} \subseteq Claimed
=============================================================================

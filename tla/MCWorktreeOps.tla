---------------------------- MODULE MCWorktreeOps ----------------------------
(***************************************************************************)
(* Two project repositories, a pinned one and a standalone.  "one" has     *)
(* worktrees in the environments a and b, "two" and the pinned "pin" in a  *)
(* only.  The feature branch is a: environment b of "one" may be connected *)
(* to it too, and then pushes to the branch a has checked out.             *)
(***************************************************************************)
EXTENDS Status, TLC

CONSTANTS m, f1, w1, x1, p1, file, a, b

MCRepo == {"one", "two", "pin", "solo"}
MCStandalone == {"solo"}
MCPinned == {"pin"}
MCBranch == {Main, a, b}
MCChange == {m, f1, w1, x1, p1}
MCWorktrees == << <<"one", a>>, <<"two", a>>, <<"pin", a>>, <<"one", b>> >>

\* One worktree holds a workspace of its own.
MCNestedTrees == {<<"two", a>>}

Checkout(br, h) == [on |-> br, detached |-> {}, tree |-> h, files |-> {},
                    merging |-> "no", before |-> {}]

\* A repository whose remote has main and, ahead of it, the feature branch.
Fresh(envs) ==
    LET shared == [x \in MCBranch |-> CASE x = Main -> {m} [] x = a -> {m, f1} [] OTHER -> Absent]
    IN  [origin |-> shared, track |-> shared,
         heads  |-> [x \in MCBranch |-> IF x \in {Main} \cup envs THEN {m} ELSE Absent],
         up     |-> [x \in MCBranch |-> IF x = Main THEN Main ELSE None],
         stash  |-> {},
         at     |-> [p \in {Source} \cup envs |->
                        Checkout(IF p = Source THEN Main ELSE p, {m})]]

Put(g, e, h) == [g EXCEPT !.heads[e] = h, !.at[e].tree = h]
Track(g, e, br) == [g EXCEPT !.up[e] = br]
NoFeature(g) == [g EXCEPT !.origin[a] = Absent, !.track[a] = Absent]
Both == Fresh({a, b})

Pin == [Track(Fresh({a}), a, Main) EXCEPT !.origin[Main] = {m, p1}]
Solo == [Fresh({}) EXCEPT !.origin[Main] = {m, p1}]
Behind == Track(Fresh({a}), a, a)
Unpushed == NoFeature(Put(Fresh({a}), a, {m, w1}))

State(one, two, solo) == "one" :> one @@ "two" :> two @@ "pin" :> Pin @@ "solo" :> solo

MCInitRepos ==
    { \* a is behind its feature branch, b in step with it
      State(Put(Track(Track(Both, a, a), b, a), b, {m, f1}), Behind, Solo),
      \* a in step with it, b one commit ahead; "two" was never pushed
      State(Put(Put(Track(Track(Both, a, a), b, a), a, {m, f1}), b, {m, f1, w1}), Unpushed, Solo),
      \* a has diverged from its feature branch; "solo" from its main
      State(Put(Track(Both, a, a), a, {m, w1}), Behind,
            [Solo EXCEPT !.heads[Main] = {m, w1}, !.at[Source].tree = {m, w1}]),
      \* a is dirty, and "solo" has no upstream
      State([Track(Both, a, a) EXCEPT !.at[a].tree = {m, w1}, !.at[a].files = {file}], Behind,
            Track(Solo, Main, None)),
      \* a is detached, with a commit left on its branch
      State([Put(Both, a, {m, w1}) EXCEPT !.at[a].on = Detached, !.at[a].detached = {m},
                                          !.at[a].tree = {m}, !.at[b].files = {file}], Behind, Solo),
      \* b is on main, which it has a commit for; a was never pushed
      State(NoFeature(Put(Put(Track(Track(Both, a, a), b, Main), b, {m, w1}), a, {m, w1})),
            Unpushed, Solo) }

Cmd(op) == [op |-> op, pick |-> {MCWorktrees[i] : i \in 1..4}, pinned |-> "exclude",
            standalone |-> FALSE, mode |-> "ff_only", autostash |-> FALSE,
            force |-> FALSE, dry |-> FALSE, ref |-> OriginMain, branch |-> a,
            fresh |-> FALSE]
InA == {<<"one", a>>, <<"two", a>>, <<"pin", a>>}

InOne == {<<"one", a>>, <<"one", b>>}

InPool ==
    { [Cmd("fetch") EXCEPT !.pick = InOne, !.standalone = TRUE],
      [Cmd("pull") EXCEPT !.pick = InOne, !.standalone = TRUE, !.autostash = TRUE],
      [Cmd("pull") EXCEPT !.pick = {<<"one", a>>, <<"pin", a>>}, !.mode = "merge"],
      [Cmd("pull") EXCEPT !.pick = InOne, !.mode = "rebase"],
      [Cmd("merge") EXCEPT !.ref = <<"local", b>>, !.pick = {<<"one", a>>},
                           !.standalone = TRUE, !.mode = "no_ff", !.autostash = TRUE],
      [Cmd("merge") EXCEPT !.ref = <<"remote", a>>, !.pick = {<<"one", a>>, <<"two", a>>},
                           !.mode = "merge", !.pinned = "include"] }
InCaller ==
    { Cmd("push"), [Cmd("push") EXCEPT !.pinned = "include", !.standalone = TRUE],
      [Cmd("checkout") EXCEPT !.pick = InA],
      [Cmd("checkout") EXCEPT !.pick = InA, !.force = TRUE],
      [Cmd("checkout") EXCEPT !.pick = InA, !.branch = b, !.fresh = TRUE],
      [Cmd("reset") EXCEPT !.mode = "hard"],
      [Cmd("reset") EXCEPT !.mode = "hard", !.dry = TRUE],
      [Cmd("reset") EXCEPT !.mode = "soft", !.pick = {<<"one", a>>}],
      [Cmd("reset") EXCEPT !.mode = "mixed", !.ref = <<"sha", {m}>>],
      Cmd("clean"), [Cmd("clean") EXCEPT !.dry = TRUE],
      Cmd("connect"), Cmd("disconnect") }
\* The user works in the checkouts of "one".
MCReach == {<<"one", a>>, <<"one", b>>, <<"one", Source>>}
MCCommands == InPool \cup InCaller

=============================================================================

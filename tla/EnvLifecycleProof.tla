-------------------------- MODULE EnvLifecycleProof --------------------------
(***************************************************************************)
(* The proofs about the life of an env, for any repositories and whatever  *)
(* fails: its type invariant; that a destroy without --force keeps the     *)
(* work that was there when it looked, and all of a nested env's; that no  *)
(* worktree goes while what runs from it is up; that a destroy that        *)
(* reports success left nothing, and an init that does left a whole env.   *)
(***************************************************************************)
EXTENDS EnvLifecycle, TLAPS

\* A command in progress is of one of the two kinds.
LEMMA Kinds ==
  ASSUME CommandOK
  PROVE  /\ cmd.kind = "destroy" => cmd \in DestroyCommand
         /\ cmd.kind = "init" => cmd \in InitCommand
         /\ ~Idle => cmd.kind \in {"destroy", "init"}
BY DEF CommandOK, DestroyCommand, InitCommand, NoCommand, Idle

\* A step uses up at most one fault.
LEMMA FaultBound ==
  ASSUME RepoAssumption, Bounded, UNCHANGED <<issued, acts>>,
         Fails \/ faults' = faults
  PROVE  Bounded'
BY DEF Bounded, Fails, RepoAssumption

\* The initial states are well-typed.
LEMMA TypeInit == Init => TypeOK
<1> SUFFICES ASSUME Init PROVE TypeOK
  OBVIOUS
<1>1. DiskOK BY DEF Init, DiskOK
<1>2. Contained BY DEF Init, Contained, Present
<1>3. CommandOK BY DEF Init, CommandOK
<1>4. InitInside BY DEF Init, InitInside, NoCommand
<1>5. Bounded BY RepoAssumption DEF Init, Bounded, RepoAssumption
<1>6. QED BY <1>1, <1>2, <1>3, <1>4, <1>5 DEF TypeOK

\* An env's contents stay in place under steps that change none of them.
LEMMA SameContents ==
  ASSUME Contained, UNCHANGED <<env, tree, branch, nested, unpushed>>
  PROVE  Contained'
BY DEF Contained, Present

\* Worktrees may go from a directory that stays, with all they hold.
LEMMA FewerContents ==
  ASSUME DiskOK, Contained, NEW S \in SUBSET Repos, Delete(S), UNCHANGED branch,
         env' = env \/ Present \subseteq S
  PROVE  DiskOK => (/\ tree' \in [Repos -> {"absent", "clean", "dirty"}]
                    /\ nested' \in [Repos -> {"none", "clean", "dirty"}]
                    /\ unpushed' \in [Repos -> BOOLEAN]
                    /\ Contained')
<1>1. /\ tree' \in [Repos -> {"absent", "clean", "dirty"}]
      /\ nested' \in [Repos -> {"none", "clean", "dirty"}]
      /\ unpushed' \in [Repos -> BOOLEAN]
  BY DEF Delete, DiskOK
<1>2. \A r \in Repos : /\ r \in S => tree'[r] = "absent" /\ nested'[r] = "none" /\ ~unpushed'[r]
                       /\ r \notin S => /\ tree'[r] = tree[r] /\ nested'[r] = nested[r]
                                        /\ unpushed'[r] = unpushed[r]
  BY DEF Delete, DiskOK
<1>3. Contained'
  BY <1>2 DEF Contained, Present
<1>4. QED BY <1>1, <1>3

\* What the user does between commands preserves the types.
LEMMA TypeUser == ASSUME TypeOK, UserStep PROVE TypeOK'
<1> USE RepoAssumption DEF RepoAssumption, TypeOK
<1>1. CASE Use
  <2>1. DiskOK' /\ Contained' BY <1>1 DEF Use, DiskOK, Contained, Present
  <2>2. InitInside' /\ CommandOK' BY <1>1 DEF Use, InitInside, CommandOK
  <2>3. QED BY <1>1, <2>1, <2>2 DEF Use, Bounded
<1>2. ASSUME NEW r \in Repos, Edit(r) PROVE TypeOK'
  <2>1. DiskOK' /\ Contained' BY <1>2 DEF Edit, DiskOK, Contained, Present
  <2>2. InitInside' /\ CommandOK' BY <1>2, Kinds DEF Edit, Late, InitInside, CommandOK, DestroyCommand
  <2>3. Bounded' BY <1>2 DEF Edit, Act, Bounded
  <2>4. QED BY <2>1, <2>2, <2>3
<1>3. ASSUME NEW r \in Repos, Commit(r) PROVE TypeOK'
  <2>1. DiskOK' /\ Contained' BY <1>3, ZenonT(40) DEF Commit, DiskOK, Contained, Present
  <2>2. InitInside' /\ CommandOK' BY <1>3, Kinds DEF Commit, Late, InitInside, CommandOK, DestroyCommand
  <2>3. Bounded' BY <1>3 DEF Commit, Bounded
  <2>4. QED BY <2>1, <2>2, <2>3
<1>4. ASSUME NEW r \in Repos, Push(r) PROVE TypeOK'
  BY <1>4 DEF Push, DiskOK, Contained, Present, InitInside, CommandOK, Bounded
<1>5. ASSUME NEW r \in Repos, NEW ref \in Refs, Connect(r, ref) PROVE TypeOK'
  BY <1>5 DEF Connect, Act, DiskOK, Contained, Present, InitInside, CommandOK, Bounded
<1>6. ASSUME NEW r \in Repos, DropTree(r) PROVE TypeOK'
  <2>1. DiskOK' BY <1>6 DEF DropTree, Delete, DiskOK
  <2>2. Contained' BY <1>6, FewerContents DEF DropTree
  <2>3. QED BY <1>6, <2>1, <2>2 DEF DropTree, Act, InitInside, CommandOK, Bounded
<1>7. CASE RemoveByHand
  <2>1. DiskOK' BY <1>7 DEF RemoveByHand, Delete, DiskOK
  <2>2. \A r \in Repos : tree'[r] = "absent" /\ nested'[r] = "none" /\ ~unpushed'[r]
    BY <1>7 DEF RemoveByHand, Delete
  <2>3. Contained' BY <1>7, <2>2 DEF RemoveByHand, Contained, Present
  <2>4. InitInside' /\ CommandOK' BY <1>7 DEF RemoveByHand, Idle, NoCommand, InitInside, CommandOK
  <2>5. QED BY <1>7, <2>1, <2>3, <2>4 DEF RemoveByHand, Act, Bounded
<1>8. CASE Prune
  BY <1>8 DEF Prune, Act, DiskOK, Contained, Present, InitInside, CommandOK, Bounded
<1>9. QED
  BY <1>1, <1>2, <1>3, <1>4, <1>5, <1>6, <1>7, <1>8 DEF UserStep

\* A step of a destroy leaves a destroy behind, or nothing.
LEMMA DestroyKind ==
  ASSUME cmd' \in DestroyCommand \cup {NoCommand}, result' \in {"none", "ok", "failed", "killed"}
  PROVE  CommandOK' /\ InitInside'
BY DEF CommandOK, InitInside, DestroyCommand, NoCommand

\* Every step of a destroy preserves the types.
LEMMA TypeDestroy == ASSUME TypeOK, DestroyStep PROVE TypeOK'
<1> USE RepoAssumption DEF RepoAssumption, TypeOK
<1>1. ASSUME NEW read \in SUBSET Nested, DestroyCheck(read) PROVE TypeOK'
  <2>1. DiskOK' BY <1>1 DEF DestroyCheck, DiskOK, disk
  <2>2. Contained' BY <1>1, SameContents DEF DestroyCheck, disk
  <2>0. Present \in SUBSET Repos BY DEF Present
  <2>3. cmd \in DestroyCommand BY <1>1, Kinds DEF DestroyCheck, At
  <2>4. ASSUME Finish(FALSE) PROVE CommandOK' /\ InitInside'
    BY <2>4, DestroyKind DEF Finish
  <2>5. ASSUME ~Finish(FALSE) PROVE CommandOK' /\ InitInside'
    <3>1. cmd' = [cmd EXCEPT !.pc = "nested", !.seen = Present, !.read = read, !.late = {},
                                     !.todo = {r \in read : nested[r] # "none"},
                                     !.nestedOk = read = Nested \cap Present] /\ UNCHANGED result BY <1>1, <2>5 DEF DestroyCheck
    <3>2. cmd' \in DestroyCommand BY <1>1, <2>3, <3>1, <2>0 DEF DestroyCommand, Phases
    <3>3. QED BY <3>1, <3>2, DestroyKind DEF CommandOK
  <2>6. CommandOK' /\ InitInside' BY <2>4, <2>5
  <2>7. Bounded' BY <1>1, FaultBound DEF DestroyCheck, Outcome
  <2>8. QED BY <2>1, <2>2, <2>6, <2>7
<1>2. ASSUME NEW r \in Repos, NEW removed \in BOOLEAN, NEW ok \in BOOLEAN, NestedDestroy(r, removed, ok)
      PROVE TypeOK'
  <2>1. DiskOK' BY <1>2 DEF NestedDestroy, DiskOK
  <2>2. Contained' BY <1>2 DEF NestedDestroy, DiskOK, Contained, Present
  <2>3. cmd \in DestroyCommand /\ UNCHANGED result BY <1>2, Kinds DEF NestedDestroy, At, CommandOK
  <2>4. cmd' = [cmd EXCEPT !.todo = @ \ {r}, !.nestedOk = @ /\ ok] BY <1>2 DEF NestedDestroy
  <2>5. cmd' \in DestroyCommand BY <1>2, <2>3, <2>4 DEF DestroyCommand, Phases
  <2>6. CommandOK' /\ InitInside' BY <2>3, <2>5, DestroyKind DEF CommandOK
  <2>7. Bounded' BY <1>2, FaultBound DEF NestedDestroy, CausedOutcome, Outcome
  <2>8. QED BY <2>1, <2>2, <2>6, <2>7
<1>3. CASE NestedDone
  <2>1. DiskOK' BY <1>3 DEF NestedDone, DiskOK, disk
  <2>2. Contained' BY <1>3, SameContents DEF NestedDone, disk
  <2>3. cmd \in DestroyCommand BY <1>3, Kinds DEF NestedDone, At
  <2>4. ASSUME Finish(FALSE) PROVE CommandOK' /\ InitInside'
    BY <2>4, DestroyKind DEF Finish
  <2>5. ASSUME ~Finish(FALSE) PROVE CommandOK' /\ InitInside'
    <3>1. cmd' = [cmd EXCEPT !.pc = "services", !.todo = cmd.read] /\ UNCHANGED result BY <1>3, <2>5 DEF NestedDone, NestedGate
    <3>2. cmd' \in DestroyCommand BY <1>3, <2>3, <3>1 DEF DestroyCommand, Phases
    <3>3. QED BY <3>1, <3>2, DestroyKind DEF CommandOK
  <2>6. CommandOK' /\ InitInside' BY <2>4, <2>5
  <2>7. Bounded' BY <1>3 DEF NestedDone, Bounded
  <2>8. QED BY <2>1, <2>2, <2>6, <2>7
<1>4. ASSUME NEW r \in Repos, NEW ok \in BOOLEAN, StopServices(r, ok) PROVE TypeOK'
  <2>1. DiskOK' BY <1>4 DEF StopServices, DiskOK
  <2>2. Contained' BY <1>4, SameContents DEF StopServices
  <2>3. cmd \in DestroyCommand /\ UNCHANGED result BY <1>4, Kinds DEF StopServices, At, CommandOK
  <2>4. cmd' = [cmd EXCEPT !.todo = @ \ {r}, !.nestedOk = @ /\ ok] BY <1>4 DEF StopServices
  <2>5. cmd' \in DestroyCommand BY <1>4, <2>3, <2>4 DEF DestroyCommand, Phases
  <2>6. CommandOK' /\ InitInside' BY <2>3, <2>5, DestroyKind DEF CommandOK
  <2>7. Bounded' BY <1>4, FaultBound DEF StopServices, Outcome
  <2>8. QED BY <2>1, <2>2, <2>6, <2>7
<1>5. CASE ServicesDone
  <2>1. DiskOK' BY <1>5 DEF ServicesDone, DiskOK, disk
  <2>2. Contained' BY <1>5, SameContents DEF ServicesDone, disk
  <2>3. cmd \in DestroyCommand BY <1>5, Kinds DEF ServicesDone, At
  <2>4. ASSUME Finish(FALSE) PROVE CommandOK' /\ InitInside'
    BY <2>4, DestroyKind DEF Finish
  <2>5. ASSUME ~Finish(FALSE) PROVE CommandOK' /\ InitInside'
    <3>1. cmd' = [cmd EXCEPT !.pc = IF cmd.teardown THEN "data" ELSE "hooks", !.todo = {}] /\ UNCHANGED result BY <1>5, <2>5 DEF ServicesDone, NestedGate
    <3>2. cmd' \in DestroyCommand BY <1>5, <2>3, <3>1 DEF DestroyCommand, Phases
    <3>3. QED BY <3>1, <3>2, DestroyKind DEF CommandOK
  <2>6. CommandOK' /\ InitInside' BY <2>4, <2>5
  <2>7. Bounded' BY <1>5 DEF ServicesDone, Bounded
  <2>8. QED BY <2>1, <2>2, <2>6, <2>7
<1>6. ASSUME NEW ok \in BOOLEAN, Teardown(ok) PROVE TypeOK'
  <2>1. DiskOK' BY <1>6 DEF Teardown, DiskOK
  <2>2. Contained' BY <1>6, SameContents DEF Teardown
  <2>3. cmd \in DestroyCommand BY <1>6, Kinds DEF Teardown, At
  <2>4. ASSUME Finish(FALSE) PROVE CommandOK' /\ InitInside'
    BY <2>4, DestroyKind DEF Finish
  <2>5. ASSUME ~Finish(FALSE) PROVE CommandOK' /\ InitInside'
    <3>1. /\ \/ cmd' = [cmd EXCEPT !.pc = "resource", !.teardownOk = ok]
             \/ cmd' = [cmd EXCEPT !.pc = "hooks", !.teardownOk = @ /\ ok]
          /\ UNCHANGED result
      BY <1>6, <2>5 DEF Teardown
    <3>2. cmd' \in DestroyCommand BY <1>6, <2>3, <3>1, ZenonT(40) DEF DestroyCommand, Phases
    <3>3. QED BY <3>1, <3>2, DestroyKind DEF CommandOK
  <2>6. CommandOK' /\ InitInside' BY <2>4, <2>5
  <2>7. Bounded' BY <1>6, FaultBound DEF Teardown, Outcome
  <2>8. QED BY <2>1, <2>2, <2>6, <2>7
<1>7. ASSUME NEW ok \in BOOLEAN, DestroyHooks(ok) PROVE TypeOK'
  <2>1. DiskOK' BY <1>7 DEF DestroyHooks, DiskOK
  <2>2. Contained' BY <1>7, SameContents DEF DestroyHooks
  <2>3. cmd \in DestroyCommand BY <1>7, Kinds DEF DestroyHooks, At
  <2>4. ASSUME Finish(FALSE) PROVE CommandOK' /\ InitInside'
    BY <2>4, DestroyKind DEF Finish
  <2>5. ASSUME ~Finish(FALSE) PROVE CommandOK' /\ InitInside'
    <3>1. cmd' = [cmd EXCEPT !.pc = "worktrees", !.todo = cmd.seen] /\ UNCHANGED result BY <1>7, <2>5 DEF DestroyHooks
    <3>2. cmd' \in DestroyCommand BY <1>7, <2>3, <3>1 DEF DestroyCommand, Phases
    <3>3. QED BY <3>1, <3>2, DestroyKind DEF CommandOK
  <2>6. CommandOK' /\ InitInside' BY <2>4, <2>5
  <2>7. Bounded' BY <1>7, FaultBound DEF DestroyHooks, Outcome
  <2>8. QED BY <2>1, <2>2, <2>6, <2>7
<1>8. ASSUME NEW r \in Repos, NEW ok \in BOOLEAN, RemoveWorktree(r, ok) PROVE TypeOK'
  <2>1. DiskOK'
    <3>1. CASE ok BY <1>8, <3>1, FewerContents, ZenonT(40) DEF RemoveWorktree, DiskOK
    <3>2. CASE ~ok BY <1>8, <3>2 DEF RemoveWorktree, DiskOK
    <3>3. QED BY <3>1, <3>2
  <2>2. Contained'
    <3>1. CASE ok BY <1>8, <3>1, FewerContents DEF RemoveWorktree
    <3>2. CASE ~ok BY <1>8, <3>2, SameContents DEF RemoveWorktree
    <3>3. QED BY <3>1, <3>2
  <2>3. cmd \in DestroyCommand /\ UNCHANGED result BY <1>8, Kinds DEF RemoveWorktree, At, CommandOK
  <2>4. cmd' = [cmd EXCEPT !.todo = @ \ {r}, !.ok = @ /\ ok] BY <1>8 DEF RemoveWorktree
  <2>5. cmd' \in DestroyCommand BY <1>8, <2>3, <2>4 DEF DestroyCommand, Phases
  <2>6. CommandOK' /\ InitInside' BY <2>3, <2>5, DestroyKind DEF CommandOK
  <2>7. Bounded' BY <1>8, FaultBound DEF RemoveWorktree, CausedOutcome, Outcome
  <2>8. QED BY <2>1, <2>2, <2>6, <2>7
<1>9. CASE WorktreesDone
  <2>1. DiskOK' BY <1>9 DEF WorktreesDone, DiskOK, disk
  <2>2. Contained' BY <1>9, SameContents DEF WorktreesDone, disk
  <2>3. cmd \in DestroyCommand /\ UNCHANGED result BY <1>9, Kinds DEF WorktreesDone, At, Goto, CommandOK
  <2>4. cmd' = [cmd EXCEPT !.pc = "dir"] BY <1>9 DEF WorktreesDone, Goto
  <2>5. cmd' \in DestroyCommand BY <1>9, <2>3, <2>4 DEF DestroyCommand, Phases
  <2>6. CommandOK' /\ InitInside' BY <2>3, <2>5, DestroyKind DEF CommandOK
  <2>7. Bounded' BY <1>9 DEF WorktreesDone, Bounded
  <2>8. QED BY <2>1, <2>2, <2>6, <2>7
<1>10. ASSUME NEW ok \in BOOLEAN, NEW gone \in SUBSET Repos, RemoveDir(ok, gone) PROVE TypeOK'
  <2>0. Delete(gone) /\ UNCHANGED branch /\ (env' = env \/ Present \subseteq gone)
    <3>1. CASE ok BY <1>10, <3>1 DEF RemoveDir
    <3>2. CASE ~ok
      <4>1. env' = TRUE /\ Delete(gone) /\ UNCHANGED branch BY <1>10, <3>2 DEF RemoveDir
      <4>2. CASE env BY <4>1, <4>2
      <4>3. CASE ~env BY <4>1, <4>3 DEF Contained
      <4>4. QED BY <4>2, <4>3
    <3>3. QED BY <3>1, <3>2
  <2>1. DiskOK' BY <1>10, <2>0, FewerContents DEF RemoveDir, DiskOK
  <2>2. Contained' BY <2>0, FewerContents
  <2>3. cmd \in DestroyCommand /\ UNCHANGED result BY <1>10, Kinds DEF RemoveDir, At, CommandOK
  <2>4. cmd' = [cmd EXCEPT !.pc = "block", !.ok = @ /\ ok] BY <1>10 DEF RemoveDir
  <2>5. cmd' \in DestroyCommand BY <1>10, <2>3, <2>4 DEF DestroyCommand, Phases
  <2>6. CommandOK' /\ InitInside' BY <2>3, <2>5, DestroyKind DEF CommandOK
  <2>7. Bounded' BY <1>10, FaultBound DEF RemoveDir, Outcome
  <2>8. QED BY <2>1, <2>2, <2>6, <2>7
<1>11. ASSUME NEW ok \in BOOLEAN, StripExclude(ok) PROVE TypeOK'
  <2>1. DiskOK' BY <1>11 DEF StripExclude, DiskOK
  <2>2. Contained' BY <1>11, SameContents DEF StripExclude
  <2>3. cmd \in DestroyCommand /\ UNCHANGED result BY <1>11, Kinds DEF StripExclude, At, CommandOK
  <2>4. cmd' = [cmd EXCEPT !.pc = "entry", !.ok = @ /\ ok] BY <1>11 DEF StripExclude
  <2>5. cmd' \in DestroyCommand BY <1>11, <2>3, <2>4 DEF DestroyCommand, Phases
  <2>6. CommandOK' /\ InitInside' BY <2>3, <2>5, DestroyKind DEF CommandOK
  <2>7. Bounded' BY <1>11, FaultBound DEF StripExclude, Outcome
  <2>8. QED BY <2>1, <2>2, <2>6, <2>7
<1>12. CASE RemoveEntry
  <2>1. DiskOK' BY <1>12 DEF RemoveEntry, DiskOK
  <2>2. Contained' BY <1>12, SameContents DEF RemoveEntry
  <2>6. CommandOK' /\ InitInside' BY <1>12, DestroyKind DEF RemoveEntry, Finish
  <2>7. Bounded' BY <1>12 DEF RemoveEntry, Bounded
  <2>8. QED BY <2>1, <2>2, <2>6, <2>7
<1>13. QED
  BY <1>1, <1>2, <1>3, <1>4, <1>5, <1>6, <1>7, <1>8, <1>9, <1>10, <1>11, <1>12 DEF DestroyStep

\* What the connected worktrees agree on is a ref, or nothing.
LEMMA TrackedRefs == TheOnly(Tracked) \in Refs \cup {"none"}
<1>1. Tracked \subseteq Refs
  BY DEF Tracked, Upstream
<1>2. QED
  BY <1>1 DEF TheOnly

\* Every step of an init preserves the types.
LEMMA TypeInitStep == ASSUME TypeOK, InitStep PROVE TypeOK'
<1> USE RepoAssumption DEF RepoAssumption, TypeOK
<1>1. ASSUME NEW ok \in BOOLEAN, MakeDir(ok) PROVE TypeOK'
  <2>1. DiskOK' /\ Contained' BY <1>1 DEF MakeDir, DiskOK, Contained, Present
  <2>2. InitInside' /\ CommandOK' BY <1>1, Kinds DEF Finish, NoCommand, MakeDir, Goto, At, InitInside, CommandOK, InitCommand, Phases
  <2>3. Bounded' BY <1>1, FaultBound DEF MakeDir, Outcome
  <2>4. QED BY <2>1, <2>2, <2>3
<1>2. ASSUME NEW ok \in BOOLEAN, WriteExclude(ok) PROVE TypeOK'
  <2>1. DiskOK' /\ Contained' BY <1>2 DEF WriteExclude, DiskOK, Contained, Present
  <2>2. InitInside' /\ CommandOK' BY <1>2, Kinds, TrackedRefs DEF WriteExclude, Inferred, At, InitInside, CommandOK, InitCommand, Phases
  <2>3. Bounded' BY <1>2, FaultBound DEF WriteExclude, Outcome
  <2>4. QED BY <2>1, <2>2, <2>3
<1>3. ASSUME NEW ok \in BOOLEAN, InferRaises(ok) PROVE TypeOK'
  <2>1. DiskOK' /\ Contained' BY <1>3 DEF InferRaises, DiskOK, Contained, Present
  <2>2. InitInside' /\ CommandOK' BY <1>3 DEF Finish, NoCommand, InitInside, CommandOK, InferRaises
  <2>3. Bounded' BY <1>3, FaultBound DEF InferRaises
  <2>4. QED BY <2>1, <2>2, <2>3
<1>4. ASSUME NEW r \in Repos, NEW from \in Stages, NEW to \in Stages, NEW ok \in BOOLEAN,
             NEW created \in BOOLEAN, Stage(r, from, to, ok, created)
      PROVE  CommandOK' /\ InitInside' /\ cmd \in InitCommand
  BY <1>4, Kinds DEF Stage, At, InitInside, CommandOK, InitCommand
<1>5. ASSUME NEW r \in Repos, NEW ok \in BOOLEAN, CreateTree(r, ok) PROVE TypeOK'
  <2> DEFINE create == ok /\ tree[r] = "absent"
             to == IF ok THEN "made" ELSE "done"
  <2>1. Stage(r, "start", to, ok, create) BY <1>5 DEF CreateTree
  <2>2. to \in Stages /\ "start" \in Stages /\ create \in BOOLEAN BY DEF Stages
  <2>3. InitInside' /\ CommandOK' BY <2>1, <2>2, <1>4
  <2>4. DiskOK' BY <1>5, <2>1 DEF CreateTree, Stage, DiskOK
  <2>8. ASSUME create PROVE Contained'
    <3>1. env BY <2>1 DEF Stage, At, InitInside
    <3>2. /\ tree' = [tree EXCEPT ![r] = "clean"]
          /\ branch' = [branch EXCEPT ![r] = IF @ = "none" THEN "untracked" ELSE @]
      BY <1>5, <2>8 DEF CreateTree
    <3>3. QED BY <2>1, <3>1, <3>2 DEF Stage, DiskOK, Contained, Present
  <2>9. ASSUME ~create PROVE Contained'
    <3>1. tree' = tree /\ branch' = branch BY <1>5, <2>9 DEF CreateTree, DiskOK
    <3>2. QED BY <2>1, <3>1 DEF Stage, Contained, Present
  <2>5. Contained' BY <2>8, <2>9
  <2>6. Bounded' BY <1>5, <2>1, FaultBound DEF CreateTree, Stage, CausedOutcome, Outcome
  <2>7. QED BY <2>3, <2>4, <2>5, <2>6
<1>6. ASSUME NEW r \in Repos, NEW to \in {"wired", "done"}, NEW wired \in BOOLEAN, NEW ok \in BOOLEAN,
             WireTracking(r, to, wired, ok)
      PROVE  TypeOK'
  <2>1. Stage(r, "made", to, ok, FALSE) BY <1>6 DEF WireTracking
  <2>2. CommandOK' /\ InitInside' /\ cmd \in InitCommand BY <2>1, <1>4 DEF Stages
  <2>3. Wired(r) \in Refs \cup {branch[r]} BY <2>2 DEF Wired, InitCommand
  <2>4. DiskOK' BY <1>6, <2>1, <2>3 DEF WireTracking, Stage, DiskOK
  <2>5. Contained' BY <1>6, <2>1, <2>3 DEF WireTracking, Stage, DiskOK, Contained, Present
  <2>6. Bounded' BY <1>6, <2>1, FaultBound DEF WireTracking, Stage, Outcome
  <2>7. QED BY <2>2, <2>4, <2>5, <2>6
<1>7. ASSUME NEW r \in Repos, NEW ok \in BOOLEAN, Bootstrap(r, ok) PROVE TypeOK'
  <2>1. Stage(r, "wired", "done", ok, FALSE) BY <1>7 DEF Bootstrap
  <2>2. InitInside' /\ CommandOK' BY <2>1, <1>4 DEF Stages
  <2>3. DiskOK' /\ Contained' BY <1>7, <2>1 DEF Bootstrap, Stage, DiskOK, Contained, Present
  <2>4. Bounded' BY <1>7, <2>1, FaultBound DEF Bootstrap, Stage, Outcome
  <2>5. QED BY <2>2, <2>3, <2>4
<1>8. ASSUME NEW ok \in BOOLEAN, InitHooks(ok) PROVE TypeOK'
  <2>1. DiskOK' /\ Contained' BY <1>8 DEF InitHooks, DiskOK, Contained, Present
  <2>2. InitInside' /\ CommandOK' BY <1>8 DEF Finish, NoCommand, InitInside, CommandOK, InitHooks
  <2>3. Bounded' BY <1>8, FaultBound DEF InitHooks, Outcome
  <2>4. QED BY <2>1, <2>2, <2>3
<1>9. QED
  BY <1>1, <1>2, <1>3, <1>5, <1>6, <1>7, <1>8 DEF InitStep

\* Every step preserves the type invariant.
LEMMA TypeNext == TypeOK /\ [Next]_vars => TypeOK'
<1> SUFFICES ASSUME TypeOK, [Next]_vars PROVE TypeOK'
  OBVIOUS
<1> USE RepoAssumption DEF RepoAssumption
<1>1. CASE InitEnv
  <2>1. DiskOK' /\ Contained' BY <1>1 DEF InitEnv, Issue, TypeOK, disk, DiskOK, Contained, Present
  <2>2. InitInside' /\ CommandOK' BY <1>1, TrackedRefs DEF InitEnv, Issue, InitInside, CommandOK, InitCommand, Phases, Stages
  <2>3. QED BY <1>1, <2>1, <2>2 DEF InitEnv, Issue, TypeOK, Bounded
<1>2. ASSUME NEW force \in BOOLEAN, NEW strict \in BOOLEAN, NEW teardown \in BOOLEAN,
             Destroy(force, strict, teardown)
      PROVE  TypeOK'
  <2>1. DiskOK' /\ Contained' BY <1>2 DEF Destroy, Issue, TypeOK, disk, DiskOK, Contained, Present
  <2>2. InitInside' /\ CommandOK' BY <1>2 DEF Destroy, Issue, InitInside, CommandOK, DestroyCommand, Phases
  <2>3. QED BY <1>2, <2>1, <2>2 DEF Destroy, Issue, TypeOK, Bounded
<1>3. CASE Kill
  <2>1. DiskOK' /\ Contained' BY <1>3 DEF Kill, TypeOK, disk, DiskOK, Contained, Present
  <2>2. Bounded' BY <1>3, FaultBound DEF Kill, TypeOK
  <2>3. QED BY <1>3, <2>1, <2>2 DEF Kill, TypeOK, NoCommand, InitInside, CommandOK
<1>4. CASE UNCHANGED vars
  BY <1>4 DEF vars, disk, TypeOK, DiskOK, Contained, Present, InitInside, CommandOK, Bounded
<1>5. QED
  BY <1>1, <1>2, <1>3, <1>4, TypeDestroy, TypeInitStep, TypeUser DEF Next

\* Every reachable state of an env is well typed; its worktrees are in its
\* directory and on its branch, whatever fails or is removed by hand.
THEOREM LifecycleTypeCorrect == Spec => []TypeOK
BY TypeInit, TypeNext, PTL DEF Spec

-----------------------------------------------------------------------------
(***************************************************************************)
(* The strengthening behind WorkKept.  Once a destroy without --force is   *)
(* past its safety check, whatever work it could lose is late; and a       *)
(* nested env is still to be destroyed, or it failed to be, which the gate *)
(* after the nested phases refuses.                                        *)
(***************************************************************************)
Guarded == cmd.kind = "destroy" /\ ~cmd.force /\ cmd.pc # "check"

LateWork == Guarded => \A r \in Repos : tree[r] = "dirty" \/ unpushed[r] => r \in cmd.late

NestedLeft ==
    Guarded => \A r \in Repos : nested[r] # "none" => cmd.pc = "nested" /\ (r \in cmd.todo \/ ~cmd.nestedOk)

WInv == TypeOK /\ LateWork /\ NestedLeft

\* WInv holds initially, when no destroy has begun.
LEMMA WorkInit == Init => WInv
BY TypeInit DEF Init, WInv, LateWork, NestedLeft, Guarded, NoCommand

\* A command that ends, or that is no destroy, has nothing to guard.
LEMMA Unguarded ==
  ASSUME cmd' = NoCommand \/ cmd'.kind = "init"
  PROVE  LateWork' /\ NestedLeft'
BY DEF LateWork, NestedLeft, Guarded, NoCommand

\* Nothing is guarded while no command runs, which is when the user removes things.
LEMMA UnguardedIdle ==
  ASSUME Idle, UNCHANGED cmd
  PROVE  LateWork' /\ NestedLeft'
BY Unguarded DEF Idle

\* A destroy that only moves on, or deletes, keeps what it has established; its nested
\* phase ends with no nested env left.
LEMMA MovesOn ==
  ASSUME WInv, cmd \in DestroyCommand, cmd.pc # "check", cmd' \in DestroyCommand,
         cmd'.force = cmd.force, cmd'.late = cmd.late,
         \A r \in Repos : /\ tree'[r] = "dirty" => tree[r] = "dirty"
                          /\ unpushed'[r] => unpushed[r]
                          /\ nested'[r] # "none" => nested[r] # "none",
         cmd.pc # "nested" \/ (~cmd.force => cmd.nestedOk /\ cmd.todo = {})
  PROVE  LateWork' /\ NestedLeft'
BY DEF WInv, LateWork, NestedLeft, Guarded, DestroyCommand

\* What the user adds after the check is late, or keeps the nested step from passing.
LEMMA WorkUser == ASSUME WInv, UserStep PROVE LateWork' /\ NestedLeft'
<1> USE DEF WInv
<1>1. CASE Use \/ RemoveByHand \/ Prune
  BY <1>1, UnguardedIdle DEF Use, RemoveByHand, Prune
<1>2. ASSUME NEW r \in Repos, Edit(r) PROVE LateWork' /\ NestedLeft'
  <2>1. cmd.kind = "destroy" => cmd \in DestroyCommand BY Kinds DEF TypeOK
  <2>2. QED BY <1>2, <2>1 DEF Edit, Late, TypeOK, DiskOK, LateWork, NestedLeft, Guarded, DestroyCommand
<1>3. ASSUME NEW r \in Repos, Commit(r) PROVE LateWork' /\ NestedLeft'
  <2>1. cmd.kind = "destroy" => cmd \in DestroyCommand BY Kinds DEF TypeOK
  <2>2. QED BY <1>3, <2>1 DEF Commit, Late, TypeOK, DiskOK, LateWork, NestedLeft, Guarded, DestroyCommand
<1>4. ASSUME NEW r \in Repos, Push(r) PROVE LateWork' /\ NestedLeft'
  BY <1>4 DEF Push, TypeOK, DiskOK, LateWork, NestedLeft, Guarded
<1>5. ASSUME NEW r \in Repos, DropTree(r) PROVE LateWork' /\ NestedLeft'
  BY <1>5, UnguardedIdle DEF DropTree
<1>6. ASSUME NEW r \in Repos, NEW ref \in Refs, Connect(r, ref) PROVE LateWork' /\ NestedLeft'
  BY <1>6, UnguardedIdle DEF Connect
<1>7. QED BY <1>1, <1>2, <1>3, <1>4, <1>5, <1>6 DEF UserStep

\* Every step of a destroy preserves the two parts of WInv.
LEMMA WorkDestroy == ASSUME WInv, DestroyStep PROVE LateWork' /\ NestedLeft'
<1> USE DEF WInv
<1>0. cmd \in DestroyCommand BY Kinds DEF TypeOK, DestroyStep, DestroyCheck, NestedDestroy, NestedDone, ServicesDone,
  WorktreesDone, RemoveEntry, StopServices, RemoveWorktree, Teardown, DestroyHooks, StripExclude, RemoveDir, At
<1>1. ASSUME NEW read \in SUBSET Nested, DestroyCheck(read) PROVE LateWork' /\ NestedLeft'
  <2>1. CASE Finish(FALSE) BY <2>1, Unguarded DEF Finish
  <2>2. CASE ~Finish(FALSE)
    <3>1. /\ cmd.force \/ (read = Nested \cap Present /\ ~Unsafe(read))
          /\ cmd' = [cmd EXCEPT !.pc = "nested", !.seen = Present, !.read = read, !.late = {},
                                !.todo = {r \in read : nested[r] # "none"},
                                !.nestedOk = read = Nested \cap Present]
          /\ UNCHANGED <<tree, nested, unpushed>>
      BY <1>1, <2>2 DEF DestroyCheck, disk
    <3>2. ~cmd.force => \A r \in Repos : /\ tree[r] # "dirty" /\ ~unpushed[r]
                                         /\ nested[r] # "none" => r \in read
      BY <3>1 DEF Unsafe, Present, TypeOK, DiskOK, Contained
    <3>3. cmd'.force = cmd.force /\ cmd'.pc = "nested" /\ cmd'.todo = {r \in read : nested[r] # "none"}
      BY <1>0, <3>1 DEF DestroyCommand
    <3>4. QED BY <3>1, <3>2, <3>3 DEF LateWork, NestedLeft, Guarded
  <2>3. QED BY <2>1, <2>2
<1>2. ASSUME NEW r \in Repos, NEW removed \in BOOLEAN, NEW ok \in BOOLEAN, NestedDestroy(r, removed, ok)
      PROVE LateWork' /\ NestedLeft'
  BY <1>0, <1>2 DEF NestedDestroy, At, TypeOK, DiskOK, LateWork, NestedLeft, Guarded, DestroyCommand
<1>3. CASE NestedDone
  <2>1. CASE Finish(FALSE) BY <2>1, Unguarded DEF Finish
  <2>2. CASE ~Finish(FALSE)
    <3>1. /\ cmd.nestedOk \/ cmd.force
          /\ cmd.pc = "nested" /\ cmd.todo = {}
          /\ cmd' = [cmd EXCEPT !.pc = "services", !.todo = cmd.read]
          /\ UNCHANGED <<tree, nested, unpushed>>
      BY <1>3, <2>2 DEF NestedDone, NestedGate, At, disk
    <3>2. cmd' \in DestroyCommand /\ cmd'.force = cmd.force /\ cmd'.late = cmd.late
      BY <1>0, <3>1, RepoAssumption DEF DestroyCommand, Phases, RepoAssumption
    <3>3. QED BY <1>0, <3>1, <3>2, MovesOn
  <2>3. QED BY <2>1, <2>2
<1>4. ASSUME NEW r \in Repos, NEW ok \in BOOLEAN, StopServices(r, ok) PROVE LateWork' /\ NestedLeft'
  BY <1>0, <1>4, MovesOn DEF StopServices, At, DestroyCommand
<1>5. CASE ServicesDone
  <2>1. CASE Finish(FALSE) BY <2>1, Unguarded DEF Finish
  <2>2. CASE ~Finish(FALSE)
    BY <1>0, <1>5, <2>2, MovesOn, ZenonT(40) DEF ServicesDone, NestedGate, At, disk, DestroyCommand, Phases
  <2>3. QED BY <2>1, <2>2
<1>6. ASSUME NEW ok \in BOOLEAN, Teardown(ok) PROVE LateWork' /\ NestedLeft'
  <2>1. CASE Finish(FALSE) BY <2>1, Unguarded DEF Finish
  <2>2. CASE ~Finish(FALSE)
    <3>1. /\ \/ cmd' = [cmd EXCEPT !.pc = "resource", !.teardownOk = ok]
             \/ cmd' = [cmd EXCEPT !.pc = "hooks", !.teardownOk = @ /\ ok]
          /\ cmd.pc \in {"data", "resource"}
          /\ UNCHANGED <<tree, nested, unpushed>>
      BY <1>6, <2>2 DEF Teardown, At
    <3>2. cmd' \in DestroyCommand /\ cmd'.force = cmd.force /\ cmd'.late = cmd.late
      BY <1>0, <3>1 DEF DestroyCommand, Phases
    <3>3. QED BY <1>0, <3>1, <3>2, MovesOn
  <2>3. QED BY <2>1, <2>2
<1>7. ASSUME NEW ok \in BOOLEAN, DestroyHooks(ok) PROVE LateWork' /\ NestedLeft'
  <2>1. CASE Finish(FALSE) BY <2>1, Unguarded DEF Finish
  <2>2. CASE ~Finish(FALSE)
    BY <1>0, <1>7, <2>2, MovesOn, ZenonT(40) DEF DestroyHooks, At, DestroyCommand, Phases
  <2>3. QED BY <2>1, <2>2
<1>8. ASSUME NEW r \in Repos, NEW ok \in BOOLEAN, RemoveWorktree(r, ok) PROVE LateWork' /\ NestedLeft'
  <2>1. cmd' = [cmd EXCEPT !.todo = @ \ {r}, !.ok = @ /\ ok] /\ cmd.pc = "worktrees"
    BY <1>8 DEF RemoveWorktree, At
  <2>2. cmd' \in DestroyCommand /\ cmd'.force = cmd.force /\ cmd'.late = cmd.late
    BY <1>0, <2>1 DEF DestroyCommand
  <2>3. \A q \in Repos : /\ tree'[q] = "dirty" => tree[q] = "dirty"
                         /\ unpushed'[q] => unpushed[q]
                         /\ nested'[q] # "none" => nested[q] # "none"
    <3>1. Delete({r}) \/ UNCHANGED <<tree, nested, unpushed>> BY <1>8 DEF RemoveWorktree
    <3>2. QED BY <3>1 DEF Delete
  <2>4. QED BY <1>0, <2>1, <2>2, <2>3, MovesOn
<1>9. CASE WorktreesDone
  BY <1>0, <1>9, MovesOn DEF WorktreesDone, Goto, At, disk, DestroyCommand, Phases
<1>10. ASSUME NEW ok \in BOOLEAN, NEW gone \in SUBSET Repos, RemoveDir(ok, gone) PROVE LateWork' /\ NestedLeft'
  <2>1. cmd' = [cmd EXCEPT !.pc = "block", !.ok = @ /\ ok] /\ cmd.pc = "dir"
    BY <1>10 DEF RemoveDir, At
  <2>2. cmd' \in DestroyCommand /\ cmd'.force = cmd.force /\ cmd'.late = cmd.late
    BY <1>0, <2>1 DEF DestroyCommand, Phases
  <2>3. \A q \in Repos : /\ tree'[q] = "dirty" => tree[q] = "dirty"
                         /\ unpushed'[q] => unpushed[q]
                         /\ nested'[q] # "none" => nested[q] # "none"
    BY <1>10 DEF RemoveDir, Delete
  <2>4. QED BY <1>0, <2>1, <2>2, <2>3, MovesOn
<1>11. ASSUME NEW ok \in BOOLEAN, StripExclude(ok) PROVE LateWork' /\ NestedLeft'
  BY <1>0, <1>11, MovesOn DEF StripExclude, At, DestroyCommand, Phases
<1>12. CASE RemoveEntry BY <1>12, Unguarded DEF RemoveEntry, Finish
<1>13. QED
  BY <1>1, <1>2, <1>3, <1>4, <1>5, <1>6, <1>7, <1>8, <1>9, <1>10, <1>11, <1>12 DEF DestroyStep

\* Every step preserves WInv.
LEMMA WorkNext == WInv /\ [Next]_vars => WInv'
<1> SUFFICES ASSUME WInv, [Next]_vars PROVE LateWork' /\ NestedLeft'
  BY TypeNext DEF WInv
<1>1. CASE InitEnv BY <1>1, Unguarded DEF InitEnv, Issue
<1>2. ASSUME NEW force \in BOOLEAN, NEW strict \in BOOLEAN, NEW teardown \in BOOLEAN,
             Destroy(force, strict, teardown)
      PROVE  LateWork' /\ NestedLeft'
  BY <1>2 DEF Destroy, Issue, LateWork, NestedLeft, Guarded
<1>3. CASE DestroyStep BY <1>3, WorkDestroy
<1>4. CASE InitStep
  <2>1. cmd' = NoCommand \/ cmd'.kind = "init"
    BY <1>4, Kinds, ZenonT(40) DEF WInv, TypeOK, InitStep, MakeDir, WriteExclude, InferRaises, InitHooks, CreateTree, Bootstrap,
      WireTracking, Stage, Finish, Goto, At, InitCommand
  <2>2. QED BY <2>1, Unguarded
<1>5. CASE Kill BY <1>5, Unguarded DEF Kill
<1>6. CASE UserStep BY <1>6, WorkUser
<1>7. CASE UNCHANGED vars BY <1>7 DEF vars, disk, WInv, LateWork, NestedLeft, Guarded
<1>8. QED BY <1>1, <1>2, <1>3, <1>4, <1>5, <1>6, <1>7 DEF Next

\* What a step deletes while a destroy without --force runs, that destroy deletes, past its check.
LEMMA WorkStep ==
  ASSUME WInv, [Next]_vars, cmd.kind = "destroy", ~cmd.force, NEW r \in Repos
  PROVE  /\ (tree[r] = "dirty" \/ unpushed[r]) /\ Gone(r) => r \in cmd.late
         /\ nested[r] = "dirty" => nested'[r] # "none"
<1> USE DEF WInv
<1>1. ~Idle BY DEF Idle, NoCommand
<1>2. ASSUME UNCHANGED tree PROVE ~Gone(r) BY <1>2 DEF Gone, TypeOK, DiskOK
<1>3. CASE DestroyStep
  <2>1. CASE UNCHANGED <<tree, nested>> BY <1>2, <2>1
  <2>2. ASSUME NEW q \in Repos, NEW removed \in BOOLEAN, NEW ok \in BOOLEAN, NestedDestroy(q, removed, ok)
        PROVE  /\ ~Gone(r)
               /\ nested[r] = "dirty" => nested'[r] # "none"
    BY <1>2, <2>2 DEF NestedDestroy, TypeOK, DiskOK
  <2>3. ASSUME cmd.pc \notin {"check", "nested"}
        PROVE  /\ tree[r] = "dirty" \/ unpushed[r] => r \in cmd.late
               /\ nested[r] = "none"
    BY <2>3 DEF LateWork, NestedLeft, Guarded
  <2>4. \/ UNCHANGED <<tree, nested>>
        \/ cmd.pc \notin {"check", "nested"}
        \/ \E q \in Repos, removed, ok \in BOOLEAN : NestedDestroy(q, removed, ok)
    BY <1>3 DEF DestroyStep, DestroyCheck, NestedDone, ServicesDone, WorktreesDone, RemoveEntry,
      StopServices, RemoveWorktree, Teardown, DestroyHooks, StripExclude, RemoveDir, At, disk
  <2>5. CASE cmd.pc \notin {"check", "nested"} BY <2>3, <2>5
  <2>6. QED BY <2>1, <2>2, <2>4, <2>5
<1>4. CASE UserStep
  <2>1. \E q \in Repos : Edit(q) \/ Commit(q) \/ Push(q)
    BY <1>1, <1>4 DEF UserStep, Use, RemoveByHand, Prune, DropTree, Connect
  <2>2. QED BY <2>1 DEF Edit, Commit, Push, Gone, TypeOK, DiskOK
<1>5. CASE InitEnv \/ (\E force, strict, teardown \in BOOLEAN : Destroy(force, strict, teardown)) \/ Kill \/ UNCHANGED vars
  BY <1>2, <1>5 DEF InitEnv, Destroy, Issue, Kill, disk, vars
<1>6. CASE InitStep
  BY <1>6 DEF InitStep, MakeDir, WriteExclude, InferRaises, InitHooks, CreateTree, Bootstrap, WireTracking, Stage, At
<1>7. QED BY <1>3, <1>4, <1>5, <1>6 DEF Next

\* Without --force, a destroy deletes no work but what was made after its safety check, and no
\* uncommitted change of a nested env at all, whatever fails and however the user works meanwhile.
THEOREM LifecycleWorkKept == Spec => WorkKept
<1>1. WInv /\ [Next]_vars =>
        [cmd.kind = "destroy" /\ ~cmd.force =>
          \A r \in Repos : /\ (tree[r] = "dirty" \/ unpushed[r]) /\ Gone(r) => r \in cmd.late
                           /\ nested[r] = "dirty" => nested'[r] # "none"]_vars
  BY WorkStep
<1>2. QED BY <1>1, WorkInit, WorkNext, PTL DEF Spec, WorkKept

-----------------------------------------------------------------------------
(***************************************************************************)
(* The strengthening behind the other three properties: what each phase of *)
(* a command has established for the phases after it, as long as nothing   *)
(* it depends on was reported to have failed.                              *)
(***************************************************************************)
PastServices == {"data", "resource", "hooks", "worktrees", "dir", "block", "entry"}
PastTeardown == {"hooks", "worktrees", "dir", "block", "entry"}
PastHooks == {"worktrees", "dir", "block", "entry"}
PastTrees == {"dir", "block", "entry"}

\* Worktrees are known to the source checkout; services run in nested workspaces.
Rooted == \A r \in Repos : /\ tree[r] # "absent" => registered[r]
                           /\ services[r] => r \in Nested

Looked == cmd.kind = "destroy" /\ cmd.pc # "check"

\* A destroy saw every worktree there is, and, unless a nested failure was reported, read every
\* nested workspace among them and stopped the services of those it is done with.
Stopped ==
    Looked => /\ Present \subseteq cmd.seen
              /\ cmd.nestedOk => cmd.read = Nested \cap cmd.seen
              /\ cmd.nestedOk => \A r \in cmd.seen :
                   services[r] => cmd.pc = "nested" \/ (cmd.pc = "services" /\ r \in cmd.todo)
              /\ cmd.pc \in PastServices => cmd.force \/ cmd.nestedOk

\* What was provisioned is torn down, unless that was reported; --strict lets nothing pass.
TornDown ==
    cmd.kind = "destroy" => /\ cmd.teardown /\ cmd.teardownOk =>
                                 /\ cmd.pc = "resource" => "data" \notin prov
                                 /\ cmd.pc \in PastTeardown => prov = {}
                            /\ cmd.pc \in {"check", "nested", "services"} => cmd.teardownOk
                            /\ cmd.strict /\ cmd.pc \in PastTeardown => cmd.teardownOk
                            /\ cmd.strict /\ cmd.pc \in PastHooks => ~hooked

\* Unless a failure was reported, the worktrees, the directory and the block go in that order.
Removed ==
    cmd.kind = "destroy" /\ cmd.ok =>
        /\ cmd.pc = "worktrees" => \A r \in cmd.seen \ cmd.todo : ~registered[r]
        /\ cmd.pc \in PastTrees => \A r \in cmd.seen : ~registered[r]
        /\ cmd.pc \in {"block", "entry"} => ~env
        /\ cmd.pc = "entry" => ~exclude

\* Unless a failure was reported, an init has recorded the env, written its exclude block, and
\* has the worktree of every repository it has looked at.
Built ==
    cmd.kind = "init" => /\ cmd.pc # "mkdir" => entry
                         /\ cmd.pc # "repos" => \A r \in Repos : cmd.stage[r] = "start"
                         /\ cmd.pc = "repos" /\ cmd.ok =>
                              /\ exclude
                              /\ \A r \in Repos : cmd.stage[r] # "start" => tree[r] # "absent"

CInv == WInv /\ Rooted /\ Stopped /\ TornDown /\ Removed /\ Built

\* CInv holds initially, when no command runs.
LEMMA CleanInit == Init => CInv
BY WorkInit DEF Init, CInv, Rooted, Stopped, TornDown, Removed, Built, Looked, NoCommand

\* Worktrees and registrations come and go together, but for what is removed by hand.
LEMMA RootedNext == ASSUME TypeOK, Rooted, [Next]_vars PROVE Rooted'
<1> USE RepoAssumption DEF RepoAssumption, TypeOK, DiskOK, Rooted
<1>1. CASE InitEnv \/ (\E force, strict, teardown \in BOOLEAN : Destroy(force, strict, teardown)) \/ Kill \/ UNCHANGED vars
  BY <1>1 DEF InitEnv, Destroy, Issue, Kill, disk, vars
<1>2. CASE UserStep
  <2>1. CASE Use BY <2>1 DEF Use, Present
  <2>2. CASE RemoveByHand \/ Prune BY <2>2 DEF RemoveByHand, Prune, Delete
  <2>3. ASSUME NEW r \in Repos, Edit(r) \/ Commit(r) \/ Push(r) PROVE Rooted'
    BY <2>3 DEF Edit, Commit, Push
  <2>4. ASSUME NEW r \in Repos, DropTree(r) PROVE Rooted'
    BY <2>4 DEF DropTree, Delete
  <2>5. ASSUME NEW r \in Repos, NEW ref \in Refs, Connect(r, ref) PROVE Rooted'
    BY <2>5 DEF Connect
  <2>6. QED BY <1>2, <2>1, <2>2, <2>3, <2>4, <2>5 DEF UserStep
<1>3. CASE DestroyStep
  <2>1. ASSUME NEW r \in Repos, NEW ok \in BOOLEAN, StopServices(r, ok) PROVE Rooted'
    BY <2>1 DEF StopServices
  <2>2. ASSUME NEW r \in Repos, NEW ok \in BOOLEAN, RemoveWorktree(r, ok) PROVE Rooted'
    BY <2>2 DEF RemoveWorktree, Delete
  <2>3. ASSUME NEW ok \in BOOLEAN, NEW gone \in SUBSET Repos, RemoveDir(ok, gone) PROVE Rooted'
    BY <2>3 DEF RemoveDir, Delete
  <2>4. CASE UNCHANGED <<tree, registered, services>> BY <2>4
  <2>5. QED
    BY <1>3, <2>1, <2>2, <2>3, <2>4, ZenonT(40) DEF DestroyStep, DestroyCheck, NestedDestroy, NestedDone, ServicesDone,
      WorktreesDone, RemoveEntry, Teardown, DestroyHooks, StripExclude, disk
<1>4. CASE InitStep
  <2>1. ASSUME NEW r \in Repos, NEW ok \in BOOLEAN, CreateTree(r, ok) PROVE Rooted'
    BY <2>1 DEF CreateTree, Stage
  <2>2. CASE UNCHANGED <<tree, registered, services>> BY <2>2
  <2>3. QED
    BY <1>4, <2>1, <2>2, ZenonT(40) DEF InitStep, MakeDir, WriteExclude, InferRaises, InitHooks, Bootstrap, WireTracking, Stage
<1>5. QED BY <1>1, <1>2, <1>3, <1>4 DEF Next

\* A command that is not running has established nothing.
LEMMA NotDestroy ==
  ASSUME cmd'.kind # "destroy" PROVE Stopped' /\ TornDown' /\ Removed'
BY DEF Stopped, TornDown, Removed, Looked

\* What an init has built is asked of an init only.
LEMMA NotInit == ASSUME cmd'.kind # "init" PROVE Built'
BY DEF Built

\* A command that ends has nothing left to establish.
LEMMA Ends == ASSUME cmd' = NoCommand PROVE Stopped' /\ TornDown' /\ Removed' /\ Built'
BY NotDestroy, NotInit DEF NoCommand

\* What the user does takes back no part of CInv.
LEMMA CleanUser == ASSUME CInv, UserStep PROVE Stopped' /\ TornDown' /\ Removed' /\ Built'
<1> USE DEF CInv, WInv, TypeOK
<1>1. CASE Idle /\ UNCHANGED cmd BY <1>1, Ends DEF Idle
<1>2. ASSUME NEW r \in Repos, Edit(r) \/ Commit(r) \/ Push(r)
      PROVE  Stopped' /\ TornDown' /\ Removed' /\ Built'
  <2>1. /\ UNCHANGED <<env, registered, entry, exclude, prov, hooked, services>>
        /\ \A q \in Repos : tree'[q] # "absent" <=> tree[q] # "absent"
    BY <1>2 DEF Edit, Commit, Push, DiskOK
  <2>2. Present' = Present BY <2>1 DEF Present
  <2>3. cmd' = cmd \/ (cmd.kind = "destroy" /\ cmd' = [cmd EXCEPT !.late = @ \cup {r}])
    BY <1>2 DEF Edit, Commit, Push, Late
  <2>4. CASE cmd' = cmd
    BY <2>1, <2>2, <2>4 DEF Stopped, TornDown, Removed, Built, Looked
  <2>5. CASE cmd.kind = "destroy" /\ cmd' = [cmd EXCEPT !.late = @ \cup {r}]
    <3>1. cmd \in DestroyCommand BY <2>5, Kinds
    <3>2. /\ cmd'.kind = cmd.kind /\ cmd'.pc = cmd.pc /\ cmd'.seen = cmd.seen /\ cmd'.read = cmd.read
          /\ cmd'.todo = cmd.todo /\ cmd'.nestedOk = cmd.nestedOk /\ cmd'.teardownOk = cmd.teardownOk
          /\ cmd'.ok = cmd.ok /\ cmd'.force = cmd.force /\ cmd'.strict = cmd.strict
          /\ cmd'.teardown = cmd.teardown
      BY <2>5, <3>1 DEF DestroyCommand
    <3>3. Stopped' BY <2>1, <2>2, <3>2 DEF Stopped, Looked
    <3>4. TornDown' /\ Removed' BY <2>1, <3>2 DEF TornDown, Removed
    <3>5. QED BY <2>5, <3>2, <3>3, <3>4, NotInit
  <2>6. QED BY <2>3, <2>4, <2>5
<1>3. QED
  BY <1>1, <1>2 DEF UserStep, Use, RemoveByHand, Prune, DropTree, Connect

\* Every step of a destroy preserves the four parts of CInv.
LEMMA CleanDestroy == ASSUME CInv, DestroyStep PROVE Stopped' /\ TornDown' /\ Removed' /\ Built'
<1> USE DEF CInv, WInv, TypeOK
<1>0. cmd \in DestroyCommand BY Kinds DEF DestroyStep, DestroyCheck, NestedDestroy, NestedDone, ServicesDone,
  WorktreesDone, RemoveEntry, StopServices, RemoveWorktree, Teardown, DestroyHooks, StripExclude, RemoveDir, At
<1>1. CASE cmd' = NoCommand BY <1>1, Ends
<1>2. ASSUME cmd' # NoCommand PROVE Stopped' /\ TornDown' /\ Removed' /\ Built'
  <2> USE <1>2
  <2>1. ASSUME NEW read \in SUBSET Nested, DestroyCheck(read) PROVE Stopped' /\ TornDown' /\ Removed' /\ Built'
    <3>1. /\ cmd' = [cmd EXCEPT !.pc = "nested", !.seen = Present, !.read = read, !.late = {},
                                !.todo = {r \in read : nested[r] # "none"},
                                !.nestedOk = read = Nested \cap Present]
          /\ cmd.pc = "check" /\ UNCHANGED disk
      BY <2>1 DEF DestroyCheck, Finish, At
    <3>2. /\ cmd'.kind = "destroy" /\ cmd'.pc = "nested" /\ cmd'.seen = Present /\ cmd'.read = read
          /\ cmd'.nestedOk = (read = Nested \cap Present) /\ cmd'.teardownOk = cmd.teardownOk
      BY <1>0, <3>1 DEF DestroyCommand
    <3>3. Present' = Present BY <3>1 DEF disk, Present
    <3>4. Stopped' BY <3>2, <3>3 DEF Stopped, PastServices
    <3>5. TornDown' /\ Removed' BY <1>0, <3>1, <3>2 DEF TornDown, Removed, PastTeardown, PastHooks, PastTrees, DestroyCommand
    <3>6. QED BY <3>2, <3>4, <3>5, NotInit
  <2>2. ASSUME NEW r \in Repos, NEW removed \in BOOLEAN, NEW ok \in BOOLEAN, NestedDestroy(r, removed, ok)
        PROVE  Stopped' /\ TornDown' /\ Removed' /\ Built'
    <3>1. /\ cmd' = [cmd EXCEPT !.todo = @ \ {r}, !.nestedOk = @ /\ ok]
          /\ cmd.pc = "nested" /\ UNCHANGED <<tree, services>>
      BY <2>2 DEF NestedDestroy, At
    <3>2. /\ cmd'.kind = "destroy" /\ cmd'.pc = "nested" /\ cmd'.seen = cmd.seen /\ cmd'.read = cmd.read
          /\ cmd'.nestedOk = (cmd.nestedOk /\ ok) /\ cmd'.teardownOk = cmd.teardownOk
      BY <1>0, <3>1 DEF DestroyCommand
    <3>3. Present' = Present BY <3>1 DEF Present
    <3>4. Stopped' BY <1>0, <3>1, <3>2, <3>3 DEF Stopped, Looked, PastServices, DestroyCommand
    <3>5. TornDown' /\ Removed' BY <1>0, <3>1, <3>2 DEF TornDown, Removed, PastTeardown, PastHooks, PastTrees, DestroyCommand
    <3>6. QED BY <3>2, <3>4, <3>5, NotInit
  <2>3. CASE NestedDone
    <3>1. /\ cmd' = [cmd EXCEPT !.pc = "services", !.todo = cmd.read]
          /\ cmd.pc = "nested" /\ UNCHANGED disk
      BY <2>3 DEF NestedDone, NestedGate, Finish, At
    <3>2. /\ cmd'.kind = "destroy" /\ cmd'.pc = "services" /\ cmd'.seen = cmd.seen /\ cmd'.read = cmd.read
          /\ cmd'.nestedOk = cmd.nestedOk /\ cmd'.todo = cmd.read /\ cmd'.teardownOk = cmd.teardownOk
      BY <1>0, <3>1 DEF DestroyCommand
    <3>3. Present' = Present BY <3>1 DEF Present, disk
    <3>4. Stopped' BY <1>0, <3>1, <3>2, <3>3 DEF Stopped, Looked, PastServices, DestroyCommand, Rooted, disk
    <3>5. TornDown' /\ Removed' BY <1>0, <3>1, <3>2 DEF TornDown, Removed, PastTeardown, PastHooks, PastTrees, DestroyCommand
    <3>6. QED BY <3>2, <3>4, <3>5, NotInit
  <2>4. ASSUME NEW r \in Repos, NEW ok \in BOOLEAN, StopServices(r, ok)
        PROVE  Stopped' /\ TornDown' /\ Removed' /\ Built'
    <3>1. /\ cmd' = [cmd EXCEPT !.todo = @ \ {r}, !.nestedOk = @ /\ ok]
          /\ services' = [services EXCEPT ![r] = @ /\ ~ok]
          /\ cmd.pc = "services" /\ UNCHANGED tree
      BY <2>4 DEF StopServices, At
    <3>2. /\ cmd'.kind = "destroy" /\ cmd'.pc = "services" /\ cmd'.seen = cmd.seen /\ cmd'.read = cmd.read
          /\ cmd'.nestedOk = (cmd.nestedOk /\ ok) /\ cmd'.todo = cmd.todo \ {r}
          /\ cmd'.teardownOk = cmd.teardownOk
      BY <1>0, <3>1 DEF DestroyCommand
    <3>3. Present' = Present BY <3>1 DEF Present
    <3>4. \A q \in Repos : services'[q] => services[q] /\ (q = r => ~ok)
      BY <3>1 DEF DiskOK
    <3>5. cmd.seen \subseteq Repos /\ cmd.nestedOk \in BOOLEAN BY <1>0 DEF DestroyCommand
    <3>6. Stopped' BY <3>1, <3>2, <3>3, <3>4, <3>5, <1>0 DEF Stopped, Looked, PastServices
    <3>7. TornDown' /\ Removed' BY <1>0, <3>1, <3>2 DEF TornDown, Removed, PastTeardown, PastHooks, PastTrees, DestroyCommand
    <3>8. QED BY <3>2, <3>6, <3>7, NotInit
  <2>5. CASE ServicesDone
    <3>1. /\ cmd' = [cmd EXCEPT !.pc = IF cmd.teardown THEN "data" ELSE "hooks", !.todo = {}]
          /\ cmd.nestedOk \/ cmd.force
          /\ cmd.pc = "services" /\ cmd.todo = {} /\ UNCHANGED disk
      BY <2>5 DEF ServicesDone, NestedGate, Finish, At
    <3>2. /\ cmd'.kind = "destroy" /\ cmd'.pc = (IF cmd.teardown THEN "data" ELSE "hooks")
          /\ cmd'.seen = cmd.seen /\ cmd'.read = cmd.read /\ cmd'.nestedOk = cmd.nestedOk
          /\ cmd'.force = cmd.force /\ cmd'.teardown = cmd.teardown /\ cmd'.teardownOk = cmd.teardownOk
      BY <1>0, <3>1 DEF DestroyCommand
    <3>3. Present' = Present BY <3>1 DEF Present, disk
    <3>4. Stopped' BY <3>1, <3>2, <3>3, <1>0 DEF Stopped, Looked, PastServices, disk, DestroyCommand
    <3>5. TornDown' BY <3>1, <3>2 DEF TornDown, PastTeardown, PastHooks, disk
    <3>6. Removed' BY <3>2 DEF Removed, PastTrees
    <3>7. QED BY <3>2, <3>4, <3>5, <3>6, NotInit
  <2>6. ASSUME NEW ok \in BOOLEAN, Teardown(ok) PROVE Stopped' /\ TornDown' /\ Removed' /\ Built'
    <3>1. /\ UNCHANGED <<tree, services, hooked>>
          /\ prov' = IF ok THEN prov \ {cmd.pc} ELSE prov
          /\ \/ /\ cmd.pc = "data"
                /\ cmd' = [cmd EXCEPT !.pc = "resource", !.teardownOk = ok]
             \/ /\ cmd.pc = "resource" /\ (cmd.strict => cmd.teardownOk /\ ok)
                /\ cmd' = [cmd EXCEPT !.pc = "hooks", !.teardownOk = @ /\ ok]
      BY <2>6 DEF Teardown, Finish, At
    <3>2. /\ cmd'.kind = "destroy" /\ cmd'.seen = cmd.seen /\ cmd'.read = cmd.read /\ cmd'.nestedOk = cmd.nestedOk
          /\ cmd'.force = cmd.force /\ cmd'.teardown = cmd.teardown /\ cmd'.strict = cmd.strict
          /\ \/ cmd.pc = "data" /\ cmd'.pc = "resource" /\ cmd'.teardownOk = ok
             \/ /\ cmd.pc = "resource" /\ (cmd.strict => cmd.teardownOk /\ ok)
                /\ cmd'.pc = "hooks" /\ cmd'.teardownOk = (cmd.teardownOk /\ ok)
      BY <1>0, <3>1 DEF DestroyCommand
    <3>3. Present' = Present BY <3>1 DEF Present
    <3>4. Stopped' BY <3>1, <3>2, <3>3, <1>0 DEF Stopped, Looked, PastServices, DestroyCommand
    <3>5. TornDown' BY <3>1, <3>2, <1>0 DEF TornDown, PastTeardown, PastHooks, DestroyCommand, DiskOK, Subtargets
    <3>6. Removed' BY <3>2 DEF Removed, PastTrees
    <3>7. QED BY <3>2, <3>4, <3>5, <3>6, NotInit
  <2>7. ASSUME NEW ok \in BOOLEAN, DestroyHooks(ok) PROVE Stopped' /\ TornDown' /\ Removed' /\ Built'
    <3>1. /\ UNCHANGED <<tree, services, prov>> /\ hooked' = (hooked /\ ~ok)
          /\ cmd.pc = "hooks" /\ (cmd.strict => ok)
          /\ cmd' = [cmd EXCEPT !.pc = "worktrees", !.todo = cmd.seen]
      BY <2>7 DEF DestroyHooks, Finish, At
    <3>2. /\ cmd'.kind = "destroy" /\ cmd'.seen = cmd.seen /\ cmd'.read = cmd.read /\ cmd'.nestedOk = cmd.nestedOk
          /\ cmd'.force = cmd.force /\ cmd'.teardown = cmd.teardown /\ cmd'.strict = cmd.strict
          /\ cmd'.teardownOk = cmd.teardownOk /\ cmd'.pc = "worktrees" /\ cmd'.todo = cmd.seen
      BY <1>0, <3>1 DEF DestroyCommand
    <3>3. Present' = Present BY <3>1 DEF Present
    <3>4. Stopped' BY <3>1, <3>2, <3>3, <1>0 DEF Stopped, Looked, PastServices, DestroyCommand
    <3>5. TornDown' BY <3>1, <3>2, <1>0 DEF TornDown, PastTeardown, PastHooks, DestroyCommand
    <3>6. Removed' BY <3>2 DEF Removed, PastTrees
    <3>7. QED BY <3>2, <3>4, <3>5, <3>6, NotInit
  <2>8. ASSUME NEW r \in Repos, NEW ok \in BOOLEAN, RemoveWorktree(r, ok)
        PROVE  Stopped' /\ TornDown' /\ Removed' /\ Built'
    <3>1. /\ UNCHANGED <<services, prov, hooked>> /\ cmd.pc = "worktrees"
          /\ cmd' = [cmd EXCEPT !.todo = @ \ {r}, !.ok = @ /\ ok]
      BY <2>8 DEF RemoveWorktree, At
    <3>2. /\ cmd'.kind = "destroy" /\ cmd'.seen = cmd.seen /\ cmd'.read = cmd.read /\ cmd'.nestedOk = cmd.nestedOk
          /\ cmd'.force = cmd.force /\ cmd'.teardown = cmd.teardown /\ cmd'.strict = cmd.strict
          /\ cmd'.teardownOk = cmd.teardownOk /\ cmd'.pc = "worktrees" /\ cmd'.todo = cmd.todo \ {r}
          /\ cmd'.ok = (cmd.ok /\ ok)
      BY <1>0, <3>1 DEF DestroyCommand
    <3>3. Present' \subseteq Present BY <2>8 DEF RemoveWorktree, Delete, Present
    <3>4. \A q \in Repos : /\ registered'[q] => registered[q]
                           /\ ok /\ q = r => ~registered'[q]
      BY <2>8 DEF RemoveWorktree, DiskOK
    <3>5. cmd.seen \subseteq Repos /\ cmd.ok \in BOOLEAN BY <1>0 DEF DestroyCommand
    <3>6. Stopped' BY <3>1, <3>2, <3>3, <1>0 DEF Stopped, Looked, PastServices, DestroyCommand
    <3>7. TornDown' BY <3>1, <3>2, <1>0 DEF TornDown, PastTeardown, PastHooks, DestroyCommand
    <3>8. Removed' BY <3>1, <3>2, <3>4, <3>5, <1>0 DEF Removed, PastTrees, DestroyCommand
    <3>9. QED BY <3>2, <3>6, <3>7, <3>8, NotInit
  <2>9. CASE WorktreesDone
    <3>1. /\ UNCHANGED disk /\ cmd.pc = "worktrees" /\ cmd.todo = {} /\ cmd' = [cmd EXCEPT !.pc = "dir"]
      BY <2>9 DEF WorktreesDone, Goto, At
    <3>2. /\ cmd'.kind = "destroy" /\ cmd'.seen = cmd.seen /\ cmd'.read = cmd.read /\ cmd'.nestedOk = cmd.nestedOk
          /\ cmd'.force = cmd.force /\ cmd'.teardown = cmd.teardown /\ cmd'.strict = cmd.strict
          /\ cmd'.teardownOk = cmd.teardownOk /\ cmd'.pc = "dir" /\ cmd'.ok = cmd.ok
      BY <1>0, <3>1 DEF DestroyCommand
    <3>3. Present' = Present BY <3>1 DEF Present, disk
    <3>4. Stopped' BY <3>1, <3>2, <3>3, <1>0 DEF Stopped, Looked, PastServices, DestroyCommand, disk
    <3>5. TornDown' BY <3>1, <3>2, <1>0 DEF TornDown, PastTeardown, PastHooks, DestroyCommand, disk
    <3>6. Removed' BY <3>1, <3>2, <1>0 DEF Removed, PastTrees, DestroyCommand, disk
    <3>7. QED BY <3>2, <3>4, <3>5, <3>6, NotInit
  <2>10. ASSUME NEW ok \in BOOLEAN, NEW gone \in SUBSET Repos, RemoveDir(ok, gone)
         PROVE  Stopped' /\ TornDown' /\ Removed' /\ Built'
    <3>1. /\ UNCHANGED <<registered, services, prov, hooked>> /\ env' = ~ok
          /\ cmd.pc = "dir" /\ cmd' = [cmd EXCEPT !.pc = "block", !.ok = @ /\ ok]
      BY <2>10 DEF RemoveDir, At
    <3>2. /\ cmd'.kind = "destroy" /\ cmd'.seen = cmd.seen /\ cmd'.read = cmd.read /\ cmd'.nestedOk = cmd.nestedOk
          /\ cmd'.force = cmd.force /\ cmd'.teardown = cmd.teardown /\ cmd'.strict = cmd.strict
          /\ cmd'.teardownOk = cmd.teardownOk /\ cmd'.pc = "block" /\ cmd'.ok = (cmd.ok /\ ok)
      BY <1>0, <3>1 DEF DestroyCommand
    <3>3. Present' \subseteq Present BY <2>10 DEF RemoveDir, Delete, Present
    <3>4. Stopped' BY <3>1, <3>2, <3>3, <1>0 DEF Stopped, Looked, PastServices, DestroyCommand
    <3>5. TornDown' BY <3>1, <3>2, <1>0 DEF TornDown, PastTeardown, PastHooks, DestroyCommand
    <3>6. Removed' BY <3>1, <3>2, <1>0 DEF Removed, PastTrees, DestroyCommand
    <3>7. QED BY <3>2, <3>4, <3>5, <3>6, NotInit
  <2>11. ASSUME NEW ok \in BOOLEAN, StripExclude(ok) PROVE Stopped' /\ TornDown' /\ Removed' /\ Built'
    <3>1. /\ UNCHANGED <<env, tree, registered, services, prov, hooked>> /\ exclude' = (exclude /\ ~ok)
          /\ cmd.pc = "block" /\ cmd' = [cmd EXCEPT !.pc = "entry", !.ok = @ /\ ok]
      BY <2>11 DEF StripExclude, At
    <3>2. /\ cmd'.kind = "destroy" /\ cmd'.seen = cmd.seen /\ cmd'.read = cmd.read /\ cmd'.nestedOk = cmd.nestedOk
          /\ cmd'.force = cmd.force /\ cmd'.teardown = cmd.teardown /\ cmd'.strict = cmd.strict
          /\ cmd'.teardownOk = cmd.teardownOk /\ cmd'.pc = "entry" /\ cmd'.ok = (cmd.ok /\ ok)
      BY <1>0, <3>1 DEF DestroyCommand
    <3>3. Present' = Present BY <3>1 DEF Present
    <3>4. Stopped' BY <3>1, <3>2, <3>3, <1>0 DEF Stopped, Looked, PastServices, DestroyCommand
    <3>5. TornDown' BY <3>1, <3>2, <1>0 DEF TornDown, PastTeardown, PastHooks, DestroyCommand
    <3>6. Removed' BY <3>1, <3>2, <1>0 DEF Removed, PastTrees, DestroyCommand
    <3>7. QED BY <3>2, <3>4, <3>5, <3>6, NotInit
  <2>12. CASE RemoveEntry BY <2>12 DEF RemoveEntry, Finish
  <2>13. QED
    BY <2>1, <2>2, <2>3, <2>4, <2>5, <2>6, <2>7, <2>8, <2>9, <2>10, <2>11, <2>12 DEF DestroyStep
<1>3. QED BY <1>1, <1>2

\* Only InitStep moves an init on; its repositories are looked at one by one.
LEMMA CleanInitStep == ASSUME CInv, InitStep PROVE Stopped' /\ TornDown' /\ Removed' /\ Built'
<1> USE DEF CInv, WInv, TypeOK
<1>0. cmd \in InitCommand
  BY Kinds DEF InitStep, MakeDir, WriteExclude, InferRaises, InitHooks, CreateTree, Bootstrap, WireTracking, Stage, At
<1>1. CASE cmd' = NoCommand BY <1>1, Ends
<1>2. ASSUME cmd' # NoCommand PROVE cmd'.kind = "init" /\ Built'
  <2> USE <1>2
  <2>1. ASSUME NEW ok \in BOOLEAN, MakeDir(ok) PROVE cmd'.kind = "init" /\ Built'
    BY <1>0, <2>1 DEF MakeDir, At, Goto, Finish, InitCommand, Built
  <2>2. ASSUME NEW ok \in BOOLEAN, WriteExclude(ok) PROVE cmd'.kind = "init" /\ Built'
    BY <1>0, <2>2 DEF WriteExclude, At, InitCommand, Built
  <2>3. ASSUME NEW ok \in BOOLEAN, InferRaises(ok) \/ InitHooks(ok) PROVE cmd'.kind = "init" /\ Built'
    BY <2>3 DEF InferRaises, InitHooks, Finish
  <2>4. ASSUME NEW r \in Repos, NEW from \in {"start", "made", "wired"}, NEW to \in Stages,
               NEW ok \in BOOLEAN, NEW created \in BOOLEAN, Stage(r, from, to, ok, created),
               \A q \in Repos : tree[q] # "absent" => tree'[q] # "absent",
               from = "start" => (ok => tree'[r] # "absent")
        PROVE  cmd'.kind = "init" /\ Built'
    <3>1. /\ cmd.pc = "repos" /\ cmd.stage[r] = from /\ UNCHANGED <<entry, exclude>>
          /\ cmd' = [cmd EXCEPT !.stage[r] = to, !.ok = @ /\ ok, !.new = IF created THEN @ \cup {r} ELSE @]
      BY <2>4 DEF Stage, At
    <3>2. /\ cmd'.kind = "init" /\ cmd'.pc = "repos" /\ cmd'.ok = (cmd.ok /\ ok)
          /\ \A q \in Repos : cmd'.stage[q] = IF q = r THEN to ELSE cmd.stage[q]
      BY <1>0, <3>1 DEF InitCommand
    <3>3. cmd.ok \in BOOLEAN BY <1>0 DEF InitCommand
    <3>4. QED BY <1>0, <2>4, <3>1, <3>2, <3>3 DEF Built, InitCommand
  <2>5. ASSUME NEW r \in Repos, NEW ok \in BOOLEAN, CreateTree(r, ok) PROVE cmd'.kind = "init" /\ Built'
    <3>1. /\ Stage(r, "start", IF ok THEN "made" ELSE "done", ok, ok /\ tree[r] = "absent")
          /\ tree' = [tree EXCEPT ![r] = IF ok /\ tree[r] = "absent" THEN "clean" ELSE @]
      BY <2>5 DEF CreateTree
    <3>2. \A q \in Repos : tree[q] # "absent" => tree'[q] # "absent" BY <3>1 DEF DiskOK
    <3>3. ok => tree'[r] # "absent" BY <3>1 DEF DiskOK
    <3>4. (IF ok THEN "made" ELSE "done") \in Stages BY DEF Stages
    <3>5. QED BY <2>4, <3>1, <3>2, <3>3, <3>4
  <2>6. ASSUME NEW r \in Repos, NEW ok \in BOOLEAN, Bootstrap(r, ok) PROVE cmd'.kind = "init" /\ Built'
    BY <2>4, <2>6 DEF Bootstrap, Stages
  <2>7. ASSUME NEW r \in Repos, NEW to \in {"wired", "done"}, NEW wired \in BOOLEAN, NEW ok \in BOOLEAN,
               WireTracking(r, to, wired, ok)
        PROVE  cmd'.kind = "init" /\ Built'
    <3>1. Stage(r, "made", to, ok, FALSE) /\ UNCHANGED tree BY <2>7 DEF WireTracking
    <3>2. to \in Stages BY DEF Stages
    <3>3. QED BY <2>4, <3>1, <3>2
  <2>8. QED BY <2>1, <2>2, <2>3, <2>5, <2>6, <2>7 DEF InitStep
<1>3. QED BY <1>1, <1>2, NotDestroy

\* Every step preserves CInv.
LEMMA CleanNext == CInv /\ [Next]_vars => CInv'
<1> SUFFICES ASSUME CInv, [Next]_vars PROVE Stopped' /\ TornDown' /\ Removed' /\ Built'
  BY WorkNext, RootedNext DEF CInv, WInv
<1>1. CASE InitEnv
  <2>1. cmd'.kind = "init" /\ cmd'.pc = "mkdir" /\ cmd'.stage = [r \in Repos |-> "start"]
    BY <1>1 DEF InitEnv, Issue
  <2>2. QED BY <2>1, NotDestroy DEF Built
<1>2. ASSUME NEW force \in BOOLEAN, NEW strict \in BOOLEAN, NEW teardown \in BOOLEAN,
             Destroy(force, strict, teardown)
      PROVE  Stopped' /\ TornDown' /\ Removed' /\ Built'
  <2>1. cmd'.kind = "destroy" /\ cmd'.pc = "check" /\ cmd'.teardownOk = TRUE BY <1>2 DEF Destroy, Issue
  <2>2. QED BY <2>1, NotInit DEF Stopped, Looked, TornDown, Removed, PastTeardown, PastHooks, PastTrees
<1>3. CASE Kill BY <1>3, Ends DEF Kill
<1>4. CASE UNCHANGED vars
  BY <1>4 DEF vars, disk, CInv, Stopped, Looked, TornDown, Removed, Built, Present
<1>5. QED BY <1>1, <1>2, <1>3, <1>4, CleanUser, CleanDestroy, CleanInitStep DEF Next

\* While a destroy runs, only its removals delete a worktree, and they come after everything else.
LEMMA GoneStep ==
  ASSUME TypeOK, [Next]_vars, cmd.kind = "destroy", NEW r \in Repos, Gone(r)
  PROVE  cmd.pc \in {"worktrees", "dir"}
<1> USE DEF TypeOK
<1>1. ~Idle BY DEF Idle, NoCommand
<1>2. ASSUME UNCHANGED tree PROVE FALSE BY <1>2 DEF Gone, DiskOK
<1>3. CASE DestroyStep
  BY <1>2, <1>3 DEF DestroyStep, DestroyCheck, NestedDestroy, NestedDone, ServicesDone, WorktreesDone, RemoveEntry,
    StopServices, RemoveWorktree, Teardown, DestroyHooks, StripExclude, RemoveDir, At, disk
<1>4. CASE UserStep
  <2>1. \E q \in Repos : Edit(q) \/ Commit(q) \/ Push(q)
    BY <1>1, <1>4 DEF UserStep, Use, RemoveByHand, Prune, DropTree, Connect
  <2>2. QED BY <2>1 DEF Edit, Commit, Push, Gone, DiskOK
<1>5. CASE InitEnv \/ (\E force, strict, teardown \in BOOLEAN : Destroy(force, strict, teardown)) \/ Kill \/ UNCHANGED vars
  BY <1>2, <1>5 DEF InitEnv, Destroy, Issue, Kill, disk, vars
<1>6. CASE InitStep
  BY <1>6 DEF InitStep, MakeDir, WriteExclude, InferRaises, InitHooks, CreateTree, Bootstrap, WireTracking, Stage, At
<1>7. QED BY <1>3, <1>4, <1>5, <1>6 DEF Next

\* A worktree goes only when its services are stopped and its provisions torn down.
LEMMA OrphanStep ==
  ASSUME CInv, [Next]_vars, cmd.kind = "destroy", NEW r \in Repos, Gone(r)
  PROVE  /\ ~cmd.force => ~services[r] /\ nested[r] = "none"
         /\ cmd.strict => ~hooked /\ (cmd.teardown => prov = {})
<1> USE DEF CInv, WInv
<1>1. cmd.pc \in {"worktrees", "dir"} BY GoneStep
<1>2. cmd \in DestroyCommand BY Kinds DEF TypeOK
<1>3. r \in Present BY DEF Gone, Present
<1>4. ~cmd.force => ~services[r] /\ nested[r] = "none"
  BY <1>1, <1>2, <1>3 DEF Stopped, Looked, PastServices, NestedLeft, Guarded, DestroyCommand
<1>5. cmd.strict => ~hooked /\ (cmd.teardown => prov = {})
  BY <1>1, <1>2 DEF TornDown, PastTeardown, PastHooks, DestroyCommand
<1>6. QED BY <1>4, <1>5

\* A destroy deletes no worktree while what runs from it is up: its nested services and env,
\* without --force; what it provisioned and the extensions' state, under --strict.
THEOREM LifecycleNothingOrphaned == Spec => NothingOrphaned
<1>1. CInv /\ [Next]_vars =>
        [\A r \in Repos : cmd.kind = "destroy" /\ Gone(r) =>
           /\ ~cmd.force => ~services[r] /\ nested[r] = "none"
           /\ cmd.strict => ~hooked /\ (cmd.teardown => prov = {})]_vars
  BY OrphanStep
<1>2. QED BY <1>1, CleanInit, CleanNext, PTL DEF Spec, NothingOrphaned

\* A destroy reports success in its last phase only, with nothing reported before.
LEMMA DestroyedStep ==
  ASSUME CInv, [Next]_vars, Ended("destroy"), result' = "ok"
  PROVE  RemoveEntry /\ cmd.ok /\ cmd.teardownOk /\ cmd.nestedOk
<1> USE DEF CInv, WInv, TypeOK
<1>0. cmd.kind = "destroy" /\ cmd \in DestroyCommand /\ cmd' = NoCommand /\ cmd' # cmd
  BY Kinds DEF Ended, Idle, DestroyCommand, NoCommand
<1>1. CASE DestroyStep
  <2>1. ASSUME Finish(FALSE) PROVE FALSE BY <2>1 DEF Finish
  <2>2. ASSUME cmd' \in DestroyCommand PROVE FALSE BY <1>0, <2>2 DEF DestroyCommand, NoCommand
  <2>3. CASE RemoveEntry BY <2>3 DEF RemoveEntry, Finish
  <2>4. CASE ~RemoveEntry
    <3>1. ASSUME NEW read \in SUBSET Nested, DestroyCheck(read) PROVE FALSE
      BY <1>0, <2>1, <3>1 DEF DestroyCheck, DestroyCommand, NoCommand
    <3>2. ASSUME NestedDone \/ ServicesDone \/ WorktreesDone PROVE FALSE
      BY <1>0, <2>1, <3>2, ZenonT(40) DEF NestedDone, ServicesDone, NestedGate, WorktreesDone, Goto, DestroyCommand, NoCommand
    <3>3. ASSUME NEW r \in Repos, NEW removed, NEW ok \in BOOLEAN, NestedDestroy(r, removed, ok) PROVE FALSE
      BY <1>0, <3>3 DEF NestedDestroy, DestroyCommand, NoCommand
    <3>4. ASSUME NEW r \in Repos, NEW ok \in BOOLEAN, StopServices(r, ok) \/ RemoveWorktree(r, ok) PROVE FALSE
      BY <1>0, <3>4 DEF StopServices, RemoveWorktree, DestroyCommand, NoCommand
    <3>5. ASSUME NEW ok \in BOOLEAN, Teardown(ok) \/ DestroyHooks(ok) \/ StripExclude(ok) PROVE FALSE
      BY <1>0, <2>1, <3>5, ZenonT(40) DEF Teardown, DestroyHooks, StripExclude, Goto, DestroyCommand, NoCommand
    <3>6. ASSUME NEW ok \in BOOLEAN, NEW gone, RemoveDir(ok, gone) PROVE FALSE
      BY <1>0, <3>6 DEF RemoveDir, Goto, DestroyCommand, NoCommand
    <3>7. QED BY <1>1, <2>4, <3>1, <3>2, <3>3, <3>4, <3>5, <3>6 DEF DestroyStep
  <2>5. QED BY <2>3, <2>4
<1>2. CASE UserStep
  BY <1>0, <1>2 DEF UserStep, Use, RemoveByHand, Prune, DropTree, Connect, Edit, Commit, Push, Late, DestroyCommand,
    NoCommand
<1>3. CASE InitEnv \/ (\E force, strict, teardown \in BOOLEAN : Destroy(force, strict, teardown)) \/ Kill \/ UNCHANGED vars
  BY <1>0, <1>3 DEF Ended, InitEnv, Destroy, Issue, Kill, vars, Idle, NoCommand
<1>4. CASE InitStep
  BY <1>0, <1>4 DEF InitStep, MakeDir, WriteExclude, InferRaises, InitHooks, CreateTree, Bootstrap, WireTracking, Stage, At
<1>5. QED BY <1>1, <1>2, <1>3, <1>4 DEF Next

\* A destroy that ends well has left nothing of the env.
LEMMA LeavesNothingStep ==
  ASSUME CInv, [Next]_vars, Ended("destroy"), result' = "ok"
  PROVE  /\ ~env' /\ ~entry' /\ ~exclude'
         /\ \A r \in cmd.seen : ~registered'[r] /\ ~services'[r]
         /\ cmd.teardown => prov' = {}
<1> USE DEF CInv, WInv
<1>1. RemoveEntry /\ cmd.ok /\ cmd.teardownOk /\ cmd.nestedOk BY DestroyedStep
<1>2. /\ cmd.kind = "destroy" /\ cmd.pc = "entry" /\ entry' = FALSE
      /\ UNCHANGED <<env, exclude, registered, services, prov>>
  BY <1>1 DEF RemoveEntry, At
<1>3. ~env' /\ ~exclude' /\ \A r \in cmd.seen : ~registered'[r]
  BY <1>1, <1>2 DEF Removed, PastTrees
<1>4. \A r \in cmd.seen : ~services'[r] BY <1>1, <1>2 DEF Stopped, Looked
<1>5. cmd.teardown => prov' = {} BY <1>1, <1>2 DEF TornDown, PastTeardown
<1>6. QED BY <1>2, <1>3, <1>4, <1>5

\* A destroy that reports success left nothing of the env, whatever failed before or by hand.
THEOREM LifecycleSuccessLeavesNothing == Spec => SuccessLeavesNothing
<1>1. CInv /\ [Next]_vars =>
        [Ended("destroy") /\ result' = "ok" =>
           /\ ~env' /\ ~entry' /\ ~exclude'
           /\ \A r \in cmd.seen : ~registered'[r] /\ ~services'[r]
           /\ cmd.teardown => prov' = {}]_vars
  BY LeavesNothingStep
<1>2. QED BY <1>1, CleanInit, CleanNext, PTL DEF Spec, SuccessLeavesNothing

\* An init reports success when its hooks have run, with nothing reported before.
LEMMA BuiltStep ==
  ASSUME CInv, [Next]_vars, Ended("init"), result' = "ok"
  PROVE  cmd.ok /\ InitHooks(TRUE)
<1> USE DEF CInv, WInv, TypeOK
<1>0. cmd.kind = "init" /\ cmd \in InitCommand /\ cmd' = NoCommand /\ cmd' # cmd
  BY Kinds DEF Ended, Idle, InitCommand, NoCommand
<1>1. CASE InitStep
  <2>1. ASSUME NEW ok \in BOOLEAN, InitHooks(ok) PROVE cmd.ok /\ InitHooks(TRUE)
    BY <2>1 DEF InitHooks, Finish
  <2>2. ASSUME NEW ok \in BOOLEAN, MakeDir(ok) \/ InferRaises(ok) PROVE FALSE
    BY <1>0, <2>2 DEF MakeDir, InferRaises, Goto, Finish, InitCommand, NoCommand
  <2>3. ASSUME NEW ok \in BOOLEAN, WriteExclude(ok) PROVE FALSE
    BY <1>0, <2>3 DEF WriteExclude, InitCommand, NoCommand
  <2>4. ASSUME NEW r \in Repos, NEW from, NEW to, NEW ok, NEW created, Stage(r, from, to, ok, created) PROVE FALSE
    BY <1>0, <2>4 DEF Stage, InitCommand, NoCommand
  <2>5. QED BY <1>1, <2>1, <2>2, <2>3, <2>4 DEF InitStep, CreateTree, Bootstrap, WireTracking
<1>2. CASE UserStep
  BY <1>0, <1>2 DEF UserStep, Use, RemoveByHand, Prune, DropTree, Connect, Edit, Commit, Push, Late
<1>3. CASE InitEnv \/ (\E force, strict, teardown \in BOOLEAN : Destroy(force, strict, teardown)) \/ Kill \/ UNCHANGED vars
  BY <1>0, <1>3 DEF Ended, InitEnv, Destroy, Issue, Kill, vars, Idle, NoCommand
<1>4. CASE DestroyStep
  BY <1>0, <1>4 DEF DestroyStep, DestroyCheck, NestedDestroy, NestedDone, ServicesDone, WorktreesDone, RemoveEntry,
    StopServices, RemoveWorktree, Teardown, DestroyHooks, StripExclude, RemoveDir, At
<1>5. QED BY <1>1, <1>2, <1>3, <1>4 DEF Next

\* An init that ends well has every part of the env in place.
LEMMA WholeStep ==
  ASSUME CInv, [Next]_vars, Ended("init"), result' = "ok"
  PROVE  /\ env' /\ entry' /\ exclude' /\ hooked'
         /\ \A r \in Repos : tree'[r] # "absent" /\ registered'[r]
<1> USE DEF CInv, WInv, TypeOK
<1>1. cmd.ok /\ InitHooks(TRUE) BY BuiltStep
<1>2. /\ cmd.kind = "init" /\ cmd.pc = "repos" /\ \A r \in Repos : cmd.stage[r] = "done"
      /\ UNCHANGED <<env, tree, registered, entry, exclude>> /\ hooked' = TRUE
  BY <1>1 DEF InitHooks, At
<1>3. QED BY <1>1, <1>2 DEF Built, Rooted, InitInside

\* An init that reports success left a whole env, however often it was interrupted before and
\* whatever was removed by hand.
THEOREM LifecycleSuccessIsWhole == Spec => SuccessIsWhole
<1>1. CInv /\ [Next]_vars =>
        [Ended("init") /\ result' = "ok" =>
           /\ env' /\ entry' /\ exclude' /\ hooked'
           /\ \A r \in Repos : tree'[r] # "absent" /\ registered'[r]]_vars
  BY WholeStep
<1>2. QED BY <1>1, CleanInit, CleanNext, PTL DEF Spec, SuccessIsWhole

=============================================================================

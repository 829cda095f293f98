--------------------------- MODULE StandalonePins ---------------------------
(***************************************************************************)
(* One standalone repository with an optional `ref` pin, under the winter  *)
(* commands that move its checkout and its config.lock entry: `ws pull`,   *)
(* `ws update`, `ws update --freeze` and `ws init`; and under what its user*)
(* does between them.  A command is a sequence of git calls, each of which *)
(* is a step, may fail, and may be the last one before the command is      *)
(* killed.                                                                 *)
(*                                                                         *)
(* A commit is a position on origin's branch, with or without local work on*)
(* top of it.  (How the entries of several repositories share config.lock  *)
(* is the business of ConfigLock.)                                         *)
(***************************************************************************)
EXTENDS Naturals, Sequences, SequencesExt

CONSTANTS
  MaxTip,    \* bound: how far origin's branch is followed
  MaxStash,  \* bound: the user edits no more once the stash is this deep, and
             \* a pop conflicts only while it is not deeper
  UserRefs,  \* what the user configures as `ref`
  None

Commit == [trunk : 1..MaxTip, work : BOOLEAN]
OnTrunk(t) == [trunk |-> t, work |-> FALSE]

\* A pin names the branch, a commit, or nothing that resolves.
Ref == [kind : {"branch", "unknown"}, at : {None}] \union [kind : {"tag", "commit"}, at : Commit]
Entry == [ref : Ref, commit : Commit]

\* Results that tell the user that the checkout is the one the lock records.
Reported ==
  {<<"update", "re_pinned">>, <<"update", "up_to_date">>, <<"pull", "re_pinned">>, <<"freeze", "pinned">>}

ASSUME PinAssumption ==
  /\ MaxTip \in Nat \ {0} /\ MaxStash \in Nat
  /\ UserRefs \subseteq Ref \union {None}
  /\ None \notin {"pull", "update", "freeze", "init"} /\ None \notin Reported /\ None \notin Entry

VARIABLES
  tip, fetched,         \* origin's branch tip, and refs/remotes/origin/<branch>
  head, main, attached, \* HEAD, the local branch, whether HEAD is on it
  tree,     \* what is uncommitted: an "edit" of a tracked file, a new "file"
  stash,    \* the stash, newest entry first: made by the "user" or "auto"
  ref, lock,            \* the configured pin and the lock entry
  cmd, pc, mode, autostash, \* the running command, its step, its options
  stashed,  \* whether the command is to pop the stash
  result,   \* how the command ended, or None once the user acts again
  leftover  \* a command was killed, raised or could not pop: an entry may be left

git == <<tip, fetched, head, main, attached, tree, stash>>
pins == <<ref, lock>>
command == <<cmd, pc, mode, autostash, stashed>>
vars == <<git, pins, command, result, leftover>>

Clean == tree = {}
Working == cmd # None
Step(c, s) == cmd = c /\ pc = s
Goto(s) == pc' = s /\ UNCHANGED <<cmd, mode, autostash, stashed>>
Over ==
  /\ cmd' = None /\ pc' = "idle" /\ mode' = "ff_only"
  /\ autostash' = FALSE /\ stashed' = FALSE
End(res) ==
  /\ Over
  /\ result' = <<cmd, res>>

\* resolve_ref against the fetched refs.
Resolves == ref.kind # "unknown"
Resolved == IF ref.kind = "branch" THEN OnTrunk(fetched) ELSE ref.at

(***************************************************************************)
(* The git calls.  Each leaves the variables it does not name alone.       *)
(***************************************************************************)

\* fetch_standalone; an error is logged and the command goes on.
Fetch == fetched' \in {fetched, tip} /\ UNCHANGED <<tip, head, main, attached, tree, stash>>

\* `git stash push` saves edits of tracked files only; with nothing to save it
\* succeeds and leaves the stash as it is.
StashPush ==
  /\ IF "edit" \in tree THEN stash' = <<"auto">> \o stash ELSE UNCHANGED stash
  /\ tree' = tree \ {"edit"}
  /\ UNCHANGED <<tip, fetched, head, main, attached>>

\* `git stash pop` takes the newest entry, whoever made it.  When it does not
\* apply cleanly, the entry stays in the stash; an empty stash is an error.
StashPop ==
  /\ \/ /\ stash # <<>> /\ "edit" \notin tree
        /\ stash' = Tail(stash) /\ tree' = tree \union {"edit"}
        /\ UNCHANGED leftover
     \/ /\ stash # <<>> /\ Len(stash) <= MaxStash
        /\ tree' = tree \union {"edit"} /\ leftover' = TRUE
        /\ UNCHANGED stash
     \/ /\ stash = <<>>
        /\ UNCHANGED <<tree, stash, leftover>>
  /\ UNCHANGED <<tip, fetched, head, main, attached>>

\* `git checkout -B <branch> --track origin/<branch>`: whatever the local branch
\* had is dropped.
CheckoutBranch ==
  /\ head' = OnTrunk(fetched) /\ main' = OnTrunk(fetched) /\ attached' = TRUE
  /\ UNCHANGED <<tip, fetched, tree, stash>>

CheckoutDetached(c) ==
  /\ head' = c /\ attached' = FALSE
  /\ UNCHANGED <<tip, fetched, main, tree, stash>>

Checkout(kind, c) == IF kind = "branch" THEN CheckoutBranch ELSE CheckoutDetached(c)

MoveHead(c) ==
  /\ head' = c /\ main' = (IF attached THEN c ELSE main)
  /\ UNCHANGED <<tip, fetched, attached>>

\* _integrate: fast-forward when HEAD has no work of its own, otherwise merge or
\* rebase as the mode says; a conflict is aborted and HEAD stays.
Integrated(m) ==
  (IF head.trunk = fetched THEN {<<head, "up_to_date">>} ELSE {})
  \union (IF head.trunk < fetched /\ ~head.work
          THEN {<<OnTrunk(fetched), "fast_forwarded">>} ELSE {})
  \union (IF head.trunk < fetched /\ head.work /\ m # "ff_only"
          THEN {<<[head EXCEPT !.trunk = fetched], m>>} ELSE {})
  \union (IF head.trunk < fetched THEN {<<head, "diverged">>} ELSE {})

(***************************************************************************)
(* ws pull                                                                 *)
(***************************************************************************)

Begin(c, m, auto) ==
  /\ ~Working
  /\ cmd' = c /\ pc' = (IF c \in {"pull", "update"} THEN "fetch" ELSE "start")
  /\ mode' = m /\ autostash' = auto /\ stashed' = FALSE
  /\ result' = None
  /\ UNCHANGED <<git, pins, leftover>>

PullFetch ==
  /\ Step("pull", "fetch")
  /\ Fetch
  /\ Goto("resolve")
  /\ UNCHANGED <<pins, result, leftover>>

\* Without a pin git integrates the tracked branch, stashing for itself.
PullUnpinned ==
  /\ Step("pull", "resolve")
  /\ ref = None
  /\ \/ /\ ~attached
        /\ End("no_upstream")
        /\ UNCHANGED git
     \/ /\ attached
        /\ \E out \in Integrated(mode) : MoveHead(out[1]) /\ End(out[2])
        /\ UNCHANGED <<tree, stash>>
  /\ UNCHANGED <<pins, leftover>>

\* resolve_ref raises; nothing catches it and the whole pull ends.
PullUnresolved ==
  /\ Step("pull", "resolve")
  /\ ref # None /\ ~Resolves
  /\ End("error")
  /\ UNCHANGED <<git, pins, leftover>>

PullHeld ==
  /\ Step("pull", "resolve")
  /\ ref # None /\ ref.kind \in {"tag", "commit"}
  /\ End("held_pin")
  /\ UNCHANGED <<git, pins, leftover>>

BranchPin == ref # None /\ ref.kind = "branch"

\* The dirty guard, and a stash push that fails.  A tree whose state git cannot
\* tell counts as dirty.
PullRefused ==
  /\ Step("pull", "resolve")
  /\ BranchPin
  /\ End("pin_error")
  /\ UNCHANGED <<git, pins, leftover>>

PullStash ==
  /\ Step("pull", "resolve")
  /\ BranchPin /\ autostash
  /\ StashPush
  /\ pc' = "integrate" /\ stashed' = TRUE
  /\ UNCHANGED <<pins, cmd, mode, autostash, result, leftover>>

PullClean ==
  /\ Step("pull", "resolve")
  /\ BranchPin /\ Clean
  /\ Goto("integrate")
  /\ UNCHANGED <<git, pins, result, leftover>>

PullIntegrate ==
  /\ Step("pull", "integrate")
  /\ \E out \in Integrated(mode) : MoveHead(out[1]) /\ result' = <<"pull", out[2]>>
  /\ UNCHANGED <<tree, stash>>
  /\ Goto(IF stashed THEN "pop" ELSE "record")
  /\ UNCHANGED <<pins, leftover>>

\* The integration raises, or the read of HEAD or the lock after it: nothing pops
\* what was stashed.
PullRaises ==
  /\ Step("pull", "integrate") \/ Step("pull", "record")
  /\ End("error")
  /\ leftover' = (leftover \/ (pc = "integrate" /\ stashed))
  /\ UNCHANGED <<git, pins>>

PullPop ==
  /\ Step("pull", "pop")
  /\ StashPop
  /\ Goto("record")
  /\ UNCHANGED <<pins, result>>

\* Only a fast-forward rewrites the lock entry.
PullRecord ==
  /\ Step("pull", "record")
  /\ IF result[2] = "fast_forwarded"
     THEN lock' = [ref |-> ref, commit |-> head] /\ End("re_pinned")
     ELSE UNCHANGED lock /\ End(result[2])
  /\ UNCHANGED <<git, ref, leftover>>

(***************************************************************************)
(* ws update.  The steps after a stash push run in a try whose finally pops*)
(* the stash.                                                              *)
(***************************************************************************)

UpdateSkipped ==
  /\ Step("update", "fetch")
  /\ ref = None
  /\ End("ignored")
  /\ UNCHANGED <<git, pins, leftover>>

UpdateFetch ==
  /\ Step("update", "fetch")
  /\ ref # None
  /\ Fetch
  /\ Goto("guard")
  /\ UNCHANGED <<pins, result, leftover>>

UpdateRefused ==
  /\ Step("update", "guard")
  /\ End("pin_error")
  /\ UNCHANGED <<git, pins, leftover>>

UpdateStash ==
  /\ Step("update", "guard")
  /\ autostash
  /\ StashPush
  /\ pc' = "resolve" /\ stashed' = TRUE
  /\ UNCHANGED <<pins, cmd, mode, autostash, result, leftover>>

UpdateClean ==
  /\ Step("update", "guard")
  /\ Clean
  /\ Goto("resolve")
  /\ UNCHANGED <<git, pins, result, leftover>>

\* Mutant: the error paths return past the pop.
LeaveAtOnce(res) == End(res)

\* `return` inside the try: with a stash to pop, the finally comes first.
Leave(res) ==
  IF stashed THEN Goto("pop") /\ result' = <<"update", res>> ELSE End(res)

UpdateUnresolved ==
  /\ Step("update", "resolve")
  /\ ~Resolves
  /\ Leave("pin_error")
  /\ UNCHANGED <<git, pins, leftover>>

\* Mutant: HEAD alone decides whether the pin is up to date.
HeadCurrent == head = Resolved

UpToDate == head = Resolved /\ lock # None /\ lock.commit = Resolved

UpdateCurrent ==
  /\ Step("update", "resolve")
  /\ Resolves /\ UpToDate
  /\ Leave("up_to_date")
  /\ UNCHANGED <<git, pins, leftover>>

UpdateCheckout ==
  /\ Step("update", "resolve")
  /\ Resolves /\ ~UpToDate
  /\ Checkout(ref.kind, Resolved)
  /\ Goto("record")
  /\ UNCHANGED <<pins, result, leftover>>

UpdateCheckoutFails ==
  /\ Step("update", "resolve")
  /\ Resolves /\ ~UpToDate
  /\ Leave("pin_error")
  /\ UNCHANGED <<git, pins, leftover>>

UpdateRecord ==
  /\ Step("update", "record")
  /\ lock' = [ref |-> ref, commit |-> Resolved]
  /\ Leave("re_pinned")
  /\ UNCHANGED <<git, ref, leftover>>

\* The read of HEAD or of the lock raises, or its write.
UpdateRaises ==
  /\ Step("update", "resolve") \/ Step("update", "record")
  /\ Leave("error")
  /\ UNCHANGED <<git, pins, leftover>>

UpdatePop ==
  /\ Step("update", "pop")
  /\ StashPop
  /\ End(result[2])
  /\ UNCHANGED pins

(***************************************************************************)
(* ws update --freeze                                                      *)
(***************************************************************************)

FreezeAlreadyPinned ==
  /\ Step("freeze", "start")
  /\ ref # None
  /\ End("already_pinned")
  /\ UNCHANGED <<git, pins, leftover>>

\* A dirty tree without --force, or a HEAD or declaration that is not there.
FreezeRefused ==
  /\ Step("freeze", "start")
  /\ ref = None
  /\ End("refused")
  /\ UNCHANGED <<git, pins, leftover>>

\* `mode` is "force" or not: the config file is written first, then the lock.
FreezeConfig ==
  /\ Step("freeze", "start")
  /\ ref = None
  /\ Clean \/ mode = "force"
  /\ ref' = [kind |-> "commit", at |-> head]
  /\ Goto("record")
  /\ UNCHANGED <<git, lock, result, leftover>>

FreezeRecord ==
  /\ Step("freeze", "record")
  /\ lock' = [ref |-> ref, commit |-> ref.at]
  /\ End("pinned")
  /\ UNCHANGED <<git, ref, leftover>>

(***************************************************************************)
(* ws init (_apply_standalone_pin)                                         *)
(***************************************************************************)

Fresh == lock # None /\ lock.ref = ref

InitUnpinned ==
  /\ Step("init", "start")
  /\ ref = None
  /\ End("exists")
  /\ UNCHANGED <<git, pins, leftover>>

\* A fresh entry: no dirty guard, and a branch pin goes to origin's tip.
InitFresh ==
  /\ Step("init", "start")
  /\ ref # None /\ Fresh
  /\ Checkout(ref.kind, lock.commit)
  /\ End("pinned")
  /\ UNCHANGED <<pins, leftover>>

\* The checkout fails, the tree is dirty, or the ref does not resolve.
InitFails ==
  /\ Step("init", "start")
  /\ ref # None
  /\ End("error")
  /\ UNCHANGED <<git, pins, leftover>>

InitStale ==
  /\ Step("init", "start")
  /\ ref # None /\ ~Fresh
  /\ Clean /\ Resolves
  /\ Checkout(ref.kind, Resolved)
  /\ Goto("record")
  /\ UNCHANGED <<pins, result, leftover>>

InitRecord ==
  /\ Step("init", "record")
  /\ lock' = [ref |-> ref, commit |-> Resolved]
  /\ End("pinned")
  /\ UNCHANGED <<git, ref, leftover>>

(***************************************************************************)
(* The surroundings                                                        *)
(***************************************************************************)

Kill ==
  /\ Working
  /\ Over
  /\ result' = None
  /\ leftover' = TRUE
  /\ UNCHANGED <<git, pins>>

\* The user's own git and config work, between two commands.
ByHand == ~Working /\ result' = None /\ UNCHANGED command

OriginAdvances ==
  /\ ByHand
  /\ tip < MaxTip /\ tip' = tip + 1
  /\ UNCHANGED <<fetched, head, main, attached, tree, stash, pins, leftover>>

Edit ==
  /\ ByHand
  /\ Len(stash) < MaxStash
  /\ tree' \in {tree \union {"edit"}, tree \union {"file"}, tree \ {"file"}}
  /\ UNCHANGED <<tip, fetched, head, main, attached, stash, pins, leftover>>

CommitEdit ==
  /\ ByHand
  /\ "edit" \in tree /\ attached
  /\ tree' = tree \ {"edit"}
  /\ head' = [head EXCEPT !.work = TRUE] /\ main' = head'
  /\ UNCHANGED <<tip, fetched, attached, stash, pins, leftover>>

StashEdit ==
  /\ ByHand
  /\ "edit" \in tree
  /\ tree' = tree \ {"edit"} /\ stash' = <<"user">> \o stash
  /\ UNCHANGED <<tip, fetched, head, main, attached, pins, leftover>>

\* The user empties the stash, what a killed command left there included.
ClearStash ==
  /\ ByHand
  /\ stash # <<>>
  /\ stash' = <<>> /\ leftover' = FALSE
  /\ UNCHANGED <<tip, fetched, head, main, attached, tree, pins>>

SetRef(r) ==
  /\ ByHand
  /\ ref' = r
  /\ UNCHANGED <<git, lock, leftover>>

Init ==
  /\ tip = 1 /\ fetched = 1
  /\ head = OnTrunk(1) /\ main = OnTrunk(1) /\ attached = TRUE
  /\ tree = {} /\ stash = <<>>
  /\ ref \in UserRefs /\ lock = None
  /\ cmd = None /\ pc = "idle" /\ mode = "ff_only" /\ autostash = FALSE /\ stashed = FALSE
  /\ result = None /\ leftover = FALSE

Pull ==
  \/ \E m \in {"ff_only", "merged", "rebased"}, auto \in BOOLEAN : Begin("pull", m, auto)
  \/ PullFetch \/ PullUnpinned \/ PullUnresolved \/ PullHeld \/ PullRefused
  \/ PullStash \/ PullClean \/ PullIntegrate \/ PullRaises \/ PullPop \/ PullRecord

Update ==
  \/ \E auto \in BOOLEAN : Begin("update", "ff_only", auto)
  \/ UpdateSkipped \/ UpdateFetch \/ UpdateRefused \/ UpdateStash \/ UpdateClean
  \/ UpdateUnresolved \/ UpdateCurrent \/ UpdateCheckout \/ UpdateCheckoutFails
  \/ UpdateRecord \/ UpdateRaises \/ UpdatePop

Freeze ==
  \/ \E m \in {"force", "ff_only"} : Begin("freeze", m, FALSE)
  \/ FreezeAlreadyPinned \/ FreezeRefused \/ FreezeConfig \/ FreezeRecord

InitCommand ==
  \/ Begin("init", "ff_only", FALSE)
  \/ InitUnpinned \/ InitFresh \/ InitFails \/ InitStale \/ InitRecord

Surroundings ==
  \/ Kill
  \/ OriginAdvances \/ Edit \/ CommitEdit \/ StashEdit \/ ClearStash
  \/ \E r \in UserRefs : SetRef(r)

Next == Pull \/ Update \/ Freeze \/ InitCommand \/ Surroundings

Spec == Init /\ [][Next]_vars

(***************************************************************************)
(* Properties.                                                             *)
(***************************************************************************)

\* Type correctness; an attached HEAD is the local branch's tip.
TypeOK ==
  /\ tip \in 1..MaxTip /\ fetched \in 1..tip
  /\ head \in Commit /\ main \in Commit /\ attached \in BOOLEAN
  /\ attached => head = main
  /\ tree \subseteq {"edit", "file"}
  /\ stash \in Seq({"user", "auto"})
  /\ ref \in Ref \union {None} /\ lock \in Entry \union {None}
  /\ autostash \in BOOLEAN /\ stashed \in BOOLEAN /\ leftover \in BOOLEAN

\* When a command is over that was not killed and whose pop did not conflict,
\* the edits it stashed are back in the tree, on every error path of `ws update`
\* ("the pop ALWAYS runs even on error paths") and on those `ws pull` handles: an
\* integration that raises leaves them in the stash.
AutostashRestored == ~Working /\ ~leftover => ~Contains(stash, "auto")

\* A checkout reported as pinned or up to date by `ws update`, re-pinned by
\* `ws pull` or frozen is the one the lock reproduces, also when the command
\* before it was killed between its checkout and its lock write.
ReportedPinHolds ==
  result \in Reported /\ ~Working => lock # None /\ lock.commit = head

=============================================================================

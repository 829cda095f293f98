------------------------- MODULE StandalonePinsProof -------------------------
(***************************************************************************)
(* The proofs that no command keeps what it stashed for its user, and that *)
(* the pin a command reports is the one the lock records, for every pin,   *)
(* every depth of the stash and every path through the commands; and that  *)
(* the upserts of the pins' lock file implement a table.                   *)
(***************************************************************************)
EXTENDS StandalonePins, PinsLock, TLAPS

\* The command that runs has pushed a stash and its pop is still to come.
PopAhead ==
  /\ stashed
  /\ \/ cmd = "pull" /\ pc \in {"integrate", "pop"}
     \/ cmd = "update" /\ pc \in {"resolve", "record", "pop"}

\* An entry of winter's is the newest one, and its pop is still to come.
OwnOnTop(s, ahead) == \A i \in 1..Len(s) : s[i] = "auto" => i = 1 /\ ahead

SInv ==
  /\ stash \in Seq({"user", "auto"})
  /\ leftover \in BOOLEAN
  /\ ~leftover => OwnOnTop(stash, PopAhead)

\* A stash without an entry of winter's may be kept whatever the command does.
LEMMA Push ==
  ASSUME NEW s \in Seq({"user", "auto"}), NEW e \in {"user", "auto"}, OwnOnTop(s, FALSE)
  PROVE  /\ <<e>> \o s \in Seq({"user", "auto"})
         /\ OwnOnTop(<<e>> \o s, TRUE)
         /\ e = "user" => OwnOnTop(<<e>> \o s, FALSE)
<1>1. <<e>> \o s \in Seq({"user", "auto"}) /\ Len(<<e>> \o s) = Len(s) + 1
  OBVIOUS
<1>2. \A i \in 1..Len(<<e>> \o s) : (<<e>> \o s)[i] = IF i = 1 THEN e ELSE s[i - 1]
  OBVIOUS
<1>3. QED
  BY <1>1, <1>2 DEF OwnOnTop

\* Popping the newest entry leaves none of winter's.
LEMMA Pop ==
  ASSUME NEW s \in Seq({"user", "auto"}), s # <<>>, NEW a \in BOOLEAN, OwnOnTop(s, a)
  PROVE  Tail(s) \in Seq({"user", "auto"}) /\ OwnOnTop(Tail(s), FALSE)
<1>1. Tail(s) \in Seq({"user", "auto"}) /\ Len(Tail(s)) = Len(s) - 1
  OBVIOUS
<1>2. \A i \in 1..Len(Tail(s)) : Tail(s)[i] = s[i + 1]
  OBVIOUS
<1>3. QED
  BY <1>1, <1>2 DEF OwnOnTop

\* An empty stash holds nothing of winter's.
LEMMA EmptyStash == ASSUME NEW a \in BOOLEAN PROVE <<>> \in Seq({"user", "auto"}) /\ OwnOnTop(<<>>, a)
<1>1. <<>> \in Seq({"user", "auto"}) /\ Len(<<>>) = 0
  OBVIOUS
<1>2. 1..0 = {}
  OBVIOUS
<1>3. QED
  BY <1>1, <1>2 DEF OwnOnTop

\* SInv holds initially, when winter has stashed nothing.
LEMMA StashInit == Init => SInv
<1>1. PopAhead \in BOOLEAN
  BY DEF PopAhead
<1>2. QED
  BY <1>1, EmptyStash DEF Init, SInv

\* Steps that leave the stash alone keep SInv when the pop that was ahead still is.
LEMMA Untouched ==
  ASSUME SInv, UNCHANGED <<stash, leftover>>, PopAhead => PopAhead'
  PROVE  SInv'
BY DEF SInv, OwnOnTop

\* `git stash push`, by a command that has pushed nothing yet.
LEMMA Pushed ==
  ASSUME SInv, StashPush, leftover' = leftover, ~PopAhead, PopAhead'
  PROVE  SInv'
<1>1. CASE stash' = stash
  BY <1>1 DEF SInv, OwnOnTop
<1>2. CASE stash' = <<"auto">> \o stash
  <2>1. ASSUME ~leftover PROVE OwnOnTop(stash, FALSE)
    BY <2>1 DEF SInv, OwnOnTop
  <2>2. ASSUME ~leftover PROVE stash' \in Seq({"user", "auto"}) /\ OwnOnTop(stash', TRUE)
    BY <1>2, <2>1, <2>2, Push DEF SInv
  <2>3. stash' \in Seq({"user", "auto"})
    BY <1>2 DEF SInv
  <2>4. QED
    BY <2>2, <2>3 DEF SInv, OwnOnTop
<1>3. QED
  BY <1>1, <1>2 DEF StashPush

\* `git stash pop`: either nothing of winter's is left, or it conflicted.
LEMMA Popped == ASSUME SInv, StashPop PROVE SInv'
<1>1. CASE stash # <<>> /\ stash' = Tail(stash) /\ leftover' = leftover
  <2>1. stash' \in Seq({"user", "auto"})
    BY <1>1 DEF SInv
  <2>2. ASSUME ~leftover PROVE OwnOnTop(stash', FALSE)
    <3>1. PopAhead \in BOOLEAN
      BY DEF PopAhead
    <3>2. QED
      BY <1>1, <2>2, <3>1, Pop DEF SInv
  <2>3. QED
    BY <1>1, <2>1, <2>2 DEF SInv, OwnOnTop
<1>2. CASE stash' = stash /\ leftover' = TRUE
  BY <1>2 DEF SInv
<1>3. CASE stash = <<>> /\ UNCHANGED <<stash, leftover>>
  BY <1>3 DEF SInv, OwnOnTop
<1>4. QED
  BY <1>1, <1>2, <1>3 DEF StashPop

\* Every step preserves SInv.
LEMMA StashNext == SInv /\ [Next]_vars => SInv'
<1> SUFFICES ASSUME SInv, [Next]_vars PROVE SInv'
  OBVIOUS
<1> USE PinAssumption
<1>1. CASE Pull
  <2>1. ASSUME NEW m \in {"ff_only", "merged", "rebased"}, NEW auto \in BOOLEAN, Begin("pull", m, auto)
        PROVE SInv'
    BY <2>1, Untouched DEF Begin, Working, PopAhead, git
  <2>2. CASE PullFetch
    BY <2>2, Untouched DEF PullFetch, Step, Fetch, Goto, PopAhead
  <2>3. CASE PullUnpinned
    BY <2>3, Untouched DEF PullUnpinned, Step, PopAhead, git
  <2>4. CASE PullUnresolved \/ PullHeld \/ PullRefused
    BY <2>4, Untouched DEF PullUnresolved, PullHeld, PullRefused, Step, PopAhead, git
  <2>5. CASE PullStash
    BY <2>5, Pushed DEF PullStash, Step, PopAhead
  <2>6. CASE PullClean
    BY <2>6, Untouched DEF PullClean, Step, PopAhead, git
  <2>7. CASE PullIntegrate
    BY <2>7, Untouched DEF PullIntegrate, Step, Goto, PopAhead
  <2>8. CASE PullPop
    BY <2>8, Popped DEF PullPop
  <2>9. CASE PullRecord
    BY <2>9, Untouched DEF PullRecord, Step, PopAhead, git
  <2>10. CASE PullRaises
    <3>1. UNCHANGED stash /\ leftover' = (leftover \/ (pc = "integrate" /\ stashed))
      BY <2>10 DEF PullRaises, git
    <3>2. CASE pc = "integrate" /\ stashed
      BY <3>1, <3>2 DEF SInv
    <3>3. CASE ~(pc = "integrate" /\ stashed)
      <4>1. leftover' = leftover
        BY <3>1, <3>3 DEF SInv
      <4>2. ~PopAhead
        BY <2>10, <3>3 DEF PullRaises, Step, PopAhead
      <4>3. QED
        BY <3>1, <4>1, <4>2, Untouched
    <3>4. QED
      BY <3>2, <3>3
  <2>11. QED
    BY <1>1, <2>1, <2>2, <2>3, <2>4, <2>5, <2>6, <2>7, <2>8, <2>9, <2>10 DEF Pull
<1>2. CASE Update
  <2>1. ASSUME NEW auto \in BOOLEAN, Begin("update", "ff_only", auto) PROVE SInv'
    BY <2>1, Untouched DEF Begin, Working, PopAhead, git
  <2>2. CASE UpdateSkipped
    BY <2>2, Untouched DEF UpdateSkipped, Step, PopAhead, git
  <2>3. CASE UpdateFetch
    BY <2>3, Untouched DEF UpdateFetch, Step, Fetch, PopAhead
  <2>4. CASE UpdateRefused \/ UpdateClean
    BY <2>4, Untouched DEF UpdateRefused, UpdateClean, Step, PopAhead, git
  <2>5. CASE UpdateStash
    BY <2>5, Pushed DEF UpdateStash, Step, PopAhead
  <2>6. CASE UpdateUnresolved \/ UpdateCurrent \/ UpdateCheckoutFails
    BY <2>6, Untouched
       DEF UpdateUnresolved, UpdateCurrent, UpdateCheckoutFails, Leave, Step, Goto, PopAhead, git
  <2>7. CASE UpdateCheckout
    BY <2>7, Untouched
       DEF UpdateCheckout, Checkout, CheckoutBranch, CheckoutDetached, Step, Goto, PopAhead
  <2>8. CASE UpdateRecord
    BY <2>8, Untouched DEF UpdateRecord, Leave, Step, Goto, PopAhead, git
  <2>9. CASE UpdatePop
    BY <2>9, Popped DEF UpdatePop
  <2>10. CASE UpdateRaises
    BY <2>10, Untouched DEF UpdateRaises, Leave, Step, Goto, PopAhead, git
  <2>11. QED
    BY <1>2, <2>1, <2>2, <2>3, <2>4, <2>5, <2>6, <2>7, <2>8, <2>9, <2>10 DEF Update
<1>3. CASE Freeze
  BY <1>3, Untouched
     DEF Freeze, Begin, Working, FreezeAlreadyPinned, FreezeRefused, FreezeConfig, FreezeRecord,
         Step, PopAhead, git
<1>4. CASE InitCommand
  BY <1>4, Untouched
     DEF InitCommand, Begin, Working, InitUnpinned, InitFresh, InitFails, InitStale, InitRecord,
         Checkout, CheckoutBranch, CheckoutDetached, Step, PopAhead, git
<1>5. CASE Surroundings
  <2>1. CASE Kill
    BY <2>1 DEF Kill, SInv, git
  <2>2. CASE OriginAdvances \/ Edit \/ CommitEdit \/ \E r \in UserRefs : SetRef(r)
    BY <2>2, Untouched DEF OriginAdvances, Edit, CommitEdit, SetRef, ByHand, command, PopAhead, git
  <2>3. CASE StashEdit
    <3>1. ~PopAhead /\ PopAhead' = PopAhead
      BY <2>3 DEF StashEdit, ByHand, Working, command, PopAhead
    <3>2. ASSUME ~leftover PROVE OwnOnTop(stash, FALSE)
      BY <3>1, <3>2 DEF SInv, OwnOnTop
    <3>3. stash' = <<"user">> \o stash /\ leftover' = leftover
      BY <2>3 DEF StashEdit
    <3>4. ASSUME ~leftover PROVE OwnOnTop(stash', FALSE)
      BY <3>2, <3>3, <3>4, Push DEF SInv
    <3>5. stash' \in Seq({"user", "auto"})
      BY <3>3 DEF SInv
    <3>6. QED
      BY <3>3, <3>4, <3>5 DEF SInv, OwnOnTop
  <2>4. CASE ClearStash
    <3>1. stash' = <<>> /\ leftover' = FALSE /\ (PopAhead \in BOOLEAN)'
      BY <2>4 DEF ClearStash, PopAhead
    <3>2. QED
      BY <3>1, EmptyStash DEF SInv
  <2>5. QED
    BY <1>5, <2>1, <2>2, <2>3, <2>4 DEF Surroundings
<1>6. CASE UNCHANGED vars
  BY <1>6, Untouched DEF vars, git, command, PopAhead
<1>7. QED
  BY <1>1, <1>2, <1>3, <1>4, <1>5, <1>6 DEF Next

\* No command but a killed one, or one whose pop conflicted, keeps what it
\* stashed: the pop of pull_one and update_one runs on every path.
THEOREM PinsAutostashRestored == Spec => []AutostashRestored
<1>1. SInv => AutostashRestored
  <2> SUFFICES ASSUME SInv, ~Working, ~leftover PROVE ~Contains(stash, "auto")
    BY DEF AutostashRestored
  <2>1. ~PopAhead
    BY PinAssumption DEF Working, PopAhead
  <2>2. QED
    BY <2>1 DEF SInv, OwnOnTop, Contains
<1>2. QED
  BY StashInit, StashNext, <1>1, PTL DEF Spec

(***************************************************************************)
(* The pin that a command reports.                                         *)
(***************************************************************************)
Typed ==
  /\ tip \in 1..MaxTip /\ fetched \in 1..tip
  /\ head \in Commit /\ main \in Commit /\ attached \in BOOLEAN
  /\ attached => head = main
  /\ ref \in Ref \union {None} /\ lock \in Entry \union {None}

\* The steps of a command that go by a pin have one.
Pinning ==
  \/ cmd = "pull" /\ pc \in {"integrate", "pop", "record"}
  \/ cmd = "update" /\ pc \in {"guard", "resolve", "record", "pop"}
  \/ cmd \in {"freeze", "init"} /\ pc = "record"

Holds == lock \in Entry /\ lock.commit = head

(***************************************************************************)
(* The strengthening.  A command that is about to write the lock has moved *)
(* HEAD to what it will write; one that pops the stash first has a result  *)
(* that is already so, and the pop moves neither HEAD nor the lock.        *)
(***************************************************************************)
PInv ==
  /\ Typed
  /\ cmd \in {None, "pull", "update", "freeze", "init"}
  /\ cmd = "pull" => mode \in {"ff_only", "merged", "rebased"}
  /\ Pinning => ref \in Ref
  /\ cmd \in {"update", "init"} /\ pc = "record" => head = Resolved
  /\ cmd = "freeze" /\ pc = "record" => head = ref.at
  /\ cmd = "pull" /\ pc \in {"pop", "record"} => result[2] # "re_pinned"
  /\ cmd = "update" /\ pc = "pop" /\ result[2] \in {"re_pinned", "up_to_date"} => Holds
  /\ cmd = None /\ result \in Reported => Holds

\* PInv holds initially, when no command runs.
LEMMA PinInit == Init => PInv
BY PinAssumption DEF Init, PInv, Typed, Pinning, OnTrunk, Commit, Reported

\* Where a ref that resolves points is a commit.
LEMMA ResolvedCommit ==
  ASSUME Typed, ref \in Ref
  PROVE  /\ OnTrunk(fetched) \in Commit
         /\ ref.kind \in {"branch", "tag", "commit", "unknown"}
         /\ Resolves => Resolved \in Commit
<1>1. fetched \in 1..MaxTip BY PinAssumption DEF Typed
<1>2. OnTrunk(fetched) \in Commit BY <1>1 DEF OnTrunk, Commit
<1>3. ref.kind \in {"branch", "tag", "commit", "unknown"} /\ (ref.kind \in {"tag", "commit"} => ref.at \in Commit)
  BY DEF Ref
<1>4. QED BY <1>2, <1>3 DEF Resolves, Resolved

\* A lock entry for a commit.
LEMMA Recorded ==
  ASSUME NEW r \in Ref, NEW c \in Commit, lock' = [ref |-> r, commit |-> c]
  PROVE  lock' \in Entry /\ lock'.commit = c
BY DEF Entry

\* Where an integration leaves HEAD, and what it reports.
LEMMA IntegratedKinds ==
  ASSUME Typed, mode \in {"ff_only", "merged", "rebased"}, NEW out \in Integrated(mode)
  PROVE  out[1] \in Commit /\ out[2] \in {"up_to_date", "fast_forwarded", "merged", "rebased", "diverged"}
<1>1. fetched \in 1..MaxTip BY PinAssumption DEF Typed
<1>2. /\ head \in Commit /\ OnTrunk(fetched) \in Commit
      /\ [head EXCEPT !.trunk = fetched] \in Commit
  BY <1>1 DEF OnTrunk, Commit, Typed
<1>3. QED BY <1>2 DEF Integrated

\* Between two commands of a step that keeps HEAD, the pins and the result, nothing changes.
LEMMA PinIdle ==
  ASSUME PInv, UNCHANGED <<git, pins, command, result>>
  PROVE  PInv'
BY DEF PInv, Typed, Pinning, Holds, Resolved, git, pins, command

\* A command that starts, goes on to a step that relies on nothing, or ends with a result that
\* reports no pin.
LEMMA PinPlain ==
  ASSUME PInv, Typed', cmd' \in {None, "pull", "update", "freeze", "init"},
         cmd' = "pull" => mode' \in {"ff_only", "merged", "rebased"},
         ~Pinning' \/ (ref' = ref /\ ref \in Ref),
         pc' \notin {"record", "pop"}, cmd' # None \/ result' \notin Reported
  PROVE  PInv'
BY DEF PInv

\* A pull preserves PInv.
LEMMA PinPull == ASSUME PInv, Pull PROVE PInv'
<1> USE PinAssumption
<1>1. ASSUME NEW m \in {"ff_only", "merged", "rebased"}, NEW auto \in BOOLEAN, Begin("pull", m, auto) PROVE PInv'
  BY <1>1, PinPlain DEF Begin, PInv, Typed, Pinning, git, pins
<1>2. CASE PullFetch
  BY <1>2, PinPlain DEF PullFetch, Step, Fetch, Goto, PInv, Typed, Pinning, pins
<1>3. CASE PullUnpinned
  <2>1. pc' = "idle" /\ cmd' = None /\ mode' = "ff_only" /\ UNCHANGED pins /\ cmd = "pull"
    BY <1>3 DEF PullUnpinned, End, Over, Step
  <2>2. CASE ~attached
    <3>1. UNCHANGED git /\ result' = <<"pull", "no_upstream">> BY <1>3, <2>2, <2>1 DEF PullUnpinned, End
    <3>2. QED BY <2>1, <3>1, PinPlain DEF PInv, Typed, Pinning, git, pins, Reported
  <2>3. CASE attached
    <3>1. PICK out \in Integrated(mode) : MoveHead(out[1]) /\ End(out[2]) BY <1>3, <2>3 DEF PullUnpinned
    <3>2. out[1] \in Commit /\ out[2] # "re_pinned" BY <2>1, <3>1, IntegratedKinds DEF PInv
    <3>3. result' = <<"pull", out[2]>> BY <2>1, <3>1 DEF End
    <3>4. Typed' BY <2>1, <3>1, <3>2 DEF MoveHead, PInv, Typed, pins
    <3>5. QED BY <2>1, <3>2, <3>3, <3>4, PinPlain DEF Pinning, Reported
  <2>4. QED BY <2>2, <2>3
<1>4. CASE PullUnresolved \/ PullHeld \/ PullRefused
  BY <1>4, PinPlain DEF PullUnresolved, PullHeld, PullRefused, End, Over, Step, PInv, Typed, Pinning, git, pins, Reported
<1>5. CASE PullStash
  BY <1>5, PinPlain DEF PullStash, StashPush, BranchPin, Step, PInv, Typed, Pinning, pins
<1>6. CASE PullClean
  BY <1>6, PinPlain DEF PullClean, BranchPin, Goto, Step, PInv, Typed, Pinning, git, pins
<1>7. CASE PullIntegrate
  <2>1. cmd = "pull" /\ pc = "integrate" /\ UNCHANGED <<pins, cmd, mode>> /\ pc' \in {"pop", "record"} /\ ref \in Ref
    BY <1>7 DEF PullIntegrate, Step, Goto, PInv, Pinning
  <2>2. PICK out \in Integrated(mode) : MoveHead(out[1]) /\ result' = <<"pull", out[2]>> BY <1>7 DEF PullIntegrate
  <2>3. out[1] \in Commit /\ out[2] # "re_pinned" BY <2>1, <2>2, IntegratedKinds DEF PInv
  <2>4. Typed' BY <2>1, <2>2, <2>3 DEF MoveHead, PInv, Typed, pins
  <2>5. QED BY <2>1, <2>2, <2>3, <2>4 DEF PInv, pins
<1>8. CASE PullPop
  BY <1>8 DEF PullPop, StashPop, Goto, Step, PInv, Typed, Pinning, Holds, pins
<1>9. CASE PullRecord
  <2>1. cmd = "pull" /\ pc = "record" /\ ref \in Ref /\ head \in Commit /\ UNCHANGED <<git, ref>> /\ result[2] # "re_pinned"
        /\ cmd' = None /\ pc' = "idle"
    BY <1>9 DEF PullRecord, Step, PInv, Pinning, Typed, End, Over
  <2>2. CASE result[2] = "fast_forwarded"
    <3>1. lock' = [ref |-> ref, commit |-> head] BY <1>9, <2>2 DEF PullRecord
    <3>2. lock' \in Entry /\ lock'.commit = head BY <2>1, <3>1, Recorded
    <3>3. QED BY <2>1, <3>2 DEF PInv, Typed, Pinning, Holds, git
  <2>3. CASE result[2] # "fast_forwarded"
    <3>1. UNCHANGED lock /\ result' = <<"pull", result[2]>> BY <1>9, <2>1, <2>3 DEF PullRecord, End
    <3>2. QED BY <2>1, <3>1 DEF PInv, Typed, Pinning, Reported, git
  <2>4. QED BY <2>2, <2>3
<1>10. CASE PullRaises
  BY <1>10, PinPlain DEF PullRaises, End, Over, Step, PInv, Typed, Pinning, git, pins, Reported
<1>11. QED BY <1>1, <1>2, <1>3, <1>4, <1>5, <1>6, <1>7, <1>8, <1>9, <1>10 DEF Pull

\* `return` inside the try, from a step that keeps HEAD: the result must hold already.
LEMMA PinLeave ==
  ASSUME PInv, cmd = "update", NEW res, Leave(res), UNCHANGED <<git, ref>>, ref \in Ref,
         lock' \in Entry \union {None}, res \in {"re_pinned", "up_to_date"} => Holds'
  PROVE  PInv'
<1>1. Typed' BY DEF PInv, Typed, git
<1>2. CASE stashed
  <2>1. pc' = "pop" /\ cmd' = "update" /\ result' = <<"update", res>> BY <1>2 DEF Leave, Goto
  <2>2. QED BY <1>1, <2>1, PinAssumption DEF PInv
<1>3. CASE ~stashed
  <2>1. pc' = "idle" /\ cmd' = None /\ result' = <<"update", res>> BY <1>3 DEF Leave, End, Over
  <2>2. result' \in Reported => res \in {"re_pinned", "up_to_date"} BY <2>1 DEF Reported
  <2>3. QED BY <1>1, <2>1, <2>2, PinAssumption DEF PInv, Pinning
<1>4. QED BY <1>2, <1>3

\* A checkout of a ref, or of a commit, leaves HEAD there.
LEMMA CheckedOut ==
  ASSUME PInv, ref \in Ref, NEW c \in Commit, Checkout(ref.kind, c), UNCHANGED pins
  PROVE  Typed' /\ (c = Resolved => head' = Resolved')
<1>1. OnTrunk(fetched) \in Commit BY ResolvedCommit DEF PInv
<1>2. UNCHANGED <<tip, fetched, ref, lock>> BY DEF Checkout, CheckoutBranch, CheckoutDetached, pins
<1>3. CASE ref.kind = "branch"
  <2>1. head' = OnTrunk(fetched) /\ main' = OnTrunk(fetched) /\ attached' = TRUE
    BY <1>3 DEF Checkout, CheckoutBranch
  <2>2. QED BY <1>1, <1>2, <1>3, <2>1 DEF Resolved, PInv, Typed, OnTrunk
<1>4. CASE ref.kind # "branch"
  <2>1. head' = c /\ attached' = FALSE /\ main' = main BY <1>4 DEF Checkout, CheckoutDetached
  <2>2. QED BY <1>2, <1>4, <2>1 DEF Resolved, PInv, Typed
<1>5. QED BY <1>3, <1>4

\* An update of pins preserves PInv.
LEMMA PinUpdate == ASSUME PInv, Update PROVE PInv'
<1> USE PinAssumption
<1>1. ASSUME NEW auto \in BOOLEAN, Begin("update", "ff_only", auto) PROVE PInv'
  BY <1>1, PinPlain DEF Begin, PInv, Typed, Pinning, git, pins
<1>2. CASE UpdateSkipped \/ UpdateRefused
  BY <1>2, PinPlain DEF UpdateSkipped, UpdateRefused, End, Over, Step, PInv, Typed, Pinning, git, pins, Reported
<1>3. CASE UpdateFetch
  BY <1>3, PinPlain DEF UpdateFetch, Step, Fetch, Goto, PInv, Typed, Pinning, pins
<1>4. CASE UpdateStash
  BY <1>4, PinPlain DEF UpdateStash, StashPush, Step, PInv, Typed, Pinning, pins
<1>5. CASE UpdateClean
  BY <1>5, PinPlain DEF UpdateClean, Goto, Step, PInv, Typed, Pinning, git, pins
<1>6. CASE UpdateUnresolved \/ UpdateCheckoutFails
  BY <1>6, PinLeave DEF UpdateUnresolved, UpdateCheckoutFails, Step, PInv, Typed, Pinning, pins
<1>7. CASE UpdateCurrent
  <2>1. head' = head /\ lock' = lock /\ lock \in Entry /\ lock.commit = head
    BY <1>7 DEF UpdateCurrent, UpToDate, PInv, Typed, git, pins
  <2>2. QED BY <1>7, <2>1, PinLeave DEF UpdateCurrent, Step, PInv, Pinning, Holds, pins
<1>8. CASE UpdateCheckout
  <2>1. ref \in Ref /\ Resolves /\ cmd = "update" /\ Checkout(ref.kind, Resolved) /\ UNCHANGED <<pins, cmd, mode>> /\ pc' = "record"
    BY <1>8 DEF UpdateCheckout, Step, PInv, Pinning, Goto
  <2>2. Resolved \in Commit BY <2>1, ResolvedCommit DEF PInv
  <2>3. Typed' /\ head' = Resolved' BY <2>1, <2>2, CheckedOut
  <2>4. QED BY <2>1, <2>3 DEF PInv, pins
<1>9. CASE UpdateRecord
  <2>1. ref \in Ref /\ cmd = "update" /\ head = Resolved /\ head \in Commit /\ UNCHANGED <<git, ref>>
        /\ lock' = [ref |-> ref, commit |-> Resolved] /\ Leave("re_pinned")
    BY <1>9 DEF UpdateRecord, Step, PInv, Pinning, Typed
  <2>2. lock' \in Entry /\ lock'.commit = head BY <2>1, Recorded
  <2>3. head' = head BY <2>1 DEF git
  <2>4. QED BY <2>1, <2>2, <2>3, PinLeave DEF Holds
<1>10. CASE UpdatePop
  <2>1. cmd = "update" /\ pc = "pop" /\ UNCHANGED <<tip, fetched, head, main, attached, ref, lock>>
        /\ cmd' = None /\ pc' = "idle" /\ result' = <<"update", result[2]>>
    BY <1>10 DEF UpdatePop, StashPop, Step, End, Over, pins
  <2>2. result' \in Reported => result[2] \in {"re_pinned", "up_to_date"} BY <2>1 DEF Reported
  <2>3. QED BY <2>1, <2>2 DEF PInv, Typed, Pinning, Holds
<1>11. CASE UpdateRaises
  BY <1>11, PinLeave DEF UpdateRaises, Step, PInv, Typed, Pinning, pins
<1>12. QED BY <1>1, <1>2, <1>3, <1>4, <1>5, <1>6, <1>7, <1>8, <1>9, <1>10, <1>11 DEF Update

\* A freeze preserves PInv.
LEMMA PinFreeze == ASSUME PInv, Freeze PROVE PInv'
<1> USE PinAssumption
<1>1. ASSUME NEW m \in {"force", "ff_only"}, Begin("freeze", m, FALSE) PROVE PInv'
  BY <1>1, PinPlain DEF Begin, PInv, Typed, Pinning, git, pins
<1>2. CASE FreezeAlreadyPinned \/ FreezeRefused
  BY <1>2, PinPlain DEF FreezeAlreadyPinned, FreezeRefused, End, Over, Step, PInv, Typed, Pinning, git, pins, Reported
<1>3. CASE FreezeConfig
  <2>1. /\ ref' = [kind |-> "commit", at |-> head] /\ cmd' = "freeze" /\ pc' = "record"
        /\ UNCHANGED <<tip, fetched, head, main, attached, lock>>
    BY <1>3 DEF FreezeConfig, Step, Goto, git
  <2>2. ref' \in Ref /\ ref'.at = head BY <2>1 DEF Ref, PInv, Typed
  <2>3. QED BY <2>1, <2>2 DEF PInv, Typed
<1>4. CASE FreezeRecord
  <2>1. ref \in Ref /\ head = ref.at /\ head \in Commit /\ UNCHANGED <<git, ref>> /\ cmd' = None /\ pc' = "idle"
        /\ lock' = [ref |-> ref, commit |-> ref.at]
    BY <1>4 DEF FreezeRecord, Step, PInv, Pinning, Typed, End, Over
  <2>2. lock' \in Entry /\ lock'.commit = head BY <2>1, Recorded
  <2>3. QED BY <2>1, <2>2 DEF PInv, Typed, Pinning, Holds, git
<1>5. QED BY <1>1, <1>2, <1>3, <1>4 DEF Freeze

\* The step of init for a standalone preserves PInv.
LEMMA PinInitCommand == ASSUME PInv, InitCommand PROVE PInv'
<1> USE PinAssumption
<1>1. CASE Begin("init", "ff_only", FALSE)
  BY <1>1, PinPlain DEF Begin, PInv, Typed, Pinning, git, pins
<1>2. CASE InitUnpinned \/ InitFails
  BY <1>2, PinPlain DEF InitUnpinned, InitFails, End, Over, Step, PInv, Typed, Pinning, git, pins, Reported
<1>3. CASE InitFresh
  <2>1. /\ ref \in Ref /\ lock \in Entry /\ Checkout(ref.kind, lock.commit) /\ UNCHANGED pins
        /\ cmd' = None /\ pc' = "idle" /\ result' = <<"init", "pinned">>
    BY <1>3 DEF InitFresh, Fresh, Step, PInv, Typed, End, Over
  <2>2. lock.commit \in Commit BY <2>1 DEF Entry
  <2>3. Typed' BY <2>1, <2>2, CheckedOut
  <2>4. QED BY <2>1, <2>3, PinPlain DEF Pinning, Reported
<1>4. CASE InitStale
  <2>1. ref \in Ref /\ Resolves /\ cmd = "init" /\ Checkout(ref.kind, Resolved) /\ UNCHANGED <<pins, cmd, mode>> /\ pc' = "record"
    BY <1>4 DEF InitStale, Step, PInv, Typed, Goto
  <2>2. Resolved \in Commit BY <2>1, ResolvedCommit DEF PInv
  <2>3. Typed' /\ head' = Resolved' BY <2>1, <2>2, CheckedOut
  <2>4. QED BY <2>1, <2>3 DEF PInv, pins
<1>5. CASE InitRecord
  <2>1. ref \in Ref /\ head = Resolved /\ head \in Commit /\ UNCHANGED <<git, ref>> /\ cmd' = None /\ pc' = "idle"
        /\ lock' = [ref |-> ref, commit |-> Resolved] /\ result' = <<"init", "pinned">>
    BY <1>5 DEF InitRecord, Step, PInv, Pinning, Typed, End, Over
  <2>2. lock' \in Entry BY <2>1, Recorded
  <2>3. Typed' BY <2>1, <2>2 DEF PInv, Typed, git
  <2>4. QED BY <2>1, <2>3, PinPlain DEF Pinning, Reported
<1>6. QED BY <1>1, <1>2, <1>3, <1>4, <1>5 DEF InitCommand

\* A kill, the user and the origin preserve PInv.
LEMMA PinSurroundings == ASSUME PInv, Surroundings PROVE PInv'
<1> USE PinAssumption
<1>1. CASE Kill
  BY <1>1, PinPlain DEF Kill, Over, PInv, Typed, Pinning, git, pins
<1>3. CASE OriginAdvances \/ Edit \/ CommitEdit \/ StashEdit \/ ClearStash \/ \E r \in UserRefs : SetRef(r)
  <2>1. cmd = None /\ cmd' = None /\ result' = None /\ UNCHANGED <<pc, mode>>
    BY <1>3 DEF OriginAdvances, Edit, CommitEdit, StashEdit, ClearStash, SetRef, ByHand, Working, command
  <2>2. Typed'
    <3>1. CASE OriginAdvances BY <3>1 DEF OriginAdvances, PInv, Typed, pins
    <3>2. CASE Edit \/ StashEdit \/ ClearStash BY <3>2 DEF Edit, StashEdit, ClearStash, PInv, Typed, pins
    <3>3. CASE CommitEdit BY <3>3 DEF CommitEdit, PInv, Typed, Commit, pins
    <3>4. CASE \E r \in UserRefs : SetRef(r) BY <3>4 DEF SetRef, PInv, Typed, git
    <3>5. QED BY <1>3, <3>1, <3>2, <3>3, <3>4
  <2>3. QED BY <2>1, <2>2 DEF PInv, Pinning
<1>4. QED BY <1>1, <1>3 DEF Surroundings

\* Every step preserves PInv.
LEMMA PinNext == PInv /\ [Next]_vars => PInv'
<1> SUFFICES ASSUME PInv, [Next]_vars PROVE PInv'
  OBVIOUS
<1>1. CASE UNCHANGED vars BY <1>1, PinIdle DEF vars
<1>2. QED BY <1>1, PinPull, PinUpdate, PinFreeze, PinInitCommand, PinSurroundings DEF Next

\* The rest of the types: the tree and a command's options.
Options == tree \subseteq {"edit", "file"} /\ autostash \in BOOLEAN /\ stashed \in BOOLEAN

\* The tree and a command's options keep their types.
LEMMA OptionsNext == Options /\ [Next]_vars => Options'
<1> SUFFICES ASSUME Options, [Next]_vars PROVE Options'
  OBVIOUS
<1> USE DEF Options, Begin, Step, Goto, End, Over, git, command
<1>1. CASE Pull
  BY <1>1 DEF Pull, PullFetch, Fetch, PullUnpinned, PullUnresolved, PullHeld, PullRefused, PullStash, StashPush, PullClean,
              PullIntegrate, PullRaises, PullPop, StashPop, PullRecord
<1>2. CASE Update
  BY <1>2 DEF Update, UpdateSkipped, UpdateFetch, Fetch, UpdateRefused, UpdateStash, StashPush, UpdateClean, Leave,
              UpdateUnresolved, UpdateCurrent, UpdateCheckout, UpdateCheckoutFails, UpdateRecord, UpdateRaises, UpdatePop, StashPop,
              Checkout, CheckoutBranch, CheckoutDetached
<1>3. CASE Freeze
  BY <1>3 DEF Freeze, FreezeAlreadyPinned, FreezeRefused, FreezeConfig, FreezeRecord
<1>4. CASE InitCommand
  BY <1>4 DEF InitCommand, InitUnpinned, InitFresh, InitFails, InitStale, InitRecord, Checkout, CheckoutBranch,
              CheckoutDetached
<1>5. CASE Surroundings
  BY <1>5 DEF Surroundings, Kill, OriginAdvances, Edit, CommitEdit, StashEdit, ClearStash, SetRef, ByHand
<1>6. CASE UNCHANGED vars BY <1>6 DEF vars
<1>7. QED BY <1>1, <1>2, <1>3, <1>4, <1>5, <1>6 DEF Next

\* Every step keeps every variable in its type, and an attached HEAD on its branch.
THEOREM PinsTypeCorrect == Spec => []TypeOK
<1>1. Init => Options BY DEF Init, Options
<1>2. PInv /\ SInv /\ Options => TypeOK BY DEF PInv, Typed, SInv, Options, TypeOK
<1>3. QED BY <1>1, <1>2, PinInit, PinNext, StashInit, StashNext, OptionsNext, PTL DEF Spec

\* What update, pull and freeze report as pinned is the commit that the lock records, for every
\* pin and however the commands before were killed.
THEOREM PinsReportedPinHolds == Spec => []ReportedPinHolds
<1>1. PInv => ReportedPinHolds BY PinAssumption DEF PInv, ReportedPinHolds, Working, Holds
<1>2. QED BY PinInit, PinNext, <1>1, PTL DEF Spec
-----------------------------------------------------------------------------
(***************************************************************************)
(* The lock file under the fan-out: ConfigLock, for every set of workers.   *)
(***************************************************************************)
\* What a writer has read stands for the file until it truncates it, and the
\* file stays unreadable while it is being filled.
LInv ==
  /\ Lock!TypeOK
  /\ \A r \in Repos : writer[r] = "truncate" => file = loaded[r]
  /\ \A r \in Repos : writer[r] = "fill" => file = Torn

\* LInv holds initially, when no writer runs.
LEMMA LockInit == Lock!Init => LInv
BY LockAssumption DEF Lock!LockNames, Lock!Init, LInv, Lock!TypeOK, Lock!Locks, Lock!Empty, Lock!Steps

\* Every step preserves LInv.
LEMMA LockNext == LInv /\ [Lock!Next]_Lock!vars => LInv'
<1> SUFFICES ASSUME LInv, [Lock!Next]_Lock!vars PROVE LInv'
  OBVIOUS
<1> USE LockAssumption DEF Lock!LockNames, LInv, Lock!TypeOK, Lock!Steps, Lock!Goto
<1>1. CASE Lock!BeginInit
  BY <1>1 DEF Lock!BeginInit, Lock!Begin, Lock!Quiet
<1>2. ASSUME NEW workers \in SUBSET Repos, Lock!BeginPull(workers) PROVE LInv'
  BY <1>2 DEF Lock!BeginPull, Lock!Begin, Lock!Quiet
<1>3. ASSUME NEW r \in Repos, Lock!Worker(r) PROVE LInv'
  <2>1. CASE Lock!LookFresh(r)
    BY <2>1 DEF Lock!LookFresh
  <2>2. CASE Lock!LookStale(r)
    BY <2>2 DEF Lock!LookStale
  <2>3. CASE Lock!LookTorn(r)
    BY <2>3 DEF Lock!LookTorn
  <2>4. CASE Lock!Enter(r)
    BY <2>4 DEF Lock!Enter
  <2>5. CASE Lock!Read(r)
    BY <2>5 DEF Lock!Read
  <2>6. CASE Lock!ReadTorn(r)
    BY <2>6 DEF Lock!ReadTorn
  <2>7. CASE Lock!Truncate(r)
    BY <2>7 DEF Lock!Truncate
  <2>8. CASE Lock!Fill(r)
    BY <2>8 DEF Lock!Fill, Lock!Locks, Lock!Empty
  <2>9. QED
    BY <1>3, <2>1, <2>2, <2>3, <2>4, <2>5, <2>6, <2>7, <2>8 DEF Lock!Worker
<1>4. CASE Lock!Crash
  BY <1>4 DEF Lock!Crash, Lock!Quiet, Lock!Locks, Lock!Empty
<1>5. CASE Lock!Restore
  BY <1>5 DEF Lock!Restore, Lock!Quiet
<1>6. CASE UNCHANGED Lock!vars
  BY <1>6 DEF Lock!vars
<1>7. QED
  BY <1>1, <1>2, <1>3, <1>4, <1>5, <1>6 DEF Lock!Next

\* Every reachable state is well typed, and a worker between its read and its
\* fill is the only holder of _mutate_lock: `with self._mutate_lock` in upsert.
THEOREM LockTypeCorrect == LockSpec => []Lock!TypeOK
<1>1. LInv => Lock!TypeOK
  BY DEF LInv
<1>2. Lock!Init => LInv
  BY LockInit
<1>3. LInv /\ [Lock!Next]_Lock!vars => LInv'
  BY LockNext
<1>4. QED
  BY <1>1, <1>2, <1>3, PTL DEF LockSpec, Lock!Spec

\* A step of the workers is a step of the table, or leaves it as it is.
LEMMA LockStep == LInv /\ LInv' /\ [Lock!Next]_Lock!vars => [Lock!Table!Next]_Lock!Recorded
<1> SUFFICES ASSUME LInv, LInv', [Lock!Next]_Lock!vars PROVE [Lock!Table!Next]_Lock!Recorded
  OBVIOUS
<1> USE LockAssumption DEF Lock!LockNames, LInv, Lock!TypeOK, Lock!Recorded
<1>1. CASE Lock!BeginInit
  BY <1>1 DEF Lock!BeginInit, Lock!Begin, Lock!Quiet
<1>2. ASSUME NEW workers \in SUBSET Repos, Lock!BeginPull(workers) PROVE [Lock!Table!Next]_Lock!Recorded
  BY <1>2 DEF Lock!BeginPull, Lock!Begin, Lock!Quiet
<1>3. ASSUME NEW r \in Repos, Lock!Worker(r) PROVE [Lock!Table!Next]_Lock!Recorded
  <2>1. CASE Lock!LookFresh(r)
    BY <2>1 DEF Lock!LookFresh, Lock!Goto
  <2>2. CASE Lock!LookStale(r)
    BY <2>2 DEF Lock!LookStale, Lock!Goto
  <2>3. CASE Lock!LookTorn(r)
    BY <2>3 DEF Lock!LookTorn, Lock!Goto
  <2>4. CASE Lock!Enter(r)
    BY <2>4 DEF Lock!Enter, Lock!Goto
  <2>5. CASE Lock!Read(r)
    BY <2>5 DEF Lock!Read, Lock!Goto
  <2>6. CASE Lock!ReadTorn(r)
    BY <2>6 DEF Lock!ReadTorn, Lock!Goto
  <2>7. CASE Lock!Truncate(r)
    BY <2>7 DEF Lock!Truncate, Lock!Goto, Lock!Locks
  <2>8. CASE Lock!Fill(r)
    <3>1. Lock!Recorded = loaded[r] /\ loaded[r] \in Lock!Locks
      BY <2>8 DEF Lock!Fill
    <3>2. Lock!Recorded' = [loaded[r] EXCEPT ![r] = new[r]]
      BY <2>8 DEF Lock!Fill, Lock!Goto, Lock!Locks
    <3>3. Lock!Table!Put(r, new[r])
      BY <3>1, <3>2, ZenonT(40) DEF Lock!Table!Put, Lock!Table!Locks, Lock!Locks
    <3>4. QED
      BY <3>3 DEF Lock!Table!Next
  <2>9. QED
    BY <1>3, <2>1, <2>2, <2>3, <2>4, <2>5, <2>6, <2>7, <2>8 DEF Lock!Worker
<1>4. CASE Lock!Crash
  <2>1. Lock!Recorded' = file
    BY <1>4 DEF Lock!Crash
  <2>2. Lock!Recorded = file \/ file = Torn
    OBVIOUS
  <2>3. QED
    BY <2>1, <2>2 DEF Lock!Table!Next, Lock!Table!Spoil
<1>5. CASE Lock!Restore
  <2>1. mutex = Nobody
    BY <1>5 DEF Lock!Restore, Lock!Quiet
  <2>2. Lock!Recorded = Torn /\ Lock!Recorded' = file' /\ file' \in Lock!Locks
    BY <1>5, <2>1 DEF Lock!Restore
  <2>3. QED
    BY <2>2 DEF Lock!Table!Next, Lock!Table!Restore, Lock!Table!Locks, Lock!Locks
<1>6. CASE UNCHANGED Lock!vars
  BY <1>6 DEF Lock!vars
<1>7. QED
  BY <1>1, <1>2, <1>3, <1>4, <1>5, <1>6 DEF Lock!Next

\* upsert replaces one entry and keeps all the others, for any number of
\* workers that upsert at once and any kill: the workers implement LockTable.
THEOREM LockImplementsTable == LockSpec => ImplementsTable
<1>1. Lock!Init => Lock!Table!Init
  BY DEF Lock!Init, Lock!Table!Init, Lock!Table!Locks, Lock!Locks, Lock!Recorded
<1>2. Lock!Init => LInv
  BY LockInit
<1>3. LInv /\ [Lock!Next]_Lock!vars => LInv'
  BY LockNext
<1>4. LInv /\ LInv' /\ [Lock!Next]_Lock!vars => [Lock!Table!Next]_Lock!Recorded
  BY LockStep
<1>5. QED
  BY <1>1, <1>2, <1>3, <1>4, PTL DEF LockSpec, Lock!Spec, ImplementsTable
=============================================================================

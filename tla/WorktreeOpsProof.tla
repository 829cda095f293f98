-------------------------- MODULE WorktreeOpsProof --------------------------
(***************************************************************************)
(* Proofs about WorktreeOps and Status: for any repositories, worktrees,   *)
(* branches, changes and command lines, and any number of commands, faults *)
(* and acts of the user and of others.                                     *)
(***************************************************************************)
EXTENDS Status, TLAPS, WellFoundedInduction

-----------------------------------------------------------------------------
(* Data: the order of the jobs, and what a repository holds. *)

\* Every non-empty set of naturals has a least element.
LEMMA LeastNat ==
  ASSUME NEW T \in SUBSET Nat, T # {}
  PROVE  \E x \in T : \A y \in T : x <= y
<1> DEFINE R == {p \in Nat \X Nat : p[1] < p[2]}
<1>1. IsWellFoundedOn(R, Nat) BY NatLessThanWellFounded DEF OpToRel
<1>2. \A x, y \in Nat : y < x => <<y, x>> \in R OBVIOUS
<1> HIDE DEF R
<1>3. PICK x \in T : \A y \in T : ~ (<<y, x>> \in R) BY <1>1, WFMin
<1>4. ASSUME NEW y \in T PROVE x <= y
  <2>1. x \in Nat /\ y \in Nat OBVIOUS
  <2>2. ~ (y < x) BY <1>2, <1>3, <2>1
  <2>3. QED BY <2>1, <2>2
<1>5. QED BY <1>4

\* A job has a place in the order, so a lane with jobs has a first one.
LEMMA FirstJob == ASSUME NEW jobs, jobs # {} PROVE First(jobs) \in jobs
<1> DEFINE T == {Place(w) : w \in jobs}
<1>1. ASSUME NEW w PROVE Place(w) \in Nat
  <2>1. Len(Worktrees) \in Nat /\ DOMAIN Worktrees \subseteq Nat BY RepoAssumption
  <2>2. CASE w \in OnDisk
    <3>1. PICK i \in DOMAIN Worktrees : Worktrees[i] = w BY <2>2 DEF OnDisk
    <3>2. (CHOOSE j \in DOMAIN Worktrees : Worktrees[j] = w) \in DOMAIN Worktrees BY <3>1
    <3>3. QED BY <2>1, <2>2, <3>2 DEF Place
  <2>3. CASE w \notin OnDisk BY <2>1, <2>3 DEF Place
  <2>4. QED BY <2>2, <2>3
<1>2. T \in SUBSET Nat /\ T # {} BY <1>1
<1>3. PICK k \in T : \A j \in T : k <= j BY <1>2, LeastNat
<1>4. PICK w \in jobs : k = Place(w) BY <1>3
<1>5. \A v \in jobs : Place(w) <= Place(v) BY <1>3, <1>4
<1>6. QED BY <1>5 DEF First

\* Every enumerated worktree is a place of a project repository.
LEMMA Disk ==
  \A w \in OnDisk : /\ w \in (Repo \ Standalone) \X Branch /\ w = <<w[1], w[2]>>
                    /\ w[2] \in Envs(w[1]) /\ w \in Spots
<1> TAKE w \in OnDisk
<1>1. PICK i \in DOMAIN Worktrees : w = Worktrees[i] BY DEF OnDisk
<1>2. w \in (Repo \ Standalone) \X Branch BY <1>1, RepoAssumption
<1>3. QED BY <1>2 DEF Envs, Spots

\* The source checkout of a repository is one of its places.
LEMMA OwnSpot == \A r \in Repo : Own(r) \in Spots /\ Own(r)[1] = r /\ Own(r)[2] = Source
BY DEF Own, Spots, Envs

\* A value of a ref is a history or none at all.
LEMMA Histories ==
  /\ \A h \in SUBSET Change : h # Absent
  /\ \A f \in RefsType, b \in Branch : f[b] # Absent => f[b] \in SUBSET Change
BY ChangeAssumption DEF RefsType

\* A change is kept when a stash, a ref, a tree or a detached head has it.
LEMMA KeptIs ==
  ASSUME NEW g, NEW x
  PROVE  x \in Kept(g) <=>
           \/ x \in g.stash
           \/ \E b \in DOMAIN g.origin : g.origin[b] # Absent /\ x \in g.origin[b]
           \/ \E b \in DOMAIN g.track : g.track[b] # Absent /\ x \in g.track[b]
           \/ \E b \in DOMAIN g.heads : g.heads[b] # Absent /\ x \in g.heads[b]
           \/ \E p \in DOMAIN g.at : x \in g.at[p].tree \/ x \in g.at[p].detached
<1> DEFINE O == {g.origin[b] : b \in DOMAIN g.origin}
           T == {g.track[b] : b \in DOMAIN g.track}
           H == {g.heads[b] : b \in DOMAIN g.heads}
           C == {g.at[p].tree \cup g.at[p].detached : p \in DOMAIN g.at}
<1>1. /\ \A h : h \in O <=> \E b \in DOMAIN g.origin : h = g.origin[b]
      /\ \A h : h \in T <=> \E b \in DOMAIN g.track : h = g.track[b]
      /\ \A h : h \in H <=> \E b \in DOMAIN g.heads : h = g.heads[b]
  OBVIOUS
<1>2. Kept(g) = g.stash \cup (UNION ((O \cup T \cup H) \ {Absent})) \cup (UNION C) BY Zenon DEF Kept
<1>3. x \in UNION C <=> \E p \in DOMAIN g.at : x \in g.at[p].tree \/ x \in g.at[p].detached OBVIOUS
<1> HIDE DEF O, T, H, C
<1>4. x \in UNION ((O \cup T \cup H) \ {Absent}) <=>
        \E h : h # Absent /\ x \in h /\ (h \in O \/ h \in T \/ h \in H)
  OBVIOUS
<1>5. x \in Kept(g) <=> x \in g.stash \/ x \in UNION ((O \cup T \cup H) \ {Absent}) \/ x \in UNION C
  BY <1>2
<1>6. (\E h : h # Absent /\ x \in h /\ (h \in O \/ h \in T \/ h \in H)) <=>
        \/ \E b \in DOMAIN g.origin : g.origin[b] # Absent /\ x \in g.origin[b]
        \/ \E b \in DOMAIN g.track : g.track[b] # Absent /\ x \in g.track[b]
        \/ \E b \in DOMAIN g.heads : g.heads[b] # Absent /\ x \in g.heads[b]
  BY <1>1
<1>7. QED BY <1>3, <1>4, <1>5, <1>6

\* A change is saved when some remote-tracking ref has it.
LEMMA SavedIs ==
  ASSUME NEW g, NEW x
  PROVE  x \in Saved(g) <=> \E b \in DOMAIN g.track : g.track[b] # Absent /\ x \in g.track[b]
BY DEF Saved

-----------------------------------------------------------------------------
(* Every change of a repository is one of two kinds: it moves the HEAD of  *)
(* one checkout, or it leaves the checkouts alone and lets refs grow.      *)

\* Only the checkout p and the branch it is on afterwards differ, and HEAD is
\* at h; the edits, the stash and the merge in progress are up to the operation.
Moved(r, g, n, p, h) ==
    /\ n \in RepoType(r) /\ h \in SUBSET Change
    /\ n.origin = g.origin /\ n.track = g.track
    /\ \A q \in Envs(r) \ {p} : n.at[q] = g.at[q]
    /\ n.at[p].on \in {g.at[p].on, p, Detached}
    /\ n.at[p].detached = IF n.at[p].on = Detached THEN h ELSE {}
    /\ \A b \in Branch : n.heads[b] = IF b = n.at[p].on THEN h ELSE g.heads[b]

\* No checkout is touched, refs only grow, and a branch that changes is
\* checked out nowhere.
Grown(f, k) == \A b \in Branch : f[b] # Absent => k[b] # Absent /\ f[b] \subseteq k[b]
Synced(r, g, n) ==
    /\ n \in RepoType(r)
    /\ n.at = g.at /\ n.stash = g.stash
    /\ Grown(g.origin, n.origin) /\ Grown(g.track, n.track) /\ Grown(g.heads, n.heads)
    /\ \A q \in Envs(r) : g.at[q].on # Detached => n.heads[g.at[q].on] = g.heads[g.at[q].on]
    /\ Tracked(n)

\* The parts of a repository's record, each with its range.
LEMMA RepoFields ==
  ASSUME NEW r \in Repo, NEW g \in RepoType(r)
  PROVE  /\ DOMAIN g.at = Envs(r) /\ DOMAIN g.heads = Branch /\ DOMAIN g.track = Branch
         /\ DOMAIN g.origin = Branch /\ DOMAIN g.up = Branch /\ g.stash \in SUBSET Change
         /\ \A q \in Envs(r) : g.at[q] \in CheckoutType
         /\ \A b \in Branch : g.up[b] \in Branch \cup {None}
         /\ \A b \in Branch : g.heads[b] # Absent => g.heads[b] \in SUBSET Change
         /\ \A b \in Branch : g.track[b] # Absent => g.track[b] \in SUBSET Change
         /\ \A b \in Branch : g.origin[b] # Absent => g.origin[b] \in SUBSET Change
BY DEF RepoType, RefsType

\* HEAD stands on a history.
LEMMA TipType ==
  ASSUME NEW r \in Repo, NEW g, WellFormed(r, g), NEW p \in Envs(r)
  PROVE  Tip(g, p) \in SUBSET Change
BY RepoFields DEF WellFormed, Attached, Tip, CheckoutType

\* Moving one checkout leaves the tips of the others, and what is saved, alone.
LEMMA MovedTip ==
  ASSUME NEW r \in Repo, NEW g, WellFormed(r, g), NEW p \in Envs(r), NEW n, NEW h, Moved(r, g, n, p, h)
  PROVE  /\ Tip(n, p) = h
         /\ \A q \in Envs(r) \ {p} : Tip(n, q) = Tip(g, q)
         /\ WellFormed(r, n)
         /\ Grown(g.track, n.track) /\ Saved(n) = Saved(g)
<1> g \in RepoType(r) /\ Attached(g) /\ Tracked(g) /\ Apart(g) BY DEF WellFormed
<1>0. /\ n.at[p] \in CheckoutType /\ \A q \in Envs(r) : g.at[q] \in CheckoutType
      /\ DOMAIN g.at = Envs(r) /\ DOMAIN n.at = Envs(r)
  BY RepoFields DEF Moved
<1>1. Tip(n, p) = h BY <1>0, NameAssumption DEF Moved, Tip, CheckoutType
<1>2. ASSUME NEW q \in Envs(r) \ {p} PROVE n.at[q] = g.at[q] /\ Tip(n, q) = Tip(g, q)
  <2>1. n.at[q] = g.at[q] BY DEF Moved
  <2>2. CASE g.at[q].on = Detached BY <2>1, <2>2 DEF Tip
  <2>3. CASE g.at[q].on # Detached
    <3>1. g.at[q].on \notin {p, g.at[p].on} /\ g.at[q].on \in Branch BY <1>0, <2>3 DEF Apart, CheckoutType
    <3>2. n.heads[g.at[q].on] = g.heads[g.at[q].on] BY <2>3, <3>1 DEF Moved
    <3>3. QED BY <2>1, <2>3, <3>2 DEF Tip
  <2>4. QED BY <2>1, <2>2, <2>3
<1>3. \A b \in Branch : g.heads[b] # Absent => n.heads[b] # Absent BY Histories DEF Moved
<1>4. Attached(n)
  <2> SUFFICES ASSUME NEW q \in Envs(r), n.at[q].on # Detached
               PROVE  n.at[q].detached = {} /\ n.heads[n.at[q].on] # Absent
    BY <1>0 DEF Attached
  <2>1. CASE q = p BY <1>0, <2>1, Histories DEF Moved, CheckoutType
  <2>2. CASE q # p BY <1>0, <1>2, <1>3, <2>2 DEF Attached, CheckoutType
  <2>3. QED BY <2>1, <2>2
<1>5. Tracked(n) /\ Saved(n) = Saved(g) /\ Grown(g.track, n.track) BY DEF Tracked, Moved, Saved, Grown
<1>6. Apart(n)
  <2> SUFFICES ASSUME NEW q \in Envs(r), NEW s \in Envs(r), q # s, n.at[q].on # Detached
               PROVE  n.at[q].on \notin {s, n.at[s].on}
    BY <1>0 DEF Apart
  <2>1. CASE q = p
    <3>1. n.at[s] = g.at[s] BY <1>2, <2>1
    <3>2. n.at[p].on \in {g.at[p].on, p} BY <2>1 DEF Moved
    <3>3. g.at[p].on # Detached => g.at[p].on \notin {s, g.at[s].on} BY <1>0, <2>1 DEF Apart
    <3>4. g.at[s].on # Detached => g.at[s].on # p BY <1>0, <2>1 DEF Apart
    <3>5. QED BY <2>1, <3>1, <3>2, <3>3, <3>4
  <2>2. CASE q # p
    <3>1. n.at[q] = g.at[q] /\ g.at[q].on # Detached BY <1>2, <2>2
    <3>2. g.at[q].on \notin {s, g.at[s].on} /\ g.at[q].on \notin {p, g.at[p].on} BY <1>0, <2>2, <3>1 DEF Apart
    <3>3. n.at[s].on \in {g.at[s].on, p, Detached} BY <1>2 DEF Moved
    <3>4. QED BY <3>1, <3>2, <3>3
  <2>3. QED BY <2>1, <2>2
<1>7. n \in RepoType(r) BY DEF Moved
<1>8. QED BY <1>1, <1>2, <1>4, <1>5, <1>6, <1>7 DEF WellFormed

\* Bringing refs up to date with the remote moves no checkout and loses nothing.
LEMMA SyncedTip ==
  ASSUME NEW r \in Repo, NEW g, WellFormed(r, g), NEW n, Synced(r, g, n)
  PROVE  /\ \A q \in Envs(r) : n.at[q] = g.at[q] /\ Tip(n, q) = Tip(g, q)
         /\ WellFormed(r, n)
         /\ Kept(g) \subseteq Kept(n) /\ Saved(g) \subseteq Saved(n)
<1> g \in RepoType(r) /\ Attached(g) /\ Tracked(g) /\ Apart(g) BY DEF WellFormed
<1> n \in RepoType(r) /\ n.at = g.at BY DEF Synced
<1>1. ASSUME NEW q \in Envs(r) PROVE Tip(n, q) = Tip(g, q) BY DEF Synced, Tip
<1>2. Attached(n) BY RepoFields DEF Attached, Synced
<1>3. Apart(n) BY DEF Apart
<1>4. ASSUME NEW x \in Kept(g) PROVE x \in Kept(n)
  <2>1. /\ x \in g.stash => x \in n.stash
        /\ \A b \in Branch : g.origin[b] # Absent /\ x \in g.origin[b] => n.origin[b] # Absent /\ x \in n.origin[b]
        /\ \A b \in Branch : g.track[b] # Absent /\ x \in g.track[b] => n.track[b] # Absent /\ x \in n.track[b]
        /\ \A b \in Branch : g.heads[b] # Absent /\ x \in g.heads[b] => n.heads[b] # Absent /\ x \in n.heads[b]
    BY DEF Synced, Grown
  <2>2. DOMAIN n.heads = Branch /\ DOMAIN n.track = Branch /\ DOMAIN n.origin = Branch
        /\ DOMAIN g.heads = Branch /\ DOMAIN g.track = Branch /\ DOMAIN g.origin = Branch
    BY RepoFields
  <2>3. QED BY <2>1, <2>2, KeptIs
<1>5. ASSUME NEW x \in Saved(g) PROVE x \in Saved(n)
  <2>1. DOMAIN n.track = Branch /\ DOMAIN g.track = Branch BY RepoFields
  <2>2. PICK b \in Branch : g.track[b] # Absent /\ x \in g.track[b] BY <2>1, SavedIs
  <2>3. n.track[b] # Absent /\ x \in n.track[b] BY <2>2 DEF Synced, Grown
  <2>4. QED BY <2>1, <2>3, SavedIs
<1>6. Tracked(n) BY DEF Synced
<1>7. QED BY <1>1, <1>2, <1>3, <1>4, <1>5, <1>6 DEF WellFormed

\* What a command may never lose is kept by a move of HEAD when what the
\* checkout had is in its new history, its tree, the stash or saved.
LEMMA SavedKept == ASSUME NEW g, NEW x \in Saved(g) PROVE x \in Kept(g)
BY SavedIs, KeptIs

\* A checkout's move loses at most X if the rest of what it held is held
\* somewhere after it.
LEMMA MovedKeptBut ==
  ASSUME NEW r \in Repo, NEW g, WellFormed(r, g), NEW p \in Envs(r), NEW n, NEW h, Moved(r, g, n, p, h),
         n.at[p].on \in {g.at[p].on, Detached}, g.stash \subseteq n.stash, NEW X,
         Tip(g, p) \cup g.at[p].tree \subseteq h \cup n.at[p].tree \cup n.stash \cup Saved(n) \cup Kept(n) \cup X
  PROVE  Kept(g) \ X \subseteq Kept(n)
<1> SUFFICES ASSUME NEW x \in Kept(g), x \notin X PROVE x \in Kept(n) OBVIOUS
<1> g \in RepoType(r) /\ Attached(g) /\ n \in RepoType(r) BY DEF WellFormed, Moved
<1>0. /\ DOMAIN n.heads = Branch /\ DOMAIN n.track = Branch /\ DOMAIN n.origin = Branch /\ DOMAIN n.at = Envs(r)
      /\ DOMAIN g.heads = Branch /\ DOMAIN g.track = Branch /\ DOMAIN g.origin = Branch /\ DOMAIN g.at = Envs(r)
      /\ n.at[p] \in CheckoutType /\ g.at[p] \in CheckoutType
  BY RepoFields
<1>1. ASSUME x \in h PROVE x \in Kept(n)
  <2>1. CASE n.at[p].on = Detached BY <1>0, <1>1, <2>1, KeptIs DEF Moved
  <2>2. CASE n.at[p].on # Detached
    <3>1. n.at[p].on \in Branch /\ n.heads[n.at[p].on] = h BY <1>0, <2>2 DEF Moved, CheckoutType
    <3>2. h # Absent BY Histories DEF Moved
    <3>3. QED BY <1>0, <1>1, <3>1, <3>2, KeptIs
  <2>3. QED BY <2>1, <2>2
<1>2. ASSUME x \in Tip(g, p) \cup g.at[p].tree PROVE x \in Kept(n)
  <2>1. x \in h \/ x \in n.at[p].tree \/ x \in n.stash \/ x \in Saved(n) \/ x \in Kept(n) BY <1>2
  <2>2. QED BY <1>0, <1>1, <2>1, KeptIs, SavedKept
<1>3. CASE x \in g.stash BY <1>3, KeptIs
<1>4. CASE \E b \in Branch : g.origin[b] # Absent /\ x \in g.origin[b] BY <1>0, <1>4, KeptIs DEF Moved
<1>5. CASE \E b \in Branch : g.track[b] # Absent /\ x \in g.track[b] BY <1>0, <1>5, KeptIs DEF Moved
<1>6. ASSUME NEW b \in Branch, g.heads[b] # Absent, x \in g.heads[b] PROVE x \in Kept(n)
  <2>1. CASE b # n.at[p].on
    <3>1. n.heads[b] = g.heads[b] BY <2>1 DEF Moved
    <3>2. QED BY <1>0, <1>6, <3>1, KeptIs
  <2>2. CASE b = n.at[p].on
    <3>1. g.at[p].on = b /\ b # Detached BY <2>2, NameAssumption
    <3>2. x \in Tip(g, p) BY <1>6, <3>1 DEF Tip
    <3>3. QED BY <1>2, <3>2
  <2>3. QED BY <2>1, <2>2
<1>7. ASSUME NEW q \in Envs(r), x \in g.at[q].tree \/ x \in g.at[q].detached PROVE x \in Kept(n)
  <2>1. CASE q # p
    <3>1. n.at[q] = g.at[q] BY <2>1 DEF Moved
    <3>2. QED BY <1>0, <1>7, <3>1, KeptIs
  <2>2. CASE q = p
    <3>1. x \in g.at[p].detached => x \in Tip(g, p) BY <1>0 DEF Attached, Tip
    <3>2. QED BY <1>2, <1>7, <2>2, <3>1
  <2>3. QED BY <2>1, <2>2
<1>8. QED BY <1>0, <1>3, <1>4, <1>5, <1>6, <1>7, KeptIs

\* A checkout's move loses no change if what it held is held somewhere after it.
LEMMA MovedKept ==
  ASSUME NEW r \in Repo, NEW g, WellFormed(r, g), NEW p \in Envs(r), NEW n, NEW h, Moved(r, g, n, p, h),
         n.at[p].on \in {g.at[p].on, Detached}, g.stash \subseteq n.stash,
         Tip(g, p) \cup g.at[p].tree \subseteq h \cup n.at[p].tree \cup n.stash \cup Saved(n) \cup Kept(n)
  PROVE  Kept(g) \subseteq Kept(n)
<1>1. Kept(g) \ {} \subseteq Kept(n) BY MovedKeptBut
<1>2. QED BY <1>1

\* A clean checkout stays clean, unless a merge is stopped in it.
KeepsClean(r, g, n) ==
    \A q \in Envs(r) : ~Dirty(g, q) /\ n.at[q].merging = "no" => ~Dirty(n, q)

\* A move that takes a clean tree along with the tip keeps clean checkouts clean.
LEMMA MovedClean ==
  ASSUME NEW r \in Repo, NEW g, WellFormed(r, g), NEW p \in Envs(r), NEW n, NEW h, Moved(r, g, n, p, h),
         ~Dirty(g, p) /\ n.at[p].merging = "no" => n.at[p].tree = h
  PROVE  KeepsClean(r, g, n)
<1>1. /\ Tip(n, p) = h
      /\ \A q \in Envs(r) \ {p} : Tip(n, q) = Tip(g, q) /\ n.at[q] = g.at[q]
  BY MovedTip DEF Moved
<1>2. QED BY <1>1 DEF KeepsClean, Dirty

\* Bringing refs up to date keeps clean checkouts clean.
LEMMA SyncedClean ==
  ASSUME NEW r \in Repo, NEW g, WellFormed(r, g), NEW n, Synced(r, g, n)
  PROVE  KeepsClean(r, g, n)
BY SyncedTip DEF KeepsClean, Dirty

-----------------------------------------------------------------------------
(* The operators of GitRepo, each as one of the two kinds. *)

\* What an operation may set in the checkout it moves, besides HEAD.
Fields(c, d) == c.on = d.on /\ c.files = d.files
Rest(c, d) == Fields(c, d) /\ c.merging = d.merging /\ c.before = d.before

\* Staying where it is counts as a move of a checkout.
LEMMA SelfMoved ==
  ASSUME NEW r \in Repo, NEW g, WellFormed(r, g), NEW p \in Envs(r)
  PROVE  Moved(r, g, g, p, Tip(g, p))
<1> g \in RepoType(r) /\ Attached(g) /\ Tip(g, p) \in SUBSET Change BY TipType DEF WellFormed
<1>1. g.at[p] \in CheckoutType /\ DOMAIN g.at = Envs(r) BY RepoFields
<1>2. QED BY <1>1, NameAssumption DEF Moved, Tip, Attached, CheckoutType

\* What moving a tip changes: that checkout's head, and nothing of its tree.
LEMMA MoveTipMoved ==
  ASSUME NEW r \in Repo, NEW g, WellFormed(r, g), NEW p \in Envs(r), NEW h \in SUBSET Change, NEW n, n = MoveTip(g, p, h)
  PROVE  /\ Moved(r, g, n, p, h) /\ n.stash = g.stash /\ n.up = g.up
         /\ n.at[p].tree = g.at[p].tree /\ Rest(n.at[p], g.at[p])
<1> g \in RepoType(r) /\ Attached(g) BY DEF WellFormed
<1>1. g.at[p] \in CheckoutType /\ DOMAIN g.at = Envs(r) BY RepoFields
<1>2. CASE g.at[p].on = Detached
  <2>1. n = [g EXCEPT !.at[p].detached = h] BY <1>2 DEF MoveTip
  <2>2. n.at[p] = [g.at[p] EXCEPT !.detached = h] BY <2>1, <1>1 DEF RepoType
  <2>3. n.at[p] \in CheckoutType BY <2>2, <1>1 DEF CheckoutType
  <2>4. n \in RepoType(r) /\ n.origin = g.origin /\ n.track = g.track /\ n.heads = g.heads /\ n.up = g.up
        /\ n.stash = g.stash /\ \A q \in Envs(r) \ {p} : n.at[q] = g.at[q]
    BY <2>1, <2>3, <1>1 DEF RepoType
  <2>5. QED BY <1>1, <1>2, <2>2, <2>4, NameAssumption DEF Moved, Rest, Fields, CheckoutType
<1>3. CASE g.at[p].on # Detached
  <2>0. g.at[p].on \in Branch /\ g.at[p].detached = {} BY <1>1, <1>3 DEF Attached, CheckoutType
  <2>1. n = [g EXCEPT !.heads[g.at[p].on] = h] BY <1>3 DEF MoveTip
  <2>2. n.heads = [g.heads EXCEPT ![g.at[p].on] = h] BY <2>1 DEF RepoType
  <2>3. n.heads \in RefsType /\ \A b \in Branch : n.heads[b] = IF b = g.at[p].on THEN h ELSE g.heads[b]
    BY <2>0, <2>2, RepoFields DEF RefsType, RepoType
  <2>4. n \in RepoType(r) /\ n.origin = g.origin /\ n.track = g.track /\ n.at = g.at /\ n.up = g.up /\ n.stash = g.stash
    BY <2>1, <2>3 DEF RepoType
  <2>5. QED BY <1>1, <1>3, <2>0, <2>3, <2>4 DEF Moved, Rest, Fields
<1>4. QED BY <1>2, <1>3

\* A tree, a stash or a merge in progress that an operation sets besides.
With(m, p, c, s) == [m EXCEPT !.at[p] = c, !.stash = s]

\* What putting a checkout and a stash into a repository changes.
LEMMA WithFields ==
  ASSUME NEW r \in Repo, NEW m \in RepoType(r), NEW p \in Envs(r), NEW c \in CheckoutType, NEW s \in SUBSET Change,
         NEW n, n = With(m, p, c, s)
  PROVE  /\ n \in RepoType(r) /\ n.origin = m.origin /\ n.track = m.track /\ n.heads = m.heads /\ n.up = m.up
         /\ n.at[p] = c /\ n.stash = s /\ \A q \in Envs(r) \ {p} : n.at[q] = m.at[q]
BY DEF RepoType, With

\* A move stays one when the tree, the files or the stash of that checkout change.
LEMMA Retouch ==
  ASSUME NEW r \in Repo, NEW g, WellFormed(r, g), NEW p \in Envs(r), NEW m, NEW h, Moved(r, g, m, p, h),
         NEW c \in CheckoutType, c.on = m.at[p].on, c.detached = m.at[p].detached,
         NEW s \in SUBSET Change, NEW n, n = With(m, p, c, s)
  PROVE  Moved(r, g, n, p, h) /\ n.at[p] = c /\ n.stash = s
<1>1. m \in RepoType(r) BY DEF Moved
<1>2. QED BY <1>1, WithFields DEF Moved

\* Moving a tip with its tree carries the uncommitted changes along.
LEMMA MoveWithTreeMoved ==
  ASSUME NEW r \in Repo, NEW g, WellFormed(r, g), NEW p \in Envs(r), NEW h \in SUBSET Change,
         NEW n, n = MoveWithTree(g, p, h)
  PROVE  /\ Moved(r, g, n, p, h) /\ n.stash = g.stash /\ n.at[p].tree = Carried(g, p, h) /\ Rest(n.at[p], g.at[p])
<1> DEFINE m == MoveTip(g, p, h)
           t == Carried(g, p, h)
           c == [m.at[p] EXCEPT !.tree = t]
<1>1. Moved(r, g, m, p, h) /\ m.stash = g.stash /\ Rest(m.at[p], g.at[p]) /\ g \in RepoType(r)
  BY MoveTipMoved DEF WellFormed
<1> HIDE DEF m
<1>2. m \in RepoType(r) /\ m.at[p] \in CheckoutType BY <1>1, RepoFields DEF Moved
<1>3. t \in SUBSET Change BY <1>1, TipType, RepoFields DEF Carried, CheckoutType
<1> HIDE DEF t
<1>4. c \in CheckoutType /\ c.on = m.at[p].on /\ c.detached = m.at[p].detached /\ c.tree = t /\ Rest(c, m.at[p])
  BY <1>2, <1>3 DEF CheckoutType, Rest, Fields
<1>5. n = With(m, p, c, m.stash) BY <1>2 DEF With, MoveWithTree, RepoType, m, t
<1>6. m.stash \in SUBSET Change BY <1>2, RepoFields
<1> HIDE DEF c
<1>7. Moved(r, g, n, p, h) /\ n.at[p] = c /\ n.stash = m.stash BY <1>1, <1>4, <1>5, <1>6, Retouch
<1>8. QED BY <1>1, <1>4, <1>7 DEF t, Rest, Fields

\* A move whose autostash does not apply again leaves the changes in the stash.
LEMMA ParkedMoved ==
  ASSUME NEW r \in Repo, NEW g, WellFormed(r, g), NEW p \in Envs(r), NEW h \in SUBSET Change,
         NEW n, n = Parked(g, p, h)
  PROVE  /\ Moved(r, g, n, p, h) /\ n.stash = g.stash \cup (g.at[p].tree \ Tip(g, p)) /\ n.at[p].tree = h
         /\ Rest(n.at[p], g.at[p])
<1> DEFINE m == MoveTip(g, p, h)
           s == g.stash \cup (g.at[p].tree \ Tip(g, p))
           c == [m.at[p] EXCEPT !.tree = h]
<1>1. Moved(r, g, m, p, h) /\ m.stash = g.stash /\ Rest(m.at[p], g.at[p]) /\ g \in RepoType(r)
  BY MoveTipMoved DEF WellFormed
<1> HIDE DEF m
<1>2. m \in RepoType(r) /\ m.at[p] \in CheckoutType BY <1>1, RepoFields DEF Moved
<1>3. s \in SUBSET Change BY <1>1, RepoFields DEF CheckoutType
<1>4. c \in CheckoutType /\ c.on = m.at[p].on /\ c.detached = m.at[p].detached /\ c.tree = h /\ Rest(c, m.at[p])
  BY <1>2 DEF CheckoutType, Rest, Fields
<1>5. n = With(m, p, c, s) BY <1>1, <1>2 DEF With, Parked, RepoType, m
<1> HIDE DEF c, s
<1>6. Moved(r, g, n, p, h) /\ n.at[p] = c /\ n.stash = s BY <1>1, <1>3, <1>4, <1>5, Retouch
<1>7. QED BY <1>1, <1>4, <1>6 DEF s, Rest, Fields

\* An operation that leaves HEAD where it is: an edit, a stopped or an aborted merge.
LEMMA EditMoved ==
  ASSUME NEW r \in Repo, NEW g, WellFormed(r, g), NEW p \in Envs(r),
         NEW c \in CheckoutType, c.on = g.at[p].on, c.detached = g.at[p].detached, NEW n, n = With(g, p, c, g.stash)
  PROVE  Moved(r, g, n, p, Tip(g, p)) /\ n.stash = g.stash /\ n.at[p] = c
<1> g \in RepoType(r) BY DEF WellFormed
<1>1. g.stash \in SUBSET Change BY RepoFields
<1>2. QED BY <1>1, SelfMoved, Retouch

\* A merge or rebase that stops on a conflict leaves the tip where it was.
LEMMA StoppedMoved ==
  ASSUME NEW r \in Repo, NEW g, WellFormed(r, g), NEW p \in Envs(r), NEW h \in SUBSET Change,
         NEW kind \in {"merge", "rebase"}, NEW n, n = Stopped(g, p, h, kind)
  PROVE  /\ Moved(r, g, n, p, Tip(g, p)) /\ n.stash = g.stash /\ Fields(n.at[p], g.at[p])
         /\ n.at[p].tree = g.at[p].tree \cup h /\ n.at[p].merging = kind /\ n.at[p].before = g.at[p].tree
<1> DEFINE c == [g.at[p] EXCEPT !.merging = kind, !.before = g.at[p].tree, !.tree = g.at[p].tree \cup h]
<1>1. g \in RepoType(r) /\ g.at[p] \in CheckoutType BY RepoFields DEF WellFormed
<1>2. c \in CheckoutType BY <1>1 DEF CheckoutType
<1>3. /\ c.on = g.at[p].on /\ c.detached = g.at[p].detached /\ c.tree = g.at[p].tree \cup h /\ c.merging = kind
      /\ c.before = g.at[p].tree /\ Fields(c, g.at[p])
  BY <1>1 DEF CheckoutType, Fields
<1>4. n = With(g, p, c, g.stash) BY <1>1 DEF With, Stopped, RepoType
<1> HIDE DEF c
<1>5. QED BY <1>2, <1>3, <1>4, EditMoved

\* An abort puts back the tree from before, and leaves the tip where it was.
LEMMA AbortMoved ==
  ASSUME NEW r \in Repo, NEW g, WellFormed(r, g), NEW p \in Envs(r), NEW kind, g.at[p].merging = kind,
         NEW n, n = AbortOp(g, p, kind)
  PROVE  /\ Moved(r, g, n, p, Tip(g, p)) /\ n.stash = g.stash /\ Fields(n.at[p], g.at[p])
         /\ n.at[p].tree = g.at[p].before /\ n.at[p].merging = "no"
<1> DEFINE c == [g.at[p] EXCEPT !.merging = "no", !.tree = g.at[p].before, !.before = {}]
<1>1. g \in RepoType(r) /\ g.at[p] \in CheckoutType BY RepoFields DEF WellFormed
<1>2. c \in CheckoutType BY <1>1 DEF CheckoutType
<1>3. /\ c.on = g.at[p].on /\ c.detached = g.at[p].detached /\ c.tree = g.at[p].before /\ c.merging = "no"
      /\ Fields(c, g.at[p])
  BY <1>1 DEF CheckoutType, Fields
<1>4. n = With(g, p, c, g.stash) BY <1>1 DEF With, AbortOp, RepoType
<1> HIDE DEF c
<1>5. QED BY <1>2, <1>3, <1>4, EditMoved

\* A forced checkout puts the tip and the tree at the ref, whatever they were.
LEMMA CheckoutMoved ==
  ASSUME NEW r \in Repo, NEW g, WellFormed(r, g), NEW p \in Envs(r), p \in Branch, NEW ref, Ref(g, ref) \in SUBSET Change,
         NEW n, n = ForceCheckout(g, p, ref)
  PROVE  /\ Moved(r, g, n, p, Ref(g, ref)) /\ n.stash = g.stash /\ n.at[p].tree = Ref(g, ref)
         /\ n.at[p].merging = "no"
<1> DEFINE h == Ref(g, ref)
           c == [g.at[p] EXCEPT !.on = p, !.detached = {}, !.tree = h, !.merging = "no", !.before = {}]
<1>1. g \in RepoType(r) /\ g.at[p] \in CheckoutType BY RepoFields DEF WellFormed
<1>2. c \in CheckoutType /\ c.on = p /\ c.detached = {} /\ c.tree = h /\ c.merging = "no" BY <1>1 DEF CheckoutType
<1> DEFINE k == [g EXCEPT !.heads[p] = h]
<1>3. k \in RepoType(r) /\ k.origin = g.origin /\ k.track = g.track /\ k.stash = g.stash /\ k.at = g.at
      /\ k.heads = [g.heads EXCEPT ![p] = h]
  BY <1>1 DEF RepoType, RefsType
<1> HIDE DEF k
<1>4. k.stash \in SUBSET Change BY <1>3, RepoFields
<1>5. n.at[p] = c /\ n \in RepoType(r) /\ n.origin = g.origin /\ n.track = g.track /\ n.stash = g.stash
      /\ n.heads = k.heads /\ \A q \in Envs(r) \ {p} : n.at[q] = g.at[q]
  <2> DEFINE d == [g.at[p] EXCEPT !.on = p, !.detached = {}, !.tree = h]
             l == [k EXCEPT !.at[p].on = p, !.at[p].detached = {}, !.at[p].tree = h]
  <2>1. l = With(k, p, d, k.stash)
    <3> DEFINE at == [k.at EXCEPT ![p].on = p, ![p].detached = {}, ![p].tree = h]
    <3>1. k.at \in [Envs(r) -> CheckoutType] /\ k.at[p] = g.at[p] BY <1>3 DEF RepoType
    <3>2. at = [k.at EXCEPT ![p] = d] BY <3>1
    <3>3. l = [k EXCEPT !.at = at] BY <1>3 DEF RepoType
    <3> HIDE DEF at, d
    <3>4. [k EXCEPT !.at = at] = [k EXCEPT !.at = at, !.stash = k.stash] BY <1>3 DEF RepoType
    <3>5. QED BY <3>2, <3>3, <3>4 DEF With
  <2>2. n = [l EXCEPT !.at[p].merging = "no", !.at[p].before = {}] BY DEF ForceCheckout, k
  <2>3. d \in CheckoutType BY <1>1 DEF CheckoutType
  <2>4. [d EXCEPT !.merging = "no", !.before = {}] = c BY <1>1 DEF CheckoutType
  <2> HIDE DEF l, d
  <2>5. /\ l \in RepoType(r) /\ l.origin = k.origin /\ l.track = k.track /\ l.heads = k.heads
        /\ l.at[p] = d /\ l.stash = k.stash /\ \A q \in Envs(r) \ {p} : l.at[q] = k.at[q]
    BY <1>3, <1>4, <2>1, <2>3, WithFields
  <2>6. n = With(l, p, [l.at[p] EXCEPT !.merging = "no", !.before = {}], l.stash)
    <3> DEFINE at == [l.at EXCEPT ![p].merging = "no", ![p].before = {}]
    <3>1. l.at \in [Envs(r) -> CheckoutType] BY <2>5 DEF RepoType
    <3>2. at = [l.at EXCEPT ![p] = [l.at[p] EXCEPT !.merging = "no", !.before = {}]] BY <3>1
    <3>3. n = [l EXCEPT !.at = at] BY <2>2, <2>5 DEF RepoType
    <3> HIDE DEF at
    <3>4. [l EXCEPT !.at = at] = [l EXCEPT !.at = at, !.stash = l.stash] BY <2>5 DEF RepoType
    <3>5. QED BY <3>2, <3>3, <3>4 DEF With
  <2>7. n = With(l, p, c, k.stash) BY <2>4, <2>5, <2>6
  <2> HIDE DEF c
  <2>8. QED BY <1>2, <1>3, <1>4, <2>5, <2>7, WithFields
<1> HIDE DEF c, h
<1>a. n.heads = [g.heads EXCEPT ![p] = h] BY <1>3, <1>5
<1>6. \A b \in Branch : n.heads[b] = IF b = p THEN h ELSE g.heads[b] BY <1>a, <1>1, RepoFields
<1>7. p # Detached BY NameAssumption
<1>8. QED BY <1>2, <1>5, <1>6, <1>7 DEF Moved, h

\* A reset moves the tip to the ref; only a hard one touches the tree.
LEMMA ResetMoved ==
  ASSUME NEW r \in Repo, NEW g, WellFormed(r, g), NEW p \in Envs(r), NEW ref, Ref(g, ref) \in SUBSET Change,
         NEW mode \in {"soft", "mixed", "hard"}, NEW n, n = ResetTo(g, p, mode, ref)
  PROVE  /\ Moved(r, g, n, p, Ref(g, ref)) /\ n.stash = g.stash /\ Fields(n.at[p], g.at[p])
         /\ n.at[p].tree = IF mode = "hard" THEN Ref(g, ref) ELSE g.at[p].tree
         /\ mode # "soft" => n.at[p].merging = "no"
         /\ mode = "soft" => n.at[p].merging = g.at[p].merging /\ n.at[p].before = g.at[p].before
<1> DEFINE h == Ref(g, ref)
           m == MoveTip(g, p, h)
           t == IF mode = "hard" THEN h ELSE g.at[p].tree
           c == IF mode = "soft" THEN m.at[p] ELSE [m.at[p] EXCEPT !.tree = t, !.merging = "no", !.before = {}]
<1>1. Moved(r, g, m, p, h) /\ m.stash = g.stash /\ Rest(m.at[p], g.at[p]) /\ g \in RepoType(r) /\ m.at[p].tree = g.at[p].tree
  BY MoveTipMoved DEF WellFormed
<1> HIDE DEF m, h
<1>2. m \in RepoType(r) /\ m.at[p] \in CheckoutType /\ m.stash \in SUBSET Change BY <1>1, RepoFields DEF Moved
<1>3. h \in SUBSET Change /\ t \in SUBSET Change BY <1>1, <1>2 DEF h, CheckoutType
<1>4. /\ c \in CheckoutType /\ c.on = m.at[p].on /\ c.detached = m.at[p].detached /\ c.tree = t /\ Fields(c, m.at[p])
      /\ mode # "soft" => c.merging = "no"
      /\ mode = "soft" => c = m.at[p]
  BY <1>1, <1>2, <1>3 DEF CheckoutType, Rest, Fields
<1>5. n = With(m, p, c, m.stash)
  <2>1. CASE mode = "hard" BY <1>2, <2>1 DEF With, ResetTo, RepoType, m, h
  <2>2. CASE mode = "mixed"
    <3>1. c = [m.at[p] EXCEPT !.merging = "no", !.before = {}] BY <1>1, <1>2, <2>2 DEF CheckoutType
    <3>2. n = With(m, p, [m.at[p] EXCEPT !.merging = "no", !.before = {}], m.stash)
      BY <1>2, <2>2 DEF With, ResetTo, RepoType, m, h
    <3>3. QED BY <3>1, <3>2
  <2>3. CASE mode = "soft" BY <1>2, <2>3 DEF With, ResetTo, RepoType, m, h
  <2>4. QED BY <2>1, <2>2, <2>3
<1> HIDE DEF c, t
<1>6. Moved(r, g, n, p, h) /\ n.at[p] = c /\ n.stash = m.stash BY <1>1, <1>2, <1>4, <1>5, Retouch
<1>7. QED BY <1>1, <1>4, <1>6 DEF h, t, Rest, Fields

\* Fetching, pushing, and pushes of others.
LEMMA RefsSynced ==
  ASSUME NEW r \in Repo, NEW g, WellFormed(r, g), NEW n, n \in RepoType(r),
         n.at = g.at, n.stash = g.stash, n.heads = g.heads, Grown(g.origin, n.origin), Grown(g.track, n.track),
         \A b \in Branch : n.track[b] # Absent => n.origin[b] # Absent /\ n.track[b] \subseteq n.origin[b]
  PROVE  Synced(r, g, n)
<1>1. Grown(g.heads, n.heads) BY DEF Grown
<1>2. Tracked(n) BY NameAssumption DEF WellFormed, Tracked, Grown
<1>3. QED BY <1>1, <1>2 DEF Synced

\* A fetch only brings remote-tracking refs up to date.
LEMMA FetchedSynced ==
  ASSUME NEW r \in Repo, NEW g, WellFormed(r, g), NEW n, n = Fetched(g)
  PROVE  Synced(r, g, n)
<1> g \in RepoType(r) /\ Tracked(g) BY DEF WellFormed
<1>1. n.track = [b \in Branch |-> IF g.origin[b] # Absent THEN g.origin[b] ELSE g.track[b]]
  BY RepoFields DEF Fetched, RepoType
<1>2. n.track \in RefsType BY <1>1 DEF RepoType, RefsType
<1>3. n \in RepoType(r) /\ n.at = g.at /\ n.stash = g.stash /\ n.heads = g.heads /\ n.origin = g.origin
  BY <1>2 DEF Fetched, RepoType
<1>4. Grown(g.origin, n.origin) /\ Grown(g.track, n.track) BY <1>1, <1>3 DEF Grown, Tracked
<1>5. \A b \in Branch : n.track[b] # Absent => n.origin[b] # Absent /\ n.track[b] \subseteq n.origin[b]
  BY <1>1, <1>3 DEF Tracked
<1>6. QED BY <1>3, <1>4, <1>5, RefsSynced

\* The branch of the remote takes what it is a part of.
LEMMA OriginSynced ==
  ASSUME NEW r \in Repo, NEW g, WellFormed(r, g), NEW b \in Branch, NEW h \in SUBSET Change,
         g.origin[b] # Absent => g.origin[b] \subseteq h,
         NEW n, n = [g EXCEPT !.origin[b] = h] \/ n = [g EXCEPT !.origin[b] = h, !.track[b] = h]
  PROVE  Synced(r, g, n) /\ (n.track # g.track => n.track[b] = h)
<1> g \in RepoType(r) /\ Tracked(g) BY DEF WellFormed
<1>0. h # Absent BY Histories
<1>1. n.origin = [g.origin EXCEPT ![b] = h] /\ (n.track = g.track \/ n.track = [g.track EXCEPT ![b] = h])
      /\ n.at = g.at /\ n.stash = g.stash /\ n.heads = g.heads /\ n.up = g.up
  BY DEF RepoType
<1>2. g.origin \in RefsType /\ g.track \in RefsType BY DEF RepoType
<1>3. n.origin \in RefsType /\ n.track \in RefsType BY <1>1, <1>2 DEF RefsType
<1>4. n \in RepoType(r) BY <1>1, <1>3 DEF RepoType
<1>5. /\ \A c \in Branch : n.origin[c] = IF c = b THEN h ELSE g.origin[c]
      /\ \A c \in Branch : n.track[c] = g.track[c] \/ (c = b /\ n.track[c] = h)
  BY <1>1, <1>2 DEF RefsType
<1>6. Grown(g.origin, n.origin) BY <1>0, <1>5 DEF Grown
<1>7. Grown(g.track, n.track) BY <1>0, <1>5 DEF Grown, Tracked
<1>8. \A c \in Branch : n.track[c] # Absent => n.origin[c] # Absent /\ n.track[c] \subseteq n.origin[c]
  BY <1>0, <1>5 DEF Tracked
<1>9. n.track # g.track => n.track[b] = h BY <1>1, <1>2 DEF RefsType
<1>10. QED BY <1>1, <1>4, <1>6, <1>7, <1>8, <1>9, RefsSynced

\* A wiring of a branch.
LEMMA UpSynced ==
  ASSUME NEW r \in Repo, NEW g, WellFormed(r, g), NEW b, NEW u \in Branch \cup {None}, NEW n, n = [g EXCEPT !.up[b] = u]
  PROVE  Synced(r, g, n)
<1> g \in RepoType(r) /\ Tracked(g) BY DEF WellFormed
<1>1. n.origin = g.origin /\ n.track = g.track /\ n.at = g.at /\ n.stash = g.stash /\ n.heads = g.heads
      /\ n.up = [g.up EXCEPT ![b] = u]
  BY DEF RepoType
<1>2. n.up \in [Branch -> Branch \cup {None}] BY <1>1 DEF RepoType
<1>3. n \in RepoType(r) BY <1>1, <1>2 DEF RepoType
<1>4. QED BY <1>1, <1>3, RefsSynced DEF Grown, Tracked

-----------------------------------------------------------------------------
(* What git comes back with loses nothing.                                 *)

\* The repository is still one, no change left it, and no remote-tracking
\* ref or branch lost one.
Gains(r, g, n) ==
    /\ WellFormed(r, n)
    /\ Kept(g) \subseteq Kept(n) /\ Saved(g) \subseteq Saved(n)
    /\ Grown(g.track, n.track) /\ Grown(g.heads, n.heads)

\* ... and no merge is begun, concluded, abandoned or moved, and no clean
\* checkout left dirty.
Quiet(r, g, n) ==
    \A q \in Envs(r) :
        /\ n.at[q].merging = g.at[q].merging /\ n.at[q].before = g.at[q].before
        /\ g.at[q].merging # "no" => n.at[q].tree = g.at[q].tree /\ Tip(n, q) = Tip(g, q)
Calm(r, g, n) == Gains(r, g, n) /\ KeepsClean(r, g, n) /\ Quiet(r, g, n)

\* A repository that does not change is calm.
LEMMA SameGains == ASSUME NEW r \in Repo, NEW g, WellFormed(r, g) PROVE Calm(r, g, g)
BY DEF Calm, Quiet, Gains, KeepsClean, Grown

\* The branch a move leaves behind is as it was, the one it moves grows.
LEMMA MovedHeads ==
  ASSUME NEW r \in Repo, NEW g, WellFormed(r, g), NEW p \in Envs(r), NEW n, NEW h, Moved(r, g, n, p, h),
         n.at[p].on \in {g.at[p].on, Detached}, Tip(g, p) \subseteq h
  PROVE  Grown(g.heads, n.heads)
<1>1. h # Absent BY Histories DEF Moved
<1>2. ASSUME NEW b \in Branch, b = n.at[p].on PROVE g.heads[b] \subseteq h
  <2>1. b # Detached /\ g.at[p].on = b BY <1>2, NameAssumption
  <2>2. QED BY <2>1 DEF Tip
<1>3. QED BY <1>1, <1>2 DEF Grown, Moved

\* Bringing refs up to date is calm.
LEMMA SyncedGains ==
  ASSUME NEW r \in Repo, NEW g, WellFormed(r, g), NEW n, Synced(r, g, n)
  PROVE  Calm(r, g, n)
BY SyncedTip, SyncedClean DEF Calm, Quiet, Gains, Synced

\* A successful integration moves the checkout to a larger tip, and is calm.
LEMMA MovesGain ==
  ASSUME NEW r \in Repo, NEW g, WellFormed(r, g), NEW p \in Envs(r), g.at[p].merging = "no",
         NEW h \in SUBSET Change, Tip(g, p) \subseteq h, NEW autostash, NEW n \in Moves(g, p, h, autostash)
  PROVE  Moved(r, g, n, p, h) /\ Calm(r, g, n)
<1> DOMAIN g.at = Envs(r) BY RepoFields DEF WellFormed
<1>1. CASE n = MoveWithTree(g, p, h)
  <2>1. Moved(r, g, n, p, h) /\ n.stash = g.stash /\ n.at[p].tree = Carried(g, p, h) /\ Rest(n.at[p], g.at[p])
    BY <1>1, MoveWithTreeMoved
  <2>2. Tip(g, p) \cup g.at[p].tree \subseteq h \cup n.at[p].tree BY <2>1 DEF Carried
  <2>3. Kept(g) \subseteq Kept(n) BY <2>1, <2>2, MovedKept DEF Rest, Fields
  <2>4. ~Dirty(g, p) => n.at[p].tree = h BY <2>1 DEF Carried, Dirty
  <2>5. KeepsClean(r, g, n) BY <2>1, <2>4, MovedClean
  <2>6. Grown(g.heads, n.heads) BY <2>1, MovedHeads DEF Rest, Fields
  <2>7. Quiet(r, g, n) BY <2>1, MovedTip DEF Quiet, Rest, Moved
  <2>8. QED BY <2>1, <2>3, <2>5, <2>6, <2>7, MovedTip DEF Calm, Gains
<1>2. CASE Dirty(g, p) /\ n = Parked(g, p, h)
  <2>1. /\ Moved(r, g, n, p, h) /\ n.stash = g.stash \cup (g.at[p].tree \ Tip(g, p)) /\ n.at[p].tree = h
        /\ Rest(n.at[p], g.at[p])
    BY <1>2, ParkedMoved
  <2>2. Tip(g, p) \cup g.at[p].tree \subseteq h \cup n.stash BY <2>1
  <2>3. Kept(g) \subseteq Kept(n) BY <2>1, <2>2, MovedKept DEF Rest, Fields
  <2>4. KeepsClean(r, g, n) BY <2>1, MovedClean
  <2>5. Grown(g.heads, n.heads) BY <2>1, MovedHeads DEF Rest, Fields
  <2>6. Quiet(r, g, n) BY <2>1, MovedTip DEF Quiet, Rest, Moved
  <2>7. QED BY <2>1, <2>3, <2>4, <2>5, <2>6, MovedTip DEF Calm, Gains
<1>3. QED BY <1>1, <1>2 DEF Moves

\* A fast-forward: what it calls diverged is as it was, and holds a change
\* less than the target.
LEMMA FastForwardGains ==
  ASSUME NEW r \in Repo, NEW g, WellFormed(r, g), NEW p \in Envs(r), NEW h \in SUBSET Change,
         NEW autostash, NEW o \in FastForward(g, p, h, autostash)
  PROVE  /\ Calm(r, g, o.repo)
         /\ Moved(r, g, o.repo, p, Tip(o.repo, p))
         /\ o.result \in {"diverged", "up_to_date", "fast_forwarded"}
         /\ o.result = "diverged" => o.repo = g /\ (g.at[p].merging = "no" => ~(h \subseteq Tip(g, p)))
<1>1. CASE o = Outcome(g, "diverged") /\ (g.at[p].merging # "no" \/ ~(h \subseteq Tip(g, p)))
  BY <1>1, SameGains, SelfMoved DEF Outcome
<1>2. CASE o = Outcome(g, "up_to_date") BY <1>2, SameGains, SelfMoved DEF Outcome
<1>3. ASSUME g.at[p].merging = "no", Tip(g, p) \subseteq h,
             NEW n \in Moves(g, p, h, autostash), o = Outcome(n, "fast_forwarded")
      PROVE  /\ Calm(r, g, o.repo)
             /\ Moved(r, g, o.repo, p, Tip(o.repo, p))
             /\ o.result = "fast_forwarded"
  <2>1. Moved(r, g, n, p, h) /\ Calm(r, g, n) BY <1>3, MovesGain
  <2>2. Tip(n, p) = h BY <2>1, MovedTip
  <2>3. QED BY <1>3, <2>1, <2>2 DEF Outcome
<1>4. QED BY <1>1, <1>2, <1>3 DEF FastForward

\* A second attempt: it moved HEAD, failed and left all as it was, or
\* stopped with the tree it began with on record.
LEMMA ThreeWayGains ==
  ASSUME NEW r \in Repo, NEW g, WellFormed(r, g), NEW p \in Envs(r), NEW h \in SUBSET Change,
         NEW kind \in {"merge", "rebase"}, NEW autostash, NEW o \in ThreeWay(g, p, h, kind, autostash)
  PROVE  /\ Gains(r, g, o.repo) /\ KeepsClean(r, g, o.repo)
         /\ Moved(r, g, o.repo, p, Tip(o.repo, p))
         /\ o.result \in {"failed", "merged", "rebased"}
         /\ o.result # "failed" => Calm(r, g, o.repo) /\ g.at[p].merging = "no"
         /\ o.result = "failed" => \/ o.repo = g
                                   \/ g.at[p].merging = "no" /\ o.repo = Stopped(g, p, h, kind)
<1> DOMAIN g.at = Envs(r) BY RepoFields DEF WellFormed
<1>1. CASE o = Outcome(g, "failed") BY <1>1, SameGains, SelfMoved DEF Outcome, Calm
<1>2. ASSUME g.at[p].merging = "no", o = Outcome(Stopped(g, p, h, kind), "failed")
      PROVE  Gains(r, g, o.repo) /\ KeepsClean(r, g, o.repo) /\ Moved(r, g, o.repo, p, Tip(o.repo, p))
  <2> DEFINE n == Stopped(g, p, h, kind)
  <2>1. /\ Moved(r, g, n, p, Tip(g, p)) /\ n.stash = g.stash /\ Fields(n.at[p], g.at[p])
        /\ n.at[p].tree = g.at[p].tree \cup h /\ n.at[p].merging = kind /\ n.at[p].before = g.at[p].tree
    BY StoppedMoved
  <2>2. o.repo = n BY <1>2 DEF Outcome
  <2> HIDE DEF n
  <2>3. Kept(g) \subseteq Kept(n) BY <2>1, MovedKept DEF Fields
  <2>4. KeepsClean(r, g, n) BY <2>1, MovedClean
  <2>5. Tip(n, p) = Tip(g, p) BY <2>1, MovedTip
  <2>6. Grown(g.heads, n.heads) BY <2>1, MovedHeads DEF Fields
  <2>7. QED BY <2>1, <2>2, <2>3, <2>4, <2>5, <2>6, MovedTip DEF Gains
<1>3. ASSUME g.at[p].merging = "no", NEW n \in Moves(g, p, Tip(g, p) \cup h, autostash), o.repo = n
      PROVE  Calm(r, g, o.repo) /\ Moved(r, g, o.repo, p, Tip(o.repo, p))
  <2> DEFINE k == Tip(g, p) \cup h
  <2>1. k \in SUBSET Change /\ Tip(g, p) \subseteq k BY TipType
  <2> HIDE DEF k
  <2>2. Moved(r, g, n, p, k) /\ Calm(r, g, n)
    BY <1>3, <2>1, MovesGain DEF k
  <2>3. Tip(n, p) = k BY <2>2, MovedTip
  <2>4. QED BY <1>3, <2>2, <2>3
<1>4. CASE g.at[p].merging # "no" BY <1>1, <1>4 DEF ThreeWay
<1>5. CASE g.at[p].merging = "no"
  <2>1. \/ \E n \in Moves(g, p, Tip(g, p) \cup h, autostash) :
              o = Outcome(n, IF kind = "rebase" THEN "rebased" ELSE "merged")
        \/ o = Outcome(Stopped(g, p, h, kind), "failed")
        \/ o = Outcome(g, "failed")
    BY <1>5 DEF ThreeWay
  <2>2. QED BY <1>1, <1>2, <1>3, <1>5, <2>1 DEF Outcome, Calm
<1>6. QED BY <1>4, <1>5

\* The workspace's copy of a pushed branch, which was at a part of what was pushed.
LEMMA FollowPushGains ==
  ASSUME NEW r \in Repo, NEW g, WellFormed(r, g), NEW b \in Branch, NEW pre, pre \subseteq g.track[b],
         g.track[b] # Absent, NEW o \in FollowPush(g, b, pre)
  PROVE  Calm(r, g, o.repo)
<1> DEFINE new == g.track[b]
           q == CHOOSE p \in CheckedOutOn(g, b) : TRUE
           n == [g EXCEPT !.heads[b] = new]
<1> g \in RepoType(r) /\ Tracked(g) BY DEF WellFormed
<1>0. DOMAIN g.at = Envs(r) /\ new \in SUBSET Change BY RepoFields
<1>1. CASE o.repo = g BY <1>1, SameGains
<1>2. ASSUME g.heads[b] = pre, CheckedOutOn(g, b) = {}, o = Outcome(n, "advanced")
      PROVE  Calm(r, g, o.repo)
  <2>1. /\ n.at = g.at /\ n.stash = g.stash /\ n.origin = g.origin /\ n.track = g.track /\ n.up = g.up
        /\ n.heads = [g.heads EXCEPT ![b] = new]
    BY DEF RepoType
  <2>2. n \in RepoType(r) BY <1>0 DEF RepoType, RefsType
  <2>3. \A c \in Branch : n.heads[c] = IF c = b THEN new ELSE g.heads[c] BY <2>1, RepoFields
  <2>4. Grown(g.heads, n.heads) BY <1>2, <2>3 DEF Grown
  <2>5. ASSUME NEW s \in Envs(r), g.at[s].on # Detached PROVE n.heads[g.at[s].on] = g.heads[g.at[s].on]
    <3>1. g.at[s].on \in Branch BY <2>5, RepoFields DEF CheckoutType
    <3>2. g.at[s].on # b BY <1>0, <1>2 DEF CheckedOutOn
    <3>3. QED BY <2>3, <3>1, <3>2
  <2>6. Grown(g.origin, n.origin) /\ Grown(g.track, n.track) /\ Tracked(n) BY <2>1 DEF Grown, Tracked
  <2>7. o.repo = n BY <1>2 DEF Outcome
  <2> HIDE DEF n
  <2>8. Synced(r, g, n) BY <2>1, <2>2, <2>4, <2>5, <2>6 DEF Synced
  <2>9. QED BY <2>7, <2>8, SyncedGains
<1>3. ASSUME CheckedOutOn(g, b) # {}, NEW f \in FastForward(g, q, new, FALSE), o.repo = g \/ o.repo = f.repo
      PROVE  Calm(r, g, o.repo)
  <2>1. q \in Envs(r) BY <1>0, <1>3 DEF CheckedOutOn
  <2> HIDE DEF q, new
  <2>2. Calm(r, g, f.repo) BY <1>0, <1>3, <2>1, FastForwardGains
  <2>3. QED BY <1>1, <1>3, <2>2
<1>4. \/ o.repo = g
      \/ g.heads[b] = pre /\ CheckedOutOn(g, b) = {} /\ o = Outcome(n, "advanced")
      \/ CheckedOutOn(g, b) # {} /\ \E f \in FastForward(g, q, new, FALSE) : o.repo = g \/ o.repo = f.repo
  <2> HIDE DEF n, q
  <2>1. \/ o \in {Outcome(g, "none"), Outcome(g, "not in sync"), Outcome(g, "dirty")}
        \/ g.heads[b] = pre /\ CheckedOutOn(g, b) = {} /\ o = Outcome(n, "advanced")
        \/ /\ CheckedOutOn(g, b) # {}
           /\ o \in {IF f.result = "diverged" THEN Outcome(g, "ff failed")
                     ELSE Outcome(f.repo, "advanced") : f \in FastForward(g, q, new, FALSE)}
    BY DEF FollowPush, n, q
  <2>2. ASSUME NEW f \in FastForward(g, q, new, FALSE),
               o = IF f.result = "diverged" THEN Outcome(g, "ff failed") ELSE Outcome(f.repo, "advanced")
        PROVE  o.repo = g \/ o.repo = f.repo
    BY <2>2 DEF Outcome
  <2>3. ASSUME NEW x, o = Outcome(g, x) PROVE o.repo = g BY <2>3 DEF Outcome
  <2> HIDE DEF new
  <2>4. QED BY <2>1, <2>2, <2>3
<1>5. QED BY <1>1, <1>2, <1>3, <1>4

\* A move that discards: the rest of the repository is as before.
LEMMA DiscardGains ==
  ASSUME NEW r \in Repo, NEW g, WellFormed(r, g), NEW p \in Envs(r), NEW n, NEW h, Moved(r, g, n, p, h),
         n.at[p].tree = h, n.at[p].merging = "no"
  PROVE  /\ WellFormed(r, n) /\ Saved(g) \subseteq Saved(n) /\ Grown(g.track, n.track)
         /\ KeepsClean(r, g, n)
BY MovedTip, MovedClean

\* A reset that keeps the tree drops no more than commits the tree does not show.
LEMMA ResetGains ==
  ASSUME NEW r \in Repo, NEW g, WellFormed(r, g), NEW p \in Envs(r), NEW ref, Ref(g, ref) \in SUBSET Change,
         NEW mode \in {"soft", "mixed"}, NEW n, n = ResetTo(g, p, mode, ref)
  PROVE  /\ WellFormed(r, n) /\ Saved(g) \subseteq Saved(n) /\ Grown(g.track, n.track)
         /\ Kept(g) \ (Tip(g, p) \ g.at[p].tree) \subseteq Kept(n)
<1> DEFINE h == Ref(g, ref)
           X == Tip(g, p) \ g.at[p].tree
<1>1. Moved(r, g, n, p, h) /\ n.stash = g.stash /\ Fields(n.at[p], g.at[p]) /\ n.at[p].tree = g.at[p].tree
  BY ResetMoved
<1>2. WellFormed(r, n) /\ Saved(n) = Saved(g) /\ Grown(g.track, n.track) BY <1>1, MovedTip
<1> HIDE DEF h
<1>3. Tip(g, p) \cup g.at[p].tree \subseteq n.at[p].tree \cup Kept(n) \cup X BY <1>1
<1> HIDE DEF X
<1>4. Kept(g) \ X \subseteq Kept(n) BY <1>1, <1>3, MovedKeptBut DEF Fields
<1>5. QED BY <1>2, <1>4 DEF X

\* The index and the files of a checkout: an edit, an unconcluded merge, an untracked file.
LEMMA EditGains ==
  ASSUME NEW r \in Repo, NEW g, WellFormed(r, g), NEW p \in Envs(r), NEW n,
         NEW c \in CheckoutType, c.on = g.at[p].on, c.detached = g.at[p].detached, g.at[p].tree \subseteq c.tree,
         n = With(g, p, c, g.stash)
  PROVE  /\ Moved(r, g, n, p, Tip(g, p)) /\ Gains(r, g, n) /\ n.at[p] = c /\ n.stash = g.stash
         /\ c.tree = g.at[p].tree => KeepsClean(r, g, n)
<1>0. DOMAIN g.at = Envs(r) BY RepoFields DEF WellFormed
<1>1. Moved(r, g, n, p, Tip(g, p)) /\ n.stash = g.stash /\ n.at[p] = c BY EditMoved
<1>2. Kept(g) \subseteq Kept(n) BY <1>1, MovedKept
<1>3. c.tree = g.at[p].tree => KeepsClean(r, g, n) BY <1>1, MovedClean DEF Dirty
<1>4. Grown(g.heads, n.heads) BY <1>1, MovedHeads
<1>5. QED BY <1>1, <1>2, <1>3, <1>4, MovedTip DEF Gains

Loosened(g, p) == [g EXCEPT !.at[p].on = Detached, !.at[p].detached = Tip(g, p)]

\* Detaching a head loses nothing and moves no tip.
LEMMA DetachGains ==
  ASSUME NEW r \in Repo, NEW g, WellFormed(r, g), NEW p \in Envs(r), NEW n, n = Loosened(g, p)
  PROVE  /\ Moved(r, g, n, p, Tip(g, p)) /\ Gains(r, g, n) /\ n.stash = g.stash
         /\ n.at[p].merging = g.at[p].merging /\ n.at[p].before = g.at[p].before
         /\ n.at[p].tree = g.at[p].tree
<1> DEFINE h == Tip(g, p)
           c == [g.at[p] EXCEPT !.on = Detached, !.detached = h]
<1>0. DOMAIN g.at = Envs(r) /\ g.at[p] \in CheckoutType /\ g \in RepoType(r) /\ g.stash \in SUBSET Change
  BY RepoFields DEF WellFormed
<1>1. h \in SUBSET Change BY TipType
<1> HIDE DEF h
<1>2. /\ c \in CheckoutType /\ c.on = Detached /\ c.detached = h /\ c.tree = g.at[p].tree
      /\ c.merging = g.at[p].merging /\ c.before = g.at[p].before
  BY <1>0, <1>1 DEF CheckoutType
<1>3. n = With(g, p, c, g.stash) BY <1>0 DEF With, RepoType, h, Loosened
<1> HIDE DEF c
<1>4. /\ n \in RepoType(r) /\ n.origin = g.origin /\ n.track = g.track /\ n.heads = g.heads
      /\ n.at[p] = c /\ n.stash = g.stash /\ \A q \in Envs(r) \ {p} : n.at[q] = g.at[q]
  BY <1>0, <1>2, <1>3, WithFields
<1>5. Moved(r, g, n, p, h) BY <1>1, <1>2, <1>4, NameAssumption DEF Moved
<1>6. Kept(g) \subseteq Kept(n) BY <1>2, <1>4, <1>5, MovedKept DEF h
<1>7. Grown(g.heads, n.heads) BY <1>4 DEF Grown
<1>8. QED BY <1>2, <1>4, <1>5, <1>6, <1>7, MovedTip DEF Gains, h

-----------------------------------------------------------------------------
(* The shape of a state. *)

\* The steps a lane of a command takes.
Steps(op) ==
    CASE op = "fetch"    -> {"fetch", "source"}
      [] op = "pull"     -> {"fetch", "source", "integrate", "second", "abort", "collect"}
      [] op = "merge"    -> {"integrate", "second", "abort", "collect"}
      [] op = "push"     -> {"push", "send", "follow"}
      [] op = "checkout" -> {"classify", "move", "track"}
      [] op = "reset"    -> {"ask", "classify", "move"}
      [] op = "clean"    -> {"preview", "ask", "remove"}
      [] OTHER           -> {op}

\* A second attempt remembers the ref of the first.  A push that is under
\* way remembers the branch it goes to, and where the remote-tracking ref
\* was: a part of where it is now.
HeldOk(t) ==
    /\ t.step = "second" => t.held \in RefName
    /\ t.step \in {"send", "follow"} =>
          /\ t.held.branch \in Branch
          /\ LET ref == repo[First(t.jobs)[1]].track[t.held.branch]
             IN  /\ t.held.tip # Absent => t.held.tip \subseteq ref /\ ref # Absent
                 /\ t.step = "follow" => ref # Absent

\* A lane has jobs of its own as long as it takes steps, and these are steps
\* of the command that runs.
LaneOk(l) ==
    LET t == lane[l]
    IN  /\ DOMAIN t = {"jobs", "step", "tries", "held", "base"}
        /\ t.step \notin {"over", "raised"} =>
              /\ run.phase = "running" /\ cmd \in Commands /\ t.step \in Steps(cmd.op)
              /\ t.jobs # {} /\ t.jobs \subseteq Spots
              /\ l = Caller <=> cmd.op \notin Pooled
              /\ l # Caller => \A w \in t.jobs : w[1] = l
              /\ cmd.op \notin Pooled \cup {"push"} => t.jobs \subseteq Targets(cmd)
              /\ t.step \in {"second", "abort"} => cmd.mode # "ff_only"
              /\ HeldOk(t)

TypeInv ==
    /\ DOMAIN repo = Repo /\ \A r \in Repo : WellFormed(r, repo[r])
    /\ DOMAIN run = {"phase", "exit"} /\ run.phase \in {"idle", "running"}
    /\ run.phase = "running" => cmd \in Commands
    /\ DOMAIN lane = Lanes /\ \A l \in Lanes : LaneOk(l)
    /\ DOMAIN seen = Repo

-----------------------------------------------------------------------------
(* The lanes. *)

IsThread(t) == DOMAIN t = {"jobs", "step", "tries", "held", "base"}

\* A fresh lane is a lane, with the jobs and the step it is given.
LEMMA ThreadIs ==
  ASSUME NEW jobs, NEW step
  PROVE  /\ IsThread(Thread(jobs, step))
         /\ Thread(jobs, step).jobs = jobs /\ Thread(jobs, step).step = step
BY DEF Thread, IsThread

\* The two lanes that have nothing left to do.
LEMMA OverIs == IsThread(Over) /\ IsThread(Raised) /\ Over.step = "over" /\ Raised.step = "raised" /\ Over.jobs = {}
BY ThreadIs DEF Over, Raised

\* A step of one lane leaves the others where they are.
LEMMA LaneSet ==
  ASSUME DOMAIN lane = Lanes, NEW l \in Lanes, NEW t, lane' = [lane EXCEPT ![l] = t]
  PROVE  DOMAIN lane' = Lanes /\ lane'[l] = t /\ \A k \in Lanes \ {l} : lane'[k] = lane[k]
OBVIOUS

\* A lane that goes to a step keeps its jobs, and the other lanes stay.
LEMMA GotoIs ==
  ASSUME DOMAIN lane = Lanes, NEW l \in Lanes, IsThread(lane[l]), NEW step, Goto(l, step)
  PROVE  /\ DOMAIN lane' = Lanes /\ \A k \in Lanes \ {l} : lane'[k] = lane[k]
         /\ IsThread(lane'[l]) /\ lane'[l].step = step /\ lane'[l].jobs = lane[l].jobs
         /\ lane'[l].held = lane[l].held /\ lane'[l].base = lane[l].base
BY DEF Goto, IsThread

\* A lane that is through with its job is over or has one job fewer.
LEMMA Next1Is ==
  ASSUME DOMAIN lane = Lanes, NEW l \in Lanes, NEW step, Next1(l, step)
  PROVE  /\ DOMAIN lane' = Lanes /\ \A k \in Lanes \ {l} : lane'[k] = lane[k]
         /\ \/ lane'[l] = Over
            \/ /\ lane'[l] = Thread(lane[l].jobs \ {Job(l)}, step)
               /\ lane[l].jobs # {Job(l)}
BY DEF Next1

\* The checkout a lane works on is one of the workspace's, and its own.
LEMMA JobIs ==
  ASSUME TypeInv, NEW l \in Lanes, lane[l].step \notin {"over", "raised"}
  PROVE  /\ Job(l) \in lane[l].jobs /\ Job(l) \in Spots /\ Job(l) = <<Job(l)[1], Job(l)[2]>>
         /\ Job(l)[1] \in Repo /\ Job(l)[2] \in Envs(Job(l)[1])
         /\ l # Caller => l \in Repo /\ Job(l)[1] = l
         /\ cmd \in Commands /\ cmd \in CommandType /\ lane[l].step \in Steps(cmd.op)
         /\ run.phase = "running" /\ (l = Caller <=> cmd.op \notin Pooled)
         /\ IsThread(lane[l])
<1>1. LaneOk(l) BY DEF TypeInv
<1>2. Job(l) \in lane[l].jobs /\ lane[l].jobs \subseteq Spots BY <1>1, FirstJob DEF LaneOk, Job
<1>3. Job(l) \in Spots BY <1>2
<1>4. Job(l) = <<Job(l)[1], Job(l)[2]>> /\ Job(l)[1] \in Repo /\ Job(l)[2] \in Envs(Job(l)[1])
  BY <1>3 DEF Spots
<1>5. QED BY <1>1, <1>2, <1>3, <1>4, CommandsAssumption DEF LaneOk, IsThread, Lanes

\* A lane that does not move stays as it should be, as long as the command
\* runs and the remote-tracking refs only grow.
TrackGrown == \A r \in Repo : Grown(repo[r].track, repo'[r].track)

\* A lane that does not step stays well-formed while its repository grows.
LEMMA LaneStays ==
  ASSUME TypeInv, NEW k \in Lanes, lane'[k] = lane[k], run'.phase = run.phase, cmd' = cmd, TrackGrown
  PROVE  LaneOk(k)'
<1>1. LaneOk(k) BY DEF TypeInv
<1>2. CASE lane[k].step \in {"over", "raised"} BY <1>1, <1>2 DEF LaneOk
<1>3. CASE lane[k].step \notin {"over", "raised"}
  <2> DEFINE t == lane[k]
             r == First(t.jobs)[1]
  <2>1. r \in Repo BY <1>3, JobIs DEF Job
  <2>2. Grown(repo[r].track, repo'[r].track) BY <2>1 DEF TrackGrown
  <2>3. HeldOk(t) BY <1>1, <1>3 DEF LaneOk
  <2> HIDE DEF r
  <2>4. HeldOk(t)' BY <2>2, <2>3 DEF HeldOk, Grown, r
  <2>5. QED BY <1>1, <1>3, <2>4 DEF LaneOk
<1>4. QED BY <1>2, <1>3

\* The command a step belongs to.
LEMMA StepsOf ==
  ASSUME NEW c \in CommandType, NEW step \in Steps(c.op)
  PROVE  /\ step \in {"fetch", "source"} => c.op \in {"fetch", "pull"}
         /\ step \in {"integrate", "second", "abort", "collect"} => c.op \in {"pull", "merge"}
         /\ step \in {"push", "send", "follow"} => c.op = "push"
         /\ step = "track" => c.op = "checkout"
         /\ step \in {"classify", "move"} => c.op \in {"checkout", "reset"}
         /\ step = "ask" => c.op \in {"reset", "clean"}
         /\ step \in {"preview", "remove"} => c.op = "clean"
         /\ step = "connect" => c.op = "connect"
         /\ step = "disconnect" => c.op = "disconnect"
         /\ step \notin {"over", "raised"}
BY DEF CommandType, Steps

\* A lane that takes another step of its command, on what is left of its jobs.
LEMMA Advance ==
  ASSUME TypeInv, NEW l \in Lanes, lane[l].step \notin {"over", "raised"}, run'.phase = run.phase, cmd' = cmd,
         IsThread(lane'[l]), lane'[l].step \in Steps(cmd.op), HeldOk(lane[l])',
         lane'[l].step \in {"second", "abort"} => cmd.mode # "ff_only",
         lane'[l].jobs # {},
         \/ lane'[l].jobs \subseteq lane[l].jobs
         \/ l = Caller /\ cmd.op # "push" /\ lane'[l].jobs \subseteq Targets(cmd)
  PROVE  LaneOk(l)'
<1>1. LaneOk(l) BY DEF TypeInv
<1>2. Targets(cmd) \subseteq Spots BY Disk DEF Targets
<1>3. QED BY <1>1, <1>2, CommandsAssumption, StepsOf DEF LaneOk, IsThread

\* A lane that is over or has raised is well-formed.
LEMMA Ends ==
  ASSUME NEW l, lane'[l] \in {Over, Raised}
  PROVE  LaneOk(l)'
BY OverIs DEF LaneOk, IsThread

\* One lane moves, and the repositories are still repositories.
RepoOk == DOMAIN repo' = Repo /\ \A r \in Repo : WellFormed(r, repo'[r])
Moves1(l) == DOMAIN lane' = Lanes /\ (\A k \in Lanes \ {l} : lane'[k] = lane[k]) /\ LaneOk(l)'

\* A lane that goes to a step of its command is well-formed after it.
LEMMA GotoOk ==
  ASSUME TypeInv, NEW l \in Lanes, lane[l].step \notin {"over", "raised"}, run'.phase = run.phase, cmd' = cmd,
         NEW step \in Steps(cmd.op) \ {"send", "follow", "second"}, step = "abort" => cmd.mode # "ff_only",
         Goto(l, step)
  PROVE  Moves1(l) /\ lane'[l].step = step /\ lane'[l].jobs = lane[l].jobs /\ lane'[l].held = lane[l].held
         /\ lane'[l].base = lane[l].base /\ Job(l)' = Job(l)
<1>1. DOMAIN lane = Lanes /\ LaneOk(l) BY DEF TypeInv
<1>2. IsThread(lane[l]) /\ lane[l].jobs # {} BY <1>1 DEF LaneOk, IsThread
<1>3. /\ DOMAIN lane' = Lanes /\ \A k \in Lanes \ {l} : lane'[k] = lane[k]
      /\ IsThread(lane'[l]) /\ lane'[l].step = step /\ lane'[l].jobs = lane[l].jobs
      /\ lane'[l].held = lane[l].held /\ lane'[l].base = lane[l].base
  BY <1>1, <1>2, GotoIs
<1>4. HeldOk(lane[l])' BY <1>3 DEF HeldOk
<1>6. LaneOk(l)' BY <1>2, <1>3, <1>4, Advance
<1>5. QED BY <1>3, <1>6 DEF Moves1, Job

\* A lane that turns to its next job is well-formed after it.
LEMMA Next1Ok ==
  ASSUME TypeInv, NEW l \in Lanes, lane[l].step \notin {"over", "raised"}, run'.phase = run.phase, cmd' = cmd,
         NEW step \in Steps(cmd.op) \ {"send", "follow", "second", "abort"}, Next1(l, step)
  PROVE  Moves1(l) /\ lane'[l].step \in {"over", step} /\ lane'[l].jobs \subseteq lane[l].jobs \ {Job(l)}
<1>1. DOMAIN lane = Lanes /\ LaneOk(l) BY DEF TypeInv
<1>2. /\ DOMAIN lane' = Lanes /\ \A k \in Lanes \ {l} : lane'[k] = lane[k]
      /\ \/ lane'[l] = Over
         \/ /\ lane'[l] = Thread(lane[l].jobs \ {Job(l)}, step)
            /\ lane[l].jobs # {Job(l)}
  BY <1>1, Next1Is
<1>3. CASE lane'[l] = Over BY <1>2, <1>3, Ends, OverIs DEF Moves1
<1>4. CASE lane'[l] = Thread(lane[l].jobs \ {Job(l)}, step) /\ lane[l].jobs # {Job(l)}
  <2>1. lane[l].jobs # {} BY <1>1 DEF LaneOk
  <2>2. lane[l].jobs \ {Job(l)} # {} BY <1>4, <2>1
  <2>3. IsThread(lane'[l]) /\ lane'[l].jobs = lane[l].jobs \ {Job(l)} /\ lane'[l].step = step BY <1>4, ThreadIs
  <2>4. HeldOk(lane[l])' BY <2>3 DEF HeldOk
  <2>5. LaneOk(l)' BY <2>2, <2>3, <2>4, Advance
  <2>6. QED BY <1>2, <2>3, <2>5 DEF Moves1
<1>5. QED BY <1>2, <1>3, <1>4

\* A lane that ends is well-formed, and the others are as before.
LEMMA EndsOk ==
  ASSUME TypeInv, NEW l \in Lanes, NEW t \in {Over, Raised}, lane' = [lane EXCEPT ![l] = t]
  PROVE  Moves1(l) /\ lane'[l] = t
<1>1. DOMAIN lane = Lanes BY DEF TypeInv
<1>2. QED BY <1>1, LaneSet, Ends DEF Moves1

\* The type invariant of a step of one lane, from its parts.
LEMMA TypeStep ==
  ASSUME TypeInv, NEW l \in Lanes, Moves1(l), RepoOk, TrackGrown, cmd' = cmd,
         DOMAIN run' = {"phase", "exit"}, run'.phase = run.phase, DOMAIN seen' = Repo
  PROVE  TypeInv'
<1>1. ASSUME NEW k \in Lanes PROVE LaneOk(k)'
  <2>1. CASE k = l BY <2>1 DEF Moves1
  <2>2. CASE k # l
    <3>1. lane'[k] = lane[k] BY <2>2 DEF Moves1
    <3>2. QED BY <3>1, LaneStays
  <2>3. QED BY <2>1, <2>2
<1>2. DOMAIN lane' = Lanes BY DEF Moves1
<1>3. Lanes' = Lanes BY DEF Lanes
<1>4. QED BY <1>1, <1>2, <1>3 DEF TypeInv, RepoOk

\* One repository changes.
Only(r) == DOMAIN repo' = Repo /\ \A s \in Repo \ {r} : repo'[s] = repo[s]

\* Assigning one repository changes that one only.
LEMMA OnlySet ==
  ASSUME TypeInv, NEW r \in Repo, NEW n, repo' = [repo EXCEPT ![r] = n]
  PROVE  Only(r) /\ repo'[r] = n
BY DEF TypeInv, Only

\* If the one repository that changes is well-formed after it, all are.
LEMMA OnlyOk ==
  ASSUME TypeInv, NEW r \in Repo, Only(r), WellFormed(r, repo'[r]), Grown(repo[r].track, repo'[r].track)
  PROVE  RepoOk /\ TrackGrown
BY DEF TypeInv, Only, RepoOk, TrackGrown, Grown

\* If no repository changes, all stay well-formed.
LEMMA SameOk == ASSUME TypeInv, repo' = repo PROVE RepoOk /\ TrackGrown
BY DEF TypeInv, RepoOk, TrackGrown, Grown

-----------------------------------------------------------------------------
(* The steps of fetch, pull and merge. *)

\* A ref that resolves is a history, and what it holds is in the repository.
LEMMA RefHistory ==
  ASSUME NEW r \in Repo, NEW g \in RepoType(r), NEW ref \in RefName, HasRef(g, ref)
  PROVE  /\ Ref(g, ref) \in SUBSET Change
         /\ ref[1] = "remote" => Ref(g, ref) \subseteq Saved(g)
         /\ ref[1] \in {"remote", "local", "sha"}
         /\ ref[1] = "sha" => Ref(g, ref) = ref[2]
<1>1. DOMAIN g.track = Branch /\ DOMAIN g.heads = Branch
      /\ (\A b \in Branch : g.heads[b] # Absent => g.heads[b] \in SUBSET Change)
      /\ (\A b \in Branch : g.track[b] # Absent => g.track[b] \in SUBSET Change)
  BY RepoFields
<1>2. CASE ref \in {"remote"} \X Branch
  <2>1. ref[1] = "remote" /\ ref[2] \in Branch BY <1>2
  <2>2. Ref(g, ref) = g.track[ref[2]] BY <1>1, <2>1 DEF Ref, Lookup
  <2>3. g.track[ref[2]] # Absent BY <2>2 DEF HasRef
  <2>4. g.track[ref[2]] \subseteq Saved(g) BY <1>1, <2>1, <2>3, SavedIs
  <2>5. QED BY <1>1, <2>1, <2>2, <2>3, <2>4
<1>3. CASE ref \in {"local"} \X Branch
  <2>1. ref[1] = "local" /\ ref[2] \in Branch BY <1>3
  <2>2. Ref(g, ref) = g.heads[ref[2]] BY <1>1, <2>1 DEF Ref, Lookup
  <2>3. g.heads[ref[2]] # Absent BY <2>2 DEF HasRef
  <2>4. QED BY <1>1, <2>1, <2>2, <2>3
<1>4. CASE ref \in {"sha"} \X SUBSET Change
  <2>1. ref[1] = "sha" /\ ref[2] \in SUBSET Change BY <1>4
  <2>2. QED BY <2>1 DEF Ref
<1>5. QED BY <1>2, <1>3, <1>4 DEF RefName

\* The remote's main can always be named and resolved.
LEMMA MainKnown ==
  ASSUME NEW r \in Repo, NEW g, WellFormed(r, g)
  PROVE  OriginMain \in RefName /\ HasRef(g, OriginMain) /\ OriginMain[1] = "remote"
<1>1. OriginMain \in RefName /\ OriginMain[1] = "remote" /\ OriginMain[2] = Main BY NameAssumption DEF OriginMain, RefName
<1>2. Main \in DOMAIN g.track /\ g.track[Main] # Absent BY NameAssumption, RepoFields DEF WellFormed, Tracked
<1>3. QED BY <1>1, <1>2 DEF HasRef, Ref, Lookup

\* The steps of the pool are taken by the lane of a repository, in one of
\* its checkouts.
LEMMA PoolLane ==
  ASSUME TypeInv, NEW l \in Lanes, lane[l].step \in {"fetch", "source", "integrate", "second", "abort", "collect"}
  PROVE  /\ l \in Repo /\ l # Caller /\ WellFormed(l, repo[l]) /\ Job(l)[2] \in Envs(l) /\ Source \in Envs(l)
         /\ cmd.op \in Pooled
<1>1. lane[l].step \notin {"over", "raised"} OBVIOUS
<1>2. cmd.op \in Pooled BY <1>1, JobIs, StepsOf DEF Pooled
<1>3. QED BY <1>1, <1>2, JobIs DEF TypeInv, Envs

\* A step of the lane l may change its own repository, and calmly.
Calmly(r) == r \in Repo /\ Only(r) /\ Calm(r, repo[r], repo'[r])

\* A lane's step that changes one repository calmly preserves the types.
LEMMA CalmStep ==
  ASSUME TypeInv, NEW l \in Lanes, Moves1(l), cmd' = cmd, run' = run, DOMAIN seen' = Repo,
         NEW r \in Repo, Only(r), Calm(r, repo[r], repo'[r])
  PROVE  TypeInv' /\ Calmly(r)
<1>1. RepoOk /\ TrackGrown BY OnlyOk DEF Calm, Gains
<1>2. QED BY <1>1, TypeStep DEF TypeInv, Calmly

\* A lane's step that changes no repository preserves the types.
LEMMA StillStep ==
  ASSUME TypeInv, NEW l \in Lanes, Moves1(l), cmd' = cmd, repo' = repo,
         DOMAIN run' = {"phase", "exit"}, run'.phase = run.phase, DOMAIN seen' = Repo
  PROVE  TypeInv'
BY SameOk, TypeStep

\* Collecting an outcome, or a raise, changes no repository.
LEMMA CollectStep ==
  ASSUME TypeInv, NEW l \in Lanes, Collect(l) \/ CollectRaised(l) \/ Raises(l)
  PROVE  TypeInv' /\ repo' = repo
<1>0. DOMAIN run = {"phase", "exit"} /\ DOMAIN seen = Repo BY DEF TypeInv
<1>1. \E t \in {Over, Raised} : lane' = [lane EXCEPT ![l] = t]
  BY DEF Collect, CollectRaised, Raises
<1>2. Moves1(l) BY <1>1, EndsOk
<1>3. /\ cmd' = cmd /\ repo' = repo /\ DOMAIN run' = {"phase", "exit"} /\ run'.phase = run.phase /\ seen' = seen
  BY <1>0 DEF Collect, CollectRaised, Raises, history
<1>4. QED BY <1>0, <1>2, <1>3, StillStep

\* A fetch that is tried again or given up changes no repository.
LEMMA FetchStays ==
  ASSUME TypeInv, NEW l \in Lanes, FetchAgain(l) \/ FetchFails(l)
  PROVE  TypeInv' /\ repo' = repo
<1>0. DOMAIN run = {"phase", "exit"} /\ DOMAIN seen = Repo BY DEF TypeInv
<1>1. lane[l].step = "fetch" BY DEF FetchAgain, FetchFails, At
<1>2. /\ cmd' = cmd /\ repo' = repo /\ run' = run /\ seen' = seen
  BY DEF FetchAgain, FetchFails, history
<1>3. cmd.op \in {"fetch", "pull"} /\ LaneOk(l) /\ IsThread(lane[l]) /\ DOMAIN lane = Lanes
  BY <1>1, JobIs, StepsOf DEF TypeInv
<1>4. CASE FetchAgain(l)
  <2>1. lane' = [lane EXCEPT ![l] = [lane[l] EXCEPT !.tries = lane[l].tries + 1]] BY <1>4 DEF FetchAgain
  <2>2. lane'[l] = [lane[l] EXCEPT !.tries = lane[l].tries + 1] BY <1>3, <2>1
  <2>3. IsThread(lane'[l]) /\ lane'[l].step = "fetch" /\ lane'[l].jobs = lane[l].jobs BY <1>1, <1>3, <2>2 DEF IsThread
  <2>4. HeldOk(lane[l])' BY <2>3 DEF HeldOk
  <2>5. LaneOk(l)' BY <1>1, <1>2, <1>3, <2>3, <2>4, Advance DEF LaneOk
  <2>6. Moves1(l) BY <1>3, <2>1, <2>5 DEF Moves1
  <2>7. QED BY <1>0, <1>2, <2>6, StillStep
<1>5. CASE FetchFails(l)
  <2>1. cmd.op = "pull" => "integrate" \in Steps(cmd.op) BY DEF Steps
  <2>2. "fetch" \in Steps(cmd.op) BY <1>3 DEF Steps
  <2>3. Moves1(l)
    <3>1. CASE cmd.op = "pull" BY <1>1, <1>2, <1>5, <2>1, <3>1, GotoOk DEF FetchFails, FetchFailed
    <3>2. CASE cmd.op # "pull" BY <1>1, <1>2, <1>5, <2>2, <3>2, Next1Ok DEF FetchFails, FetchFailed
    <3>3. QED BY <3>1, <3>2
  <2>4. QED BY <1>0, <1>2, <2>3, StillStep
<1>6. QED BY <1>4, <1>5

\* A fetch is calm.
LEMMA FetchStep ==
  ASSUME TypeInv, NEW l \in Lanes, Fetch(l)
  PROVE  TypeInv' /\ Calmly(l)
<1>1. lane[l].step = "fetch" BY DEF Fetch, At
<1>2. cmd' = cmd /\ run' = run /\ seen' = seen /\ repo' = [repo EXCEPT ![l] = Fetched(repo[l])]
  BY DEF Fetch, history
<1>3. cmd.op \in {"fetch", "pull"} BY <1>1, JobIs, StepsOf
<1>4. {"fetch", "source"} \subseteq Steps(cmd.op) /\ (cmd.op = "pull" => "integrate" \in Steps(cmd.op))
  BY <1>3 DEF Steps
<1>5. Moves1(l)
  <2>1. CASE l \notin Standalone BY <1>1, <1>2, <1>4, <2>1, GotoOk DEF Fetch
  <2>2. CASE l \in Standalone /\ cmd.op = "pull" BY <1>1, <1>2, <1>4, <2>2, GotoOk DEF Fetch
  <2>3. CASE l \in Standalone /\ cmd.op # "pull" BY <1>1, <1>2, <1>4, <2>3, Next1Ok DEF Fetch
  <2>4. QED BY <2>1, <2>2, <2>3
<1>6. l \in Repo /\ WellFormed(l, repo[l]) BY <1>1, PoolLane
<1>7. Calm(l, repo[l], Fetched(repo[l])) BY <1>6, FetchedSynced, SyncedGains
<1>8. Only(l) /\ repo'[l] = Fetched(repo[l]) BY <1>2, <1>6, OnlySet
<1>9. QED BY <1>2, <1>5, <1>6, <1>7, <1>8, CalmStep DEF TypeInv

\* Fast-forwarding main in the source checkout is calm.
LEMMA FollowMainStep ==
  ASSUME TypeInv, NEW l \in Lanes, FollowMain(l)
  PROVE  TypeInv' /\ Calmly(l)
<1> DEFINE g == repo[l]
<1>1. lane[l].step = "source" BY DEF FollowMain, At
<1>2. cmd.op \in {"fetch", "pull"} BY <1>1, JobIs, StepsOf
<1>3. "fetch" \in Steps(cmd.op) /\ (cmd.op = "pull" => "integrate" \in Steps(cmd.op)) BY <1>2 DEF Steps
<1>4. l \in Repo /\ WellFormed(l, g) /\ Source \in Envs(l) BY <1>1, PoolLane
<1>5. PICK o \in IF HasRef(g, OriginMain) THEN FastForward(g, Source, Ref(g, OriginMain), FALSE)
                ELSE {Outcome(g, "diverged")} :
         /\ repo' = [repo EXCEPT ![l] = o.repo]
         /\ IF cmd.op = "pull"
            THEN Goto(l, "integrate") /\ UNCHANGED <<told, done>>
            ELSE /\ Next1(l, "fetch")
                 /\ Tell(Own(l), IF o.result = "diverged" THEN "failed" ELSE o.result, What(o.result))
                 /\ Did(Own(l), What(o.result))
  BY DEF FollowMain
<1>6. cmd' = cmd /\ run' = run /\ seen' = seen BY DEF FollowMain, history
<1>7. Moves1(l)
  <2>1. CASE cmd.op = "pull" BY <1>1, <1>3, <1>5, <1>6, <2>1, GotoOk
  <2>2. CASE cmd.op # "pull" BY <1>1, <1>3, <1>5, <1>6, <2>2, Next1Ok
  <2>3. QED BY <2>1, <2>2
<1>8. Calm(l, g, o.repo)
  <2>1. HasRef(g, OriginMain) /\ Ref(g, OriginMain) \in SUBSET Change BY <1>4, MainKnown, RefHistory DEF WellFormed
  <2> HIDE DEF g
  <2>2. o \in FastForward(g, Source, Ref(g, OriginMain), FALSE) BY <1>5, <2>1 DEF g
  <2>3. QED BY <1>4, <2>1, <2>2, FastForwardGains
<1>9. Only(l) /\ repo'[l] = o.repo BY <1>4, <1>5, OnlySet
<1>10. QED BY <1>4, <1>6, <1>7, <1>8, <1>9, CalmStep DEF TypeInv

\* What a second attempt brings in: HEAD does not have all of it.
Lacks(g, p, ref) == HasRef(g, ref) => ~(Ref(g, ref) \subseteq Tip(g, p))
Missing(g, p, ref) ==
    /\ ref[1] = "local" => HasRef(g, ref)
    /\ g.at[p].merging = "no" => Lacks(g, p, ref)

\* The ref a checkout is integrated from is one, unless there is no upstream.
LEMMA WantedIs ==
  ASSUME TypeInv, NEW l \in Lanes, lane[l].step = "integrate", Wanted(l) # None
  PROVE  /\ Wanted(l) \in RefName
         /\ cmd.op = "merge" => Wanted(l) = cmd.ref
         /\ cmd.op # "merge" => Wanted(l)[1] = "remote"
<1> DEFINE g == repo[l]
           p == Job(l)[2]
<1>1. /\ l \in Repo /\ WellFormed(l, g) /\ p \in Envs(l) /\ cmd \in CommandType
  BY PoolLane, JobIs
<1>2. g.at[p].on \in Branch \cup {Detached} /\ (\A b \in Branch : g.up[b] \in Branch \cup {None})
  BY <1>1, RepoFields DEF WellFormed, CheckoutType
<1>3. OriginMain \in RefName /\ OriginMain[1] = "remote" BY <1>1, MainKnown
<1>4. cmd.ref \in RefName BY <1>1 DEF CommandType
<1>5. WorktreeUpstream(g, p) # None => WorktreeUpstream(g, p) \in RefName /\ WorktreeUpstream(g, p)[1] = "remote"
  BY <1>2 DEF WorktreeUpstream, BranchUpstream, RefName
<1>6. PushBranch(g, p) # None => <<"remote", PushBranch(g, p)>> \in RefName
  BY <1>2 DEF PushBranch, RefName
<1> HIDE DEF g, p
<1>7. QED BY <1>3, <1>4, <1>5, <1>6 DEF Wanted, g, p

\* The first attempt of an integration is calm, and leaves all alone if it diverges.
LEMMA AttemptsAre ==
  ASSUME TypeInv, NEW l \in Lanes, lane[l].step = "integrate", NEW o \in Attempts(l)
  PROVE  /\ Calm(l, repo[l], o.repo) /\ Moved(l, repo[l], o.repo, Job(l)[2], Tip(o.repo, Job(l)[2]))
         /\ o.result \in {"no_upstream", "skipped_missing_ref", "diverged", "up_to_date", "fast_forwarded"}
         /\ o.result = "diverged" => /\ o.repo = repo[l] /\ Wanted(l) \in RefName /\ Wanted(l) # None
                                     /\ Missing(repo[l], Job(l)[2], Wanted(l))
<1> DEFINE g == repo[l]
           p == Job(l)[2]
           h == Ref(g, Wanted(l))
<1>1. l \in Repo /\ WellFormed(l, g) /\ p \in Envs(l) BY PoolLane
<1>2. Wanted(l) # None => Wanted(l) \in RefName /\ (cmd.op # "merge" => Wanted(l)[1] = "remote") BY WantedIs
<1>3. Wanted(l) # None /\ HasRef(g, Wanted(l)) => h \in SUBSET Change BY <1>1, <1>2, RefHistory DEF WellFormed
<1> HIDE DEF g, p, h
<1>4. ASSUME NEW x, o = Outcome(g, x) PROVE o.repo = g /\ o.result = x BY <1>4 DEF Outcome
<1>5. CASE \E x \in {"no_upstream", "skipped_missing_ref", "diverged", "up_to_date"} :
              o = Outcome(g, x) /\ (x = "diverged" => Wanted(l) # None /\ Missing(g, p, Wanted(l)))
  BY <1>1, <1>2, <1>4, <1>5, SameGains, SelfMoved DEF g, p
<1>6. CASE /\ Wanted(l) # None /\ HasRef(g, Wanted(l)) /\ o \in FastForward(g, p, h, cmd.autostash)
  <2>1. Missing(g, p, Wanted(l)) <=> (g.at[p].merging = "no" => ~(h \subseteq Tip(g, p)))
    BY <1>6 DEF Missing, Lacks, h
  <2>2. QED BY <1>1, <1>2, <1>3, <1>6, <2>1, FastForwardGains DEF g, p
<1>7. \/ \E x \in {"no_upstream", "skipped_missing_ref", "diverged", "up_to_date"} :
            o = Outcome(g, x) /\ (x = "diverged" => Wanted(l) # None /\ Missing(g, p, Wanted(l)))
      \/ Wanted(l) # None /\ HasRef(g, Wanted(l)) /\ o \in FastForward(g, p, h, cmd.autostash)
  <2>1. CASE Wanted(l) = None BY <2>1 DEF Attempts, g
  <2>2. CASE Wanted(l) # None /\ ~HasRef(g, Wanted(l))
    <3>1. cmd.op # "merge" => Missing(g, p, Wanted(l)) BY <1>2, <2>2 DEF Missing, Lacks
    <3>2. QED BY <2>2, <3>1 DEF Attempts, g
  <2>3. CASE Wanted(l) # None /\ HasRef(g, Wanted(l)) /\ cmd.mode # "no_ff" BY <2>3 DEF Attempts, g, p, h
  <2>4. CASE Wanted(l) # None /\ HasRef(g, Wanted(l)) /\ cmd.mode = "no_ff"
    <3>1. ~(h \subseteq Tip(g, p)) => Missing(g, p, Wanted(l)) BY <2>4 DEF Missing, Lacks, h
    <3>2. \/ h \subseteq Tip(g, p) /\ o = Outcome(g, "up_to_date")
          \/ ~(h \subseteq Tip(g, p)) /\ o = Outcome(g, "diverged")
      BY <2>4 DEF Attempts, g, p, h
    <3>3. QED BY <2>4, <3>1, <3>2
  <2>5. QED BY <2>1, <2>2, <2>3, <2>4
<1>8. QED BY <1>5, <1>6, <1>7

\* How a lane reports: a standalone holds the outcome back, a project lane tells it.
LEMMA ReportOk ==
  ASSUME TypeInv, NEW l \in Lanes, lane[l].step \in {"integrate", "second", "abort"}, run' = run, cmd' = cmd,
         NEW result, Report(l, result)
  PROVE  /\ Moves1(l) /\ lane'[l].step \in {"over", "integrate", "collect"}
         /\ lane'[l].step = "collect" => lane'[l].held = result /\ l \in Standalone /\ told' = told
         /\ lane'[l].step # "collect" => Tell(Job(l), result, What(result)) /\ l \notin Standalone
<1>1. cmd.op \in {"pull", "merge"} /\ LaneOk(l) /\ IsThread(lane[l]) /\ DOMAIN lane = Lanes
  BY JobIs, StepsOf DEF TypeInv
<1>2. {"integrate", "collect"} \subseteq Steps(cmd.op) BY <1>1 DEF Steps
<1>3. CASE l \in Standalone
  <2>1. lane' = [lane EXCEPT ![l].step = "collect", ![l].held = result] BY <1>3 DEF Report
  <2>2. IsThread(lane'[l]) /\ lane'[l].step = "collect" /\ lane'[l].held = result /\ lane'[l].jobs = lane[l].jobs
        /\ DOMAIN lane' = Lanes /\ \A k \in Lanes \ {l} : lane'[k] = lane[k]
    BY <1>1, <2>1 DEF IsThread
  <2>3. HeldOk(lane[l])' BY <2>2 DEF HeldOk
  <2>4. LaneOk(l)' BY <1>1, <1>2, <2>2, <2>3, Advance DEF LaneOk
  <2>5. QED BY <1>3, <2>2, <2>4 DEF Moves1, Report
<1>4. CASE l \notin Standalone
  <2>1. Next1(l, "integrate") /\ Tell(Job(l), result, What(result)) BY <1>4 DEF Report
  <2>2. Moves1(l) /\ lane'[l].step \in {"over", "integrate"} BY <1>2, <2>1, Next1Ok
  <2>3. QED BY <1>4, <2>1, <2>2
<1>5. QED BY <1>3, <1>4

\* Integrate goes to the second attempt with nothing changed, or reports.
LEMMA IntegrateStep ==
  ASSUME TypeInv, NEW l \in Lanes, Integrate(l)
  PROVE  /\ TypeInv' /\ Calmly(l)
         /\ \/ /\ lane'[l].step = "second" /\ lane'[l].jobs = lane[l].jobs
               /\ lane'[l].held = Wanted(l) /\ Wanted(l) # None /\ Missing(repo[l], Job(l)[2], Wanted(l))
               /\ lane'[l].base = Look(repo[l], Job(l)[2]) /\ repo' = repo /\ told' = told /\ done' = done
            \/ \E result : /\ Report(l, result) /\ (result = "diverged" => repo'[l] = repo[l])
                           /\ lane'[l].step \in {"over", "integrate", "collect"}
<1>1. lane[l].step = "integrate" BY DEF Integrate, At
<1>2. l \in Repo BY <1>1, PoolLane
<1>3. cmd' = cmd /\ run' = run /\ seen' = seen BY DEF Integrate, history
<1>4. cmd.op \in {"pull", "merge"} /\ LaneOk(l) /\ IsThread(lane[l]) /\ DOMAIN lane = Lanes /\ DOMAIN seen = Repo
      /\ DOMAIN repo = Repo
  BY <1>1, JobIs, StepsOf DEF TypeInv
<1>5. PICK o \in Attempts(l) :
         IF o.result = "diverged" /\ cmd.mode # "ff_only"
         THEN /\ lane' = [lane EXCEPT ![l].step = "second", ![l].held = Wanted(l),
                                      ![l].base = Look(repo[l], Job(l)[2])]
              /\ UNCHANGED <<repo, told, done>>
         ELSE repo' = [repo EXCEPT ![l] = o.repo] /\ Report(l, o.result)
  BY DEF Integrate
<1>6. /\ Calm(l, repo[l], o.repo)
      /\ o.result = "diverged" => /\ o.repo = repo[l] /\ Wanted(l) \in RefName /\ Wanted(l) # None
                                  /\ Missing(repo[l], Job(l)[2], Wanted(l))
  BY <1>1, AttemptsAre
<1>7. CASE o.result = "diverged" /\ cmd.mode # "ff_only"
  <2> DEFINE k == Look(repo[l], Job(l)[2])
  <2>1. lane' = [lane EXCEPT ![l].step = "second", ![l].held = Wanted(l), ![l].base = k]
        /\ repo' = repo /\ told' = told /\ done' = done
    BY <1>5, <1>7
  <2> HIDE DEF k
  <2>2. /\ IsThread(lane'[l]) /\ lane'[l].step = "second" /\ lane'[l].held = Wanted(l) /\ lane'[l].jobs = lane[l].jobs
        /\ lane'[l].base = k /\ DOMAIN lane' = Lanes /\ \A j \in Lanes \ {l} : lane'[j] = lane[j]
    BY <1>4, <2>1 DEF IsThread
  <2>3. HeldOk(lane[l])' BY <1>6, <1>7, <2>2 DEF HeldOk
  <2>4. "second" \in Steps(cmd.op) BY <1>4 DEF Steps
  <2>5. LaneOk(l)' BY <1>1, <1>3, <1>4, <1>7, <2>2, <2>3, <2>4, Advance DEF LaneOk
  <2>6. Moves1(l) BY <2>2, <2>5 DEF Moves1
  <2>7. Only(l) /\ Calm(l, repo[l], repo'[l]) BY <1>4, <1>6, <1>7, <2>1 DEF Only
  <2>8. TypeInv' /\ Calmly(l) BY <1>2, <1>3, <1>4, <1>6, <1>7, <2>6, <2>7, CalmStep
  <2>9. QED BY <1>6, <1>7, <2>1, <2>2, <2>8 DEF k
<1>8. CASE ~(o.result = "diverged" /\ cmd.mode # "ff_only")
  <2>1. repo' = [repo EXCEPT ![l] = o.repo] /\ Report(l, o.result) BY <1>5, <1>8
  <2>2. Moves1(l) /\ lane'[l].step \in {"over", "integrate", "collect"} BY <1>1, <1>3, <2>1, ReportOk
  <2>3. Only(l) /\ repo'[l] = o.repo BY <1>2, <2>1, OnlySet
  <2>4. TypeInv' /\ Calmly(l) BY <1>2, <1>3, <1>4, <1>6, <2>2, <2>3, CalmStep
  <2>5. QED BY <1>6, <2>1, <2>2, <2>3, <2>4
<1>9. QED BY <1>7, <1>8

\* A lane's step that keeps the one repository it changes well-formed.
LEMMA OnlyStep ==
  ASSUME TypeInv, NEW l \in Lanes, Moves1(l), cmd' = cmd, run' = run, DOMAIN seen' = Repo,
         NEW r \in Repo, Only(r), WellFormed(r, repo'[r]), Grown(repo[r].track, repo'[r].track)
  PROVE  TypeInv'
<1>1. RepoOk /\ TrackGrown BY OnlyOk
<1>2. QED BY <1>1, TypeStep DEF TypeInv

\* A second attempt that failed is aborted next, with the stopped operation
\* on disk or with nothing changed.
LEMMA SecondStep ==
  ASSUME TypeInv, NEW l \in Lanes, SecondAttempt(l)
  PROVE  /\ TypeInv' /\ l \in Repo /\ Only(l)
         /\ Gains(l, repo[l], repo'[l]) /\ KeepsClean(l, repo[l], repo'[l])
         /\ Moved(l, repo[l], repo'[l], Job(l)[2], Tip(repo'[l], Job(l)[2]))
         /\ \/ /\ lane'[l].step = "abort" /\ lane'[l].jobs = lane[l].jobs /\ lane'[l].base = lane[l].base
               /\ Job(l)' = Job(l) /\ told' = told /\ done' = done
               /\ \/ repo'[l] = repo[l]
                  \/ /\ repo[l].at[Job(l)[2]].merging = "no" /\ HasRef(repo[l], lane[l].held)
                     /\ repo'[l] = Stopped(repo[l], Job(l)[2], Ref(repo[l], lane[l].held), Kind)
            \/ /\ Calmly(l) /\ repo[l].at[Job(l)[2]].merging = "no"
               /\ \E result \in {"merged", "rebased"} : Report(l, result)
               /\ lane'[l].step \in {"over", "integrate", "collect"}
<1> DEFINE g == repo[l]
           p == Job(l)[2]
           h == Ref(g, lane[l].held)
<1>1. lane[l].step = "second" BY DEF SecondAttempt, At
<1>2. l \in Repo /\ WellFormed(l, g) /\ p \in Envs(l) BY <1>1, PoolLane
<1>3. cmd' = cmd /\ run' = run /\ seen' = seen BY DEF SecondAttempt, history
<1>4. cmd.op \in {"pull", "merge"} /\ LaneOk(l) /\ DOMAIN seen = Repo BY <1>1, JobIs, StepsOf DEF TypeInv
<1>5. lane[l].held \in RefName /\ cmd.mode # "ff_only" BY <1>1, <1>4 DEF LaneOk, HeldOk
<1>6. HasRef(g, lane[l].held) => h \in SUBSET Change BY <1>2, <1>5, RefHistory DEF WellFormed
<1>7. Kind \in {"merge", "rebase"} BY DEF Kind
<1>8. PICK o \in IF HasRef(g, lane[l].held) THEN ThreeWay(g, p, h, Kind, cmd.autostash)
                 ELSE {Outcome(g, "failed")} :
         /\ repo' = [repo EXCEPT ![l] = o.repo]
         /\ IF o.result = "failed" THEN Goto(l, "abort") /\ UNCHANGED <<told, done>> ELSE Report(l, o.result)
  BY DEF SecondAttempt
<1> HIDE DEF g, p, h
<1>9. /\ Gains(l, g, o.repo) /\ KeepsClean(l, g, o.repo)
      /\ Moved(l, g, o.repo, p, Tip(o.repo, p))
      /\ o.result \in {"failed", "merged", "rebased"}
      /\ o.result # "failed" => Calm(l, g, o.repo) /\ g.at[p].merging = "no"
      /\ o.result = "failed" => \/ o.repo = g
                                \/ /\ g.at[p].merging = "no" /\ o.repo = Stopped(g, p, h, Kind)
                                   /\ HasRef(g, lane[l].held)
  <2>1. CASE HasRef(g, lane[l].held)
    <3>1. o \in ThreeWay(g, p, h, Kind, cmd.autostash) BY <1>8, <2>1
    <3>2. QED BY <1>2, <1>6, <1>7, <2>1, <3>1, ThreeWayGains
  <2>2. CASE ~HasRef(g, lane[l].held)
    <3>1. o = Outcome(g, "failed") BY <1>8, <2>2
    <3>2. o.repo = g /\ o.result = "failed" BY <3>1 DEF Outcome
    <3>3. QED BY <1>2, <3>2, SameGains, SelfMoved DEF Calm
  <2>3. QED BY <2>1, <2>2
<1>10. Only(l) /\ repo'[l] = o.repo BY <1>2, <1>8, OnlySet
<1>11. CASE o.result = "failed"
  <2>1. "abort" \in Steps(cmd.op) BY <1>4 DEF Steps
  <2>2. Goto(l, "abort") /\ told' = told /\ done' = done BY <1>8, <1>11
  <2>3. Moves1(l) /\ lane'[l].step = "abort" /\ lane'[l].jobs = lane[l].jobs /\ lane'[l].base = lane[l].base
        /\ Job(l)' = Job(l)
    BY <1>1, <1>3, <1>5, <2>1, <2>2, GotoOk
  <2>4. TypeInv' BY <1>2, <1>3, <1>4, <1>9, <1>10, <2>3, OnlyStep DEF g, Gains
  <2>5. QED BY <1>2, <1>9, <1>10, <1>11, <2>2, <2>3, <2>4 DEF g, p, h
<1>12. CASE o.result # "failed"
  <2>1. Report(l, o.result) BY <1>8, <1>12
  <2>2. Moves1(l) /\ lane'[l].step \in {"over", "integrate", "collect"} BY <1>1, <1>3, <2>1, ReportOk
  <2>3. TypeInv' /\ Calmly(l) BY <1>2, <1>3, <1>4, <1>9, <1>10, <1>12, <2>2, CalmStep DEF g
  <2>4. QED BY <1>2, <1>9, <1>10, <1>12, <2>1, <2>2, <2>3 DEF g, p, h
<1>13. QED BY <1>11, <1>12

\* Abort undoes a merge in progress of its own kind, and nothing else.
LEMMA AbortStep ==
  ASSUME TypeInv, NEW l \in Lanes, Abort(l)
  PROVE  /\ TypeInv' /\ l \in Repo /\ Only(l) /\ Report(l, "diverged")
         /\ lane[l].step = "abort" /\ lane'[l].step \in {"over", "integrate", "collect"}
         /\ Job(l)[2] \in Envs(l) /\ Grown(repo[l].track, repo'[l].track)
         /\ repo[l].at[Job(l)[2]].merging # Kind => Calmly(l) /\ repo'[l] = repo[l]
         /\ repo[l].at[Job(l)[2]].merging = Kind => repo'[l] = AbortOp(repo[l], Job(l)[2], Kind)
<1> DEFINE g == repo[l]
           p == Job(l)[2]
<1>1. lane[l].step = "abort" BY DEF Abort, At
<1>2. l \in Repo /\ WellFormed(l, g) /\ p \in Envs(l) BY <1>1, PoolLane
<1>3. cmd' = cmd /\ run' = run /\ seen' = seen /\ Report(l, "diverged") /\ DOMAIN seen = Repo
  BY DEF Abort, history, TypeInv
<1>4. repo' = [repo EXCEPT ![l] = AbortOp(g, p, Kind)] BY DEF Abort
<1> HIDE DEF g, p
<1>5. Only(l) /\ repo'[l] = AbortOp(g, p, Kind) BY <1>2, <1>4, OnlySet
<1>6. Moves1(l) /\ lane'[l].step \in {"over", "integrate", "collect"} BY <1>1, <1>3, ReportOk
<1>7. CASE g.at[p].merging = Kind
  <2> DEFINE n == AbortOp(g, p, Kind)
  <2> HIDE DEF n
  <2>1. Moved(l, g, n, p, Tip(g, p)) BY <1>2, <1>7, AbortMoved DEF n
  <2>2. WellFormed(l, n) /\ Grown(g.track, n.track) BY <1>2, <2>1, MovedTip
  <2>3. TypeInv' BY <1>2, <1>3, <1>5, <1>6, <2>2, OnlyStep DEF g, n
  <2>4. QED BY <1>1, <1>2, <1>3, <1>5, <1>6, <1>7, <2>2, <2>3 DEF g, p, n
<1>8. CASE g.at[p].merging # Kind
  <2>1. repo'[l] = g BY <1>5, <1>8 DEF AbortOp
  <2>2. Calm(l, g, g) BY <1>2, SameGains
  <2>3. TypeInv' /\ Calmly(l) BY <1>2, <1>3, <1>5, <1>6, <2>1, <2>2, CalmStep DEF g
  <2>4. QED BY <1>1, <1>2, <1>3, <1>5, <1>6, <1>8, <2>1, <2>2, <2>3 DEF g, p, Calm, Gains
<1>9. QED BY <1>7, <1>8

-----------------------------------------------------------------------------
(* The steps of the calling thread. *)

\* What holds of the calling thread's current checkout while it has one.
LEMMA CallerJob ==
  ASSUME TypeInv, lane[Caller].step \notin {"over", "raised"}
  PROVE  /\ Caller \in Lanes /\ Job(Caller)[1] \in Repo /\ Here \in Envs(Job(Caller)[1])
         /\ Job(Caller) = <<Job(Caller)[1], Here>>
         /\ WellFormed(Job(Caller)[1], There) /\ Job(Caller) \in lane[Caller].jobs
         /\ cmd \in Commands /\ cmd \in CommandType /\ cmd.op \notin Pooled
         /\ IsThread(lane[Caller]) /\ LaneOk(Caller) /\ DOMAIN lane = Lanes /\ DOMAIN repo = Repo
         /\ DOMAIN seen = Repo /\ DOMAIN run = {"phase", "exit"} /\ run.phase = "running"
         /\ lane[Caller].step \in Steps(cmd.op)
         /\ cmd.op # "push" => Job(Caller) \in Targets(cmd) /\ Job(Caller) \in OnDisk /\ Here \in Branch
<1>1. Caller \in Lanes BY DEF Lanes
<1>2. LaneOk(Caller) /\ DOMAIN lane = Lanes /\ DOMAIN repo = Repo /\ DOMAIN seen = Repo /\ DOMAIN run = {"phase", "exit"}
      /\ (\A r \in Repo : WellFormed(r, repo[r]))
  BY <1>1 DEF TypeInv
<1>3. /\ Job(Caller) \in lane[Caller].jobs /\ Job(Caller)[1] \in Repo /\ Job(Caller)[2] \in Envs(Job(Caller)[1])
      /\ Job(Caller) = <<Job(Caller)[1], Job(Caller)[2]>>
      /\ cmd \in Commands /\ cmd \in CommandType /\ lane[Caller].step \in Steps(cmd.op)
      /\ run.phase = "running" /\ cmd.op \notin Pooled /\ IsThread(lane[Caller])
  BY <1>1, JobIs
<1>4. cmd.op # "push" => Job(Caller) \in Targets(cmd) /\ Job(Caller) \in OnDisk BY <1>2, <1>3 DEF LaneOk, Targets
<1>5. Job(Caller) \in OnDisk => Here \in Branch BY Disk DEF Here
<1>6. QED BY <1>1, <1>2, <1>3, <1>4, <1>5 DEF There, Here

\* The repository the calling thread works in.
LEMMA AlterOk ==
  ASSUME TypeInv, lane[Caller].step \notin {"over", "raised"}, NEW n, Alter(n)
  PROVE  Only(Job(Caller)[1]) /\ repo'[Job(Caller)[1]] = n
BY CallerJob, OnlySet DEF Alter

\* A step that leaves the repositories alone.
LEMMA PushOneStep ==
  ASSUME TypeInv, PushOne
  PROVE  TypeInv' /\ repo' = repo
<1>1. lane[Caller].step = "push" BY DEF PushOne, At
<1>2. cmd' = cmd /\ run' = run /\ seen' = seen /\ repo' = repo BY DEF PushOne, history
<1>3. cmd.op = "push" BY <1>1, CallerJob, StepsOf
<1>4. {"push", "send"} \subseteq Steps(cmd.op) BY <1>3 DEF Steps
<1>5. ASSUME Next1(Caller, "push") PROVE Moves1(Caller) BY <1>1, <1>2, <1>4, <1>5, CallerJob, Next1Ok
<1>6. ASSUME NEW b, PushBranch(There, Here) = b, b # None,
             lane' = [lane EXCEPT ![Caller].step = "send", ![Caller].held = [branch |-> b, tip |-> There.track[b]]]
      PROVE  Moves1(Caller)
  <2> DEFINE v == [branch |-> b, tip |-> There.track[b]]
  <2>1. b \in Branch BY <1>1, <1>6, CallerJob, RepoFields DEF PushBranch, WellFormed, CheckoutType
  <2>2. v.branch = b /\ v.tip = There.track[b] OBVIOUS
  <2> HIDE DEF v
  <2>3. lane' = [lane EXCEPT ![Caller].step = "send", ![Caller].held = v] BY <1>6 DEF v
  <2>4. /\ IsThread(lane'[Caller]) /\ lane'[Caller].step = "send" /\ lane'[Caller].held = v
        /\ lane'[Caller].jobs = lane[Caller].jobs
        /\ DOMAIN lane' = Lanes /\ \A k \in Lanes \ {Caller} : lane'[k] = lane[k]
    BY <1>1, <2>3, CallerJob DEF IsThread
  <2>5. First(lane'[Caller].jobs) = Job(Caller) BY <2>4 DEF Job
  <2>6. HeldOk(lane[Caller])' BY <1>2, <2>1, <2>2, <2>4, <2>5 DEF HeldOk, There
  <2>7. LaneOk(Caller)' BY <1>1, <1>2, <1>4, <2>4, <2>6, CallerJob, Advance DEF LaneOk
  <2>8. QED BY <2>4, <2>7 DEF Moves1
<1>7. Moves1(Caller) BY <1>5, <1>6 DEF PushOne
<1>8. QED BY <1>1, <1>2, <1>7, CallerJob, StillStep

\* The remote took the push.
LEMMA PushSynced ==
  ASSUME TypeInv, lane[Caller].step = "send", Takes, NEW n,
         n \in {Pushed(There, Here, Sent), PushedUnseen(There, Here, Sent)}
  PROVE  /\ Synced(Job(Caller)[1], There, n) /\ Sent \in Branch
         /\ n = Pushed(There, Here, Sent) => n.track[Sent] # Absent
<1> DEFINE h == Tip(There, Here)
           r == Job(Caller)[1]
<1>1. r \in Repo /\ WellFormed(r, There) /\ Here \in Envs(r) /\ There \in RepoType(r) BY CallerJob DEF WellFormed
<1>2. h \in SUBSET Change /\ h # Absent BY <1>1, TipType, Histories
<1>3. Sent \in Branch BY CallerJob DEF LaneOk, HeldOk, Sent
<1>4. There.origin[Sent] # Absent => There.origin[Sent] \subseteq h BY DEF Takes, Accepts
<1>5. n = [There EXCEPT !.origin[Sent] = h] \/ n = [There EXCEPT !.origin[Sent] = h, !.track[Sent] = h]
  BY DEF Pushed, PushedUnseen
<1>6. n = Pushed(There, Here, Sent) => n.track[Sent] = h BY <1>1, <1>3, RepoFields DEF Pushed, RepoType
<1> HIDE DEF h, r
<1>7. Synced(r, There, n) BY <1>1, <1>2, <1>3, <1>4, <1>5, OriginSynced
<1>8. QED BY <1>2, <1>3, <1>6, <1>7 DEF r

\* An accepted push is calm.
LEMMA PushAcceptedStep ==
  ASSUME TypeInv, PushAccepted
  PROVE  TypeInv' /\ Calmly(Job(Caller)[1])
<1> DEFINE r == Job(Caller)[1]
           n == Pushed(There, Here, Sent)
<1>1. lane[Caller].step = "send" BY DEF PushAccepted, At
<1>2. cmd' = cmd /\ run' = run /\ seen' = seen BY DEF PushAccepted, history
<1>3. cmd.op = "push" /\ r \in Repo /\ WellFormed(r, There) BY <1>1, CallerJob, StepsOf
<1>4. "follow" \in Steps(cmd.op) BY <1>3 DEF Steps
<1>5. Synced(r, There, n) /\ Sent \in Branch /\ n.track[Sent] # Absent BY <1>1, PushSynced DEF PushAccepted
<1>6. Only(r) /\ repo'[r] = n BY <1>1, AlterOk DEF PushAccepted
<1> HIDE DEF n
<1>7. Calm(r, repo[r], repo'[r]) BY <1>3, <1>5, <1>6, SyncedGains DEF There
<1>8. Goto(Caller, "follow") BY DEF PushAccepted
<1>9. /\ DOMAIN lane' = Lanes /\ \A k \in Lanes \ {Caller} : lane'[k] = lane[k]
      /\ IsThread(lane'[Caller]) /\ lane'[Caller].step = "follow" /\ lane'[Caller].jobs = lane[Caller].jobs
      /\ lane'[Caller].held = lane[Caller].held
  BY <1>1, <1>8, CallerJob, GotoIs
<1>10. HeldOk(lane[Caller])'
  <2>1. First(lane'[Caller].jobs) = Job(Caller) /\ lane'[Caller].held.branch = Sent BY <1>9 DEF Job, Sent
  <2>2. HeldOk(lane[Caller]) BY <1>1, CallerJob DEF LaneOk
  <2>3. lane[Caller].held.tip # Absent => lane[Caller].held.tip \subseteq There.track[Sent] /\ There.track[Sent] # Absent
    BY <1>1, <2>2 DEF HeldOk, There, Job, Sent
  <2>4. Grown(There.track, n.track) BY <1>5 DEF Synced
  <2>5. lane[Caller].held.tip # Absent => lane[Caller].held.tip \subseteq n.track[Sent] BY <1>5, <2>3, <2>4 DEF Grown
  <2>6. QED BY <1>5, <1>6, <1>9, <2>1, <2>5 DEF HeldOk
<1>11. LaneOk(Caller)' BY <1>1, <1>2, <1>4, <1>9, <1>10, CallerJob, Advance DEF LaneOk
<1>12. Moves1(Caller) BY <1>9, <1>11 DEF Moves1
<1>13. QED BY <1>1, <1>2, <1>3, <1>6, <1>7, <1>12, CallerJob, CalmStep

\* A failed push is over for its checkout, or is tried again.
LEMMA SendOk ==
  ASSUME TypeInv, lane[Caller].step = "send", run' = run, cmd' = cmd, TrackGrown,
         NEW transient, SendAgain(transient) \/ PushFailed
  PROVE  Moves1(Caller) /\ lane'[Caller].step \in {"over", "push", "send"}
<1>1. cmd.op = "push" BY CallerJob, StepsOf
<1>2. "push" \in Steps(cmd.op) /\ "send" \in Steps(cmd.op) BY <1>1 DEF Steps
<1>3. CASE PushFailed BY <1>2, <1>3, CallerJob, Next1Ok DEF PushFailed
<1>4. CASE lane' = [lane EXCEPT ![Caller].tries = @ + 1]
  <2>1. lane' = [lane EXCEPT ![Caller] = [lane[Caller] EXCEPT !.tries = lane[Caller].tries + 1]] BY <1>4
  <2>2. lane'[Caller] = [lane[Caller] EXCEPT !.tries = lane[Caller].tries + 1] BY <2>1, CallerJob
  <2>3. IsThread(lane'[Caller]) /\ lane'[Caller].step = "send" /\ lane'[Caller].jobs = lane[Caller].jobs
        /\ lane'[Caller].held = lane[Caller].held
        /\ DOMAIN lane' = Lanes /\ \A k \in Lanes \ {Caller} : lane'[k] = lane[k]
    BY <2>1, <2>2, CallerJob DEF IsThread
  <2>4. HeldOk(lane[Caller])'
    <3>1. HeldOk(lane[Caller]) BY CallerJob DEF LaneOk
    <3>2. Grown(repo[Job(Caller)[1]].track, repo'[Job(Caller)[1]].track) BY CallerJob DEF TrackGrown
    <3>3. QED BY <2>3, <3>1, <3>2 DEF HeldOk, Grown, Job
  <2>5. LaneOk(Caller)' BY <1>2, <2>3, <2>4, CallerJob, Advance DEF LaneOk
  <2>6. QED BY <2>3, <2>5 DEF Moves1
<1>5. QED BY <1>3, <1>4 DEF SendAgain

\* A push that is refused, or not sent, changes no repository.
LEMMA PushUnsentStep ==
  ASSUME TypeInv, PushRefused \/ PushUnsent
  PROVE  TypeInv' /\ repo' = repo
<1>1. lane[Caller].step = "send" BY DEF PushRefused, PushUnsent, At
<1>2. cmd' = cmd /\ run' = run /\ seen' = seen /\ repo' = repo BY DEF PushRefused, PushUnsent, history
<1>3. TrackGrown BY <1>2, SameOk
<1>4. Moves1(Caller) BY <1>1, <1>2, <1>3, SendOk DEF PushRefused, PushUnsent
<1>5. QED BY <1>1, <1>2, <1>4, CallerJob, StillStep

\* A push that arrived but was not answered is calm.
LEMMA PushUnansweredStep ==
  ASSUME TypeInv, PushUnanswered
  PROVE  TypeInv' /\ Calmly(Job(Caller)[1])
<1> DEFINE r == Job(Caller)[1]
           n == PushedUnseen(There, Here, Sent)
<1>1. lane[Caller].step = "send" BY DEF PushUnanswered, At
<1>2. cmd' = cmd /\ run' = run /\ seen' = seen BY DEF PushUnanswered, history
<1>3. r \in Repo /\ WellFormed(r, There) BY <1>1, CallerJob
<1>4. Synced(r, There, n) BY <1>1, PushSynced DEF PushUnanswered
<1>5. Only(r) /\ repo'[r] = n BY <1>1, AlterOk DEF PushUnanswered
<1> HIDE DEF n
<1>6. Calm(r, repo[r], repo'[r]) BY <1>3, <1>4, <1>5, SyncedGains DEF There
<1>7. TrackGrown BY <1>3, <1>5, <1>6, OnlyOk DEF Calm, Gains
<1>8. Moves1(Caller) BY <1>1, <1>2, <1>7, SendOk DEF PushUnanswered
<1>9. QED BY <1>1, <1>2, <1>3, <1>5, <1>6, <1>8, CallerJob, CalmStep

\* Setting the upstream after a push is calm.
LEMMA FollowStep ==
  ASSUME TypeInv, Follow
  PROVE  TypeInv' /\ Calmly(Job(Caller)[1])
<1> DEFINE r == Job(Caller)[1]
           t == lane[Caller].held.tip
<1>1. lane[Caller].step = "follow" BY DEF Follow, At
<1>2. cmd' = cmd /\ run' = run /\ seen' = seen BY DEF Follow, history
<1>3. r \in Repo /\ WellFormed(r, There) /\ cmd.op = "push" BY <1>1, CallerJob, StepsOf
<1>4. "push" \in Steps(cmd.op) BY <1>3 DEF Steps
<1>5. PICK o \in IF t = Absent \/ r \in Standalone THEN {Outcome(There, "none")} ELSE FollowPush(There, Sent, t) :
         Alter(o.repo)
  BY DEF Follow
<1>6. Sent \in Branch /\ There.track[Sent] # Absent /\ (t # Absent => t \subseteq There.track[Sent])
  BY <1>1, CallerJob DEF LaneOk, HeldOk, Sent, There, Job
<1>7. Calm(r, There, o.repo)
  <2>1. CASE t = Absent \/ r \in Standalone
    <3>1. o.repo = There BY <1>5, <2>1 DEF Outcome
    <3>2. QED BY <1>3, <3>1, SameGains
  <2>2. CASE ~(t = Absent \/ r \in Standalone)
    <3>1. o \in FollowPush(There, Sent, t) BY <1>5, <2>2
    <3>2. QED BY <1>3, <1>6, <2>2, <3>1, FollowPushGains
  <2>3. QED BY <2>1, <2>2
<1>8. Only(r) /\ repo'[r] = o.repo BY <1>1, <1>5, AlterOk
<1>9. Moves1(Caller) BY <1>1, <1>2, <1>4, CallerJob, Next1Ok DEF Follow
<1>10. QED BY <1>1, <1>2, <1>3, <1>7, <1>8, <1>9, CallerJob, CalmStep DEF There

\* Asking for confirmation changes no repository.
LEMMA AskStep ==
  ASSUME TypeInv, Ask
  PROVE  TypeInv' /\ repo' = repo
<1>1. lane[Caller].step = "ask" BY DEF Ask, At
<1>2. cmd' = cmd /\ seen' = seen /\ repo' = repo BY DEF Ask, history
<1>3. DOMAIN run' = {"phase", "exit"} /\ run'.phase = run.phase BY <1>1, CallerJob DEF Ask
<1>4. cmd.op \in {"reset", "clean"} BY <1>1, CallerJob, StepsOf
<1>5. (IF cmd.op = "clean" THEN "remove" ELSE "classify") \in Steps(cmd.op) BY <1>4 DEF Steps
<1>6. Moves1(Caller)
  <2>1. CASE Goto(Caller, IF cmd.op = "clean" THEN "remove" ELSE "classify")
    <3>1. (IF cmd.op = "clean" THEN "remove" ELSE "classify") \in Steps(cmd.op) \ {"send", "follow", "second"}
      BY <1>5
    <3>2. QED BY <1>1, <1>2, <1>3, <2>1, <3>1, CallerJob, GotoOk
  <2>2. CASE lane' = [lane EXCEPT ![Caller] = Over] BY <1>1, <2>2, CallerJob, EndsOk
  <2>3. QED BY <2>1, <2>2 DEF Ask
<1>7. QED BY <1>1, <1>2, <1>3, <1>6, CallerJob, StillStep

\* Classifying a checkout changes no repository, and tells its refusal if it has one.
LEMMA ClassifyStep ==
  ASSUME TypeInv, Classify
  PROVE  TypeInv' /\ repo' = repo
         /\ \/ /\ lane'[Caller].step = "classify"
               /\ told' = told \/ Tell(Job(Caller), "refused", {})
               /\ Refusal(Job(Caller)) = "none" => told' = told
               /\ Refusal(Job(Caller)) # "none" => Tell(Job(Caller), "refused", {})
            \/ lane'[Caller] = Over
            \/ lane'[Caller].step = "move" /\ ~Blocked(Job(Caller)) /\ told' = told
<1> DEFINE w == Job(Caller)
<1>1. lane[Caller].step = "classify" BY DEF Classify, At
<1>2. cmd' = cmd /\ seen' = [seen EXCEPT ![w[1]] = @ \cup Stake(w)] /\ repo' = repo BY DEF Classify
<1>3. run' = [run EXCEPT !.exit = IF Blocked(w) THEN 1 ELSE 0] BY DEF Classify
<1>4. DOMAIN run' = {"phase", "exit"} /\ run'.phase = run.phase /\ DOMAIN seen' = Repo
  BY <1>1, <1>2, <1>3, CallerJob
<1>5. cmd.op \in {"checkout", "reset"} BY <1>1, CallerJob, StepsOf
<1>6. {"classify", "move"} \subseteq Steps(cmd.op) BY <1>5 DEF Steps
<1>7. w \in lane[Caller].jobs /\ w \in Targets(cmd) BY <1>1, <1>5, CallerJob
<1>8. lane' = [lane EXCEPT ![Caller] =
              IF lane[Caller].jobs # {w} THEN Thread(lane[Caller].jobs \ {w}, "classify")
              ELSE IF Blocked(w) THEN Over
              ELSE Thread(Targets(cmd), "move")]
  BY DEF Classify
<1> HIDE DEF w
<1>9. DOMAIN lane' = Lanes /\ \A k \in Lanes \ {Caller} : lane'[k] = lane[k] BY <1>1, <1>8, CallerJob
<1>10. lane'[Caller] = IF lane[Caller].jobs # {w} THEN Thread(lane[Caller].jobs \ {w}, "classify")
                      ELSE IF Blocked(w) THEN Over
                      ELSE Thread(Targets(cmd), "move")
  BY <1>1, <1>8, CallerJob
<1>11. IF Refusal(w) = "none" THEN UNCHANGED told ELSE Tell(w, "refused", {}) BY DEF Classify, w
<1>12. CASE lane[Caller].jobs # {w}
  <2>1. lane'[Caller] = Thread(lane[Caller].jobs \ {w}, "classify") BY <1>10, <1>12
  <2>2. IsThread(lane'[Caller]) /\ lane'[Caller].jobs = lane[Caller].jobs \ {w} /\ lane'[Caller].step = "classify"
    BY <2>1, ThreadIs
  <2>3. lane'[Caller].jobs # {} BY <1>7, <1>12, <2>2
  <2>4. HeldOk(lane[Caller])' BY <2>2 DEF HeldOk
  <2>5. LaneOk(Caller)' BY <1>1, <1>2, <1>4, <1>6, <2>2, <2>3, <2>4, CallerJob, Advance
  <2>6. Moves1(Caller) BY <1>9, <2>5 DEF Moves1
  <2>7. TypeInv' BY <1>1, <1>2, <1>4, <2>6, CallerJob, StillStep
  <2>8. QED BY <1>2, <1>11, <2>2, <2>7 DEF w
<1>13. CASE lane[Caller].jobs = {w} /\ Blocked(w)
  <2>1. lane'[Caller] = Over BY <1>10, <1>13
  <2>2. LaneOk(Caller)' BY <2>1, Ends
  <2>3. Moves1(Caller) BY <1>9, <2>2 DEF Moves1
  <2>4. TypeInv' BY <1>1, <1>2, <1>4, <2>3, CallerJob, StillStep
  <2>5. QED BY <1>2, <2>1, <2>4
<1>14. CASE lane[Caller].jobs = {w} /\ ~Blocked(w)
  <2>1. lane'[Caller] = Thread(Targets(cmd), "move") BY <1>10, <1>14
  <2>2. IsThread(lane'[Caller]) /\ lane'[Caller].jobs = Targets(cmd) /\ lane'[Caller].step = "move"
    BY <2>1, ThreadIs
  <2>3. lane'[Caller].jobs # {} BY <1>7, <2>2
  <2>4. HeldOk(lane[Caller])' BY <2>2 DEF HeldOk
  <2>5. LaneOk(Caller)' BY <1>1, <1>2, <1>4, <1>5, <1>6, <2>2, <2>3, <2>4, CallerJob, Advance
  <2>6. Moves1(Caller) BY <1>9, <2>5 DEF Moves1
  <2>7. TypeInv' BY <1>1, <1>2, <1>4, <2>6, CallerJob, StillStep
  <2>8. Refusal(w) = "none" BY <1>14 DEF Blocked
  <2>9. QED BY <1>2, <1>11, <1>14, <2>2, <2>7, <2>8 DEF w
<1>15. QED BY <1>12, <1>13, <1>14

\* A checkout discards, and saves nothing less than before.
LEMMA CheckoutMoveStep ==
  ASSUME TypeInv, CheckoutMove
  PROVE  LET r == Job(Caller)[1]
         IN  /\ TypeInv' /\ r \in Repo /\ Only(r) /\ Saved(There) \subseteq Saved(repo'[r])
             /\ KeepsClean(r, There, repo'[r])
             /\ Moved(r, There, repo'[r], Here, Tip(repo'[r], Here)) /\ repo'[r].at[Here].merging = "no"
             /\ lane[Caller].step = "move" /\ lane'[Caller].step = "track" /\ lane'[Caller].jobs = lane[Caller].jobs
<1> DEFINE r == Job(Caller)[1]
           g == There
           p == Here
           ref == IF HasRef(There, Feature) THEN Feature ELSE OriginMain
           n == ForceCheckout(There, Here, ref)
<1>1. lane[Caller].step = "move" /\ cmd.op = "checkout" BY DEF CheckoutMove, At
<1>2. cmd' = cmd /\ run' = run /\ seen' = seen BY DEF CheckoutMove, history
<1>3. r \in Repo /\ WellFormed(r, g) /\ p \in Envs(r) /\ p \in Branch /\ cmd \in CommandType BY <1>1, CallerJob
<1>4. ref \in RefName /\ HasRef(g, ref)
  <2>1. Feature \in RefName BY <1>3 DEF Feature, RefName, CommandType
  <2>2. OriginMain \in RefName /\ HasRef(g, OriginMain) BY <1>3, MainKnown
  <2>3. QED BY <2>1, <2>2
<1>5. Ref(g, ref) \in SUBSET Change BY <1>3, <1>4, RefHistory DEF WellFormed
<1>6. Only(r) /\ repo'[r] = n BY <1>1, AlterOk DEF CheckoutMove
<1> HIDE DEF r, g, p, ref
<1>7. /\ Moved(r, g, n, p, Ref(g, ref)) /\ n.at[p].tree = Ref(g, ref) /\ n.at[p].merging = "no"
  BY <1>3, <1>5, CheckoutMoved DEF g, p
<1> HIDE DEF n
<1>8. /\ WellFormed(r, n) /\ Saved(g) \subseteq Saved(n) /\ Grown(g.track, n.track)
      /\ KeepsClean(r, g, n) /\ Tip(n, p) = Ref(g, ref)
  BY <1>3, <1>7, DiscardGains, MovedTip
<1>9. "track" \in Steps(cmd.op) BY <1>1 DEF Steps
<1>10. Moves1(Caller) /\ lane'[Caller].step = "track" /\ lane'[Caller].jobs = lane[Caller].jobs
  BY <1>1, <1>2, <1>9, CallerJob, GotoOk DEF CheckoutMove
<1>11. TypeInv' BY <1>1, <1>2, <1>3, <1>6, <1>8, <1>10, CallerJob, OnlyStep DEF g, r, There
<1>12. QED BY <1>1, <1>3, <1>6, <1>7, <1>8, <1>10, <1>11 DEF r, g, p

\* Wiring the upstream of a branch is calm.
LEMMA WiringStep ==
  ASSUME TypeInv, CheckoutTrack \/ Connect
  PROVE  TypeInv' /\ Calmly(Job(Caller)[1])
<1> DEFINE r == Job(Caller)[1]
<1>1. lane[Caller].step \in {"track", "connect", "disconnect"} BY DEF CheckoutTrack, Connect, At
<1>2. cmd' = cmd /\ run' = run /\ seen' = seen BY DEF CheckoutTrack, Connect, history
<1>3. r \in Repo /\ WellFormed(r, There) /\ cmd \in CommandType /\ cmd.op \in {"checkout", "connect", "disconnect"}
  BY <1>1, CallerJob, StepsOf
<1> DEFINE b == HeadBranchName(There, Here)
<1>4. PICK u \in Branch \cup {None} : Alter([There EXCEPT !.up[b] = u])
  BY <1>3 DEF CheckoutTrack, Connect, SetUpstream, UnsetUpstream, CommandType
<1>5. PICK step \in {"move", "connect", "disconnect"} : Next1(Caller, step) /\ step \in Steps(cmd.op)
  <2>1. CASE CheckoutTrack
    <3>1. Next1(Caller, "move") BY <2>1 DEF CheckoutTrack
    <3>2. lane[Caller].step = "track" BY <2>1 DEF CheckoutTrack, At
    <3>3. cmd.op = "checkout" BY <3>2, CallerJob, StepsOf
    <3>4. "move" \in Steps(cmd.op) BY <3>3 DEF Steps
    <3>5. QED BY <3>1, <3>4
  <2>2. CASE Connect
    <3>1. Next1(Caller, cmd.op) BY <2>2 DEF Connect
    <3>2. lane[Caller].step \in {"connect", "disconnect"} BY <2>2 DEF Connect, At
    <3>3. cmd.op \in {"connect", "disconnect"} BY <3>2, CallerJob, StepsOf
    <3>4. cmd.op \in Steps(cmd.op) BY <3>3 DEF Steps
    <3>5. QED BY <3>1, <3>3, <3>4
  <2>3. QED BY <2>1, <2>2
<1> DEFINE n == [There EXCEPT !.up[b] = u]
<1> HIDE DEF b
<1>6. Synced(r, There, n) BY <1>3, UpSynced
<1>7. Only(r) /\ repo'[r] = n BY <1>1, <1>4, AlterOk
<1> HIDE DEF n
<1>8. Calm(r, repo[r], repo'[r]) BY <1>3, <1>6, <1>7, SyncedGains DEF There
<1>9. Moves1(Caller) BY <1>1, <1>2, <1>5, CallerJob, Next1Ok
<1>10. QED BY <1>1, <1>2, <1>3, <1>7, <1>8, <1>9, CallerJob, CalmStep

\* A reset of a checkout is ResetTo of it, or fails and changes no repository.
LEMMA ResetMoveStep ==
  ASSUME TypeInv, ResetMove
  PROVE  LET r == Job(Caller)[1]
         IN  /\ TypeInv' /\ lane[Caller].step = "move" /\ cmd.op = "reset" /\ lane'[Caller].step \in {"over", "raised", "move"}
             /\ cmd.mode \in ResetModes
             /\ \/ repo' = repo
                \/ /\ r \in Repo /\ Only(r) /\ cmd.ref \in RefName /\ HasRef(There, cmd.ref)
                   /\ repo'[r] = ResetTo(There, Here, cmd.mode, cmd.ref)
                   /\ Moved(r, There, repo'[r], Here, Ref(There, cmd.ref)) /\ Grown(There.track, repo'[r].track)
                   /\ ~ResetRefused
<1> DEFINE r == Job(Caller)[1]
           g == There
           p == Here
           n == ResetTo(There, Here, cmd.mode, cmd.ref)
<1>1. lane[Caller].step = "move" /\ cmd.op = "reset" BY DEF ResetMove, At
<1>2. cmd' = cmd /\ run' = run /\ seen' = seen BY DEF ResetMove, history
<1>3. r \in Repo /\ WellFormed(r, g) /\ p \in Envs(r) /\ cmd \in CommandType /\ cmd.ref \in RefName
      /\ cmd.mode \in ResetModes
  BY <1>1, CallerJob, CommandsAssumption DEF CommandType
<1>4. "move" \in Steps(cmd.op) BY <1>1 DEF Steps
<1>5. /\ Next1(Caller, "move") => Moves1(Caller) /\ lane'[Caller].step \in {"over", "move"}
      /\ lane' = [lane EXCEPT ![Caller] = Raised] => Moves1(Caller) /\ lane'[Caller] = Raised
  BY <1>1, <1>2, <1>4, CallerJob, Next1Ok, EndsOk
<1>6. CASE cmd.dry \/ ResetRefused
  <2>1. repo' = repo /\ (Next1(Caller, "move") \/ lane' = [lane EXCEPT ![Caller] = Raised])
    BY <1>6 DEF ResetMove, Skip
  <2>2. Moves1(Caller) /\ lane'[Caller].step \in {"over", "raised", "move"} BY <1>5, <2>1, OverIs
  <2>3. TypeInv' BY <1>1, <1>2, <2>1, <2>2, CallerJob, StillStep
  <2>4. QED BY <1>1, <1>3, <2>1, <2>2, <2>3
<1>7. CASE ~cmd.dry /\ ~ResetRefused
  <2>1. Alter(n) /\ Next1(Caller, "move") /\ HasRef(g, cmd.ref) BY <1>7 DEF ResetMove, ResetRefused
  <2>2. Only(r) /\ repo'[r] = n BY <1>1, <2>1, AlterOk
  <2>3. Ref(g, cmd.ref) \in SUBSET Change BY <1>3, <2>1, RefHistory DEF WellFormed
  <2>4. cmd.mode \in {"soft", "mixed", "hard"} BY <1>3 DEF ResetModes
  <2> HIDE DEF r, g, p
  <2>5. Moved(r, g, n, p, Ref(g, cmd.ref)) BY <1>3, <2>3, <2>4, ResetMoved DEF g, p
  <2>6. WellFormed(r, n) /\ Grown(g.track, n.track) BY <1>3, <2>5, MovedTip
  <2>7. Moves1(Caller) /\ lane'[Caller].step \in {"over", "move"} BY <1>5, <2>1
  <2> HIDE DEF n
  <2>8. TypeInv' BY <1>1, <1>2, <1>3, <2>2, <2>6, <2>7, CallerJob, OnlyStep DEF g, r, There
  <2>9. QED BY <1>1, <1>3, <1>7, <2>1, <2>2, <2>5, <2>6, <2>7, <2>8 DEF g, p, r, n
<1>8. QED BY <1>6, <1>7

WithFiles(g, p, f) == [g EXCEPT !.at[p].files = f]

\* Changing untracked files is calm.
LEMMA FilesCalm ==
  ASSUME NEW r \in Repo, NEW g, WellFormed(r, g), NEW p \in Envs(r), NEW f \in SUBSET Files,
         NEW n, n = WithFiles(g, p, f)
  PROVE  Calm(r, g, n) /\ Moved(r, g, n, p, Tip(g, p)) /\ n.stash = g.stash
<1> DEFINE c == [g.at[p] EXCEPT !.files = f]
<1>1. g \in RepoType(r) /\ g.at[p] \in CheckoutType BY RepoFields DEF WellFormed
<1>2. c \in CheckoutType /\ c.on = g.at[p].on /\ c.detached = g.at[p].detached /\ c.tree = g.at[p].tree
      /\ c.merging = g.at[p].merging /\ c.before = g.at[p].before
  BY <1>1 DEF CheckoutType
<1>3. n = With(g, p, c, g.stash) BY <1>1 DEF With, WithFiles, RepoType
<1> HIDE DEF c
<1>4. Moved(r, g, n, p, Tip(g, p)) /\ Gains(r, g, n) /\ n.at[p] = c /\ KeepsClean(r, g, n) /\ n.stash = g.stash
  BY <1>2, <1>3, EditGains
<1>5. Quiet(r, g, n) BY <1>1, <1>2, <1>4, MovedTip DEF Quiet, Moved
<1>6. QED BY <1>4, <1>5 DEF Calm

\* A clean's preview changes no repository.
LEMMA PreviewStep ==
  ASSUME TypeInv, Preview
  PROVE  TypeInv' /\ repo' = repo
<1>1. lane[Caller].step = "preview" BY DEF Preview, At
<1>2. cmd' = cmd /\ run' = run /\ seen' = seen /\ repo' = repo BY DEF Preview, history
<1>3. cmd.op = "clean" BY <1>1, CallerJob, StepsOf
<1>4. {"ask", "remove"} \subseteq Steps(cmd.op) BY <1>3 DEF Steps
<1>5. PICK step \in {"ask", "remove"} : lane' = [lane EXCEPT ![Caller] = Over] \/ Goto(Caller, step) BY DEF Preview
<1>6. step \in Steps(cmd.op) \ {"send", "follow", "second"} /\ step # "abort" BY <1>4
<1>7. Moves1(Caller) BY <1>1, <1>2, <1>5, <1>6, CallerJob, EndsOk, GotoOk
<1>8. QED BY <1>1, <1>2, <1>7, CallerJob, StillStep

\* A clean touches untracked files only.
LEMMA CleanStep ==
  ASSUME TypeInv, CleanOne \/ CleanPartly
  PROVE  TypeInv' /\ (repo' = repo \/ Calmly(Job(Caller)[1]))
<1> DEFINE r == Job(Caller)[1]
<1>1. lane[Caller].step = "remove" BY DEF CleanOne, CleanPartly, At
<1>2. cmd' = cmd /\ run' = run /\ seen' = seen BY DEF CleanOne, CleanPartly, history
<1>3. cmd.op = "clean" /\ r \in Repo /\ WellFormed(r, There) /\ Here \in Envs(r) BY <1>1, CallerJob, StepsOf
<1>4. "remove" \in Steps(cmd.op) BY <1>3 DEF Steps
<1>5. Next1(Caller, "remove") \/ lane' = [lane EXCEPT ![Caller] = Over] BY DEF CleanOne, CleanPartly
<1>6. Moves1(Caller) BY <1>1, <1>2, <1>4, <1>5, CallerJob, EndsOk, Next1Ok
<1>7. CASE repo' = repo BY <1>1, <1>2, <1>6, <1>7, CallerJob, StillStep
<1>8. ASSUME NEW s, Remove(s) PROVE TypeInv' /\ Calmly(r)
  <2> DEFINE n == WithFiles(There, Here, There.at[Here].files \ s)
  <2>1. There.at[Here].files \ s \in SUBSET Files BY <1>3, RepoFields DEF WellFormed, CheckoutType
  <2>2. Calm(r, There, n) BY <1>3, <2>1, FilesCalm
  <2>3. Alter(n) BY <1>8 DEF Remove, WithFiles
  <2> HIDE DEF n
  <2>4. Only(r) /\ repo'[r] = n BY <1>1, <2>3, AlterOk
  <2>5. Calm(r, repo[r], repo'[r]) BY <2>2, <2>4 DEF There
  <2>6. QED BY <1>1, <1>2, <1>3, <1>6, <2>4, <2>5, CallerJob, CalmStep
<1>9. QED BY <1>7, <1>8 DEF CleanOne, CleanPartly, Skip

-----------------------------------------------------------------------------
(* The user and the others. *)

\* Every other checkout is as it was.
Elsewhere(r, g, n, p) == \A q \in Envs(r) \ {p} : n.at[q] = g.at[q] /\ Look(n, q) = Look(g, q)

\* A move with the stash as it was changes nothing elsewhere in the repository.
LEMMA MovedElsewhere ==
  ASSUME NEW r \in Repo, NEW g, WellFormed(r, g), NEW p \in Envs(r), NEW n, NEW h, Moved(r, g, n, p, h),
         n.stash = g.stash
  PROVE  Elsewhere(r, g, n, p)
<1>1. \A q \in Envs(r) \ {p} : Tip(n, q) = Tip(g, q) BY MovedTip
<1>2. QED BY <1>1 DEF Elsewhere, Look, Moved

\* What the user does to a checkout: the command loses no change by it, and
\* only a merge begun is one in progress.
Touched(w, n) ==
    LET g == repo[w[1]]
    IN  /\ Gains(w[1], g, n) /\ Elsewhere(w[1], g, n, w[2]) /\ n.track = g.track
        /\ \/ n.at[w[2]].merging = g.at[w[2]].merging /\ n.at[w[2]].before = g.at[w[2]].before
           \/ n.at[w[2]].merging = "merge"
        /\ n.at[w[2]].merging # "no" /\ (g.at[w[2]].merging = "no" \/ Dirty(g, w[2])) => Dirty(n, w[2])

\* What HEAD holds the repository holds.
LEMMA TipKept ==
  ASSUME NEW r \in Repo, NEW g, WellFormed(r, g), NEW p \in Envs(r)
  PROVE  Tip(g, p) \subseteq Kept(g)
<1> DOMAIN g.at = Envs(r) /\ DOMAIN g.heads = Branch /\ g.at[p] \in CheckoutType BY RepoFields DEF WellFormed
<1>1. CASE g.at[p].on = Detached BY <1>1, KeptIs DEF Tip
<1>2. CASE g.at[p].on # Detached BY <1>2, KeptIs DEF Tip, WellFormed, Attached, CheckoutType
<1>3. QED BY <1>1, <1>2

WithEdit(g, p, x) == [g EXCEPT !.at[p].tree = @ \cup {x}]
WithMerge(g, p, x) == Stopped(g, p, {x}, "merge")

\* An edit of the user's, or a merge of theirs, keeps what the repository held.
LEMMA EditTouches ==
  ASSUME TypeInv, NEW w \in Spots, NEW x \in Change, New(w[1], x)
  PROVE  /\ Touched(w, WithEdit(repo[w[1]], w[2], x))
         /\ Touched(w, WithMerge(repo[w[1]], w[2], x))
<1> DEFINE r == w[1]
           g == repo[r]
           p == w[2]
<1>1. r \in Repo /\ p \in Envs(r) /\ WellFormed(r, g) BY DEF Spots, TypeInv
<1>2. g \in RepoType(r) /\ g.at[p] \in CheckoutType BY <1>1, RepoFields DEF WellFormed
<1>3. x \notin Kept(g) BY DEF New
<1> HIDE DEF g, p, r
<1>4. x \notin Tip(g, p) BY <1>1, <1>3, TipKept
<1>5. Touched(w, WithEdit(g, p, x))
  <2> DEFINE n == WithEdit(g, p, x)
             c == [g.at[p] EXCEPT !.tree = g.at[p].tree \cup {x}]
  <2>1. c \in CheckoutType /\ c.on = g.at[p].on /\ c.detached = g.at[p].detached /\ g.at[p].tree \subseteq c.tree
        /\ x \in c.tree
        /\ c.merging = g.at[p].merging /\ c.before = g.at[p].before
    BY <1>2 DEF CheckoutType
  <2>2. n = With(g, p, c, g.stash) BY <1>2 DEF With, WithEdit, RepoType
  <2> HIDE DEF c, n
  <2>3. Moved(r, g, n, p, Tip(g, p)) /\ Gains(r, g, n) /\ n.at[p] = c /\ n.stash = g.stash BY <1>1, <2>1, <2>2, EditGains
  <2>4. Elsewhere(r, g, n, p) BY <1>1, <2>3, MovedElsewhere
  <2>5. Tip(n, p) = Tip(g, p) /\ Dirty(n, p) BY <1>1, <1>4, <2>1, <2>3, MovedTip DEF Dirty
  <2>6. Touched(w, n) BY <1>4, <2>1, <2>3, <2>4, <2>5 DEF Touched, Moved, g, p, r
  <2>7. QED BY <2>6 DEF n
<1>6. Touched(w, WithMerge(g, p, x))
  <2> DEFINE n == WithMerge(g, p, x)
             c == [g.at[p] EXCEPT !.merging = "merge", !.before = g.at[p].tree, !.tree = g.at[p].tree \cup {x}]
  <2>1. c \in CheckoutType /\ c.on = g.at[p].on /\ c.detached = g.at[p].detached /\ g.at[p].tree \subseteq c.tree
        /\ x \in c.tree
        /\ c.merging = "merge" /\ c.before = g.at[p].tree
    BY <1>2 DEF CheckoutType
  <2>2. n = With(g, p, c, g.stash)
    <3> DEFINE m == [g EXCEPT !.at[p].merging = "merge", !.at[p].before = g.at[p].tree]
           at == [m.at EXCEPT ![p].tree = g.at[p].tree \cup {x}]
    <3>1. m.at[p].tree = g.at[p].tree BY <1>2 DEF RepoType, CheckoutType
    <3>2. n = [m EXCEPT !.at[p].tree = g.at[p].tree \cup {x}] BY DEF WithMerge, Stopped
    <3>3. m.at = [g.at EXCEPT ![p].merging = "merge", ![p].before = g.at[p].tree] BY <1>2 DEF RepoType
    <3>4. at = [g.at EXCEPT ![p] = c] BY <1>2, <3>3 DEF RepoType
    <3>5. n = [m EXCEPT !.at = at]
      <4> HIDE DEF n, m
      <4>1. QED BY <3>1, <3>2
    <3>6. [m EXCEPT !.at = at] = [g EXCEPT !.at = at] BY <1>2 DEF RepoType
    <3> HIDE DEF n, m, at, c
    <3>7. [g EXCEPT !.at = at] = [g EXCEPT !.at = at, !.stash = g.stash] BY <1>2 DEF RepoType
    <3>8. QED BY <3>4, <3>5, <3>6, <3>7 DEF With
  <2> HIDE DEF c, n
  <2>3. Moved(r, g, n, p, Tip(g, p)) /\ Gains(r, g, n) /\ n.at[p] = c /\ n.stash = g.stash BY <1>1, <2>1, <2>2, EditGains
  <2>4. Elsewhere(r, g, n, p) BY <1>1, <2>3, MovedElsewhere
  <2>5. Tip(n, p) = Tip(g, p) /\ Dirty(n, p) BY <1>1, <1>4, <2>1, <2>3, MovedTip DEF Dirty
  <2>6. Touched(w, n) BY <1>4, <2>1, <2>3, <2>4, <2>5 DEF Touched, Moved, g, p, r
  <2>7. QED BY <2>6 DEF n
<1>7. QED BY <1>5, <1>6 DEF g, p, r

\* A commit of the user's keeps what the repository held.
LEMMA CommitTouches ==
  ASSUME TypeInv, NEW w \in Spots, NEW x \in Change, repo[w[1]].at[w[2]].merging = "no", NEW n,
         n = MoveWithTree(repo[w[1]], w[2], Tip(repo[w[1]], w[2]) \cup {x})
  PROVE  Touched(w, n)
<1> DEFINE r == w[1]
           g == repo[r]
           p == w[2]
           h == Tip(g, p) \cup {x}
<1>1. r \in Repo /\ p \in Envs(r) /\ WellFormed(r, g) /\ g.at[p].merging = "no" BY DEF Spots, TypeInv
<1>2. h \in SUBSET Change /\ Tip(g, p) \subseteq h BY <1>1, TipType
<1>3. n = MoveWithTree(g, p, h) OBVIOUS
<1>4. n \in Moves(g, p, h, FALSE) BY <1>3 DEF Moves
<1> HIDE DEF g, p, r, h
<1>5. Moved(r, g, n, p, h) /\ Calm(r, g, n) BY <1>1, <1>2, <1>4, MovesGain
<1>6. n.stash = g.stash BY <1>1, <1>2, <1>3, MoveWithTreeMoved
<1>7. Elsewhere(r, g, n, p) BY <1>1, <1>5, <1>6, MovedElsewhere
<1>8. QED BY <1>1, <1>5, <1>7 DEF Touched, Moved, g, p, r, Calm, Quiet

\* A new untracked file keeps what the repository held.
LEMMA FileTouches ==
  ASSUME TypeInv, NEW w \in Spots, NEW f \in Files
  PROVE  Touched(w, WithFiles(repo[w[1]], w[2], repo[w[1]].at[w[2]].files \cup {f}))
<1> DEFINE r == w[1]
           g == repo[r]
           p == w[2]
           s == g.at[p].files \cup {f}
           n == WithFiles(g, p, s)
<1>1. r \in Repo /\ p \in Envs(r) /\ WellFormed(r, g) BY DEF Spots, TypeInv
<1>2. s \in SUBSET Files BY <1>1, RepoFields DEF WellFormed, CheckoutType
<1> HIDE DEF g, p, r, s
<1>3. Moved(r, g, n, p, Tip(g, p)) /\ Calm(r, g, n) /\ n.stash = g.stash BY <1>1, <1>2, FilesCalm
<1> HIDE DEF n
<1>4. Elsewhere(r, g, n, p) BY <1>1, <1>3, MovedElsewhere
<1>5. Touched(w, n) BY <1>1, <1>3, <1>4, MovedTip DEF Touched, Moved, g, p, r, Calm, Quiet, Dirty
<1>6. QED BY <1>5 DEF n, g, p, r, s

\* A head the user detaches keeps what the repository held.
LEMMA DetachTouches ==
  ASSUME TypeInv, NEW w \in Spots
  PROVE  Touched(w, Loosened(repo[w[1]], w[2]))
<1> DEFINE r == w[1]
           g == repo[r]
           p == w[2]
           n == Loosened(g, p)
<1>1. r \in Repo /\ p \in Envs(r) /\ WellFormed(r, g) BY DEF Spots, TypeInv
<1> HIDE DEF g, p, r
<1>2. /\ Moved(r, g, n, p, Tip(g, p)) /\ Gains(r, g, n) /\ n.stash = g.stash
      /\ n.at[p].merging = g.at[p].merging /\ n.at[p].before = g.at[p].before
      /\ n.at[p].tree = g.at[p].tree
  BY <1>1, DetachGains
<1> HIDE DEF n
<1>3. Elsewhere(r, g, n, p) BY <1>1, <1>2, MovedElsewhere
<1>4. Tip(n, p) = Tip(g, p) BY <1>1, <1>2, MovedTip
<1>5. Touched(w, n) BY <1>2, <1>3, <1>4 DEF Touched, Moved, g, p, r, Dirty
<1>6. QED BY <1>5 DEF n, g, p, r

\* The command is where it was.
Watched == UNCHANGED <<cmd, run, lane, told, done, seen, started>> /\ run.phase = "running" /\ meddled' = meddled + 1

\* Anyone's change that only adds to a repository preserves the types.
LEMMA WatchedStep ==
  ASSUME TypeInv, UNCHANGED <<cmd, run, lane, seen>>, NEW r \in Repo, Only(r), Gains(r, repo[r], repo'[r])
  PROVE  TypeInv'
<1>1. RepoOk /\ TrackGrown BY OnlyOk DEF Gains
<1>2. Caller \in Lanes BY DEF Lanes
<1>3. LaneOk(Caller)' BY <1>1, <1>2, LaneStays
<1>4. Moves1(Caller) BY <1>3 DEF Moves1, TypeInv
<1>5. QED BY <1>1, <1>2, <1>4, TypeStep DEF TypeInv

\* An edit preserves the types and stays out of a checkout being integrated.
LEMMA EditedStep ==
  ASSUME TypeInv, NEW w \in Spots, NEW n, Edited(w, n), Touched(w, n)
  PROVE  TypeInv' /\ Watched /\ ~Busy(w) /\ w[1] \in Repo /\ Only(w[1]) /\ Touched(w, repo'[w[1]])
<1>1. w[1] \in Repo BY DEF Spots
<1>2. Watched /\ ~Busy(w) /\ repo' = [repo EXCEPT ![w[1]] = n]
  BY DEF Edited, Watched, Meddle, history
<1>3. Only(w[1]) /\ repo'[w[1]] = n BY <1>1, <1>2, OnlySet
<1>4. Gains(w[1], repo[w[1]], n) BY DEF Touched
<1>5. TypeInv' BY <1>1, <1>2, <1>3, <1>4, WatchedStep DEF Watched
<1>6. QED BY <1>1, <1>2, <1>3, <1>5

\* A push by others changes the remote of one repository only.
LEMMA PushedStep ==
  ASSUME TypeInv, NEW r \in Repo, NEW b \in DOMAIN repo[r].origin, NEW x \in Pushes, OthersPush(r, b, x)
  PROVE  TypeInv' /\ Watched /\ Only(r) /\ Synced(r, repo[r], repo'[r]) /\ repo'[r].track = repo[r].track
<1> DEFINE g == repo[r]
           h == g.origin[b] \cup {x}
           n == [g EXCEPT !.origin[b] = h]
<1>1. WellFormed(r, g) /\ b \in Branch BY RepoFields DEF TypeInv, WellFormed
<1>2. Watched /\ repo' = [repo EXCEPT ![r] = n] /\ g.origin[b] # Absent
  BY DEF OthersPush, Watched, Meddle, history
<1>3. h \in SUBSET Change /\ g.origin[b] \subseteq h BY <1>1, <1>2, ChangeAssumption, RepoFields DEF WellFormed
<1> HIDE DEF h
<1>4. Synced(r, g, n) BY <1>1, <1>3, OriginSynced
<1> HIDE DEF n
<1>5. Only(r) /\ repo'[r] = n BY <1>2, OnlySet
<1>6. Gains(r, g, repo'[r]) BY <1>1, <1>4, <1>5, SyncedGains DEF Calm
<1>7. TypeInv' BY <1>2, <1>5, <1>6, WatchedStep DEF Watched
<1>8. n.track = g.track BY <1>1 DEF n, WellFormed, RepoType
<1>9. QED BY <1>2, <1>4, <1>5, <1>7, <1>8

\* What is done meanwhile: in a checkout git does not hold, or on the remote.
LEMMA MeddlingStep ==
  ASSUME TypeInv, Meddling
  PROVE  /\ TypeInv' /\ Watched
         /\ \/ \E w \in Spots : ~Busy(w) /\ w[1] \in Repo /\ Only(w[1]) /\ Touched(w, repo'[w[1]])
            \/ \E r \in Repo : Only(r) /\ Synced(r, repo[r], repo'[r]) /\ repo'[r].track = repo[r].track
<1>0. Reach \subseteq Spots /\ Changes \subseteq Change BY RepoAssumption, ChangeAssumption
<1>1. ASSUME NEW w \in Reach, NEW x \in Changes, Edit(w, x) \/ Commit(w, x) \/ StartMerge(w, x)
      PROVE  \E n : Edited(w, n) /\ Touched(w, n)
  <2>1. w \in Spots /\ x \in Change BY <1>0
  <2>2. CASE Edit(w, x) BY <2>1, <2>2, EditTouches DEF Edit, WithEdit
  <2>3. CASE Commit(w, x) BY <2>1, <2>3, CommitTouches DEF Commit
  <2>4. CASE StartMerge(w, x) BY <2>1, <2>4, EditTouches DEF StartMerge, WithMerge
  <2>5. QED BY <1>1, <2>2, <2>3, <2>4
<1>2. ASSUME NEW w \in Reach, NEW f \in Files, NewFile(w, f) PROVE \E n : Edited(w, n) /\ Touched(w, n)
  BY <1>0, <1>2, FileTouches DEF NewFile, WithFiles
<1>3. ASSUME NEW w \in Reach, Detach(w) PROVE \E n : Edited(w, n) /\ Touched(w, n)
  BY <1>0, <1>3, DetachTouches DEF Detach, Loosened
<1>4. CASE \E w \in Reach : \E n : Edited(w, n) /\ Touched(w, n) BY <1>0, <1>4, EditedStep
<1>5. CASE \E r \in Repo, x \in Pushes : \E b \in DOMAIN repo[r].origin : OthersPush(r, b, x) BY <1>5, PushedStep
<1>6. QED BY <1>1, <1>2, <1>3, <1>4, <1>5 DEF Meddling

-----------------------------------------------------------------------------
(* Commands start and end; the invariant. *)

\* The jobs of a lane are places of its repository, or the command's targets.
LEMMA JobsAre ==
  ASSUME NEW c \in CommandType, NEW l \in Lanes, Jobs(c, l) # {}
  PROVE  /\ Jobs(c, l) \subseteq Spots /\ (l = Caller <=> c.op \notin Pooled)
         /\ l # Caller => \A w \in Jobs(c, l) : w[1] = l
         /\ c.op \notin Pooled \cup {"push"} => Jobs(c, l) \subseteq Targets(c)
<1>0. Targets(c) \subseteq OnDisk /\ OnDisk \subseteq Spots BY Disk DEF Targets
<1>1. Caller \notin Repo /\ Standalone \subseteq Repo /\ l \in Repo \cup {Caller}
  BY NameAssumption, RepoAssumption DEF Lanes
<1>2. CASE l \in Standalone /\ c.standalone /\ c.op \in Pooled
  <2>1. Jobs(c, l) = {Own(l)} \/ Jobs(c, l) = {} BY <1>1, <1>2 DEF Jobs
  <2>2. Own(l) \in Spots /\ Own(l)[1] = l BY <1>1, <1>2, OwnSpot
  <2>3. QED BY <1>1, <1>2, <2>1, <2>2
<1>3. CASE l \in Repo \ Standalone /\ c.op \in Pooled
  <2>1. Jobs(c, l) \in {{Own(l)}, OfRepo(c, l), {}} BY <1>1, <1>3 DEF Jobs
  <2>2. Own(l) \in Spots /\ Own(l)[1] = l BY <1>3, OwnSpot
  <2>3. OfRepo(c, l) \subseteq Spots /\ \A w \in OfRepo(c, l) : w[1] = l BY <1>0 DEF OfRepo
  <2>4. QED BY <1>1, <1>3, <2>1, <2>2, <2>3
<1>4. CASE l = Caller /\ c.op \notin Pooled
  <2>1. Jobs(c, l) = Targets(c) \cup (IF c.op = "push" /\ c.standalone THEN {Own(s) : s \in Standalone} ELSE {})
    BY <1>1, <1>4 DEF Jobs
  <2>2. \A s \in Standalone : Own(s) \in Spots BY <1>1, OwnSpot
  <2>3. QED BY <1>0, <1>4, <2>1, <2>2
<1>5. CASE /\ ~(l \in Standalone /\ c.standalone /\ c.op \in Pooled) /\ ~(l \in Repo \ Standalone /\ c.op \in Pooled)
           /\ ~(l = Caller /\ c.op \notin Pooled)
  BY <1>5 DEF Jobs
<1>6. QED BY <1>2, <1>3, <1>4, <1>5

\* A command's lanes start at a step of that command.
LEMMA FirstStepIs ==
  ASSUME NEW c \in CommandType
  PROVE  FirstStep(c) \in Steps(c.op) \ {"send", "follow", "second", "abort", "over", "raised"}
BY DEF CommandType, FirstStep, Steps

\* What starting a command sets: the command, the lanes, empty books.
LEMMA StartStep ==
  ASSUME TypeInv, NEW c \in Commands, Start(c)
  PROVE  /\ TypeInv' /\ repo' = repo /\ cmd' = c /\ told' = {} /\ done' = {} /\ run'.phase = "running"
         /\ DOMAIN lane' = Lanes /\ seen' = [r \in Repo |-> {}]
         /\ \A l \in Lanes : \/ lane'[l] = Over
                             \/ /\ lane'[l] = Thread(Jobs(c, l), FirstStep(c)) /\ Jobs(c, l) # {}
                                /\ lane'[l].step = FirstStep(c) /\ lane'[l].jobs = Jobs(c, l)
<1>0. c \in CommandType BY CommandsAssumption
<1>1. /\ repo' = repo /\ cmd' = c /\ told' = {} /\ done' = {} /\ run' = [phase |-> "running", exit |-> 0]
      /\ seen' = [r \in Repo |-> {}]
      /\ lane' = [l \in Lanes |-> IF Jobs(c, l) = {} THEN Over ELSE Thread(Jobs(c, l), FirstStep(c))]
  BY DEF Start
<1>2. DOMAIN lane' = Lanes BY <1>1
<1>3. ASSUME NEW l \in Lanes
      PROVE  /\ LaneOk(l)'
             /\ \/ lane'[l] = Over
                \/ /\ lane'[l] = Thread(Jobs(c, l), FirstStep(c)) /\ Jobs(c, l) # {}
                   /\ lane'[l].step = FirstStep(c) /\ lane'[l].jobs = Jobs(c, l)
  <2>1. CASE Jobs(c, l) = {}
    <3>1. lane'[l] = Over BY <1>1, <2>1
    <3>2. QED BY <3>1, Ends
  <2>2. CASE Jobs(c, l) # {}
    <3>1. lane'[l] = Thread(Jobs(c, l), FirstStep(c)) BY <1>1, <2>2
    <3>2. IsThread(lane'[l]) /\ lane'[l].step = FirstStep(c) /\ lane'[l].jobs = Jobs(c, l) BY <3>1, ThreadIs
    <3>3. FirstStep(c) \in Steps(c.op) \ {"send", "follow", "second", "abort", "over", "raised"} BY <1>0, FirstStepIs
    <3>4. HeldOk(lane[l])' BY <3>2, <3>3 DEF HeldOk
    <3>5. /\ Jobs(c, l) \subseteq Spots /\ (l = Caller <=> c.op \notin Pooled)
          /\ l # Caller => \A w \in Jobs(c, l) : w[1] = l
          /\ c.op \notin Pooled \cup {"push"} => Jobs(c, l) \subseteq Targets(c)
      BY <1>0, <2>2, JobsAre
    <3>6. LaneOk(l)' BY <1>1, <2>2, <3>2, <3>3, <3>4, <3>5 DEF LaneOk, IsThread
    <3>7. QED BY <2>2, <3>1, <3>2, <3>6
  <2>3. QED BY <2>1, <2>2
<1>4. TypeInv'
  <2>1. Lanes' = Lanes BY DEF Lanes
  <2>2. \A l \in Lanes : LaneOk(l)' BY <1>3
  <2>3. DOMAIN run' = {"phase", "exit"} /\ run'.phase = "running" /\ DOMAIN seen' = Repo BY <1>1
  <2>4. DOMAIN repo = Repo /\ \A r \in Repo : WellFormed(r, repo[r]) BY DEF TypeInv
  <2>5. QED BY <1>1, <1>2, <2>1, <2>2, <2>3, <2>4 DEF TypeInv
<1>5. QED BY <1>1, <1>2, <1>3, <1>4

\* A command finishes when every lane is over, and changes nothing but its state.
LEMMA FinishStep ==
  ASSUME TypeInv, Finish
  PROVE  /\ TypeInv' /\ repo' = repo /\ cmd' = cmd /\ lane' = lane /\ told' = told /\ done' = done
         /\ seen' = seen /\ run'.phase = "idle" /\ \A l \in Lanes : lane[l] = Over
<1>1. /\ repo' = repo /\ cmd' = cmd /\ lane' = lane /\ told' = told /\ done' = done /\ seen' = seen
      /\ \A l \in Lanes : lane[l] = Over
      /\ run' = [phase |-> "idle", exit  |-> IF run.exit = 0 /\ \E e \in told : Bad(e) THEN 1 ELSE run.exit]
  BY DEF Finish, history
<1>2. DOMAIN run' = {"phase", "exit"} /\ run'.phase = "idle" BY <1>1
<1>3. ASSUME NEW l \in Lanes PROVE LaneOk(l)'
  <2>1. lane'[l] = Over BY <1>1
  <2>2. QED BY <2>1, Ends
<1>4. Lanes' = Lanes BY DEF Lanes
<1>5. TypeInv' BY <1>1, <1>2, <1>3, <1>4 DEF TypeInv
<1>6. QED BY <1>1, <1>2, <1>5

\* The initial states are well-typed.
LEMMA TypeInit == ASSUME Init PROVE TypeInv
<1>1. DOMAIN repo = Repo /\ \A r \in Repo : WellFormed(r, repo[r]) BY InitAssumption DEF Init
<1>2. DOMAIN run = {"phase", "exit"} /\ run.phase = "idle" /\ DOMAIN seen = Repo /\ DOMAIN lane = Lanes BY DEF Init
<1>3. ASSUME NEW l \in Lanes PROVE LaneOk(l)
  <2>1. lane[l] = Over BY DEF Init
  <2>2. QED BY <2>1, OverIs DEF LaneOk, IsThread
<1>4. QED BY <1>1, <1>2, <1>3 DEF TypeInv

\* Every step preserves the type invariant.
LEMMA TypeNext == ASSUME TypeInv, [Next]_vars PROVE TypeInv'
<1>1. ASSUME NEW l \in Lanes, LaneStep(l) PROVE TypeInv'
  <2>1. CASE Collect(l) \/ CollectRaised(l) \/ Raises(l) BY <2>1, CollectStep
  <2>2. CASE FetchAgain(l) \/ FetchFails(l) BY <2>2, FetchStays
  <2>3. CASE Fetch(l) BY <2>3, FetchStep
  <2>4. CASE FollowMain(l) BY <2>4, FollowMainStep
  <2>5. CASE Integrate(l) BY <2>5, IntegrateStep
  <2>6. CASE SecondAttempt(l) BY <2>6, SecondStep
  <2>7. CASE Abort(l) BY <2>7, AbortStep
  <2>8. QED BY <1>1, <2>1, <2>2, <2>3, <2>4, <2>5, <2>6, <2>7 DEF LaneStep
<1>2. CASE CallerStep
  <2>1. CASE PushOne BY <2>1, PushOneStep
  <2>2. CASE PushAccepted BY <2>2, PushAcceptedStep
  <2>3. CASE PushRefused \/ PushUnsent BY <2>3, PushUnsentStep
  <2>4. CASE PushUnanswered BY <2>4, PushUnansweredStep
  <2>5. CASE Follow BY <2>5, FollowStep
  <2>6. CASE Ask BY <2>6, AskStep
  <2>7. CASE Classify BY <2>7, ClassifyStep
  <2>8. CASE CheckoutMove BY <2>8, CheckoutMoveStep
  <2>9. CASE CheckoutTrack \/ Connect BY <2>9, WiringStep
  <2>10. CASE ResetMove BY <2>10, ResetMoveStep
  <2>11. CASE Preview BY <2>11, PreviewStep
  <2>12. CASE CleanOne \/ CleanPartly BY <2>12, CleanStep
  <2>13. QED
    BY <1>2, <2>1, <2>2, <2>3, <2>4, <2>5, <2>6, <2>7, <2>8, <2>9, <2>10, <2>11, <2>12 DEF CallerStep
<1>3. CASE Finish BY <1>3, FinishStep
<1>4. CASE Meddling BY <1>4, MeddlingStep
<1>5. CASE \E c \in Commands : Start(c) BY <1>5, StartStep
<1>6. CASE UNCHANGED vars BY <1>6 DEF vars, TypeInv, LaneOk, HeldOk
<1>7. QED BY <1>1, <1>2, <1>3, <1>4, <1>5, <1>6 DEF Next, CommandStep

\* Every repository is one in every state, whatever fails and whoever
\* meddles: HEAD is at a commit, no two checkouts share a branch, a
\* remote-tracking ref is a part of the branch it follows; and every lane
\* takes the steps of the command that runs, on checkouts of its own.
THEOREM TypeCorrect == Spec => []TypeInv
<1>1. Init => TypeInv BY TypeInit
<1>2. TypeInv /\ [Next]_vars => TypeInv' BY TypeNext
<1>3. QED BY <1>1, <1>2, PTL DEF Spec

-----------------------------------------------------------------------------
(* What the workspace around this one reads in a status document. *)

\* What the remote-tracking refs hold is on the remote, as far as is known.
OnRemote(g) == UNION ({g.origin[b] : b \in DOMAIN g.origin} \ {Absent})

\* What is saved is on the remote.
LEMMA SavedOnRemote ==
  ASSUME NEW r \in Repo, NEW g, WellFormed(r, g)
  PROVE  Saved(g) \subseteq OnRemote(g)
<1> SUFFICES ASSUME NEW x \in Saved(g) PROVE x \in OnRemote(g) OBVIOUS
<1>1. g \in RepoType(r) /\ Tracked(g) BY DEF WellFormed
<1>2. DOMAIN g.track = Branch /\ DOMAIN g.origin = Branch BY <1>1, RepoFields
<1>3. PICK b \in Branch : g.track[b] # Absent /\ x \in g.track[b] BY <1>2, SavedIs
<1>4. g.origin[b] # Absent /\ x \in g.origin[b] BY <1>1, <1>3 DEF Tracked
<1>5. QED BY <1>2, <1>4 DEF OnRemote

\* A repository loses nothing when it has no stash, every local branch is
\* saved, and every checkout is clean and stands on what is saved.
LEMMA AllOnRemote ==
  ASSUME NEW r \in Repo, NEW g, WellFormed(r, g), g.stash = {},
         \A b \in Branch : g.heads[b] # Absent => g.heads[b] \subseteq Saved(g),
         \A p \in Envs(r) : g.at[p].tree = Tip(g, p) /\ (g.at[p].on = Detached => Tip(g, p) \subseteq Saved(g))
  PROVE  Kept(g) \subseteq OnRemote(g)
<1> SUFFICES ASSUME NEW x \in Kept(g) PROVE x \in OnRemote(g) OBVIOUS
<1>1. g \in RepoType(r) /\ Attached(g) BY DEF WellFormed
<1>2. DOMAIN g.at = Envs(r) /\ DOMAIN g.track = Branch /\ DOMAIN g.origin = Branch /\ DOMAIN g.heads = Branch
      /\ \A p \in Envs(r) : g.at[p].on \in Branch \cup {Detached}
  BY <1>1, RepoFields DEF CheckoutType
<1>3. Saved(g) \subseteq OnRemote(g) BY SavedOnRemote
<1>4. ASSUME NEW b \in Branch, g.origin[b] # Absent, x \in g.origin[b] PROVE x \in OnRemote(g)
  BY <1>2, <1>4 DEF OnRemote
<1>5. ASSUME NEW b \in Branch, g.track[b] # Absent, x \in g.track[b] PROVE x \in OnRemote(g)
  <2>1. x \in Saved(g) BY <1>2, <1>5, SavedIs
  <2>2. QED BY <1>3, <2>1
<1>6. ASSUME NEW p \in Envs(r) PROVE Tip(g, p) \subseteq Saved(g)
  <2>1. CASE g.at[p].on = Detached BY <2>1
  <2>2. CASE g.at[p].on # Detached BY <1>1, <1>2, <2>2 DEF Attached, Tip
  <2>3. QED BY <2>1, <2>2
<1>7. ASSUME NEW p \in Envs(r), x \in g.at[p].tree \/ x \in g.at[p].detached PROVE x \in OnRemote(g)
  <2>1. x \in g.at[p].detached => x \in Tip(g, p) BY <1>1, <1>2 DEF Attached, Tip
  <2>2. x \in Tip(g, p) BY <1>7, <2>1
  <2>3. QED BY <1>3, <1>6, <2>2
<1>8. QED BY <1>2, <1>3, <1>4, <1>5, <1>7, KeptIs

\* What the status of a worktree promises when it shows nothing dirty, ahead or local.
LEMMA RepoStatusIs ==
  ASSUME NEW r \in Repo, NEW g, WellFormed(r, g), NEW p \in Envs(r)
  PROVE  LET s == RepoStatus(g, p)
         IN  /\ s.dirty = {} => g.at[p].tree = Tip(g, p) /\ g.at[p].files = {}
             /\ s.ahead = {} => Tip(g, p) \subseteq Saved(g)
             /\ g.at[p].on = Detached => s.upstream = None
             /\ LocalWork(g).stashes = g.stash
             /\ LocalWork(g).local_only_commits = {} =>
                   \A b \in Branch : g.heads[b] # Absent => g.heads[b] \subseteq Saved(g)
<1> DEFINE s == RepoStatus(g, p)
           porcelain == Porcelain(g, p)
           main == MainAheadBehind(g, p)
<1>1. g \in RepoType(r) BY DEF WellFormed
<1>2. s.dirty = porcelain.changed \cup porcelain.untracked /\ s.ahead = main.ahead /\ s.upstream = porcelain.upstream
  BY DEF RepoStatus
<1>3. /\ porcelain.changed = (g.at[p].tree \ Tip(g, p)) \cup (Tip(g, p) \ g.at[p].tree)
      /\ porcelain.untracked = g.at[p].files /\ porcelain.upstream = PushBranch(g, p)
  BY DEF Porcelain
<1>4. main.ahead = Tip(g, p) \ Ref(g, OriginMain) BY MainKnown DEF MainAheadBehind, NotIn
<1>5. Ref(g, OriginMain) \subseteq Saved(g) BY <1>1, MainKnown, RefHistory
<1>6. DOMAIN g.heads = Branch BY <1>1, RepoFields
<1>7. LocalWork(g).stashes = g.stash BY DEF LocalWork
<1>8. LocalWork(g).local_only_commits = (UNION ({g.heads[b] : b \in DOMAIN g.heads} \ {Absent})) \ Saved(g) BY DEF LocalWork
<1> HIDE DEF s, porcelain, main
<1>9. s.dirty = {} => g.at[p].tree = Tip(g, p) /\ g.at[p].files = {} BY <1>2, <1>3
<1>10. s.ahead = {} => Tip(g, p) \subseteq Saved(g) BY <1>2, <1>4, <1>5
<1>11. g.at[p].on = Detached => s.upstream = None BY <1>2, <1>3 DEF PushBranch
<1>12. ASSUME LocalWork(g).local_only_commits = {}, NEW b \in Branch, g.heads[b] # Absent
       PROVE  g.heads[b] \subseteq Saved(g)
  <2>1. g.heads[b] \in {g.heads[c] : c \in DOMAIN g.heads} \ {Absent} BY <1>6, <1>12
  <2>2. g.heads[b] \subseteq UNION ({g.heads[c] : c \in DOMAIN g.heads} \ {Absent}) BY <2>1
  <2>3. QED BY <1>8, <1>12, <2>2
<1>13. QED BY <1>7, <1>9, <1>10, <1>11, <1>12 DEF s

\* What the status of a standalone promises when it shows nothing.
LEMMA StandaloneStatusIs ==
  ASSUME NEW r \in Repo, NEW g, WellFormed(r, g)
  PROVE  LET s == StandaloneStatus(g)
         IN  /\ s.dirty = {} => g.at[Source].tree = Tip(g, Source) /\ g.at[Source].files = {}
             /\ s.stashes = g.stash /\ s.local_only_commits = LocalWork(g).local_only_commits
<1> DEFINE s == StandaloneStatus(g)
           porcelain == Porcelain(g, Source)
<1>1. s.dirty = porcelain.changed \cup porcelain.untracked /\ s.stashes = g.stash
      /\ s.local_only_commits = LocalWork(g).local_only_commits
  BY DEF StandaloneStatus, LocalWork
<1>2. /\ porcelain.changed = (g.at[Source].tree \ Tip(g, Source)) \cup (Tip(g, Source) \ g.at[Source].tree)
      /\ porcelain.untracked = g.at[Source].files
  BY DEF Porcelain
<1> HIDE DEF s, porcelain
<1>3. QED BY <1>1, <1>2 DEF s

\* The document of a workspace that reads safe: every worktree is clean and
\* nothing of it is unpushed, no source checkout or standalone holds work.
LEMMA SafeDocument ==
  ASSUME NEW inner, ReadsSafe(Snapshot(inner, OnDisk))
  PROVE  /\ \A w \in OnDisk : LET s == RepoStatus(repo[w[1]], w[2])
                                  n == NestedSnapshot(inner, w)
                              IN  /\ s.dirty = {} /\ ~n.dirty /\ ~n.error /\ ~n.unpushed
                                  /\ s.upstream = None => s.ahead = {}
         /\ \A r \in Repo \ Standalone :
               LET s == RepoStatus(repo[r], Source)
                   k == LocalWork(repo[r])
               IN  s.dirty \cup s.ahead \cup k.local_only_commits \cup k.stashes = {}
         /\ \A r \in Standalone : ~StandaloneRaises(repo[r]) =>
               LET s == StandaloneStatus(repo[r])
               IN  s.dirty \cup s.ahead \cup s.local_only_commits \cup s.stashes = {}
<1> DEFINE doc == Snapshot(inner, OnDisk)
<1>1. /\ doc.environments = Environments(inner, OnDisk) /\ doc.projects = MainStatuses
      /\ doc.standalones = StandaloneStatuses
  BY DEF Snapshot
<1>2. ReadsSafe(doc) OBVIOUS
<1> HIDE DEF doc
<1>3. \A e \in doc.environments : ~WorktreeIsDirty(e) BY <1>2 DEF ReadsSafe, ParseState
<1>4. \A e \in doc.environments : ~UnpushedReasons(e) BY <1>2 DEF ReadsSafe, ParseState
<1>5. CheckoutsWithLocalWork(doc) = {}
  <2> DEFINE X == CheckoutsWithLocalWork(doc)
  <2>1. {<<r, Source>> : r \in X} \subseteq ParseState(doc).unpushed BY DEF ParseState
  <2>2. ParseState(doc).unpushed = {} BY <1>2 DEF ReadsSafe
  <2> HIDE DEF X
  <2>3. {<<r, Source>> : r \in X} = {} BY <2>1, <2>2
  <2>4. X = {} BY <2>3
  <2>5. QED BY <2>4 DEF X
<1>6. ASSUME NEW w \in OnDisk
      PROVE  LET s == RepoStatus(repo[w[1]], w[2])
                 n == NestedSnapshot(inner, w)
             IN  /\ s.dirty = {} /\ ~n.dirty /\ ~n.error /\ ~n.unpushed
                 /\ s.upstream = None => s.ahead = {}
  <2> DEFINE e == [wt |-> w, status |-> RepoStatus(repo[w[1]], w[2]), nested |-> NestedSnapshot(inner, w)]
  <2>1. e \in doc.environments BY <1>1 DEF Environments
  <2>2. e.status = RepoStatus(repo[w[1]], w[2]) /\ e.nested = NestedSnapshot(inner, w) OBVIOUS
  <2> HIDE DEF e
  <2>3. ~WorktreeIsDirty(e) /\ ~UnpushedReasons(e) BY <1>3, <1>4, <2>1
  <2>4. QED BY <2>2, <2>3 DEF WorktreeIsDirty, UnpushedReasons
<1>7. ASSUME NEW r \in Repo \ Standalone
      PROVE  LET s == RepoStatus(repo[r], Source)
                 k == LocalWork(repo[r])
             IN  s.dirty \cup s.ahead \cup k.local_only_commits \cup k.stashes = {}
  <2> DEFINE s == RepoStatus(repo[r], Source)
             k == LocalWork(repo[r])
             x == [repo |-> r, status |-> s, work |-> k]
  <2>1. CASE s.ahead \cup s.behind \cup s.dirty \cup k.local_only_commits \cup k.stashes = {}
    <3> HIDE DEF s, k
    <3>1. s.dirty \cup s.ahead \cup k.local_only_commits \cup k.stashes = {} BY <2>1
    <3>2. QED BY <3>1 DEF s, k
  <2>2. CASE s.ahead \cup s.behind \cup s.dirty \cup k.local_only_commits \cup k.stashes # {}
    <3>1. x \in MainStatuses BY <2>2 DEF MainStatuses
    <3>2. x.repo = r /\ x.status = s /\ x.work = k OBVIOUS
    <3> HIDE DEF s, k, x
    <3>3. x.status.dirty \cup x.status.ahead \cup x.work.local_only_commits \cup x.work.stashes = {}
      BY <1>1, <1>5, <3>1 DEF CheckoutsWithLocalWork
    <3>4. QED BY <3>2, <3>3 DEF s, k
  <2>3. QED BY <2>1, <2>2
<1>8. ASSUME NEW r \in Standalone, ~StandaloneRaises(repo[r])
      PROVE  LET s == StandaloneStatus(repo[r])
             IN  s.dirty \cup s.ahead \cup s.local_only_commits \cup s.stashes = {}
  <2> DEFINE s == StandaloneStatus(repo[r])
             x == [repo |-> r, status |-> s]
  <2>1. x \in StandaloneStatuses BY <1>8 DEF StandaloneStatuses
  <2>2. x.repo = r /\ x.status = s OBVIOUS
  <2> HIDE DEF s, x
  <2>3. x.status.dirty \cup x.status.ahead \cup x.status.local_only_commits \cup x.status.stashes = {}
    BY <1>1, <1>5, <2>1 DEF CheckoutsWithLocalWork
  <2>4. QED BY <2>2, <2>3 DEF s
<1>9. QED BY <1>6, <1>7, <1>8

\* A document that reads safe is told by a workspace that loses nothing.
LEMMA SafeIsSaved == ASSUME TypeInv PROVE ReadsSafeOnlyWhenSaved
<1> SUFFICES ASSUME NEW inner \in Inners, ReadsSafe(Snapshot(inner, OnDisk))
             PROVE  /\ \A w \in NestedTrees : Lossless(inner[w])
                    /\ \A r \in Repo : Told(r) =>
                          /\ Kept(repo[r]) \subseteq UNION ({repo[r].origin[b] : b \in DOMAIN repo[r].origin} \ {Absent})
                          /\ \A p \in Places(r) : repo[r].at[p].files = {}
  BY DEF ReadsSafeOnlyWhenSaved
<1>1. ASSUME NEW w \in NestedTrees PROVE Lossless(inner[w])
  <2>1. w \in OnDisk BY NestedAssumption
  <2>2. LET n == NestedSnapshot(inner, w) IN ~n.dirty /\ ~n.error /\ ~n.unpushed BY <2>1, SafeDocument
  <2>3. ~inner[w].error BY <2>2 DEF NestedSnapshot
  <2>4. QED BY <2>2, <2>3 DEF NestedSnapshot, Lossless
<1>2. ASSUME NEW r \in Repo, Told(r)
      PROVE  Kept(repo[r]) \subseteq OnRemote(repo[r]) /\ \A p \in Envs(r) : repo[r].at[p].files = {}
  <2> DEFINE g == repo[r]
  <2>1. WellFormed(r, g) /\ Source \in Envs(r) BY DEF TypeInv, Envs
  <2>2. CASE r \notin Standalone
    <3>1. LET s == RepoStatus(g, Source)
              k == LocalWork(g)
          IN  s.dirty \cup s.ahead \cup k.local_only_commits \cup k.stashes = {}
      BY <2>2, SafeDocument
    <3> HIDE DEF g
    <3>2. RepoStatus(g, Source).dirty = {} /\ RepoStatus(g, Source).ahead = {}
          /\ LocalWork(g).local_only_commits = {} /\ LocalWork(g).stashes = {}
      BY <3>1
    <3>3. /\ g.at[Source].tree = Tip(g, Source) /\ g.at[Source].files = {} /\ Tip(g, Source) \subseteq Saved(g)
          /\ g.stash = {} /\ \A b \in Branch : g.heads[b] # Absent => g.heads[b] \subseteq Saved(g)
      BY <2>1, <3>2, RepoStatusIs
    <3>4. ASSUME NEW p \in Envs(r) \ {Source}
          PROVE  /\ g.at[p].tree = Tip(g, p) /\ g.at[p].files = {}
                 /\ g.at[p].on = Detached => Tip(g, p) \subseteq Saved(g)
      <4>1. PICK w \in OnDisk : w[1] = r /\ p = w[2] BY <3>4 DEF Envs
      <4>2. RepoStatus(g, p).dirty = {} /\ (RepoStatus(g, p).upstream = None => RepoStatus(g, p).ahead = {})
        BY <4>1, SafeDocument DEF g
      <4>3. QED BY <2>1, <3>4, <4>2, RepoStatusIs
    <3>5. \A p \in Envs(r) : /\ g.at[p].tree = Tip(g, p) /\ g.at[p].files = {}
                             /\ g.at[p].on = Detached => Tip(g, p) \subseteq Saved(g)
      BY <3>3, <3>4
    <3>6. Kept(g) \subseteq OnRemote(g) BY <2>1, <3>3, <3>5, AllOnRemote
    <3>7. QED BY <3>5, <3>6 DEF g
  <2>3. CASE r \in Standalone
    <3>1. g.at[Source].on # Detached /\ ~StandaloneRaises(g) BY <1>2, <2>3 DEF Told
    <3>2. LET s == StandaloneStatus(g) IN s.dirty \cup s.ahead \cup s.local_only_commits \cup s.stashes = {}
      BY <2>3, <3>1, SafeDocument
    <3> HIDE DEF g
    <3>3. StandaloneStatus(g).dirty = {} /\ StandaloneStatus(g).local_only_commits = {} /\ StandaloneStatus(g).stashes = {}
      BY <3>2
    <3>4. /\ g.at[Source].tree = Tip(g, Source) /\ g.at[Source].files = {} /\ g.stash = {}
          /\ LocalWork(g).local_only_commits = {}
      BY <2>1, <3>3, StandaloneStatusIs
    <3>5. \A b \in Branch : g.heads[b] # Absent => g.heads[b] \subseteq Saved(g) BY <2>1, <3>4, RepoStatusIs
    <3>6. Envs(r) = {Source}
      <4>1. \A w \in OnDisk : w[1] \notin Standalone BY Disk
      <4>2. QED BY <2>3, <4>1 DEF Envs
    <3>7. Kept(g) \subseteq OnRemote(g) BY <2>1, <3>1, <3>4, <3>5, <3>6, AllOnRemote
    <3>8. QED BY <3>4, <3>6, <3>7 DEF g
  <2>4. QED BY <2>2, <2>3
<1>3. \A r \in Repo : Places(r) = Envs(r) BY RepoFields DEF TypeInv, WellFormed, Places
<1>4. QED BY <1>1, <1>2, <1>3 DEF OnRemote

\* The gate of an outer destroy errs on no state that a command, a failure,
\* the user or the others can bring about, for any answers of the workspaces
\* nested deeper.
THEOREM SafeReads == Spec => []ReadsSafeOnlyWhenSaved
<1>1. TypeInv => ReadsSafeOnlyWhenSaved BY SafeIsSaved
<1>2. QED BY <1>1, TypeCorrect, PTL

-----------------------------------------------------------------------------
(* What a step of a lane leaves alone. *)

\* The lane l takes a step of the command that runs; the others wait.
StepBy(l) ==
    /\ l \in Lanes /\ run.phase = "running" /\ run'.phase = run.phase /\ cmd' = cmd
    /\ lane[l].step # "over"
    /\ DOMAIN lane' = Lanes /\ \A k \in Lanes \ {l} : lane'[k] = lane[k]

\* Every way the actions assign the lanes is a step of one lane.
LEMMA Stepping ==
  ASSUME TypeInv, NEW l \in Lanes, run.phase = "running", run'.phase = run.phase, cmd' = cmd, lane[l].step # "over",
         \/ \E t : lane' = [lane EXCEPT ![l] = t]
         \/ \E step : Goto(l, step) \/ Next1(l, step)
         \/ \E v, w : lane' = [lane EXCEPT ![l].step = v, ![l].held = w]
  PROVE  StepBy(l)
<1>1. DOMAIN lane = Lanes BY DEF TypeInv
<1>2. DOMAIN lane' = Lanes /\ \A k \in Lanes \ {l} : lane'[k] = lane[k] BY <1>1 DEF Goto, Next1
<1>3. QED BY <1>2 DEF StepBy

\* A lane's action steps that lane only, and adds nothing to seen.
LEMMA LaneFrame ==
  ASSUME TypeInv, NEW l \in Lanes, LaneStep(l)
  PROVE  StepBy(l) /\ seen' = seen
<1>0. DOMAIN lane = Lanes BY DEF TypeInv
<1>1. CASE Collect(l) \/ CollectRaised(l) \/ Raises(l)
  <2>1. \E t : lane' = [lane EXCEPT ![l] = t] BY <1>1 DEF Collect, CollectRaised, Raises
  <2>2. run.phase = "running" /\ cmd' = cmd /\ seen' = seen /\ lane[l].step # "over"
    BY <1>1 DEF Collect, CollectRaised, Raises, At, history
  <2>3. run'.phase = run.phase BY <1>1 DEF Collect, CollectRaised, Raises, TypeInv
  <2>4. QED BY <2>1, <2>2, <2>3, Stepping
<1>2. CASE FetchAgain(l)
  <2>1. lane' = [lane EXCEPT ![l] = [lane[l] EXCEPT !.tries = lane[l].tries + 1]] BY <1>2 DEF FetchAgain
  <2>2. \E t : lane' = [lane EXCEPT ![l] = t] BY <2>1
  <2>3. run.phase = "running" /\ cmd' = cmd /\ seen' = seen /\ lane[l].step # "over" /\ run' = run
    BY <1>2 DEF FetchAgain, At, history
  <2>4. QED BY <2>2, <2>3, Stepping
<1>3. CASE Fetch(l) \/ FetchFails(l) \/ FollowMain(l)
  <2>1. \E step : Goto(l, step) \/ Next1(l, step) BY <1>3 DEF Fetch, FetchFails, FetchFailed, FollowMain
  <2>2. run.phase = "running" /\ cmd' = cmd /\ seen' = seen /\ lane[l].step # "over" /\ run' = run
    BY <1>3 DEF Fetch, FetchFails, FollowMain, At, history
  <2>3. QED BY <2>1, <2>2, Stepping
<1>4. ASSUME NEW x, Report(l, x) PROVE DOMAIN lane' = Lanes /\ \A k \in Lanes \ {l} : lane'[k] = lane[k]
  BY <1>0, <1>4 DEF Report, Next1
<1>5. CASE Integrate(l) \/ SecondAttempt(l) \/ Abort(l)
  <2>1. run.phase = "running" /\ cmd' = cmd /\ seen' = seen /\ lane[l].step # "over" /\ run' = run
    BY <1>5 DEF Integrate, SecondAttempt, Abort, At, history
  <2>2. \/ \E x : Report(l, x)
        \/ Goto(l, "abort")
        \/ lane' = [lane EXCEPT ![l].step = "second", ![l].held = Wanted(l), ![l].base = Look(repo[l], Job(l)[2])]
    BY <1>5 DEF Integrate, SecondAttempt, Abort
  <2>3. DOMAIN lane' = Lanes /\ \A k \in Lanes \ {l} : lane'[k] = lane[k] BY <1>0, <1>4, <2>2 DEF Goto
  <2>4. QED BY <2>1, <2>3 DEF StepBy
<1>6. QED BY <1>1, <1>2, <1>3, <1>5 DEF LaneStep

\* An action of the calling thread steps its lane; only Classify adds to seen.
LEMMA CallerFrame ==
  ASSUME TypeInv, CallerStep
  PROVE  StepBy(Caller) /\ lane[Caller].step # "raised" /\ (Classify \/ seen' = seen)
<1>0. DOMAIN lane = Lanes /\ Caller \in Lanes BY DEF TypeInv, Lanes
<1>1. CASE PushOne \/ PushAccepted \/ PushRefused \/ PushUnsent \/ PushUnanswered \/ Follow
  <2>1. /\ run.phase = "running" /\ cmd' = cmd /\ seen' = seen /\ run' = run /\ lane[Caller].step \notin {"over", "raised"}
    BY <1>1 DEF PushOne, PushAccepted, PushRefused, PushUnsent, PushUnanswered, Follow, At, history
  <2>2. ASSUME NEW t, SendAgain(t) \/ PushFailed
        PROVE  (\E v : lane' = [lane EXCEPT ![Caller] = v]) \/ \E step : Next1(Caller, step)
    <3>1. CASE PushFailed BY <3>1 DEF PushFailed
    <3>2. CASE lane' = [lane EXCEPT ![Caller].tries = @ + 1]
      <4>1. lane' = [lane EXCEPT ![Caller] = [lane[Caller] EXCEPT !.tries = lane[Caller].tries + 1]] BY <3>2
      <4>2. QED BY <4>1
    <3>3. QED BY <2>2, <3>1, <3>2 DEF SendAgain
  <2>3. CASE PushOne
    <3>1. \/ Next1(Caller, "push")
          \/ \E v, w : lane' = [lane EXCEPT ![Caller].step = v, ![Caller].held = w]
      BY <2>3 DEF PushOne
    <3>2. QED BY <1>0, <2>1, <3>1, Stepping
  <2>4. CASE PushAccepted \/ Follow
    <3>1. \E step : Goto(Caller, step) \/ Next1(Caller, step) BY <2>4 DEF PushAccepted, Follow
    <3>2. QED BY <1>0, <2>1, <3>1, Stepping
  <2>5. CASE PushRefused \/ PushUnsent \/ PushUnanswered
    <3>1. \E t : SendAgain(t) \/ PushFailed BY <2>5 DEF PushRefused, PushUnsent, PushUnanswered
    <3>2. QED BY <1>0, <2>1, <2>2, <3>1, Stepping
  <2>6. QED BY <1>1, <2>3, <2>4, <2>5
<1>2. CASE Ask \/ Classify
  <2>1. /\ run.phase = "running" /\ cmd' = cmd /\ lane[Caller].step \notin {"over", "raised"}
        /\ Classify \/ seen' = seen
    BY <1>2 DEF Ask, Classify, At, history
  <2>2. run'.phase = run.phase BY <1>2 DEF Ask, Classify, TypeInv
  <2>3. (\E v : lane' = [lane EXCEPT ![Caller] = v]) \/ \E step : Goto(Caller, step) BY <1>2 DEF Ask, Classify
  <2>4. QED BY <1>0, <2>1, <2>2, <2>3, Stepping
<1>3. CASE CheckoutMove \/ CheckoutTrack \/ ResetMove \/ Preview \/ CleanOne \/ CleanPartly \/ Connect
  <2>1. /\ run.phase = "running" /\ cmd' = cmd /\ seen' = seen /\ run' = run /\ lane[Caller].step \notin {"over", "raised"}
    BY <1>3 DEF CheckoutMove, CheckoutTrack, ResetMove, Preview, CleanOne, CleanPartly, Connect, At, history
  <2>2. \/ \E v : lane' = [lane EXCEPT ![Caller] = v]
        \/ \E step : Goto(Caller, step) \/ Next1(Caller, step)
    <3>1. CASE CheckoutMove BY <3>1 DEF CheckoutMove
    <3>2. CASE CheckoutTrack BY <3>2 DEF CheckoutTrack
    <3>3. CASE ResetMove BY <3>3 DEF ResetMove
    <3>4. CASE Preview BY <3>4 DEF Preview
    <3>5. CASE CleanOne \/ CleanPartly \/ Connect BY <3>5 DEF CleanOne, CleanPartly, Connect
    <3>6. QED BY <1>3, <3>1, <3>2, <3>3, <3>4, <3>5
  <2>3. QED BY <1>0, <2>1, <2>2, Stepping
<1>4. QED BY <1>1, <1>2, <1>3 DEF CallerStep

-----------------------------------------------------------------------------
(* What a step does to the repositories. *)

\* A calm step leaves every repository as it should be left.
CalmAll == \A r \in Repo : Calm(r, repo[r], repo'[r])

\* If one repository changes calmly, all repositories do.
LEMMA CalmlyAll ==
  ASSUME TypeInv, NEW r, Calmly(r) \/ repo' = repo
  PROVE  CalmAll
BY SameGains DEF TypeInv, Calmly, Only, CalmAll

\* A lane of the pool is calm, but for its second attempt and its abort.
LEMMA LaneCalm ==
  ASSUME TypeInv, NEW l \in Lanes, LaneStep(l)
  PROVE  \/ SecondAttempt(l)
         \/ Abort(l)
         \/ /\ CalmAll /\ lane[l].step \notin {"second", "abort"} /\ lane'[l].step # "abort"
            /\ lane'[l].step = "second" => Integrate(l)
            /\ \A r \in Repo \ {l} : repo'[r] = repo[r]
<1>0. DOMAIN lane = Lanes /\ DOMAIN repo = Repo BY DEF TypeInv
<1>1. CASE Collect(l) \/ CollectRaised(l) \/ Raises(l)
  <2>1. repo' = repo /\ \E t \in {Over, Raised} : lane' = [lane EXCEPT ![l] = t]
    BY <1>1 DEF Collect, CollectRaised, Raises
  <2>2. lane'[l].step \in {"over", "raised"} BY <1>0, <2>1, OverIs
  <2>3. lane[l].step \notin {"second", "abort"} BY <1>1 DEF Collect, CollectRaised, Raises, At
  <2>4. CalmAll BY <2>1, CalmlyAll
  <2>5. QED BY <2>1, <2>2, <2>3, <2>4
<1>2. CASE Fetch(l) \/ FetchAgain(l) \/ FetchFails(l) \/ FollowMain(l)
  <2>1. lane[l].step \in {"fetch", "source"} BY <1>2 DEF Fetch, FetchAgain, FetchFails, FollowMain, At
  <2>2. LaneOk(l) /\ IsThread(lane[l]) BY <2>1, JobIs DEF TypeInv
  <2>3. lane'[l].step \notin {"second", "abort"}
    <3>1. CASE FetchAgain(l)
      <4>1. lane' = [lane EXCEPT ![l] = [lane[l] EXCEPT !.tries = lane[l].tries + 1]] BY <3>1 DEF FetchAgain
      <4>2. lane'[l] = [lane[l] EXCEPT !.tries = lane[l].tries + 1] BY <1>0, <4>1
      <4>3. lane'[l].step = lane[l].step BY <2>2, <4>2 DEF IsThread
      <4>4. QED BY <2>1, <4>3
    <3>2. CASE ~FetchAgain(l)
      <4>1. \E step \in {"source", "integrate", "fetch"} : Goto(l, step) \/ Next1(l, step)
        BY <1>2, <3>2 DEF Fetch, FetchFails, FetchFailed, FollowMain
      <4>2. PICK step \in {"source", "integrate", "fetch"} : Goto(l, step) \/ Next1(l, step) BY <4>1
      <4>3. lane'[l].step \in {step, "over"}
        <5>1. CASE Goto(l, step) BY <1>0, <2>2, <5>1, GotoIs
        <5>2. CASE Next1(l, step)
          <6>1. lane'[l] = Over \/ lane'[l] = Thread(lane[l].jobs \ {Job(l)}, step) BY <1>0, <5>2, Next1Is
          <6>2. QED BY <6>1, ThreadIs, OverIs
        <5>3. QED BY <4>2, <5>1, <5>2
      <4>4. QED BY <4>3
    <3>3. QED BY <3>1, <3>2
  <2>4. Calmly(l) \/ repo' = repo BY <1>2, FetchStep, FetchStays, FollowMainStep
  <2>5. CalmAll BY <2>4, CalmlyAll
  <2>6. QED BY <2>1, <2>3, <2>4, <2>5 DEF Calmly, Only
<1>3. CASE Integrate(l)
  <2>1. Calmly(l) /\ lane'[l].step # "abort" BY <1>3, IntegrateStep
  <2>2. lane[l].step = "integrate" BY <1>3 DEF Integrate, At
  <2>3. CalmAll BY <2>1, CalmlyAll
  <2>4. QED BY <1>3, <2>1, <2>2, <2>3 DEF Calmly, Only
<1>4. QED BY <1>1, <1>2, <1>3 DEF LaneStep

\* The calling thread is calm, but for the moves of checkout and reset.
LEMMA CallerCalm ==
  ASSUME TypeInv, CallerStep
  PROVE  CheckoutMove \/ ResetMove \/ CalmAll
<1>1. CASE PushOne \/ PushRefused \/ PushUnsent \/ Ask \/ Classify \/ Preview
  <2>1. repo' = repo BY <1>1 DEF PushOne, PushRefused, PushUnsent, Ask, Classify, Preview
  <2>2. QED BY <2>1, CalmlyAll
<1>2. CASE PushAccepted BY <1>2, PushAcceptedStep, CalmlyAll
<1>3. CASE PushUnanswered BY <1>3, PushUnansweredStep, CalmlyAll
<1>4. CASE Follow BY <1>4, FollowStep, CalmlyAll
<1>5. CASE CheckoutTrack \/ Connect BY <1>5, WiringStep, CalmlyAll
<1>6. CASE CleanOne \/ CleanPartly BY <1>6, CleanStep, CalmlyAll
<1>7. QED BY <1>1, <1>2, <1>3, <1>4, <1>5, <1>6 DEF CallerStep

\* When the calling thread takes a step, no lane of the pool is under way.
LEMMA PoolRests ==
  ASSUME TypeInv, lane[Caller].step \notin {"over", "raised"}, NEW l \in Repo
  PROVE  lane[l].step \in {"over", "raised"}
<1>1. l \in Lanes /\ Caller \in Lanes /\ l # Caller BY NameAssumption DEF Lanes
<1>2. QED BY <1>1, JobIs

\* The remote-tracking refs of a command hold no less than before.
LEMMA SavedGrows ==
  ASSUME TypeInv, [Next]_vars, NEW r \in Repo
  PROVE  Saved(repo[r]) \subseteq Saved(repo'[r])
<1>1. CASE CalmAll BY <1>1 DEF CalmAll, Calm, Gains
<1>2. CASE \E l \in Lanes : SecondAttempt(l) BY <1>2, SecondStep DEF Only, Gains
<1>3. ASSUME NEW l \in Lanes, Abort(l) PROVE Saved(repo[r]) \subseteq Saved(repo'[r])
  <2>1. l \in Repo /\ Only(l) /\ Grown(repo[l].track, repo'[l].track) /\ TypeInv' BY <1>3, AbortStep
  <2>2. QED
    <3>1. CASE r # l BY <2>1, <3>1 DEF Only
    <3>2. CASE r = l
      <4>1. DOMAIN repo[r].track = Branch /\ DOMAIN repo'[r].track = Branch
        BY <2>1, RepoFields DEF TypeInv, WellFormed
      <4>2. \A x \in Saved(repo[r]) : x \in Saved(repo'[r]) BY <2>1, <3>2, <4>1, SavedIs DEF Grown
      <4>3. QED BY <4>2
    <3>3. QED BY <3>1, <3>2
<1>4. CASE CheckoutMove BY <1>4, CheckoutMoveStep DEF There, Only
<1>5. CASE ResetMove
  <2> DEFINE s == Job(Caller)[1]
  <2>1. CASE repo' = repo BY <2>1
  <2>2. CASE repo' # repo
    <3>1. s \in Repo /\ Only(s) /\ Moved(s, There, repo'[s], Here, Ref(There, cmd.ref)) /\ lane[Caller].step = "move"
      BY <1>5, <2>2, ResetMoveStep
    <3>2. WellFormed(s, There) /\ Here \in Envs(s) BY <3>1, CallerJob
    <3>3. Saved(repo'[s]) = Saved(There) BY <3>1, <3>2, MovedTip
    <3>4. QED BY <3>1, <3>3 DEF There, Only
  <2>3. QED BY <2>1, <2>2
<1>6. CASE Finish \/ (\E c \in Commands : Start(c)) \/ UNCHANGED vars
  BY <1>6, FinishStep, StartStep DEF vars
<1>7. CASE Meddling
  <2>1. \E s \in Repo : Only(s) /\ Saved(repo[s]) \subseteq Saved(repo'[s])
    <3>1. \A w : Touched(w, repo'[w[1]]) => Saved(repo[w[1]]) \subseteq Saved(repo'[w[1]]) BY DEF Touched, Gains
    <3>2. \A s \in Repo : Synced(s, repo[s], repo'[s]) => Saved(repo[s]) \subseteq Saved(repo'[s])
      BY SyncedTip DEF TypeInv
    <3>3. QED BY <1>7, <3>1, <3>2, MeddlingStep
  <2>2. QED BY <2>1 DEF Only
<1>8. QED BY <1>1, <1>2, <1>3, <1>4, <1>5, <1>6, <1>7, LaneCalm, CallerCalm DEF Next, CommandStep

-----------------------------------------------------------------------------
(* The lanes that integrate: what becomes of a second attempt. *)

\* No checkout is found in a rebase.
NoRebaseYet == \A g \in InitRepos : \A r \in Repo : \A p \in Envs(r) : g[r].at[p].merging # "rebase"

\* The merge or the rebase that a command stopped in is being aborted.
Aborting(r, p) == lane[r].step = "abort" /\ Job(r) = <<r, p>> /\ repo[r].at[p].merging = Kind

\* A rebase in progress is the command's own.
MergeInv ==
    \A r \in Repo : \A p \in Envs(r) : repo[r].at[p].merging = "rebase" => Aborting(r, p)

\* Every repository has a lane, which is not the caller's.
LEMMA LaneIsRepo == \A l \in Repo : l \in Lanes /\ l # Caller /\ Caller \in Lanes
BY NameAssumption DEF Lanes

\* No lane is at work when no command runs.
LEMMA IdleLanes ==
  ASSUME TypeInv, run.phase # "running", NEW l \in Lanes
  PROVE  lane[l].step \in {"over", "raised"}
BY DEF TypeInv, LaneOk

\* The mode of a command with a second attempt.
LEMMA SecondMode ==
  ASSUME TypeInv, NEW l \in Repo, lane[l].step \in {"second", "abort"}
  PROVE  cmd.mode \in {"no_ff", "merge", "rebase"} /\ Job(l) = <<l, Job(l)[2]>> /\ Job(l)[2] \in Envs(l)
         /\ run.phase = "running"
<1>1. l \in Lanes BY LaneIsRepo
<1>2. LaneOk(l) /\ cmd \in CommandType /\ cmd \in Commands /\ cmd.op \in {"pull", "merge"}
      /\ Job(l) = <<l, Job(l)[2]>> /\ Job(l)[2] \in Envs(l) /\ run.phase = "running"
  BY <1>1, LaneIsRepo, JobIs, StepsOf DEF TypeInv
<1>3. cmd.mode # "ff_only" BY <1>2 DEF LaneOk
<1>4. cmd.mode \notin ResetModes BY <1>2, CommandsAssumption
<1>5. cmd.mode \in PullModes \cup ResetModes BY <1>2 DEF CommandType
<1>6. QED BY <1>2, <1>3, <1>4, <1>5 DEF PullModes

\* What becomes of a lane: it integrates no more, or nothing reaches the
\* checkout it is integrating, or it takes one of two steps.
Undisturbed(l) ==
    LET p == Job(l)[2]
    IN  /\ lane'[l] = lane[l] /\ cmd' = cmd /\ lane[l].step \in {"second", "abort"}
        /\ repo'[l].at[p] = repo[l].at[p] /\ Look(repo'[l], p) = Look(repo[l], p)
        /\ repo'[l].track = repo[l].track /\ Grown(repo[l].heads, repo'[l].heads)

\* A lane gets to its second attempt or to the abort only from the step before.
LEMMA LaneFate ==
  ASSUME TypeInv, [Next]_vars, NEW l \in Repo
  PROVE  \/ lane'[l].step \notin {"second", "abort"}
         \/ Undisturbed(l)
         \/ Integrate(l) /\ lane'[l].step = "second"
         \/ SecondAttempt(l) /\ lane'[l].step = "abort"
<1> SUFFICES ASSUME lane'[l].step \in {"second", "abort"},
                    ~(Integrate(l) /\ lane'[l].step = "second"), ~(SecondAttempt(l) /\ lane'[l].step = "abort")
             PROVE  Undisturbed(l)
  OBVIOUS
<1>0. l \in Lanes /\ l # Caller /\ Caller \in Lanes BY LaneIsRepo
<1>a. WellFormed(l, repo[l]) BY DEF TypeInv
<1>1. ASSUME lane'[l] = lane[l], cmd' = cmd, repo'[l] = repo[l] PROVE Undisturbed(l)
  BY <1>1 DEF Undisturbed, Look, Tip, Grown
<1>2. ASSUME NEW k \in Lanes, LaneStep(k) PROVE Undisturbed(l)
  <2>1. StepBy(k) BY <1>2, LaneFrame
  <2>2. CASE k # l
    <3>1. lane'[l] = lane[l] /\ cmd' = cmd BY <1>0, <2>1, <2>2 DEF StepBy
    <3>2. repo'[l] = repo[l]
      <4>1. CASE SecondAttempt(k) \/ Abort(k) BY <2>2, <4>1, SecondStep, AbortStep DEF Only
      <4>2. QED BY <1>2, <2>2, <4>1, LaneCalm
    <3>3. QED BY <1>1, <3>1, <3>2
  <2>3. CASE k = l
    <3>1. ~Abort(l) BY AbortStep, <1>0
    <3>2. ~SecondAttempt(l) BY SecondStep, <1>0
    <3>3. QED BY <1>2, <2>3, <3>1, <3>2, LaneCalm
  <2>4. QED BY <2>2, <2>3
<1>3. CASE CallerStep
  <2>1. StepBy(Caller) /\ lane[Caller].step \notin {"over", "raised"} BY <1>3, CallerFrame DEF StepBy
  <2>2. lane[l].step \in {"over", "raised"} BY <2>1, PoolRests
  <2>3. lane'[l] = lane[l] BY <1>0, <2>1 DEF StepBy
  <2>4. QED BY <2>2, <2>3
<1>4. CASE Finish
  <2>1. lane'[l] = Over BY <1>0, <1>4, FinishStep
  <2>2. QED BY <2>1, OverIs
<1>5. CASE \E c \in Commands : Start(c)
  <2>1. PICK c \in Commands : Start(c) BY <1>5
  <2>2. lane'[l] = Over \/ lane'[l].step = FirstStep(c) BY <1>0, <2>1, StartStep
  <2>3. FirstStep(c) \notin {"second", "abort"} BY FirstStepIs, CommandsAssumption
  <2>4. QED BY <2>2, <2>3, OverIs
<1>6. CASE UNCHANGED vars BY <1>1, <1>6 DEF vars
<1>7. CASE Meddling
  <2>1. lane' = lane /\ cmd' = cmd BY <1>7, MeddlingStep DEF Watched
  <2>2. Job(l) = <<l, Job(l)[2]>> /\ Job(l)[2] \in Envs(l) BY <2>1, SecondMode
  <2>3. ASSUME NEW w \in Spots, ~Busy(w), Only(w[1]), Touched(w, repo'[w[1]]) PROVE Undisturbed(l)
    <3>1. CASE w[1] # l BY <1>1, <2>1, <2>3, <3>1 DEF Only
    <3>2. CASE w[1] = l
      <4>1. Job(l) # w BY <1>0, <2>1, <2>3 DEF Busy
      <4>2. w = <<w[1], w[2]>> BY DEF Spots
      <4>3. Job(l)[2] # w[2] BY <2>2, <3>2, <4>1, <4>2
      <4>4. /\ Grown(repo[l].heads, repo'[l].heads) /\ repo'[l].track = repo[l].track
            /\ Elsewhere(l, repo[l], repo'[l], w[2])
        BY <2>3, <3>2 DEF Touched, Gains
      <4>5. QED BY <2>1, <2>2, <4>3, <4>4 DEF Undisturbed, Elsewhere
    <3>3. QED BY <3>1, <3>2
  <2>4. ASSUME NEW r \in Repo, Only(r), Synced(r, repo[r], repo'[r]), repo'[r].track = repo[r].track
        PROVE  Undisturbed(l)
    <3>1. CASE r # l BY <1>1, <2>1, <2>4, <3>1 DEF Only
    <3>2. CASE r = l
      <4>1. repo'[l].at = repo[l].at /\ repo'[l].stash = repo[l].stash /\ Grown(repo[l].heads, repo'[l].heads)
        BY <2>4, <3>2 DEF Synced
      <4>2. Tip(repo'[l], Job(l)[2]) = Tip(repo[l], Job(l)[2]) BY <1>a, <2>2, <2>4, <3>2, SyncedTip
      <4>3. QED BY <2>1, <2>4, <3>2, <4>1, <4>2 DEF Undisturbed, Look
    <3>3. QED BY <3>1, <3>2
  <2>5. QED BY <1>7, <2>3, <2>4, MeddlingStep
<1>8. QED BY <1>2, <1>3, <1>4, <1>5, <1>6, <1>7 DEF Next, CommandStep

\* A step that neither begins a merge nor ends an abort leaves MergeInv alone.
LEMMA MergeQuiet ==
  ASSUME MergeInv, cmd' = cmd, NEW r \in Repo, lane'[r] = lane[r] \/ lane[r].step # "abort",
         NEW p \in Envs(r), repo'[r].at[p].merging \in {repo[r].at[p].merging, "no", "merge"}
  PROVE  repo'[r].at[p].merging = "rebase" => Aborting(r, p)'
BY DEF MergeInv, Aborting, Job, Kind

\* MergeInv is inductive: a rebase in progress is a lane's to abort.
LEMMA MergeStep ==
  ASSUME TypeInv, MergeInv, [Next]_vars
  PROVE  MergeInv'
<1> SUFFICES ASSUME NEW r \in Repo, NEW p \in Envs(r)
             PROVE  repo'[r].at[p].merging = "rebase" => Aborting(r, p)'
  BY DEF MergeInv
<1>0. r \in Lanes /\ r # Caller /\ Caller \in Lanes BY LaneIsRepo
<1>a. WellFormed(r, repo[r]) BY DEF TypeInv
<1>1. ASSUME NEW l \in Lanes, LaneStep(l)
      PROVE  repo'[r].at[p].merging = "rebase" => Aborting(r, p)'
  <2>1. StepBy(l) BY <1>1, LaneFrame
  <2>2. cmd' = cmd /\ (r # l => lane'[r] = lane[r]) BY <1>0, <2>1 DEF StepBy
  <2>3. CASE CalmAll /\ lane[l].step # "abort" BY <2>2, <2>3, MergeQuiet DEF CalmAll, Calm, Quiet
  <2>4. CASE SecondAttempt(l)
    <3>1. CASE r # l BY <2>2, <2>4, <3>1, SecondStep, MergeQuiet DEF Only
    <3>2. CASE r = l
      <4>1. lane[l].step = "second" BY <2>4 DEF SecondAttempt, At
      <4>2. CASE Calmly(l) BY <2>2, <3>2, <4>1, <4>2, MergeQuiet DEF Calmly, Calm, Quiet
      <4>3. CASE repo'[l] = repo[l] BY <2>2, <3>2, <4>1, <4>3, MergeQuiet
      <4>4. CASE /\ lane'[l].step = "abort" /\ Job(l)' = Job(l) /\ HasRef(repo[l], lane[l].held)
                 /\ repo'[l] = Stopped(repo[l], Job(l)[2], Ref(repo[l], lane[l].held), Kind)
        <5>1. Job(l) = <<l, Job(l)[2]>> /\ Job(l)[2] \in Envs(l) BY <3>2, <4>1, SecondMode
        <5>2. lane[l].held \in RefName BY <1>0, <3>2, <4>1 DEF TypeInv, LaneOk, HeldOk
        <5>3. Ref(repo[l], lane[l].held) \in SUBSET Change
          BY <1>a, <3>2, <4>4, <5>2, RefHistory DEF WellFormed
        <5>4. Kind \in {"merge", "rebase"} BY DEF Kind
        <5>5. Moved(l, repo[l], repo'[l], Job(l)[2], Tip(repo[l], Job(l)[2])) /\ repo'[l].at[Job(l)[2]].merging = Kind
          BY <1>a, <3>2, <4>4, <5>1, <5>3, <5>4, StoppedMoved
        <5>6. CASE p = Job(l)[2] BY <2>2, <3>2, <4>4, <5>1, <5>5, <5>6 DEF Aborting, Kind
        <5>7. CASE p # Job(l)[2]
          <6>1. repo'[r].at[p].merging = repo[r].at[p].merging BY <3>2, <5>5, <5>7 DEF Moved
          <6>2. QED BY <2>2, <3>2, <4>1, <6>1, MergeQuiet
        <5>8. QED BY <5>6, <5>7
      <4>5. QED BY <2>4, <4>2, <4>3, <4>4, SecondStep
    <3>3. QED BY <3>1, <3>2
  <2>5. CASE Abort(l)
    <3>1. CASE r # l BY <2>2, <2>5, <3>1, AbortStep, MergeQuiet DEF Only
    <3>2. CASE r = l
      <4> DEFINE q == Job(l)[2]
      <4>1. lane[l].step = "abort" BY <2>5, AbortStep
      <4>2. Job(l) = <<l, q>> /\ q \in Envs(l) BY <3>2, <4>1, SecondMode
      <4>3. /\ repo[l].at[q].merging # Kind => repo'[l] = repo[l]
            /\ repo[l].at[q].merging = Kind => repo'[l] = AbortOp(repo[l], q, Kind)
        BY <2>5, AbortStep
      <4> HIDE DEF q
      <4>4. CASE repo[l].at[q].merging = Kind
        <5>1. Moved(l, repo[l], repo'[l], q, Tip(repo[l], q)) /\ repo'[l].at[q].merging = "no"
          BY <1>a, <3>2, <4>2, <4>3, <4>4, AbortMoved
        <5>2. CASE p = q BY <3>2, <5>1, <5>2
        <5>3. CASE p # q
          <6>1. repo'[r].at[p] = repo[r].at[p] BY <3>2, <5>1, <5>3 DEF Moved
          <6>2. ~Aborting(r, p) BY <3>2, <4>2, <5>3 DEF Aborting
          <6>3. QED BY <2>2, <6>1, <6>2 DEF MergeInv
        <5>4. QED BY <5>2, <5>3
      <4>5. CASE repo[l].at[q].merging # Kind
        <5>1. ~Aborting(r, p) BY <3>2, <4>2, <4>5 DEF Aborting
        <5>2. QED BY <2>2, <3>2, <4>3, <4>5, <5>1 DEF MergeInv
      <4>6. QED BY <4>4, <4>5
    <3>3. QED BY <3>1, <3>2
  <2>6. QED BY <1>1, <2>3, <2>4, <2>5, LaneCalm
<1>2. CASE CallerStep
  <2>1. StepBy(Caller) BY <1>2, CallerFrame
  <2>2. cmd' = cmd /\ lane'[r] = lane[r] BY <1>0, <2>1 DEF StepBy
  <2>3. CASE CalmAll BY <2>2, <2>3, MergeQuiet DEF CalmAll, Calm, Quiet
  <2>4. CASE CheckoutMove
    <3> DEFINE s == Job(Caller)[1]
    <3>1. Only(s) /\ Moved(s, There, repo'[s], Here, Tip(repo'[s], Here)) /\ repo'[s].at[Here].merging = "no"
      BY <2>4, CheckoutMoveStep
    <3>2. repo'[r].at[p].merging \in {repo[r].at[p].merging, "no"} BY <3>1 DEF Only, Moved, There
    <3>3. QED BY <2>2, <3>2, MergeQuiet
  <2>5. CASE ResetMove
    <3> DEFINE s == Job(Caller)[1]
    <3>1. CASE repo' = repo BY <2>2, <3>1, MergeQuiet
    <3>2. CASE repo' # repo
      <4>1. /\ s \in Repo /\ Only(s) /\ cmd.ref \in RefName /\ HasRef(There, cmd.ref) /\ cmd.mode \in ResetModes
            /\ repo'[s] = ResetTo(There, Here, cmd.mode, cmd.ref) /\ lane[Caller].step = "move"
            /\ Moved(s, There, repo'[s], Here, Ref(There, cmd.ref))
        BY <2>5, <3>2, ResetMoveStep
      <4>2. WellFormed(s, There) /\ Here \in Envs(s) BY <4>1, CallerJob
      <4>3. Ref(There, cmd.ref) \in SUBSET Change BY <4>1, <4>2, RefHistory DEF WellFormed
      <4>4. cmd.mode \in {"soft", "mixed", "hard"} BY <4>1 DEF ResetModes
      <4> HIDE DEF s
      <4>5. repo'[s].at[Here].merging \in {There.at[Here].merging, "no"} BY <4>1, <4>2, <4>3, <4>4, ResetMoved
      <4>6. repo'[r].at[p].merging \in {repo[r].at[p].merging, "no"} BY <4>1, <4>5 DEF Only, Moved, There, s
      <4>7. QED BY <2>2, <4>6, MergeQuiet
    <3>3. QED BY <3>1, <3>2
  <2>6. QED BY <1>2, <2>3, <2>4, <2>5, CallerCalm
<1>3. CASE Finish
  <2>1. repo' = repo /\ run'.phase = "idle" /\ lane[r] = Over BY <1>0, <1>3, FinishStep
  <2>2. ~Aborting(r, p) BY <2>1, OverIs DEF Aborting
  <2>3. QED BY <2>1, <2>2 DEF MergeInv
<1>4. CASE \E c \in Commands : Start(c)
  <2>1. run.phase # "running" BY <1>4 DEF Start
  <2>2. ~Aborting(r, p) BY <1>0, <2>1, IdleLanes DEF Aborting
  <2>3. repo' = repo BY <1>4, StartStep
  <2>4. QED BY <2>2, <2>3 DEF MergeInv
<1>5. CASE UNCHANGED vars BY <1>5, MergeQuiet DEF vars
<1>6. CASE Meddling
  <2>1. lane' = lane /\ cmd' = cmd BY <1>6, MeddlingStep DEF Watched
  <2>2. ASSUME NEW w \in Spots, Only(w[1]), Touched(w, repo'[w[1]])
        PROVE  repo'[r].at[p].merging \in {repo[r].at[p].merging, "merge"}
    BY <2>2 DEF Only, Touched, Elsewhere
  <2>3. ASSUME NEW s \in Repo, Only(s), Synced(s, repo[s], repo'[s])
        PROVE  repo'[r].at[p].merging = repo[r].at[p].merging
    BY <2>3 DEF Only, Synced
  <2>4. repo'[r].at[p].merging \in {repo[r].at[p].merging, "merge"} BY <1>6, <2>2, <2>3, MeddlingStep
  <2>5. QED BY <2>1, <2>4, MergeQuiet
<1>7. QED BY <1>1, <1>2, <1>3, <1>4, <1>5, <1>6 DEF Next, CommandStep

\* MergeInv holds initially when no checkout is in a rebase.
LEMMA MergeInit == ASSUME Init, NoRebaseYet PROVE MergeInv
BY DEF Init, MergeInv, NoRebaseYet

-----------------------------------------------------------------------------
(* What a second attempt brings in, and what its abort gives up. *)

\* What the branches and the remote-tracking refs hold.
Refs(g) == UNION (({g.heads[c] : c \in DOMAIN g.heads} \cup {g.track[c] : c \in DOMAIN g.track}) \ {Absent})

\* A change is in the refs when a remote-tracking ref or a branch has it.
LEMMA RefsIs ==
  ASSUME NEW g, NEW x
  PROVE  x \in Refs(g) <=> \/ \E c \in DOMAIN g.track : g.track[c] # Absent /\ x \in g.track[c]
                           \/ \E c \in DOMAIN g.heads : g.heads[c] # Absent /\ x \in g.heads[c]
<1> DEFINE H == {g.heads[c] : c \in DOMAIN g.heads}
           T == {g.track[c] : c \in DOMAIN g.track}
<1>1. Refs(g) = UNION ((H \cup T) \ {Absent}) BY Zenon DEF Refs
<1>2. /\ \A h : h \in H <=> \E c \in DOMAIN g.heads : h = g.heads[c]
      /\ \A h : h \in T <=> \E c \in DOMAIN g.track : h = g.track[c]
  OBVIOUS
<1> HIDE DEF H, T
<1>3. x \in UNION ((H \cup T) \ {Absent}) <=> \E h : h # Absent /\ x \in h /\ (h \in H \/ h \in T) OBVIOUS
<1>4. QED BY <1>1, <1>2, <1>3

\* Refs that grow lose nothing, and what they hold is kept.
LEMMA RefsGrow ==
  ASSUME NEW r \in Repo, NEW g \in RepoType(r), NEW n \in RepoType(r), Grown(g.heads, n.heads), Grown(g.track, n.track)
  PROVE  Refs(g) \subseteq Refs(n) /\ Refs(n) \subseteq Kept(n)
<1>1. DOMAIN g.heads = Branch /\ DOMAIN g.track = Branch /\ DOMAIN n.heads = Branch /\ DOMAIN n.track = Branch
  BY RepoFields
<1>2. ASSUME NEW x \in Refs(g) PROVE x \in Refs(n)
  <2>1. \/ \E c \in Branch : g.track[c] # Absent /\ x \in g.track[c]
        \/ \E c \in Branch : g.heads[c] # Absent /\ x \in g.heads[c]
    BY <1>1, RefsIs
  <2>2. \/ \E c \in Branch : n.track[c] # Absent /\ x \in n.track[c]
        \/ \E c \in Branch : n.heads[c] # Absent /\ x \in n.heads[c]
    BY <2>1 DEF Grown
  <2>3. QED BY <1>1, <2>2, RefsIs
<1>3. ASSUME NEW x \in Refs(n) PROVE x \in Kept(n) BY <1>3, RefsIs, KeptIs
<1>4. QED BY <1>2, <1>3

\* A second attempt integrates a branch, or the bare commit that the command
\* line names, and one that HEAD is behind of.
HeldInv == \A l \in Repo : lane[l].step = "second" /\ lane[l].held[1] = "sha" => lane[l].held = cmd.ref
LackInv == \A l \in Repo : lane[l].step = "second" => Missing(repo[l], Job(l)[2], lane[l].held)

\* HeldInv is inductive: only the command line names a bare commit.
LEMMA HeldStep ==
  ASSUME TypeInv, HeldInv, [Next]_vars
  PROVE  HeldInv'
<1> SUFFICES ASSUME NEW l \in Repo, lane'[l].step = "second", lane'[l].held[1] = "sha"
             PROVE  lane'[l].held = cmd'.ref
  BY DEF HeldInv
<1>1. CASE Undisturbed(l) BY <1>1 DEF Undisturbed, HeldInv
<1>2. CASE Integrate(l)
  <2>1. l \in Lanes /\ lane[l].step = "integrate" /\ cmd' = cmd BY <1>2, LaneIsRepo DEF Integrate, At
  <2>2. lane'[l].held = Wanted(l) /\ Wanted(l) # None BY <1>2, <2>1, IntegrateStep
  <2>3. (cmd.op = "merge" => Wanted(l) = cmd.ref) /\ (cmd.op # "merge" => Wanted(l)[1] = "remote")
    BY <2>1, <2>2, WantedIs
  <2>4. QED BY <2>1, <2>2, <2>3
<1>3. QED BY <1>1, <1>2, LaneFate

\* A ref of a checkout that nothing reaches: what HEAD lacks it goes on lacking.
LEMMA MissingStays ==
  ASSUME NEW l \in Repo, NEW g \in RepoType(l), NEW n \in RepoType(l), NEW p, NEW ref \in RefName,
         n.at[p] = g.at[p], Tip(n, p) = Tip(g, p), n.track = g.track, Grown(g.heads, n.heads), Missing(g, p, ref)
  PROVE  Missing(n, p, ref)
<1>1. DOMAIN g.heads = Branch /\ DOMAIN n.heads = Branch BY RepoFields
<1>2. CASE ref \in {"remote"} \X Branch BY <1>2 DEF Missing, Lacks, HasRef, Ref, Lookup
<1>3. CASE ref \in {"local"} \X Branch
  <2>1. ref[1] = "local" /\ ref[2] \in Branch BY <1>3
  <2>2. Ref(g, ref) = g.heads[ref[2]] /\ Ref(n, ref) = n.heads[ref[2]] BY <1>1, <2>1 DEF Ref, Lookup
  <2>3. g.heads[ref[2]] # Absent BY <2>1, <2>2 DEF Missing, HasRef
  <2>4. n.heads[ref[2]] # Absent /\ g.heads[ref[2]] \subseteq n.heads[ref[2]] BY <2>1, <2>3 DEF Grown
  <2>5. QED BY <2>2, <2>3, <2>4 DEF Missing, Lacks, HasRef
<1>4. CASE ref \in {"sha"} \X SUBSET Change BY <1>4 DEF Missing, Lacks, HasRef, Ref
<1>5. QED BY <1>2, <1>3, <1>4 DEF RefName

\* LackInv is inductive: at its second attempt HEAD still lacks a change of the ref.
LEMMA LackStep ==
  ASSUME TypeInv, LackInv, [Next]_vars
  PROVE  LackInv'
<1> SUFFICES ASSUME NEW l \in Repo, lane'[l].step = "second"
             PROVE  Missing(repo'[l], Job(l)[2]', lane'[l].held)
  BY DEF LackInv
<1>0. l \in Lanes BY LaneIsRepo
<1>1. CASE Undisturbed(l)
  <2>1. lane'[l] = lane[l] /\ lane[l].step = "second" BY <1>1 DEF Undisturbed
  <2>2. repo[l] \in RepoType(l) /\ repo'[l] \in RepoType(l) BY TypeNext DEF TypeInv, WellFormed
  <2>3. lane[l].held \in RefName BY <1>0, <2>1 DEF TypeInv, LaneOk, HeldOk
  <2>4. Tip(repo'[l], Job(l)[2]) = Tip(repo[l], Job(l)[2]) BY <1>1 DEF Undisturbed, Look
  <2>5. Missing(repo'[l], Job(l)[2], lane[l].held) BY <1>1, <2>1, <2>2, <2>3, <2>4, MissingStays DEF Undisturbed, LackInv
  <2>6. Job(l)' = Job(l) BY <2>1 DEF Job
  <2>7. QED BY <2>1, <2>5, <2>6
<1>2. CASE Integrate(l)
  <2>1. /\ lane'[l].held = Wanted(l) /\ Missing(repo[l], Job(l)[2], Wanted(l)) /\ repo' = repo
        /\ lane'[l].jobs = lane[l].jobs
    BY <1>0, <1>2, IntegrateStep
  <2>2. Job(l)' = Job(l) BY <2>1 DEF Job
  <2>3. QED BY <2>1, <2>2
<1>3. QED BY <1>1, <1>2, LaneFate

\* A second attempt that stops: the checkout after it.
LEMMA StopIs ==
  ASSUME TypeInv, NEW l \in Repo, SecondAttempt(l), lane'[l].step = "abort"
  PROVE  LET g == repo[l]
             p == Job(l)[2]
             n == repo'[l]
             h == Ref(g, lane[l].held)
         IN  /\ Job(l)' = Job(l) /\ Kind' = Kind /\ lane[l].step = "second"
             /\ lane[l].held \in RefName /\ lane'[l].base = lane[l].base /\ cmd' = cmd
             /\ Grown(g.heads, n.heads) /\ Grown(g.track, n.track)
             /\ \/ n = g
                \/ /\ n.at[p].merging = Kind /\ n.at[p].before = g.at[p].tree /\ n.at[p].tree = g.at[p].tree \cup h
                   /\ g.at[p].merging = "no" /\ HasRef(g, lane[l].held) /\ h \in SUBSET Change
                   /\ Tip(n, p) = Tip(g, p) /\ n.stash = g.stash
<1> DEFINE g == repo[l]
           p == Job(l)[2]
           n == repo'[l]
           h == Ref(g, lane[l].held)
<1>0. l \in Lanes /\ WellFormed(l, g) BY LaneIsRepo DEF TypeInv
<1>1. lane[l].step = "second" /\ cmd' = cmd BY DEF SecondAttempt, At
<1>2. p \in Envs(l) /\ lane[l].held \in RefName BY <1>0, <1>1, SecondMode DEF TypeInv, LaneOk, HeldOk
<1>3. Kind' = Kind /\ Kind \in {"merge", "rebase"} BY <1>1 DEF Kind
<1>4. /\ lane'[l].base = lane[l].base /\ Job(l)' = Job(l) /\ Gains(l, g, n)
      /\ \/ n = g
         \/ g.at[p].merging = "no" /\ HasRef(g, lane[l].held) /\ n = Stopped(g, p, h, Kind)
  BY <1>0, SecondStep
<1>5. Grown(g.heads, n.heads) /\ Grown(g.track, n.track) BY <1>4 DEF Gains
<1>6. ASSUME HasRef(g, lane[l].held), n = Stopped(g, p, h, Kind)
      PROVE  /\ n.at[p].merging = Kind /\ n.at[p].before = g.at[p].tree /\ n.at[p].tree = g.at[p].tree \cup h
             /\ Tip(n, p) = Tip(g, p) /\ n.stash = g.stash /\ h \in SUBSET Change
  <2>1. h \in SUBSET Change BY <1>0, <1>2, <1>6, RefHistory DEF WellFormed
  <2> HIDE DEF g, p, n, h
  <2>2. /\ Moved(l, g, n, p, Tip(g, p)) /\ n.stash = g.stash /\ n.at[p].tree = g.at[p].tree \cup h
        /\ n.at[p].merging = Kind /\ n.at[p].before = g.at[p].tree
    BY <1>0, <1>2, <1>3, <1>6, <2>1, StoppedMoved
  <2>3. Tip(n, p) = Tip(g, p) BY <1>0, <1>2, <2>2, MovedTip
  <2>4. QED BY <2>1, <2>2, <2>3
<1>7. QED BY <1>1, <1>2, <1>3, <1>4, <1>5, <1>6

\* What a ref that is not a bare commit holds.
LEMMA BranchHeld ==
  ASSUME NEW r \in Repo, NEW g \in RepoType(r), NEW ref \in RefName, HasRef(g, ref), ref[1] # "sha"
  PROVE  Ref(g, ref) \subseteq Refs(g)
<1>1. DOMAIN g.heads = Branch /\ DOMAIN g.track = Branch BY RepoFields
<1>2. CASE ref \in {"remote"} \X Branch
  <2>1. ref[1] = "remote" /\ ref[2] \in Branch BY <1>2
  <2>2. Ref(g, ref) = g.track[ref[2]] BY <1>1, <2>1 DEF Ref, Lookup
  <2>3. \A x \in Ref(g, ref) : x \in Refs(g) BY <1>1, <2>1, <2>2, RefsIs DEF HasRef
  <2>4. QED BY <2>3
<1>3. CASE ref \in {"local"} \X Branch
  <2>1. ref[1] = "local" /\ ref[2] \in Branch BY <1>3
  <2>2. Ref(g, ref) = g.heads[ref[2]] BY <1>1, <2>1 DEF Ref, Lookup
  <2>3. \A x \in Ref(g, ref) : x \in Refs(g) BY <1>1, <2>1, <2>2, RefsIs DEF HasRef
  <2>4. QED BY <2>3
<1>4. QED BY <1>2, <1>3 DEF RefName

\* What a checkout is before the operation that stopped in it.
Unstopped(g, p) == [tip |-> Tip(g, p), tree |-> g.at[p].before, merging |-> "no", stash |-> g.stash]
Started(t, g, p) ==
    IF g.at[p].merging = Kind /\ t.base.merging # Kind THEN Unstopped(g, p) ELSE Look(g, p)

\* The checkout that was found: it is as found, but for what the command's
\* own operation put in its tree before it stopped.
BaseInv ==
    \A l \in Repo :
        /\ lane[l].step = "second" => lane[l].base = Look(repo[l], Job(l)[2])
        /\ lane[l].step = "abort" => lane[l].base = Started(lane[l], repo[l], Job(l)[2])

\* BaseInv is inductive.
LEMMA BaseStep ==
  ASSUME TypeInv, BaseInv, [Next]_vars
  PROVE  BaseInv'
<1> SUFFICES ASSUME NEW l \in Repo
             PROVE  /\ lane'[l].step = "second" => lane'[l].base = Look(repo'[l], Job(l)[2]')
                    /\ lane'[l].step = "abort" => lane'[l].base = Started(lane[l], repo[l], Job(l)[2])'
  BY DEF BaseInv
<1> DEFINE g == repo[l]
           n == repo'[l]
           p == Job(l)[2]
<1>1. CASE Undisturbed(l)
  <2>1. lane'[l] = lane[l] /\ cmd' = cmd /\ n.at[p] = g.at[p] /\ Look(n, p) = Look(g, p) BY <1>1 DEF Undisturbed
  <2>2. Job(l)' = Job(l) /\ Kind' = Kind BY <2>1 DEF Job, Kind
  <2>3. Unstopped(n, p) = Unstopped(g, p) BY <2>1 DEF Look, Unstopped
  <2>4. /\ lane[l].step = "second" => lane[l].base = Look(g, p)
        /\ lane[l].step = "abort" => lane[l].base = Started(lane[l], g, p)
    BY DEF BaseInv
  <2> HIDE DEF g, n, p
  <2>5. Started(lane[l], n, p) = Started(lane[l], g, p) BY <2>1, <2>3 DEF Started
  <2>6. Started(lane[l], repo[l], Job(l)[2])' = Started(lane[l], n, p) BY <2>1, <2>2 DEF Started, n, p
  <2>7. QED BY <2>1, <2>2, <2>4, <2>5, <2>6 DEF n, p
<1>2. CASE Integrate(l) /\ lane'[l].step = "second"
  <2>1. lane'[l].jobs = lane[l].jobs /\ lane'[l].base = Look(g, p) /\ repo' = repo
    BY <1>2, LaneIsRepo, IntegrateStep
  <2>2. Job(l)' = Job(l) BY <2>1 DEF Job
  <2>3. QED BY <1>2, <2>1, <2>2
<1>3. CASE SecondAttempt(l) /\ lane'[l].step = "abort"
  <2>1. /\ Job(l)' = Job(l) /\ Kind' = Kind /\ lane[l].step = "second" /\ lane'[l].base = lane[l].base
        /\ \/ n = g
           \/ /\ n.at[p].merging = Kind /\ n.at[p].before = g.at[p].tree /\ g.at[p].merging = "no"
              /\ Tip(n, p) = Tip(g, p) /\ n.stash = g.stash
    BY <1>3, StopIs
  <2>2. lane[l].base = Look(g, p) BY <2>1 DEF BaseInv
  <2>3. lane[l].base.merging = g.at[p].merging /\ Kind # "no" BY <2>2 DEF Look, Kind
  <2>4. n # g => Look(g, p) = Unstopped(n, p) BY <2>1 DEF Look, Unstopped
  <2> HIDE DEF g, n, p
  <2>5. Started(lane[l], n, p) = Look(g, p) BY <2>1, <2>3, <2>4 DEF Started
  <2>6. Started(lane[l], repo[l], Job(l)[2])' = Started(lane[l], n, p) BY <2>1 DEF Started, n, p
  <2>7. QED BY <1>3, <2>1, <2>2, <2>5, <2>6
<1>4. QED BY <1>1, <1>2, <1>3, LaneFate

\* BaseInv holds initially, when no lane is at work.
LEMMA BaseInit == ASSUME Init PROVE BaseInv
<1>1. ASSUME NEW l \in Repo PROVE lane[l].step = "over"
  <2>1. lane[l] = Over BY LaneIsRepo DEF Init
  <2>2. QED BY <2>1, OverIs
<1>2. QED BY <1>1 DEF BaseInv

\* The bare commit that a command line names, if it does.
Named == IF cmd.ref[1] = "sha" THEN cmd.ref[2] ELSE {}

\* The tree that an abort of the command's own operation gives up shows what
\* was there, and what a branch holds or the command line names.
AbortInv ==
    \A l \in Repo :
        LET c == repo[l].at[Job(l)[2]]
        IN  lane[l].step = "abort" /\ c.merging = Kind /\ ~UsersOwn(l)
              => c.tree \subseteq c.before \cup Refs(repo[l]) \cup Named

\* AbortInv is inductive.
LEMMA AbortInvStep ==
  ASSUME TypeInv, HeldInv, BaseInv, AbortInv, [Next]_vars
  PROVE  AbortInv'
<1> SUFFICES ASSUME NEW l \in Repo, lane'[l].step = "abort", repo'[l].at[Job(l)[2]'].merging = Kind', ~UsersOwn(l)'
             PROVE  repo'[l].at[Job(l)[2]'].tree
                      \subseteq repo'[l].at[Job(l)[2]'].before \cup Refs(repo'[l]) \cup Named'
  BY DEF AbortInv
<1> DEFINE p == Job(l)[2]
<1>0. repo[l] \in RepoType(l) /\ repo'[l] \in RepoType(l) BY TypeNext DEF TypeInv, WellFormed
<1>1. CASE Undisturbed(l)
  <2>1. lane'[l] = lane[l] /\ cmd' = cmd /\ repo'[l].at[p] = repo[l].at[p] BY <1>1 DEF Undisturbed
  <2>2. Job(l)' = Job(l) /\ Kind' = Kind /\ Named' = Named BY <2>1 DEF Job, Kind, Named
  <2>3. ~UsersOwn(l) BY <2>1, <2>2 DEF UsersOwn
  <2>4. Refs(repo[l]) \subseteq Refs(repo'[l]) BY <1>0, <1>1, RefsGrow DEF Undisturbed, Grown
  <2>5. repo[l].at[p].tree \subseteq repo[l].at[p].before \cup Refs(repo[l]) \cup Named
    BY <2>1, <2>2, <2>3 DEF AbortInv
  <2>6. QED BY <2>1, <2>2, <2>4, <2>5
<1>2. CASE SecondAttempt(l)
  <2> DEFINE h == Ref(repo[l], lane[l].held)
  <2>1. /\ Job(l)' = Job(l) /\ Kind' = Kind /\ lane[l].step = "second" /\ lane[l].held \in RefName
        /\ Grown(repo[l].heads, repo'[l].heads) /\ Grown(repo[l].track, repo'[l].track)
        /\ lane'[l].base = lane[l].base /\ cmd' = cmd
    BY <1>2, StopIs
  <2>2. repo'[l].at[p].merging = Kind /\ Named' = Named BY <2>1 DEF Named
  <2>3. repo'[l] # repo[l]
    <3>1. lane[l].base = Look(repo[l], p) BY <2>1 DEF BaseInv
    <3>2. lane[l].base.merging = repo[l].at[p].merging BY <3>1 DEF Look
    <3>3. lane[l].base.merging # Kind BY <2>1 DEF UsersOwn
    <3>4. QED BY <2>2, <3>2, <3>3
  <2>4. /\ repo'[l].at[p].before = repo[l].at[p].tree /\ repo'[l].at[p].tree = repo[l].at[p].tree \cup h
        /\ HasRef(repo[l], lane[l].held)
    BY <1>2, <2>3, StopIs
  <2>5. h \subseteq Refs(repo[l]) \cup Named
    <3>1. CASE lane[l].held[1] # "sha" BY <1>0, <2>1, <2>4, <3>1, BranchHeld
    <3>2. CASE lane[l].held[1] = "sha"
      <4>1. lane[l].held = cmd.ref BY <2>1, <3>2 DEF HeldInv
      <4>2. h = cmd.ref[2] BY <3>2, <4>1 DEF Ref
      <4>3. QED BY <3>2, <4>1, <4>2 DEF Named
    <3>3. QED BY <3>1, <3>2
  <2>6. Refs(repo[l]) \subseteq Refs(repo'[l]) BY <1>0, <2>1, RefsGrow
  <2>7. QED BY <2>1, <2>2, <2>4, <2>5, <2>6
<1>3. QED BY <1>1, <1>2, LaneFate

\* What a reset does: one that keeps the tree drops no more than the commits
\* of HEAD that the tree does not show.
LEMMA KeepingReset ==
  ASSUME TypeInv, ResetMove, repo' # repo
  PROVE  LET r == Job(Caller)[1]
         IN  /\ r \in Repo /\ Only(r) /\ cmd.op = "reset" /\ lane[Caller].step = "move"
             /\ cmd.mode # "hard"
                  => Kept(There) \ (Tip(There, Here) \ There.at[Here].tree) \subseteq Kept(repo'[r])
<1> DEFINE r == Job(Caller)[1]
           n == repo'[r]
           h == Ref(There, cmd.ref)
<1>1. /\ lane[Caller].step = "move" /\ cmd.op = "reset" /\ cmd.mode \in ResetModes
      /\ r \in Repo /\ Only(r) /\ cmd.ref \in RefName /\ HasRef(There, cmd.ref)
      /\ n = ResetTo(There, Here, cmd.mode, cmd.ref)
  BY ResetMoveStep
<1>2. WellFormed(r, There) /\ Here \in Envs(r) BY <1>1, CallerJob
<1>3. h \in SUBSET Change BY <1>1, <1>2, RefHistory DEF WellFormed
<1> HIDE DEF r, n, h
<1>4. ASSUME cmd.mode # "hard"
      PROVE  Kept(There) \ (Tip(There, Here) \ There.at[Here].tree) \subseteq Kept(n)
  <2>1. cmd.mode \in {"soft", "mixed"} BY <1>1, <1>4 DEF ResetModes
  <2>2. QED BY <1>1, <1>2, <1>3, <2>1, ResetGains DEF h
<1>5. QED BY <1>1, <1>4 DEF r, n

\* An abort restores the tree that git has on record.
LEMMA AbortIs ==
  ASSUME TypeInv, NEW l \in Repo, Abort(l), repo[l].at[Job(l)[2]].merging = Kind
  PROVE  LET g == repo[l]
             p == Job(l)[2]
             n == repo'[l]
         IN  /\ Moved(l, g, n, p, Tip(g, p)) /\ n.stash = g.stash /\ Fields(n.at[p], g.at[p])
             /\ n.at[p].tree = g.at[p].before /\ n.at[p].merging = "no" /\ g.at[p].merging # "no"
             /\ WellFormed(l, g) /\ p \in Envs(l) /\ DOMAIN g.at = Envs(l) /\ Only(l) /\ lane[l].step = "abort"
             /\ Grown(g.heads, n.heads) /\ Grown(g.track, n.track) /\ Tip(n, p) = Tip(g, p)
<1> DEFINE g == repo[l]
           p == Job(l)[2]
           n == repo'[l]
<1>1. l \in Lanes /\ WellFormed(l, g) BY LaneIsRepo DEF TypeInv
<1>2. p \in Envs(l) /\ n = AbortOp(g, p, Kind) /\ g.at[p].merging = Kind /\ Only(l) /\ lane[l].step = "abort"
  BY <1>1, AbortStep
<1>3. Kind # "no" BY DEF Kind
<1> HIDE DEF g, p, n
<1>4. /\ Moved(l, g, n, p, Tip(g, p)) /\ n.stash = g.stash /\ Fields(n.at[p], g.at[p])
      /\ n.at[p].tree = g.at[p].before /\ n.at[p].merging = "no"
  BY <1>1, <1>2, AbortMoved
<1>5. Grown(g.heads, n.heads) BY <1>1, <1>2, <1>4, MovedHeads DEF Fields
<1>6. Grown(g.track, n.track) /\ Tip(n, p) = Tip(g, p) BY <1>1, <1>2, <1>4, MovedTip
<1>7. DOMAIN g.at = Envs(l) BY <1>1, RepoFields DEF WellFormed
<1>8. QED BY <1>1, <1>2, <1>3, <1>4, <1>5, <1>6, <1>7 DEF g, p, n

-----------------------------------------------------------------------------
(* What a command that may drop work has seen: saved when it moves. *)

Refused == \E e \in told : e.result = "refused"
SeenSaved == \A r \in Repo : seen[r] \subseteq Saved(repo[r])
SeenInv ==
    run.phase = "running" /\ Destructive /\ ~cmd.force =>
        /\ lane[Caller].step \in {"ask", "classify", "move", "track"} /\ ~Refused => SeenSaved
        /\ lane[Caller].step = "ask" => told = {}
        /\ lane[Caller].step \in {"move", "track"} => ~Refused

\* The ref that a move is measured against is one that the remote has.
LEMMA SafetyRefIs ==
  ASSUME NEW r \in Repo, NEW g, WellFormed(r, g), NEW b \in Branch \cup {Detached}
  PROVE  /\ HasRef(g, SafetyRef(g, b)) /\ Ref(g, SafetyRef(g, b)) \subseteq Saved(g)
         /\ Ref(g, SafetyRef(g, b)) \in SUBSET Change
<1> g \in RepoType(r) BY DEF WellFormed
<1>1. OriginMain \in RefName /\ HasRef(g, OriginMain) /\ OriginMain[1] = "remote" BY MainKnown
<1>2. ASSUME BranchUpstream(g, b) # None
      PROVE  /\ BranchUpstream(g, b) \in RefName /\ HasRef(g, BranchUpstream(g, b))
             /\ BranchUpstream(g, b)[1] = "remote"
  <2>1. b # Detached /\ g.up[b] # None /\ HasRef(g, <<"remote", g.up[b]>>) /\ BranchUpstream(g, b) = <<"remote", g.up[b]>>
    BY <1>2 DEF BranchUpstream
  <2>2. g.up[b] \in Branch BY <2>1, RepoFields
  <2>3. QED BY <2>1, <2>2 DEF RefName
<1>3. SafetyRef(g, b) \in RefName /\ HasRef(g, SafetyRef(g, b)) /\ SafetyRef(g, b)[1] = "remote"
  BY <1>1, <1>2 DEF SafetyRef
<1>4. QED BY <1>3, RefHistory

\* What a checkout that is not refused has at stake is saved.
LEMMA StakeSaved ==
  ASSUME TypeInv, Destructive, ~cmd.force, cmd \in CommandType, NEW w, w[1] \in Repo, w[2] \in Envs(w[1]),
         w[2] \in Branch, Refusal(w) = "none"
  PROVE  Stake(w) \subseteq Saved(repo[w[1]])
<1> DEFINE g == repo[w[1]]
           p == w[2]
           b == g.at[p].on
<1>1. WellFormed(w[1], g) BY DEF TypeInv
<1>2. b \in Branch \cup {Detached} BY <1>1, RepoFields DEF WellFormed, CheckoutType
<1>3. cmd.op = "checkout" \/ cmd.mode = "hard" BY DEF Destructive
<1>4. ~Dirty(g, p) /\ ~Abandons(g, p) BY <1>3 DEF Refusal
<1>5. Ref(g, SafetyRef(g, b)) \subseteq Saved(g) /\ Ref(g, SafetyRef(g, p)) \subseteq Saved(g)
  BY <1>1, <1>2, SafetyRefIs
<1>6. Tip(g, p) \subseteq Saved(g) BY <1>4, <1>5 DEF Abandons, NotIn
<1>7. g.at[p].tree \subseteq Saved(g) BY <1>4, <1>6 DEF Dirty
<1>8. cmd.op = "checkout" /\ g.heads[p] # Absent => g.heads[p] \subseteq Saved(g)
  <2>1. CASE b = p BY <1>6, <2>1, NameAssumption DEF Tip
  <2>2. CASE b # p BY <1>4, <1>5, <2>2 DEF Abandons, NotIn
  <2>3. QED BY <2>1, <2>2
<1> HIDE DEF g, p, b
<1>9. QED BY <1>6, <1>7, <1>8 DEF Stake, g, p

\* A step of a lane is no step of a command of the calling thread, but for
\* what a thread that raised still has to do.
LEMMA CallerLane ==
  ASSUME TypeInv, NEW l \in Lanes, LaneStep(l), Destructive
  PROVE  \/ lane'[Caller].step \in {"over", "raised"}
         \/ told' = told /\ lane'[Caller] = lane[Caller]
<1>1. cmd.op \notin Pooled BY DEF Destructive, Pooled
<1>2. Caller \in Lanes /\ DOMAIN lane = Lanes BY DEF Lanes, TypeInv
<1>3. ~Collect(l) BY <1>1 DEF Collect
<1>4. lane[l].step \notin {"fetch", "source", "integrate", "second", "abort", "collect"} BY <1>1, PoolLane
<1>5. ~(Fetch(l) \/ FetchAgain(l) \/ FetchFails(l) \/ FollowMain(l) \/ Integrate(l) \/ SecondAttempt(l) \/ Abort(l))
  BY <1>4 DEF Fetch, FetchAgain, FetchFails, FollowMain, Integrate, SecondAttempt, Abort, At
<1>6. CASE CollectRaised(l)
  <2>1. lane' = [lane EXCEPT ![l] = Over] /\ told' = IF l = Caller THEN {} ELSE told BY <1>6 DEF CollectRaised
  <2>2. CASE l = Caller
    <3>1. lane'[Caller] = Over BY <1>2, <2>1, <2>2
    <3>2. QED BY <3>1, OverIs
  <2>3. CASE l # Caller BY <1>2, <2>1, <2>3
  <2>4. QED BY <2>2, <2>3
<1>7. CASE Raises(l)
  <2>1. lane' = [lane EXCEPT ![l] = Raised] /\ told' = told BY <1>7 DEF Raises
  <2>2. CASE l = Caller
    <3>1. lane'[Caller] = Raised BY <1>2, <2>1, <2>2
    <3>2. QED BY <3>1, OverIs
  <2>3. CASE l # Caller BY <1>2, <2>1, <2>3
  <2>4. QED BY <2>2, <2>3
<1>8. QED BY <1>3, <1>5, <1>6, <1>7 DEF LaneStep

\* What was seen stays saved as long as nothing more is.
LEMMA SeenStays ==
  ASSUME TypeInv, [Next]_vars, SeenSaved, seen' = seen
  PROVE  SeenSaved'
BY SavedGrows DEF SeenSaved

\* Classify finds what it has seen saved, or refuses the checkout.
LEMMA ClassifySeen ==
  ASSUME TypeInv, SeenInv, Destructive, ~cmd.force, Classify
  PROVE  SeenInv'
<1> DEFINE w == Job(Caller)
<1>1. lane[Caller].step = "classify" /\ cmd' = cmd BY DEF Classify, At
<1>2. /\ run.phase = "running" /\ w[1] \in Repo /\ w[2] \in Envs(w[1]) /\ w[2] \in Branch /\ cmd \in CommandType
      /\ DOMAIN seen = Repo
  <2>1. cmd.op # "push" BY DEF Destructive
  <2>2. QED BY <1>1, <2>1, CallerJob DEF Here
<1>3. ~Refused => SeenSaved BY <1>1, <1>2 DEF SeenInv
<1>4. seen' = [seen EXCEPT ![w[1]] = seen[w[1]] \cup Stake(w)] BY DEF Classify, history
<1>5. repo' = repo BY DEF Classify
<1>6. ASSUME Refusal(w) = "none", ~Refused PROVE SeenSaved'
  <2>1. Stake(w) \subseteq Saved(repo[w[1]]) BY <1>2, <1>6, StakeSaved
  <2>2. ASSUME NEW r \in Repo PROVE seen'[r] \subseteq Saved(repo[r])
    <3>1. seen[r] \subseteq Saved(repo[r]) BY <1>3, <1>6 DEF SeenSaved
    <3>2. CASE r = w[1] BY <1>2, <1>4, <2>1, <3>1, <3>2
    <3>3. CASE r # w[1] BY <1>2, <1>4, <3>1, <3>3
    <3>4. QED BY <3>2, <3>3
  <2>3. QED BY <1>5, <2>2 DEF SeenSaved
<1>7. CASE lane'[Caller].step = "classify" /\ Refusal(w) = "none" /\ told' = told
  BY <1>6, <1>7 DEF SeenInv, Refused
<1>8. CASE lane'[Caller].step = "classify" /\ Tell(w, "refused", {})
  <2>1. Event(w, "refused", {}) \in told' /\ Event(w, "refused", {}).result = "refused" BY <1>8 DEF Tell, Event
  <2>2. Refused' BY <2>1 DEF Refused
  <2>3. QED BY <1>8, <2>2 DEF SeenInv
<1>9. CASE lane'[Caller] = Over BY <1>9, OverIs DEF SeenInv
<1>10. CASE lane'[Caller].step = "move" /\ ~Blocked(w) /\ told' = told
  <2>1. Refusal(w) = "none" /\ ~Refused BY <1>10 DEF Blocked, Refused
  <2>2. SeenSaved' /\ ~Refused' BY <1>6, <1>10, <2>1 DEF Refused
  <2>3. QED BY <1>10, <2>2 DEF SeenInv
<1>11. QED BY <1>7, <1>8, <1>9, <1>10, ClassifyStep

\* SeenInv is inductive: what was seen is saved before a checkout is moved unforced.
LEMMA SeenStep ==
  ASSUME TypeInv, SeenInv, [Next]_vars
  PROVE  SeenInv'
<1> SUFFICES ASSUME run'.phase = "running", Destructive', ~cmd'.force PROVE SeenInv' BY DEF SeenInv
<1>0. Caller \in Lanes BY DEF Lanes
<1>1. ASSUME cmd' = cmd, run.phase = "running", seen' = seen, told' = told, lane'[Caller] = lane[Caller] PROVE SeenInv'
  <2>1. Destructive /\ ~cmd.force /\ (Refused' <=> Refused) BY <1>1 DEF Destructive, Refused
  <2>2. SeenSaved => SeenSaved' BY <1>1, SeenStays
  <2>3. QED BY <1>1, <2>1, <2>2 DEF SeenInv
<1>2. ASSUME cmd' = cmd, lane'[Caller].step \notin {"ask", "classify", "move", "track"} PROVE SeenInv'
  BY <1>2 DEF SeenInv
<1>3. ASSUME NEW l \in Lanes, LaneStep(l) PROVE SeenInv'
  <2>1. StepBy(l) /\ seen' = seen BY <1>3, LaneFrame
  <2>2. Destructive BY <2>1 DEF StepBy, Destructive
  <2>3. QED BY <1>1, <1>2, <1>3, <2>1, <2>2, CallerLane DEF StepBy
<1>4. CASE CallerStep
  <2>1. StepBy(Caller) /\ (Classify \/ seen' = seen) BY <1>4, CallerFrame
  <2>2. cmd' = cmd /\ run.phase = "running" /\ Destructive /\ ~cmd.force BY <2>1 DEF StepBy, Destructive
  <2>3. lane[Caller].step \in Steps(cmd.op) /\ cmd \in CommandType /\ lane[Caller].step \notin {"over", "raised"}
    <3>1. lane[Caller].step \notin {"over", "raised"} BY <1>4, <2>1, CallerFrame DEF StepBy
    <3>2. QED BY <3>1, CallerJob
  <2>4. cmd.op \in {"checkout", "reset"} BY <2>2 DEF Destructive
  <2>5. lane[Caller].step \in {"classify", "move", "track", "ask"} BY <2>3, <2>4 DEF Steps
  <2>6. CASE Classify BY <2>2, <2>6, ClassifySeen
  <2>7. CASE ~Classify
    <3>1. SeenSaved => SeenSaved' BY <2>1, <2>7, SeenStays
    <3>2. CASE Ask
      <4>1. /\ lane[Caller].step = "ask" /\ told' = told
            /\ Goto(Caller, "classify") \/ lane' = [lane EXCEPT ![Caller] = Over]
        BY <2>4, <3>2 DEF Ask, At
      <4>2. lane'[Caller].step \in {"classify", "over"}
        <5>1. DOMAIN lane = Lanes /\ IsThread(lane[Caller]) BY <2>3, CallerJob
        <5>2. CASE Goto(Caller, "classify") BY <1>0, <5>1, <5>2, GotoIs
        <5>3. CASE lane' = [lane EXCEPT ![Caller] = Over]
          <6>1. lane'[Caller] = Over BY <1>0, <5>1, <5>3
          <6>2. QED BY <6>1, OverIs
        <5>4. QED BY <4>1, <5>2, <5>3
      <4>3. ~Refused /\ SeenSaved BY <2>2, <4>1 DEF SeenInv, Refused
      <4>4. QED BY <3>1, <4>2, <4>3 DEF SeenInv
    <3>3. CASE CheckoutMove
      <4>1. lane[Caller].step = "move" /\ lane'[Caller].step = "track" BY <3>3, CheckoutMoveStep
      <4>2. told' = told BY <3>3 DEF CheckoutMove
      <4>3. ~Refused /\ SeenSaved /\ ~Refused' BY <2>2, <4>1, <4>2 DEF SeenInv, Refused
      <4>4. QED BY <3>1, <4>1, <4>3 DEF SeenInv
    <3>4. CASE CheckoutTrack \/ ResetMove
      <4>1. lane[Caller].step \in {"move", "track"} /\ lane'[Caller].step \in {"over", "raised", "move"}
        <5>1. CASE ResetMove BY <5>1, ResetMoveStep
        <5>2. CASE CheckoutTrack
          <6>1. lane[Caller].step = "track" /\ Next1(Caller, "move") BY <5>2 DEF CheckoutTrack, At
          <6>2. lane'[Caller] = Over \/ lane'[Caller] = Thread(lane[Caller].jobs \ {Job(Caller)}, "move")
            BY <1>0, <2>3, <6>1, Next1Is, CallerJob
          <6>3. QED BY <6>1, <6>2, OverIs, ThreadIs
        <5>3. QED BY <3>4, <5>1, <5>2
      <4>2. told' = told \/ \E x \in {"reset", "planned"} : \E what : Tell(Job(Caller), x, what)
        BY <3>4 DEF CheckoutTrack, ResetMove
      <4>3. ~Refused /\ SeenSaved BY <2>2, <4>1 DEF SeenInv
      <4>4. ~Refused' BY <4>2, <4>3 DEF Refused, Tell, Event
      <4>5. QED BY <3>1, <4>1, <4>3, <4>4 DEF SeenInv
    <3>5. ~(PushOne \/ PushAccepted \/ PushRefused \/ PushUnsent \/ PushUnanswered \/ Follow)
      BY <2>5 DEF PushOne, PushAccepted, PushRefused, PushUnsent, PushUnanswered, Follow, At
    <3>6. ~(Preview \/ CleanOne \/ CleanPartly \/ Connect) BY <2>5 DEF Preview, CleanOne, CleanPartly, Connect, At
    <3>7. QED BY <1>4, <2>7, <3>2, <3>3, <3>4, <3>5, <3>6 DEF CallerStep
  <2>8. QED BY <2>6, <2>7
<1>5. CASE Finish BY <1>5, FinishStep
<1>6. CASE \E c \in Commands : Start(c)
  <2>1. PICK c \in Commands : Start(c) BY <1>6
  <2>2. told' = {} /\ seen' = [r \in Repo |-> {}] BY <2>1, StartStep
  <2>3. ~Refused' /\ SeenSaved' BY <2>2 DEF Refused, SeenSaved
  <2>4. QED BY <2>2, <2>3 DEF SeenInv
<1>7. CASE UNCHANGED vars BY <1>1, <1>7 DEF vars
<1>8. CASE Meddling BY <1>1, <1>8, MeddlingStep DEF Watched
<1>9. QED BY <1>3, <1>4, <1>5, <1>6, <1>7, <1>8 DEF Next, CommandStep

-----------------------------------------------------------------------------
(* No work is lost by a command that was not forced, but what GivenUp names. *)

WorkInv == HeldInv /\ BaseInv /\ AbortInv /\ SeenInv

\* The invariant of WorkIsKept holds initially.
LEMMA WorkInit == ASSUME Init PROVE WorkInv
<1>1. ASSUME NEW l \in Repo PROVE lane[l].step = "over"
  <2>1. lane[l] = Over BY LaneIsRepo DEF Init
  <2>2. QED BY <2>1, OverIs
<1>2. HeldInv /\ AbortInv BY <1>1 DEF HeldInv, AbortInv
<1>3. SeenInv BY DEF Init, SeenInv
<1>4. QED BY <1>2, <1>3, BaseInit DEF WorkInv

\* Every step preserves the invariant of WorkIsKept.
LEMMA WorkNext ==
  ASSUME TypeInv, WorkInv, [Next]_vars
  PROVE  WorkInv'
BY HeldStep, BaseStep, AbortInvStep, SeenStep DEF WorkInv

\* An abort of the command's own operation drops what a bare commit brought
\* in, an abort of the user's merge the tree of that merge.
LEMMA AbortKeeps ==
  ASSUME TypeInv, AbortInv, NEW l \in Repo, Abort(l), repo[l].at[Job(l)[2]].merging = Kind
  PROVE  Kept(repo[l]) \ GivenUp(l) \subseteq Kept(repo'[l])
<1> DEFINE g == repo[l]
           p == Job(l)[2]
           n == repo'[l]
           X == GivenUp(l)
<1>1. /\ Moved(l, g, n, p, Tip(g, p)) /\ n.stash = g.stash /\ Fields(n.at[p], g.at[p])
      /\ n.at[p].tree = g.at[p].before /\ WellFormed(l, g) /\ p \in Envs(l) /\ lane[l].step = "abort"
      /\ Grown(g.heads, n.heads) /\ Grown(g.track, n.track)
  BY AbortIs
<1>2. Named \subseteq X /\ (UsersOwn(l) => g.at[p].tree \subseteq X) BY <1>1 DEF GivenUp, Named
<1>3. g.at[p].tree \subseteq g.at[p].before \cup Refs(g) \cup X
  <2>1. ~UsersOwn(l) => g.at[p].tree \subseteq g.at[p].before \cup Refs(g) \cup Named BY <1>1 DEF AbortInv
  <2> HIDE DEF g, p, X
  <2>2. QED BY <1>2, <2>1
<1> HIDE DEF g, p, n, X
<1>4. Refs(g) \subseteq Kept(n) BY <1>1, RefsGrow DEF WellFormed, Moved
<1>5. Tip(g, p) \cup g.at[p].tree \subseteq Tip(g, p) \cup n.at[p].tree \cup n.stash \cup Saved(n) \cup Kept(n) \cup X
  BY <1>1, <1>3, <1>4
<1>6. QED BY <1>1, <1>5, MovedKeptBut DEF Fields, g, n, X

\* A step of a command that is not a forced destructive one keeps the work.
LEMMA WorkStep ==
  ASSUME TypeInv, WorkInv, [Next]_vars, run.phase = "running", Destructive => ~cmd.force, NEW r \in Repo
  PROVE  Work(r) \subseteq Kept(repo'[r])
<1>0. AbortInv /\ SeenInv BY DEF WorkInv
<1>1. ASSUME Kept(repo[r]) \subseteq Kept(repo'[r]) PROVE Work(r) \subseteq Kept(repo'[r]) BY <1>1 DEF Work
<1>2. CASE CalmAll BY <1>1, <1>2 DEF CalmAll, Calm, Gains
<1>3. CASE \E l \in Lanes : SecondAttempt(l) BY <1>1, <1>3, SecondStep DEF Only, Gains
<1>4. CASE \E l \in Lanes : Abort(l)
  <2>1. PICK l \in Lanes : Abort(l) BY <1>4
  <2>2. l \in Repo /\ Only(l) /\ lane[l].step = "abort" BY <2>1, AbortStep
  <2>3. CASE repo[l].at[Job(l)[2]].merging # Kind BY <1>2, <2>1, <2>3, AbortStep, CalmlyAll
  <2>4. CASE r # l BY <1>1, <2>2, <2>4 DEF Only
  <2>5. CASE repo[l].at[Job(l)[2]].merging = Kind /\ r = l
    <3>1. Kept(repo[r]) \ GivenUp(r) \subseteq Kept(repo'[r]) BY <1>0, <2>1, <2>2, <2>5, AbortKeeps
    <3>2. cmd.op \in {"pull", "merge"} BY <2>1, <2>2, JobIs, StepsOf
    <3>3. ~Destructive BY <3>2 DEF Destructive
    <3>4. QED BY <3>1, <3>3 DEF Work
  <2>6. QED BY <2>3, <2>4, <2>5
\* What a move of the calling thread could lose was saved when it was seen.
<1>5. ASSUME Destructive, lane[Caller].step = "move" PROVE Work(r) \subseteq Kept(repo'[r])
  <2>1. SeenSaved BY <1>0, <1>5 DEF SeenInv
  <2>2. seen[r] \subseteq Saved(repo'[r]) BY <2>1, SavedGrows DEF SeenSaved
  <2>3. Saved(repo'[r]) \subseteq Kept(repo'[r]) BY SavedKept
  <2>4. QED BY <1>5, <2>2, <2>3 DEF Work
<1>6. CASE CheckoutMove BY <1>5, <1>6 DEF CheckoutMove, At, Destructive
<1>7. CASE ResetMove /\ repo' # repo
  <2>1. CASE cmd.mode = "hard" BY <1>5, <1>7, <2>1, KeepingReset DEF Destructive
  <2>2. CASE cmd.mode # "hard"
    <3> DEFINE s == Job(Caller)[1]
    <3>1. /\ s \in Repo /\ Only(s) /\ cmd.op = "reset" /\ lane[Caller].step = "move"
          /\ Kept(There) \ (Tip(There, Here) \ There.at[Here].tree) \subseteq Kept(repo'[s])
      BY <1>7, <2>2, KeepingReset
    <3>2. CASE r # s BY <1>1, <3>1, <3>2 DEF Only
    <3>3. CASE r = s
      <4>1. lane[s].step # "abort"
        <5>1. lane[s].step \in {"over", "raised"} BY <3>1, PoolRests
        <5>2. QED BY <5>1
      <4>2. GivenUp(s) = Tip(There, Here) \ There.at[Here].tree BY <2>2, <3>1, <4>1 DEF GivenUp, There
      <4>3. ~Destructive BY <2>2, <3>1 DEF Destructive
      <4>4. QED BY <3>1, <3>3, <4>2, <4>3 DEF Work, There
    <3>4. QED BY <3>2, <3>3
  <2>3. QED BY <2>1, <2>2
<1>8. CASE repo' = repo BY <1>1, <1>8
<1>9. CASE Finish \/ (\E c \in Commands : Start(c)) \/ UNCHANGED vars BY <1>8, <1>9, FinishStep, StartStep DEF vars
<1>10. CASE Meddling
  <2>1. ASSUME NEW w \in Spots, Only(w[1]), Touched(w, repo'[w[1]]) PROVE Kept(repo[r]) \subseteq Kept(repo'[r])
    BY <2>1 DEF Only, Touched, Gains
  <2>2. ASSUME NEW s \in Repo, Only(s), Synced(s, repo[s], repo'[s]) PROVE Kept(repo[r]) \subseteq Kept(repo'[r])
    BY <2>2, SyncedTip DEF Only, TypeInv
  <2>3. QED BY <1>1, <1>10, <2>1, <2>2, MeddlingStep
<1>11. QED BY <1>2, <1>3, <1>4, <1>6, <1>7, <1>8, <1>9, <1>10, LaneCalm, CallerCalm DEF Next, CommandStep

\* No work is lost by a command that was not forced, but what GivenUp names:
\* whatever the repositories, the command lines, and what users and others do.
THEOREM WorkIsKept == Spec => WorkKept
<1>1. Init => WorkInv BY WorkInit
<1>2. TypeInv /\ WorkInv /\ [Next]_vars => WorkInv' BY WorkNext
<1>3. TypeInv /\ WorkInv /\ [Next]_vars
        => [ run.phase = "running" /\ (Destructive => ~cmd.force)
             => \A r \in Repo : Work(r) \subseteq Kept(repo'[r]) ]_vars
  BY WorkStep
<1>4. QED BY <1>1, <1>2, <1>3, TypeCorrect, PTL DEF Spec, WorkKept

-----------------------------------------------------------------------------
(* A checkout reported diverged is as it was.                              *)

\* A lane tells of its own checkouts.
LEMMA ToldBy ==
  ASSUME TypeInv, NEW l \in Lanes, LaneStep(l), NEW e \in told' \ told
  PROVE  l \in Repo /\ e.wt[1] = l
<1>1. CASE CollectRaised(l) BY <1>1 DEF CollectRaised
<1>2. CASE Raises(l) BY <1>2 DEF Raises
<1>3. CASE Collect(l)
  <2>1. l \in Repo /\ Tell(Own(l), lane[l].held, What(lane[l].held)) BY <1>3, RepoAssumption DEF Collect
  <2>2. QED BY <2>1 DEF Tell, Event, Own
<1>4. CASE Fetch(l) \/ FetchAgain(l) \/ FetchFails(l) \/ FollowMain(l)
  <2>1. lane[l].step \in {"fetch", "source"} BY <1>4 DEF Fetch, FetchAgain, FetchFails, FollowMain, At
  <2>2. l \in Repo BY <2>1, PoolLane
  <2>3. \E x, y : Tell(Own(l), x, y) BY <1>4 DEF Fetch, FetchAgain, FetchFails, FetchFailed, FollowMain
  <2>4. QED BY <2>2, <2>3 DEF Tell, Event, Own
<1>5. CASE Integrate(l) \/ SecondAttempt(l) \/ Abort(l)
  <2>1. lane[l].step \in {"integrate", "second", "abort"} BY <1>5 DEF Integrate, SecondAttempt, Abort, At
  <2>2. l \in Repo /\ Job(l)[1] = l BY <2>1, PoolLane, JobIs
  <2>3. \E x, y : Tell(Job(l), x, y) BY <1>5 DEF Integrate, SecondAttempt, Abort, Report
  <2>4. QED BY <2>2, <2>3 DEF Tell, Event
<1>6. QED BY <1>1, <1>2, <1>3, <1>4, <1>5 DEF LaneStep

\* A lane that says diverged reports so.
LEMMA DivergedReport ==
  ASSUME TypeInv, NEW l \in Lanes, lane[l].step \in {"integrate", "abort"}, run' = run, cmd' = cmd,
         NEW result, Report(l, result), Diverges(l)
  PROVE  result = "diverged"
<1>1. CASE lane'[l].step = "collect" BY <1>1, ReportOk DEF Diverges
<1>2. CASE lane'[l].step # "collect"
  <2>1. Tell(Job(l), result, What(result)) BY <1>2, ReportOk
  <2>2. Event(Job(l), "diverged", {}) = Event(Job(l), result, What(result)) BY <1>2, <2>1 DEF Diverges, Tell
  <2>3. QED BY <2>2 DEF Event
<1>3. QED BY <1>1, <1>2

\* A lane that reports diverged leaves the checkout as it found it, or takes
\* back the user's merge.
LEMMA DivergedStep ==
  ASSUME TypeInv, BaseInv, [Next]_vars, NEW l \in Repo, ReportsDiverged(l)
  PROVE  Look(repo'[l], Job(l)[2]) = IF UsersOwn(l) THEN BeforeMerge(l) ELSE Found(l)
<1>a. lane[l].step \in {"integrate", "abort"} /\ Diverges(l) BY DEF ReportsDiverged
<1>0. l \in Lanes /\ l # Caller /\ Caller \in Lanes BY LaneIsRepo
<1>1. run.phase = "running" /\ Job(l)[1] = l BY <1>0, <1>a, JobIs
<1>2. ~(lane'[l] = lane[l] /\ told' \subseteq told) BY <1>a DEF Diverges
<1>3. ASSUME NEW k \in Lanes \ {l}, LaneStep(k) PROVE FALSE
  <2>1. lane'[l] = lane[l] BY <1>0, <1>3, LaneFrame DEF StepBy
  <2>2. Event(Job(l), "diverged", {}) \in told' \ told BY <1>a, <2>1 DEF Diverges
  <2>3. Event(Job(l), "diverged", {}).wt[1] = k BY <1>3, <2>2, ToldBy
  <2>4. QED BY <1>1, <1>3, <2>3 DEF Event
<1>4. CASE LaneStep(l)
  <2>1. CASE Integrate(l)
    <3>1. run' = run /\ cmd' = cmd BY <2>1 DEF Integrate
    <3>2. lane[l].step = "integrate" BY <2>1 DEF Integrate, At
    <3>3. CASE lane'[l].step = "second" /\ told' = told BY <1>a, <3>3 DEF Diverges
    <3>4. CASE \E result : Report(l, result) /\ (result = "diverged" => repo'[l] = repo[l])
      <4>1. PICK result : Report(l, result) /\ (result = "diverged" => repo'[l] = repo[l]) BY <3>4
      <4>2. result = "diverged" BY <1>0, <1>a, <3>1, <4>1, DivergedReport
      <4>3. QED BY <3>2, <4>1, <4>2 DEF UsersOwn, Found
    <3>5. QED BY <1>0, <2>1, <3>3, <3>4, IntegrateStep
  <2>2. CASE Abort(l)
    <3> DEFINE g == repo[l]
               n == repo'[l]
               p == Job(l)[2]
    <3>1. lane[l].step = "abort" BY <2>2 DEF Abort, At
    <3>2. lane[l].base = Started(lane[l], g, p) BY <3>1 DEF BaseInv
    <3>3. CASE g.at[p].merging # Kind
      <4>1. n = g BY <1>0, <2>2, <3>3, AbortStep
      <4>2. lane[l].base = Look(g, p) BY <3>2, <3>3 DEF Started
      <4>3. lane[l].base.merging # Kind BY <3>3, <4>2 DEF Look
      <4>4. QED BY <3>1, <4>1, <4>2, <4>3 DEF UsersOwn, Found
    <3>4. CASE g.at[p].merging = Kind
      <4>1. n.stash = g.stash /\ n.at[p].tree = g.at[p].before /\ n.at[p].merging = "no" /\ Tip(n, p) = Tip(g, p)
        BY <2>2, <3>4, AbortIs
      <4>2. Look(n, p) = Unstopped(g, p) BY <4>1 DEF Look, Unstopped
      <4>3. CASE ~UsersOwn(l)
        <5>1. lane[l].base = Unstopped(g, p) BY <3>1, <3>2, <3>4, <4>3 DEF Started, UsersOwn
        <5>2. QED BY <3>1, <4>2, <4>3, <5>1 DEF Found
      <4>4. CASE UsersOwn(l)
        <5>1. lane[l].base = Look(g, p) BY <3>2, <4>4 DEF Started, UsersOwn
        <5>2. BeforeMerge(l) = Unstopped(g, p) BY <5>1 DEF BeforeMerge, Look, Unstopped
        <5>3. QED BY <4>2, <4>4, <5>2
      <4>5. QED BY <4>3, <4>4
    <3>5. QED BY <3>3, <3>4
  <2>3. CASE Raises(l)
    <3>1. lane' = [lane EXCEPT ![l] = Raised] /\ told' = told BY <2>3 DEF Raises
    <3>2. lane'[l] = Raised BY <1>0, <3>1 DEF TypeInv
    <3>3. QED BY <1>a, <3>1, <3>2, OverIs DEF Diverges
  <2>4. ~(Collect(l) \/ CollectRaised(l) \/ Fetch(l) \/ FetchAgain(l) \/ FetchFails(l) \/ FollowMain(l) \/ SecondAttempt(l))
    BY <1>a DEF Collect, CollectRaised, Fetch, FetchAgain, FetchFails, FollowMain, SecondAttempt, At
  <2>5. QED BY <1>4, <2>1, <2>2, <2>3, <2>4 DEF LaneStep
<1>5. CASE CallerStep
  <2>1. lane[Caller].step \notin {"over", "raised"} BY <1>5, CallerFrame DEF StepBy
  <2>2. QED BY <1>a, <2>1, PoolRests
<1>6. CASE Finish
  <2>1. lane[l] = Over BY <1>0, <1>6, FinishStep
  <2>2. QED BY <1>a, <2>1, OverIs
<1>7. CASE \E c \in Commands : Start(c) BY <1>1, <1>7 DEF Start
<1>8. CASE Meddling BY <1>2, <1>8, MeddlingStep DEF Watched
<1>9. CASE UNCHANGED vars BY <1>2, <1>9 DEF vars
<1>10. QED BY <1>3, <1>4, <1>5, <1>6, <1>7, <1>8, <1>9 DEF Next, CommandStep

\* A checkout reported diverged is as it was before the command touched it,
\* or as before the merge of the user's that the second attempt met.
THEOREM DivergedIsUntouched == Spec => DivergedUntouched
<1>1. Init => BaseInv BY BaseInit
<1>2. TypeInv /\ BaseInv /\ [Next]_vars => BaseInv' BY BaseStep
<1>3. TypeInv /\ BaseInv /\ [Next]_vars
        => [ \A l \in Repo : ReportsDiverged(l)
               => Look(repo'[l], Job(l)[2]) = IF UsersOwn(l) THEN BeforeMerge(l) ELSE Found(l) ]_vars
  BY DivergedStep
<1>4. QED BY <1>1, <1>2, <1>3, TypeCorrect, PTL DEF Spec, DivergedUntouched

-----------------------------------------------------------------------------
(* No clean checkout is left dirty. *)

\* A merge that a checkout is found in is the user's, and it shows: there is
\* something to commit.
MergesShow ==
    \A g \in InitRepos : \A r \in Repo : \A p \in Envs(r) :
        g[r].at[p].merging # "no" => g[r].at[p].merging = "merge" /\ Dirty(g[r], p)
DirtyInv == \A r \in Repo : \A p \in Envs(r) : repo[r].at[p].merging # "no" => Dirty(repo[r], p)

\* The invariants about merges hold initially when initial merges show.
LEMMA MergesShowInit ==
  ASSUME Init, MergesShow
  PROVE  NoRebaseYet /\ MergeInv /\ DirtyInv /\ LackInv
<1>1. NoRebaseYet BY DEF MergesShow, NoRebaseYet
<1>2. DirtyInv BY DEF Init, MergesShow, DirtyInv
<1>3. ASSUME NEW l \in Repo PROVE lane[l].step # "second"
  <2>1. lane[l] = Over BY LaneIsRepo DEF Init
  <2>2. QED BY <2>1, OverIs
<1>4. LackInv BY <1>3 DEF LackInv
<1>5. QED BY <1>1, <1>2, <1>4, MergeInit

\* A reset that goes through leaves no merge in the checkout.
LEMMA ResetEnds ==
  ASSUME TypeInv, MergeInv, ResetMove, repo' # repo
  PROVE  LET r == Job(Caller)[1]
         IN  /\ r \in Repo /\ Only(r) /\ Moved(r, There, repo'[r], Here, Ref(There, cmd.ref))
             /\ WellFormed(r, There) /\ Here \in Envs(r) /\ repo'[r].at[Here].merging = "no" /\ cmd.op = "reset"
             /\ cmd.mode = "hard" => KeepsClean(r, There, repo'[r])
<1> DEFINE r == Job(Caller)[1]
           g == There
           p == Here
           n == repo'[r]
           h == Ref(There, cmd.ref)
<1>1. /\ r \in Repo /\ Only(r) /\ Moved(r, g, n, p, h) /\ n = ResetTo(g, p, cmd.mode, cmd.ref) /\ ~ResetRefused
      /\ lane[Caller].step = "move" /\ cmd.op = "reset" /\ cmd.mode \in ResetModes
  BY ResetMoveStep
<1>2. /\ WellFormed(r, g) /\ p \in Envs(r) /\ cmd.mode \in {"soft", "mixed", "hard"} /\ h \in SUBSET Change
      /\ g.at[p] \in CheckoutType
  BY <1>1, CallerJob, RepoFields DEF ResetModes, Moved, WellFormed
<1>3. cmd.mode = "soft" => g.at[p].merging # "merge" BY <1>1 DEF ResetRefused
<1>4. g.at[p].merging # "rebase"
  <2>1. lane[r].step \in {"over", "raised"} BY <1>1, PoolRests
  <2>2. ~Aborting(r, p) BY <2>1 DEF Aborting
  <2>3. repo[r].at[p].merging # "rebase" BY <1>1, <1>2, <2>2 DEF MergeInv
  <2>4. QED BY <2>3 DEF There
<1> HIDE DEF r, g, p, n, h
<1>5. /\ n.at[p].tree = IF cmd.mode = "hard" THEN h ELSE g.at[p].tree
      /\ cmd.mode # "soft" => n.at[p].merging = "no"
      /\ cmd.mode = "soft" => n.at[p].merging = g.at[p].merging
  BY <1>1, <1>2, ResetMoved DEF h, g
<1>6. n.at[p].merging = "no" BY <1>2, <1>3, <1>4, <1>5 DEF CheckoutType
<1>7. cmd.mode = "hard" => KeepsClean(r, g, n) BY <1>1, <1>2, <1>5, <1>6, DiscardGains
<1>8. QED BY <1>1, <1>2, <1>6, <1>7 DEF r, g, p, n, h

\* DirtyInv is inductive: a merge in progress shows as a dirty checkout.
LEMMA DirtyStep ==
  ASSUME TypeInv, MergeInv, LackInv, DirtyInv, [Next]_vars
  PROVE  DirtyInv'
<1> SUFFICES ASSUME NEW r \in Repo, NEW p \in Envs(r), repo'[r].at[p].merging # "no"
             PROVE  Dirty(repo'[r], p)
  BY DEF DirtyInv
<1>0. WellFormed(r, repo[r]) BY DEF TypeInv
<1>1. CASE CalmAll BY <1>1 DEF CalmAll, Calm, Quiet, DirtyInv, Dirty
<1>2. CASE repo'[r] = repo[r] BY <1>2 DEF DirtyInv
<1>3. ASSUME NEW q \in Envs(r), NEW h, Moved(r, repo[r], repo'[r], q, h), q # p PROVE Dirty(repo'[r], p)
  <2>1. repo'[r].at[p] = repo[r].at[p] BY <1>3 DEF Moved
  <2>2. Tip(repo'[r], p) = Tip(repo[r], p) BY <1>0, <1>3, MovedTip
  <2>3. QED BY <2>1, <2>2 DEF DirtyInv, Dirty
<1>4. ASSUME NEW l \in Lanes, SecondAttempt(l) PROVE Dirty(repo'[r], p)
  <2> DEFINE q == Job(l)[2]
             h == Ref(repo[l], lane[l].held)
  <2>1. l \in Repo /\ Only(l) /\ Moved(l, repo[l], repo'[l], q, Tip(repo'[l], q)) /\ lane[l].step = "second"
    BY <1>4, SecondStep DEF SecondAttempt, At
  <2>2. q \in Envs(l) /\ lane[l].held \in RefName BY <1>4, <2>1, SecondMode DEF TypeInv, LaneOk, HeldOk
  <2>3. CASE Calmly(l) \/ r # l BY <1>1, <1>2, <2>1, <2>3, CalmlyAll DEF Only
  <2>4. CASE repo'[l] = repo[l] /\ r = l BY <1>2, <2>4
  <2>5. CASE r = l /\ q # p BY <1>3, <2>1, <2>2, <2>5
  <2>6. CASE r = l /\ q = p /\ repo[l].at[q].merging = "no" /\ HasRef(repo[l], lane[l].held)
             /\ repo'[l] = Stopped(repo[l], q, h, Kind)
    <3>1. h \in SUBSET Change BY <1>0, <2>2, <2>6, RefHistory DEF WellFormed
    <3>2. ~(h \subseteq Tip(repo[l], q)) BY <2>1, <2>6 DEF LackInv, Missing, Lacks
    <3>3. Kind \in {"merge", "rebase"} BY DEF Kind
    <3> HIDE DEF q, h
    <3>4. repo'[l].at[q].tree = repo[l].at[q].tree \cup h /\ Moved(l, repo[l], repo'[l], q, Tip(repo[l], q))
      BY <1>0, <2>2, <2>6, <3>1, <3>3, StoppedMoved
    <3>5. Tip(repo'[l], q) = Tip(repo[l], q) BY <1>0, <2>2, <2>6, <3>4, MovedTip
    <3>6. QED BY <2>6, <3>2, <3>4, <3>5 DEF Dirty
  <2>7. QED BY <1>4, <2>3, <2>4, <2>5, <2>6, SecondStep
<1>5. ASSUME NEW l \in Lanes, Abort(l) PROVE Dirty(repo'[r], p)
  <2>1. l \in Repo /\ Only(l) BY <1>5, AbortStep
  <2>2. CASE r # l BY <1>2, <2>1, <2>2 DEF Only
  <2>3. CASE repo[l].at[Job(l)[2]].merging # Kind /\ r = l BY <1>2, <1>5, <2>3, AbortStep
  <2>4. CASE repo[l].at[Job(l)[2]].merging = Kind /\ r = l
    <3>1. /\ Moved(l, repo[l], repo'[l], Job(l)[2], Tip(repo[l], Job(l)[2])) /\ Job(l)[2] \in Envs(l)
          /\ repo'[l].at[Job(l)[2]].merging = "no"
      BY <1>5, <2>1, <2>4, AbortIs
    <3>2. QED BY <1>3, <2>4, <3>1
  <2>5. QED BY <2>2, <2>3, <2>4
<1>6. ASSUME NEW s, Only(s), Here \in Envs(s), NEW h, Moved(s, repo[s], repo'[s], Here, h), repo'[s].at[Here].merging = "no"
      PROVE  Dirty(repo'[r], p)
  BY <1>2, <1>3, <1>6 DEF Only
<1>7. CASE CheckoutMove
  <2>1. Here \in Envs(Job(Caller)[1]) BY <1>7, CheckoutMoveStep, CallerJob
  <2>2. QED BY <1>6, <1>7, <2>1, CheckoutMoveStep DEF There
<1>8. CASE ResetMove
  <2>1. CASE repo' = repo BY <1>2, <2>1
  <2>2. CASE repo' # repo BY <1>6, <1>8, <2>2, ResetEnds DEF There
  <2>3. QED BY <2>1, <2>2
<1>9. CASE Finish \/ (\E c \in Commands : Start(c)) \/ UNCHANGED vars BY <1>2, <1>9, FinishStep, StartStep DEF vars
<1>10. CASE Meddling
  <2>1. ASSUME NEW w \in Spots, Only(w[1]), Touched(w, repo'[w[1]]) PROVE Dirty(repo'[r], p)
    <3>1. CASE r # w[1] BY <1>2, <2>1, <3>1 DEF Only
    <3>2. CASE r = w[1] /\ p # w[2]
      <4>1. repo'[r].at[p] = repo[r].at[p] /\ Look(repo'[r], p) = Look(repo[r], p) BY <2>1, <3>2 DEF Touched, Elsewhere
      <4>2. Tip(repo'[r], p) = Tip(repo[r], p) BY <4>1 DEF Look
      <4>3. QED BY <4>1, <4>2 DEF DirtyInv, Dirty
    <3>3. CASE r = w[1] /\ p = w[2]
      <4>1. repo[r].at[p].merging = "no" \/ Dirty(repo[r], p) BY DEF DirtyInv
      <4>2. QED BY <2>1, <3>3, <4>1 DEF Touched
    <3>4. QED BY <3>1, <3>2, <3>3
  <2>2. ASSUME NEW s \in Repo, Only(s), Synced(s, repo[s], repo'[s]) PROVE Dirty(repo'[r], p)
    <3>1. CASE r # s BY <1>2, <2>2, <3>1 DEF Only
    <3>2. CASE r = s
      <4>1. Calmly(s) BY <1>0, <2>2, <3>2, SyncedGains DEF Calmly
      <4>2. QED BY <1>1, <4>1, CalmlyAll
    <3>3. QED BY <3>1, <3>2
  <2>3. QED BY <1>10, <2>1, <2>2, MeddlingStep
<1>11. QED BY <1>1, <1>4, <1>5, <1>7, <1>8, <1>9, <1>10, LaneCalm, CallerCalm DEF Next, CommandStep

\* The user acts once at a time.
Counted == meddled \in Nat

\* The number of meddling actions stays a number.
LEMMA CountedStep == ASSUME TypeInv, Counted, [Next]_vars PROVE Counted'
<1>1. CASE Meddling BY <1>1, MeddlingStep DEF Watched, Counted
<1>2. CASE Finish \/ (\E c \in Commands : Start(c)) \/ UNCHANGED vars BY <1>2 DEF Finish, Start, vars, Counted
<1>3. ASSUME NEW l \in Lanes, LaneStep(l) PROVE meddled' = meddled
  BY <1>3 DEF LaneStep, Collect, CollectRaised, Fetch, FetchAgain, FetchFails, FollowMain, Integrate, SecondAttempt,
              Abort, Raises
<1>4. CASE CallerStep
  <2>1. CASE PushOne \/ PushAccepted \/ PushRefused \/ PushUnsent \/ PushUnanswered \/ Follow
    BY <2>1 DEF PushOne, PushAccepted, PushRefused, PushUnsent, PushUnanswered, Follow, Counted
  <2>2. CASE Ask \/ Classify \/ CheckoutMove \/ CheckoutTrack \/ ResetMove
    BY <2>2 DEF Ask, Classify, CheckoutMove, CheckoutTrack, ResetMove, Counted
  <2>3. CASE Preview \/ CleanOne \/ CleanPartly \/ Connect
    BY <2>3 DEF Preview, CleanOne, CleanPartly, Connect, Counted
  <2>4. QED BY <1>4, <2>1, <2>2, <2>3 DEF CallerStep
<1>5. QED BY <1>1, <1>2, <1>3, <1>4 DEF Next, CommandStep, Counted

\* No step of a command but a soft or mixed reset leaves a clean checkout dirty.
LEMMA StaysCleanStep ==
  ASSUME TypeInv, MergeInv, DirtyInv, Counted, [Next]_vars, meddled' = meddled,
         cmd.op = "reset" => cmd.mode = "hard", NEW r \in Repo
  PROVE  KeepsClean(r, repo[r], repo'[r])
<1>1. ASSUME NEW s, Only(s), s \in Repo, KeepsClean(s, repo[s], repo'[s]) PROVE KeepsClean(r, repo[r], repo'[r])
  BY <1>1 DEF Only, KeepsClean
<1>2. CASE CalmAll BY <1>2 DEF CalmAll, Calm
<1>3. CASE repo' = repo BY <1>3 DEF KeepsClean
<1>4. CASE \E l \in Lanes : SecondAttempt(l) BY <1>1, <1>4, SecondStep
<1>5. ASSUME NEW l \in Lanes, Abort(l) PROVE KeepsClean(r, repo[r], repo'[r])
  <2> DEFINE q == Job(l)[2]
  <2>1. l \in Repo /\ Only(l) BY <1>5, AbortStep
  <2>2. CASE repo[l].at[q].merging # Kind BY <1>2, <1>5, <2>1, <2>2, AbortStep, CalmlyAll
  <2>3. CASE repo[l].at[q].merging = Kind
    <3>1. /\ Moved(l, repo[l], repo'[l], q, Tip(repo[l], q)) /\ q \in Envs(l) /\ WellFormed(l, repo[l])
          /\ repo[l].at[q].merging # "no"
      BY <1>5, <2>1, <2>3, AbortIs
    <3>2. Dirty(repo[l], q) BY <2>1, <3>1 DEF DirtyInv
    <3> HIDE DEF q
    <3>3. KeepsClean(l, repo[l], repo'[l]) BY <2>1, <3>1, <3>2, MovedClean
    <3>4. QED BY <1>1, <2>1, <3>3
  <2>4. QED BY <2>2, <2>3
<1>6. CASE CheckoutMove BY <1>1, <1>6, CheckoutMoveStep DEF There
<1>7. CASE ResetMove /\ repo' # repo BY <1>1, <1>7, ResetEnds DEF There
<1>8. CASE Finish \/ (\E c \in Commands : Start(c)) \/ UNCHANGED vars BY <1>3, <1>8, FinishStep, StartStep DEF vars
<1>9. CASE Meddling
  <2>1. meddled' = meddled + 1 BY <1>9, MeddlingStep DEF Watched
  <2>2. QED BY <2>1 DEF Counted
<1>10. QED BY <1>2, <1>3, <1>4, <1>5, <1>6, <1>7, <1>8, <1>9, LaneCalm, CallerCalm DEF Next, CommandStep

\* No command leaves a clean checkout dirty, but for a reset that is meant
\* to, as long as no merge that the user has begun looks clean.
THEOREM CleanIsKept ==
  ASSUME MergesShow
  PROVE  Spec => CleanStaysClean
<1>1. Init => MergeInv /\ DirtyInv /\ LackInv /\ Counted BY MergesShowInit DEF Init, Counted
<1>2. TypeInv /\ MergeInv /\ DirtyInv /\ LackInv /\ Counted /\ [Next]_vars
        => MergeInv' /\ DirtyInv' /\ LackInv' /\ Counted'
  BY MergeStep, DirtyStep, LackStep, CountedStep
<1>3. TypeInv /\ MergeInv /\ DirtyInv /\ Counted /\ [Next]_vars
        => [ run.phase = "running" /\ meddled' = meddled
                /\ (cmd.op = "reset" => cmd.mode = "hard")
             => \A w \in Checkouts :
                  ~Dirty(repo[w[1]], w[2]) /\ repo'[w[1]].at[w[2]].merging = "no"
                  => ~Dirty(repo'[w[1]], w[2]) ]_vars
  <2> SUFFICES ASSUME TypeInv, MergeInv, DirtyInv, Counted, [Next]_vars, meddled' = meddled,
                      cmd.op = "reset" => cmd.mode = "hard", NEW w \in Checkouts,
                      ~Dirty(repo[w[1]], w[2]), repo'[w[1]].at[w[2]].merging = "no"
               PROVE  ~Dirty(repo'[w[1]], w[2])
    OBVIOUS
  <2>1. w[1] \in Repo /\ w[2] \in Places(w[1]) BY DEF Checkouts
  <2>2. w[2] \in Envs(w[1]) BY <2>1, RepoFields DEF Places, TypeInv, WellFormed
  <2>3. KeepsClean(w[1], repo[w[1]], repo'[w[1]]) BY <2>1, StaysCleanStep
  <2>4. QED BY <2>2, <2>3 DEF KeepsClean
<1>4. QED BY <1>1, <1>2, <1>3, TypeCorrect, PTL DEF Spec, CleanStaysClean

-----------------------------------------------------------------------------
(* The outcomes of a command match what it did.                            *)

Things == Files \cup {"head", "pushed"}
Tells(w, x) == \E e \in told : e.wt = w /\ x \in e.what
InPlay == cmd.op # "clean" \/ ~cmd.dry
Listed == cmd.op \in {"pull", "merge", "clean"}

\* What is told was done, and what pull, merge and clean did is told.
ToldDone == InPlay => \A e \in told : \A x \in e.what \cap Things : <<e.wt, x>> \in done
DoneTold ==
    Listed => \A d \in done : /\ d = <<d[1], d[2]>> /\ d[2] \in Things
                              /\ Project(d[1]) => Tells(d[1], d[2])

\* What a lane still has to tell was done.
CollectInv == \A l \in Repo : lane[l].step = "collect" => \A x \in What(lane[l].held) : <<Own(l), x>> \in done
CallerInv ==
    /\ lane[Caller].step = "follow" => <<Job(Caller), "pushed">> \in done
    /\ lane[Caller].step = "track" => <<Job(Caller), "head">> \in done
    /\ lane[Caller].step = "raised" => cmd.op \notin Pooled /\ (cmd.op = "clean" => done = {})
    /\ lane[Caller].step \in {"preview", "ask"} => done = {}
AccountInv == ToldDone /\ DoneTold /\ CollectInv /\ CallerInv

\* A step that keeps the books of one checkout.
Books(w) ==
    /\ cmd' = cmd /\ done \subseteq done' /\ told \subseteq told'
    /\ \A e \in told' \ told : InPlay => \A x \in e.what \cap Things : <<e.wt, x>> \in done'
    /\ \A d \in done' \ done : Listed =>
           /\ d = <<d[1], d[2]>> /\ d[2] \in Things
           /\ Project(d[1]) => \E e \in told' : e.wt = d[1] /\ d[2] \in e.what

\* The books stay balanced when they are so about the checkout of the step.
LEMMA BooksKeep ==
  ASSUME ToldDone, DoneTold, NEW w, Books(w)
  PROVE  ToldDone' /\ DoneTold'
<1>1. InPlay' = InPlay /\ Listed' = Listed BY DEF Books, InPlay, Listed
<1>2. ASSUME InPlay, NEW e \in told', NEW x \in e.what \cap Things PROVE <<e.wt, x>> \in done'
  BY <1>2 DEF ToldDone, Books
<1>3. ASSUME Listed, NEW d \in done'
      PROVE  /\ d = <<d[1], d[2]>> /\ d[2] \in Things
             /\ Project(d[1]) => \E e \in told' : e.wt = d[1] /\ d[2] \in e.what
  <2>1. CASE d \in done BY <1>3, <2>1 DEF DoneTold, Tells, Books
  <2>2. CASE d \notin done BY <1>3, <2>2 DEF Books
  <2>3. QED BY <2>1, <2>2
<1>4. ToldDone' BY <1>1, <1>2 DEF ToldDone
<1>5. DoneTold' BY <1>1, <1>3 DEF DoneTold, Tells
<1>6. QED BY <1>4, <1>5

\* The books about a checkout balance when what it says it did was done, and back.
LEMMA BooksAre ==
  ASSUME NEW w, NEW r, NEW said, NEW did, cmd' = cmd,
         told' = told \/ Tell(w, r, said),
         done' = done \cup {<<w, x>> : x \in did},
         told' = told \/ (InPlay => \A x \in said \cap Things : <<w, x>> \in done'),
         Listed => did \subseteq Things /\ (Project(w) => Tell(w, r, said) /\ did \subseteq said)
  PROVE  Books(w)
<1>1. \A e \in told' \ told : e.wt = w /\ e.what = said BY DEF Tell, Event
<1>2. \A e \in told' \ told : InPlay => \A x \in e.what \cap Things : <<e.wt, x>> \in done' BY <1>1
<1>3. ASSUME NEW d \in done' \ done, Listed
      PROVE  /\ d = <<d[1], d[2]>> /\ d[2] \in Things
             /\ Project(d[1]) => \E e \in told' : e.wt = d[1] /\ d[2] \in e.what
  <2>1. PICK x \in did : d = <<w, x>> OBVIOUS
  <2>2. d[1] = w /\ d[2] = x /\ x \in Things BY <1>3, <2>1
  <2>3. ASSUME Project(w) PROVE \E e \in told' : e.wt = w /\ x \in e.what
    <3>1. Tell(w, r, said) /\ x \in said BY <1>3, <2>1, <2>3
    <3>2. Event(w, r, said) \in told' /\ Event(w, r, said).wt = w /\ Event(w, r, said).what = said
      BY <3>1 DEF Tell, Event
    <3>3. QED BY <3>1, <3>2
  <2>4. QED BY <2>1, <2>2, <2>3
<1>4. told \subseteq told' BY DEF Tell
<1>5. QED BY <1>2, <1>3, <1>4 DEF Books

\* A step that does nothing, and one that tells what was done before.
LEMMA BooksRest ==
  ASSUME cmd' = cmd, done' = done, told' = told
  PROVE  \A w : Books(w)
BY DEF Books

\* They balance after telling what was done before.
LEMMA BooksTell ==
  ASSUME NEW w, NEW r, NEW said, cmd' = cmd, done' = done, Tell(w, r, said),
         InPlay => \A x \in said \cap Things : <<w, x>> \in done
  PROVE  Books(w)
<1>1. done' = done \cup {<<w, x>> : x \in {}} OBVIOUS
<1>2. QED BY <1>1, BooksAre

\* They balance after doing a thing and telling it in one step.
LEMMA BooksBoth ==
  ASSUME NEW w, NEW r, NEW what, cmd' = cmd, Did(w, what), Tell(w, r, what), Listed => what \subseteq Things
  PROVE  Books(w)
<1>1. done' = done \cup {<<w, x>> : x \in what} BY DEF Did
<1>2. \A x \in what : <<w, x>> \in done' BY <1>1
<1>3. QED BY <1>1, <1>2, BooksAre

\* They balance after an act that is told later, or is not listed.
LEMMA BooksDid ==
  ASSUME NEW w, NEW what, cmd' = cmd, Did(w, what), told' = told \/ \E r : Tell(w, r, {}),
         Listed => what \subseteq Things /\ ~Project(w)
  PROVE  Books(w)
<1>1. done' = done \cup {<<w, x>> : x \in what} BY DEF Did
<1>2. PICK r : told' = told \/ Tell(w, r, {}) OBVIOUS
<1>3. QED BY <1>1, <1>2, BooksAre

\* An outcome claims to have moved the head, or nothing.
LEMMA WhatIs == \A result : What(result) \subseteq {"head"} /\ What(result) \subseteq Things
BY DEF What, Things

\* A pooled lane of a standalone works on its own checkout.
LEMMA OwnJob ==
  ASSUME TypeInv, NEW l \in Standalone, lane[l].step \notin {"over", "raised"}
  PROVE  Job(l) = Own(l)
<1>1. l \in Repo /\ l \in Lanes BY RepoAssumption, LaneIsRepo
<1>2. Job(l) = <<Job(l)[1], Job(l)[2]>> /\ Job(l)[1] = l /\ Job(l)[2] \in Envs(l) BY <1>1, LaneIsRepo, JobIs
<1>3. \A v \in OnDisk : v[1] # l BY Disk
<1>4. Job(l)[2] = Source BY <1>2, <1>3 DEF Envs
<1>5. QED BY <1>2, <1>4 DEF Own

\* The books balance after a lane's report, or will when it is collected.
LEMMA ReportBooks ==
  ASSUME TypeInv, NEW l \in Repo, lane[l].step \in {"integrate", "second", "abort"}, run' = run, cmd' = cmd,
         NEW result, Report(l, result)
  PROVE  /\ Books(Job(l))
         /\ lane'[l].step = "collect" => \A x \in What(lane'[l].held) : <<Own(l), x>> \in done'
<1>0. l \in Lanes BY LaneIsRepo
<1>1. Did(Job(l), What(result)) BY DEF Report
<1>2. CASE lane'[l].step = "collect"
  <2>1. lane'[l].held = result /\ l \in Standalone /\ told' = told BY <1>0, <1>2, ReportOk
  <2>2. Job(l) = Own(l) BY <2>1, OwnJob
  <2>3. ~Project(Job(l)) BY <2>2 DEF Project, Own
  <2>4. Books(Job(l)) BY <1>1, <2>1, <2>3, WhatIs, BooksDid
  <2>5. \A x \in What(result) : <<Own(l), x>> \in done' BY <1>1, <2>2 DEF Did
  <2>6. QED BY <2>1, <2>4, <2>5
<1>3. CASE lane'[l].step # "collect"
  <2>1. Tell(Job(l), result, What(result)) BY <1>0, <1>3, ReportOk
  <2>2. QED BY <1>1, <1>3, <2>1, WhatIs, BooksBoth
<1>4. QED BY <1>2, <1>3

\* A lane after a step of its own.
LEMMA StepTo ==
  ASSUME TypeInv, NEW l \in Lanes, lane[l].step \notin {"over", "raised"}, NEW step, Goto(l, step) \/ Next1(l, step)
  PROVE  lane'[l].step \in {step, "over"} /\ (Goto(l, step) => Job(l)' = Job(l))
<1>1. DOMAIN lane = Lanes /\ IsThread(lane[l]) BY JobIs DEF TypeInv
<1>2. ASSUME Goto(l, step) PROVE lane'[l].step = step /\ Job(l)' = Job(l) BY <1>1, <1>2, GotoIs DEF Job
<1>3. ASSUME Next1(l, step) PROVE lane'[l].step \in {step, "over"}
  <2>1. lane'[l] = Over \/ lane'[l] = Thread(lane[l].jobs \ {Job(l)}, step) BY <1>1, <1>3, Next1Is
  <2>2. QED BY <2>1, ThreadIs, OverIs
<1>4. QED BY <1>2, <1>3

\* What a lane of the pool tells, it did.
LEMMA LaneBooks ==
  ASSUME TypeInv, CollectInv, NEW l \in Lanes, LaneStep(l), ~(l = Caller /\ CollectRaised(l))
  PROVE  /\ \E w : Books(w)
         /\ done' = done \/ cmd.op \in Pooled
         /\ l # Caller /\ lane'[l].step = "collect" => \A x \in What(lane'[l].held) : <<Own(l), x>> \in done'
<1>0. DOMAIN lane = Lanes BY DEF TypeInv
<1>1. CASE Collect(l)
  <2>1. lane' = [lane EXCEPT ![l] = Over] /\ l \in Repo /\ lane[l].step = "collect" /\ cmd' = cmd /\ done' = done
    BY <1>1, RepoAssumption DEF Collect
  <2>2. lane'[l].step # "collect" BY <1>0, <2>1, OverIs
  <2>3. told' = told \/ Tell(Own(l), lane[l].held, What(lane[l].held)) BY <1>1 DEF Collect
  <2>4. \A x \in What(lane[l].held) : <<Own(l), x>> \in done BY <2>1 DEF CollectInv
  <2>5. \E w : Books(w) BY <2>1, <2>3, <2>4, BooksRest, BooksTell
  <2>6. QED BY <2>1, <2>2, <2>5
<1>2. CASE CollectRaised(l) \/ Raises(l)
  <2>1. \E t \in {Over, Raised} : lane' = [lane EXCEPT ![l] = t] BY <1>2 DEF CollectRaised, Raises
  <2>2. lane'[l].step # "collect" BY <1>0, <2>1, OverIs
  <2>3. cmd' = cmd /\ done' = done /\ told' = told BY <1>2 DEF CollectRaised, Raises
  <2>4. QED BY <2>2, <2>3, BooksRest
<1>3. CASE FetchAgain(l)
  <2>1. lane' = [lane EXCEPT ![l] = [lane[l] EXCEPT !.tries = lane[l].tries + 1]] /\ lane[l].step = "fetch"
    BY <1>3 DEF FetchAgain, At
  <2>2. IsThread(lane[l]) BY <2>1, JobIs
  <2>3. lane'[l].step = "fetch" BY <1>0, <2>1, <2>2 DEF IsThread
  <2>4. cmd' = cmd /\ done' = done /\ told' = told BY <1>3 DEF FetchAgain
  <2>5. QED BY <2>3, <2>4, BooksRest
<1>4. CASE Fetch(l) \/ FetchFails(l)
  <2>1. lane[l].step = "fetch" /\ cmd' = cmd /\ done' = done BY <1>4 DEF Fetch, FetchFails, At
  <2>2. \E step \in {"source", "integrate", "fetch"} : Goto(l, step) \/ Next1(l, step)
    BY <1>4 DEF Fetch, FetchFails, FetchFailed
  <2>3. lane'[l].step # "collect" BY <2>1, <2>2, StepTo
  <2>4. told' = told \/ \E r : Tell(Own(l), r, {}) BY <1>4 DEF Fetch, FetchFails, FetchFailed
  <2>5. \E w : Books(w) BY <2>1, <2>4, BooksRest, BooksTell
  <2>6. QED BY <2>1, <2>3, <2>5
<1>5. CASE FollowMain(l)
  <2>1. lane[l].step = "source" /\ cmd' = cmd BY <1>5 DEF FollowMain, At
  <2>2. cmd.op \in Pooled BY <2>1, PoolLane
  <2>3. \E step \in {"integrate", "fetch"} : Goto(l, step) \/ Next1(l, step) BY <1>5 DEF FollowMain
  <2>4. lane'[l].step # "collect" BY <2>1, <2>3, StepTo
  <2>5. \/ told' = told /\ done' = done
        \/ \E r, result : Tell(Own(l), r, What(result)) /\ Did(Own(l), What(result))
    BY <1>5 DEF FollowMain
  <2>6. \E w : Books(w) BY <2>1, <2>5, WhatIs, BooksRest, BooksBoth
  <2>7. QED BY <2>2, <2>4, <2>6
<1>6. CASE Integrate(l) \/ SecondAttempt(l) \/ Abort(l)
  <2>1. lane[l].step \in {"integrate", "second", "abort"} /\ cmd' = cmd /\ run' = run
    BY <1>6 DEF Integrate, SecondAttempt, Abort, At
  <2>2. l \in Repo /\ cmd.op \in Pooled BY <2>1, PoolLane
  <2>3. \/ \E result : Report(l, result)
        \/ lane'[l].step \in {"second", "abort"} /\ told' = told /\ done' = done
    BY <1>6, IntegrateStep, SecondStep, AbortStep
  <2>4. QED BY <2>1, <2>2, <2>3, ReportBooks, BooksRest
<1>7. QED BY <1>1, <1>2, <1>3, <1>4, <1>5, <1>6 DEF LaneStep

\* A step of a lane preserves AccountInv.
LEMMA LaneAccount ==
  ASSUME TypeInv, AccountInv, NEW l \in Lanes, LaneStep(l)
  PROVE  AccountInv'
<1>0. DOMAIN lane = Lanes /\ Caller \in Lanes /\ Caller \notin Repo BY NameAssumption DEF TypeInv, Lanes
<1>1. StepBy(l) BY LaneFrame
<1>2. cmd' = cmd /\ \A k \in Lanes \ {l} : lane'[k] = lane[k] BY <1>1 DEF StepBy
<1>3. CASE l = Caller /\ CollectRaised(l)
  <2>1. /\ lane[Caller].step = "raised" /\ told' = {} /\ done' = done /\ lane' = [lane EXCEPT ![Caller] = Over]
    BY <1>3 DEF CollectRaised, At
  <2>2. cmd.op \notin Pooled /\ (cmd.op = "clean" => done' = {}) BY <2>1 DEF AccountInv, CallerInv
  <2>3. ~Listed \/ done' = {} BY <2>2 DEF Listed, Pooled
  <2>4. ToldDone' BY <2>1 DEF ToldDone
  <2>5. DoneTold' BY <1>2, <2>3 DEF DoneTold, Listed
  <2>6. lane'[Caller].step = "over" BY <1>0, <2>1, OverIs
  <2>7. CollectInv'
    <3>1. ASSUME NEW k \in Repo PROVE lane'[k] = lane[k] BY <1>0, <1>2, <1>3 DEF Lanes
    <3>2. QED BY <2>1, <3>1 DEF CollectInv, AccountInv
  <2>8. QED BY <2>4, <2>5, <2>6, <2>7 DEF AccountInv, CallerInv
<1>4. CASE ~(l = Caller /\ CollectRaised(l))
  <2>1. /\ \E w : Books(w)
        /\ done' = done \/ cmd.op \in Pooled
        /\ l # Caller /\ lane'[l].step = "collect" => \A x \in What(lane'[l].held) : <<Own(l), x>> \in done'
    BY <1>4, LaneBooks DEF AccountInv
  <2>2. ToldDone' /\ DoneTold' /\ done \subseteq done' BY <2>1, BooksKeep DEF AccountInv, Books
  <2>3. CollectInv'
    <3> SUFFICES ASSUME NEW k \in Repo, lane'[k].step = "collect", NEW x \in What(lane'[k].held)
                 PROVE  <<Own(k), x>> \in done'
      BY DEF CollectInv, Own
    <3>1. CASE k = l BY <1>0, <2>1, <3>1
    <3>2. CASE k # l
      <4>1. lane'[k] = lane[k] BY <1>2, <3>2 DEF Lanes
      <4>2. QED BY <2>2, <4>1 DEF AccountInv, CollectInv
    <3>3. QED BY <3>1, <3>2
  <2>4. CallerInv'
    <3>1. CASE l # Caller
      <4>1. lane'[Caller] = lane[Caller] /\ Job(Caller)' = Job(Caller) BY <1>0, <1>2, <3>1 DEF Job
      <4>2. lane[Caller].step \in {"preview", "ask"} => cmd.op \notin Pooled BY <1>0, JobIs
      <4>3. QED BY <1>2, <2>1, <2>2, <4>1, <4>2 DEF AccountInv, CallerInv, Pooled
    <3>2. CASE l = Caller
      <4>1. ~(Collect(l) \/ Fetch(l) \/ FetchAgain(l) \/ FetchFails(l) \/ FollowMain(l) \/ Integrate(l)
              \/ SecondAttempt(l) \/ Abort(l))
        <5>1. lane[l].step \notin {"fetch", "source", "integrate", "second", "abort", "collect"}
          BY <3>2, PoolLane
        <5>2. QED BY <5>1 DEF Collect, Fetch, FetchAgain, FetchFails, FollowMain, Integrate, SecondAttempt, Abort, At
      <4>2. Raises(Caller) BY <1>4, <3>2, <4>1 DEF LaneStep
      <4>3. lane'[Caller] = Raised /\ done' = done
            /\ lane[Caller].step \in {"integrate", "move", "track", "untrack", "preview", "connect", "disconnect"}
        BY <1>0, <4>2 DEF Raises
      <4>4. cmd.op \notin Pooled /\ cmd \in CommandType /\ lane[Caller].step \in Steps(cmd.op) BY <1>0, <4>3, JobIs
      <4>5. cmd.op = "clean" => lane[Caller].step = "preview" BY <4>3, <4>4 DEF Steps
      <4>6. cmd.op = "clean" => done' = {} BY <4>3, <4>5 DEF AccountInv, CallerInv
      <4>7. QED BY <1>2, <4>3, <4>4, <4>6, OverIs DEF CallerInv
    <3>3. QED BY <3>1, <3>2
  <2>5. QED BY <2>2, <2>3, <2>4 DEF AccountInv
<1>5. QED BY <1>3, <1>4

\* The calling thread keeps the books of the checkout it works on.
LEMMA CallerBooks ==
  ASSUME TypeInv, CallerInv, CallerStep
  PROVE  Books(Job(Caller)) /\ CallerInv'
<1> DEFINE w == Job(Caller)
           step == lane[Caller].step
           step2 == lane'[Caller].step
<1>0. DOMAIN lane = Lanes /\ Caller \in Lanes /\ step \notin {"over", "raised"} /\ cmd' = cmd
  BY CallerFrame DEF StepBy, TypeInv
<1>1. cmd \in CommandType /\ step \in Steps(cmd.op) /\ cmd.op \notin Pooled BY <1>0, CallerJob
<1>2. ASSUME NEW s, Goto(Caller, s) \/ Next1(Caller, s) PROVE step2 \in {s, "over"} /\ (Goto(Caller, s) => Job(Caller)' = w)
  BY <1>0, <1>2, StepTo
<1>3. ASSUME step2 \notin {"follow", "track", "raised", "preview", "ask"} PROVE CallerInv' BY <1>3 DEF CallerInv
<1>4. ASSUME NEW t \in {Over, Raised}, lane' = [lane EXCEPT ![Caller] = t] PROVE lane'[Caller] = t BY <1>0, <1>4
<1>5. CASE PushOne
  <2>1. step = "push" /\ done' = done BY <1>5 DEF PushOne, At
  <2>2. told' = told \/ Tell(w, "failed", {}) BY <1>5 DEF PushOne
  <2>3. step2 \in {"push", "over", "send"}
    <3>1. CASE Next1(Caller, "push") BY <1>2, <3>1
    <3>2. ASSUME NEW v, lane' = [lane EXCEPT ![Caller].step = "send", ![Caller].held = v] PROVE step2 = "send"
      <4>1. IsThread(lane[Caller]) BY <1>0, JobIs
      <4>2. QED BY <1>0, <3>2, <4>1 DEF IsThread
    <3>3. QED BY <1>5, <3>1, <3>2 DEF PushOne
  <2>4. QED BY <1>0, <1>3, <2>1, <2>2, <2>3, BooksRest, BooksTell
<1>6. CASE PushAccepted
  <2>1. Did(w, {"pushed"}) /\ told' = told /\ Goto(Caller, "follow") /\ step = "send" BY <1>6 DEF PushAccepted, At
  <2>2. cmd.op = "push" BY <1>1, <2>1, StepsOf
  <2>3. Books(w) BY <1>0, <2>1, <2>2, BooksDid DEF Listed
  <2>4. step2 \in {"follow", "over"} /\ Job(Caller)' = w BY <1>2, <2>1
  <2>5. <<w, "pushed">> \in done' BY <2>1 DEF Did
  <2>6. QED BY <2>3, <2>4, <2>5 DEF CallerInv
<1>7. CASE PushRefused \/ PushUnsent \/ PushUnanswered
  <2>1. step = "send" BY <1>7 DEF PushRefused, PushUnsent, PushUnanswered, At
  <2>2. cmd.op = "push" BY <1>1, <2>1, StepsOf
  <2>3. told' = told \/ Tell(w, "failed", {}) BY <1>7 DEF PushRefused, PushUnsent, PushUnanswered, PushFailed, SendAgain
  <2>4. done' = done \/ Did(w, {"pushed"}) BY <1>7 DEF PushRefused, PushUnsent, PushUnanswered
  <2>5. Books(w) BY <1>0, <2>2, <2>3, <2>4, BooksRest, BooksTell, BooksDid DEF Listed
  <2>6. step2 \in {"push", "over", "send"}
    <3>1. CASE Next1(Caller, "push") BY <1>2, <3>1
    <3>2. CASE lane' = [lane EXCEPT ![Caller].tries = @ + 1]
      <4>1. IsThread(lane[Caller]) BY <1>0, JobIs
      <4>2. lane'[Caller] = [lane[Caller] EXCEPT !.tries = lane[Caller].tries + 1] BY <1>0, <3>2
      <4>3. QED BY <2>1, <4>1, <4>2 DEF IsThread
    <3>3. QED BY <1>7, <3>1, <3>2 DEF PushRefused, PushUnsent, PushUnanswered, PushFailed, SendAgain
  <2>7. QED BY <1>3, <2>5, <2>6
<1>8. CASE Follow
  <2>1. step = "follow" /\ done' = done /\ Tell(w, "pushed", {"pushed"}) /\ Next1(Caller, "push")
    BY <1>8 DEF Follow, At
  <2>2. <<w, "pushed">> \in done BY <2>1 DEF CallerInv
  <2>3. Books(w) BY <1>0, <2>1, <2>2, BooksTell
  <2>4. step2 \in {"push", "over"} BY <1>2, <2>1
  <2>5. QED BY <1>3, <2>3, <2>4
<1>9. CASE Ask
  <2>1. /\ step = "ask" /\ done' = done /\ told' = told
        /\ Goto(Caller, "remove") \/ Goto(Caller, "classify") \/ lane' = [lane EXCEPT ![Caller] = Over]
    BY <1>9 DEF Ask, At
  <2>2. step2 \in {"remove", "classify", "over"} BY <1>2, <1>4, <2>1, OverIs
  <2>3. QED BY <1>0, <1>3, <2>1, <2>2, BooksRest
<1>10. CASE Classify
  <2>1. done' = done /\ (told' = told \/ Tell(w, "refused", {})) BY <1>10 DEF Classify
  <2>2. step2 \in {"classify", "over", "move"} BY <1>10, ClassifyStep, OverIs
  <2>3. QED BY <1>0, <1>3, <2>1, <2>2, BooksRest, BooksTell
<1>11. CASE CheckoutMove
  <2>1. Did(w, {"head"}) /\ told' = told /\ Goto(Caller, "track") /\ cmd.op = "checkout" BY <1>11 DEF CheckoutMove
  <2>2. Books(w) BY <1>0, <2>1, BooksDid DEF Listed
  <2>3. step2 \in {"track", "over"} /\ Job(Caller)' = w BY <1>2, <2>1
  <2>4. <<w, "head">> \in done' BY <2>1 DEF Did
  <2>5. QED BY <2>2, <2>3, <2>4 DEF CallerInv
<1>12. CASE CheckoutTrack
  <2>1. step = "track" /\ done' = done /\ Tell(w, "reset", {"head"}) /\ Next1(Caller, "move")
    BY <1>12 DEF CheckoutTrack, At
  <2>2. <<w, "head">> \in done BY <2>1 DEF CallerInv
  <2>3. Books(w) BY <1>0, <2>1, <2>2, BooksTell
  <2>4. step2 \in {"move", "over"} BY <1>2, <2>1
  <2>5. QED BY <1>3, <2>3, <2>4
<1>13. CASE ResetMove
  <2>1. cmd.op = "reset" BY <1>13 DEF ResetMove
  <2>2. \/ done' = done /\ told' = told
        \/ done' = done /\ Tell(w, "planned", {})
        \/ Tell(w, "reset", {"head"}) /\ Did(w, {"head"})
    BY <1>13 DEF ResetMove
  <2>3. Books(w) BY <1>0, <2>1, <2>2, BooksRest, BooksTell, BooksBoth DEF Listed
  <2>4. Next1(Caller, "move") \/ lane' = [lane EXCEPT ![Caller] = Raised] BY <1>13 DEF ResetMove
  <2>5. step2 \in {"move", "over", "raised"} BY <1>2, <1>4, <2>4, OverIs
  <2>6. QED BY <1>0, <1>1, <2>1, <2>3, <2>5 DEF CallerInv
<1>14. CASE Preview
  <2>1. /\ step = "preview" /\ done' = done /\ told' = told
        /\ Goto(Caller, "ask") \/ Goto(Caller, "remove") \/ lane' = [lane EXCEPT ![Caller] = Over]
    BY <1>14 DEF Preview, At
  <2>2. step2 \in {"ask", "remove", "over"} BY <1>2, <1>4, <2>1, OverIs
  <2>3. done = {} BY <2>1 DEF CallerInv
  <2>4. QED BY <1>0, <2>1, <2>2, <2>3, BooksRest DEF CallerInv
<1>15. CASE CleanOne \/ CleanPartly
  <2>1. step = "remove" /\ (Next1(Caller, "remove") \/ lane' = [lane EXCEPT ![Caller] = Over])
    BY <1>15 DEF CleanOne, CleanPartly, At
  <2>2. cmd.op = "clean" BY <1>1, <2>1, StepsOf
  <2>3. step2 \in {"remove", "over"} BY <1>2, <1>4, <2>1, OverIs
  <2>4. Untracked(w) \subseteq Things
    <3>1. w[1] \in Repo /\ WellFormed(w[1], There) /\ Here \in Envs(w[1]) BY <1>0, CallerJob
    <3>2. There.at[Here] \in CheckoutType BY <3>1, RepoFields DEF WellFormed
    <3>3. QED BY <3>2 DEF Untracked, There, Here, CheckoutType, Things
  <2>5. \/ cmd.dry /\ done' = done /\ \E r, s : Tell(w, r, s)
        \/ \E r : \E gone \in SUBSET Untracked(w) : Did(w, gone) /\ Tell(w, r, gone)
    BY <1>15 DEF CleanOne, CleanPartly
  <2>6. CASE cmd.dry /\ done' = done /\ \E r, s : Tell(w, r, s)
    <3>1. ~InPlay BY <2>2, <2>6 DEF InPlay
    <3>2. Books(w) BY <1>0, <2>6, <3>1, BooksTell
    <3>3. QED BY <1>3, <2>3, <3>2
  <2>7. CASE \E r : \E gone \in SUBSET Untracked(w) : Did(w, gone) /\ Tell(w, r, gone)
    <3>1. PICK r : \E gone \in SUBSET Untracked(w) : Did(w, gone) /\ Tell(w, r, gone) BY <2>7
    <3>2. PICK gone \in SUBSET Untracked(w) : Did(w, gone) /\ Tell(w, r, gone) BY <3>1
    <3>3. gone \subseteq Things BY <2>4
    <3>4. Books(w) BY <1>0, <3>2, <3>3, BooksBoth
    <3>5. QED BY <1>3, <2>3, <3>4
  <2>8. QED BY <2>5, <2>6, <2>7
<1>16. CASE Connect
  <2>1. step \in {"connect", "disconnect"} /\ done' = done /\ Tell(w, cmd.op, {}) /\ Next1(Caller, cmd.op)
    BY <1>16 DEF Connect, At
  <2>2. cmd.op \in {"connect", "disconnect"} BY <1>1, <2>1, StepsOf
  <2>3. step2 \in {"connect", "disconnect", "over"} BY <1>2, <2>1, <2>2
  <2>4. Books(w) BY <1>0, <2>1, BooksTell
  <2>5. QED BY <1>3, <2>3, <2>4
<1>17. QED BY <1>5, <1>6, <1>7, <1>8, <1>9, <1>10, <1>11, <1>12, <1>13, <1>14, <1>15, <1>16 DEF CallerStep

\* The books balance initially, when they are empty.
LEMMA AccountInit == ASSUME Init PROVE AccountInv
<1>1. told = {} /\ done = {} BY DEF Init
<1>2. ASSUME NEW l \in Lanes PROVE lane[l].step = "over"
  <2>1. lane[l] = Over BY DEF Init
  <2>2. QED BY <2>1, OverIs
<1>3. ToldDone /\ DoneTold BY <1>1 DEF ToldDone, DoneTold
<1>4. CollectInv /\ CallerInv BY <1>2 DEF CollectInv, CallerInv, Lanes
<1>5. QED BY <1>3, <1>4 DEF AccountInv

\* AccountInv is inductive: what was told and what was done agree.
LEMMA AccountStep ==
  ASSUME TypeInv, AccountInv, [Next]_vars
  PROVE  AccountInv'
<1>1. CASE \E l \in Lanes : LaneStep(l) BY <1>1, LaneAccount
<1>2. CASE CallerStep
  <2>1. Books(Job(Caller)) /\ CallerInv' BY <1>2, CallerBooks DEF AccountInv
  <2>2. ToldDone' /\ DoneTold' /\ done \subseteq done' BY <2>1, BooksKeep DEF AccountInv, Books
  <2>3. \A k \in Repo : lane'[k] = lane[k] BY <1>2, CallerFrame, LaneIsRepo DEF StepBy
  <2>4. CollectInv' BY <2>2, <2>3 DEF CollectInv, AccountInv, Own
  <2>5. QED BY <2>1, <2>2, <2>4 DEF AccountInv
<1>3. CASE Finish \/ Meddling \/ UNCHANGED vars
  <2>1. cmd' = cmd /\ told' = told /\ done' = done /\ lane' = lane
    BY <1>3, FinishStep, MeddlingStep DEF Watched, vars
  <2>2. QED BY <2>1 DEF AccountInv, ToldDone, DoneTold, InPlay, Listed, Tells, CollectInv, CallerInv, Job
<1>4. ASSUME NEW c \in Commands, Start(c) PROVE AccountInv'
  <2>1. /\ cmd' = c /\ told' = {} /\ done' = {}
        /\ \A l \in Lanes : lane'[l] = Over \/ lane'[l].step = FirstStep(c)
    BY <1>4, StartStep
  <2>2. c \in CommandType BY CommandsAssumption
  <2>3. FirstStep(c) \notin {"collect", "follow", "track", "raised"}
    BY <2>2 DEF FirstStep, CommandType
  <2>4. \A l \in Lanes : lane'[l].step \notin {"collect", "follow", "track", "raised"}
    BY <2>1, <2>3, OverIs
  <2>5. ToldDone' /\ DoneTold' BY <2>1 DEF ToldDone, DoneTold
  <2>6. CollectInv' /\ CallerInv' BY <2>1, <2>4 DEF CollectInv, CallerInv, Lanes
  <2>7. QED BY <2>5, <2>6 DEF AccountInv
<1>5. QED BY <1>1, <1>2, <1>3, <1>4 DEF Next, CommandStep

\* When a command is over its outcomes match what it did.
THEOREM OutcomesHonest == Spec => []Accounted
<1>1. AccountInv => Accounted
  <2> SUFFICES ASSUME ToldDone, DoneTold
               PROVE  /\ InPlay => Claimed \subseteq done
                      /\ Listed => {d \in done : Project(d[1])} \subseteq Claimed
    BY DEF AccountInv, Accounted, InPlay, Listed
  <2>1. ASSUME InPlay, NEW c \in Claimed PROVE c \in done
    <3>1. PICK e \in told, x \in Things : c = <<e.wt, x>> BY DEF Claimed, Things
    <3>2. PICK f \in told : c \in {<<f.wt, y>> : y \in f.what} BY DEF Claimed
    <3>3. PICK y \in f.what : c = <<f.wt, y>> BY <3>2
    <3>4. y = x BY <3>1, <3>3
    <3>5. QED BY <2>1, <3>1, <3>3, <3>4 DEF ToldDone
  <2>2. ASSUME Listed, NEW d \in done, Project(d[1]) PROVE d \in Claimed
    <3>1. d = <<d[1], d[2]>> /\ d[2] \in Things BY <2>2 DEF DoneTold
    <3>2. PICK e \in told : e.wt = d[1] /\ d[2] \in e.what BY <2>2 DEF DoneTold, Tells
    <3>3. d = <<e.wt, d[2]>> BY <3>1, <3>2
    <3>4. d \in {<<f.wt, x>> : f \in told, x \in Files \cup {"head", "pushed"}} BY <3>1, <3>3 DEF Things
    <3>5. d \in {<<e.wt, x>> : x \in e.what} BY <3>2, <3>3
    <3>6. QED BY <3>4, <3>5 DEF Claimed
  <2>3. QED BY <2>1, <2>2
<1>2. QED BY <1>1, AccountInit, AccountStep, TypeCorrect, PTL DEF Spec
=============================================================================

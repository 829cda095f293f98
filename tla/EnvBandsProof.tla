---------------------------- MODULE EnvBandsProof ----------------------------
(***************************************************************************)
(* The proofs that a resolved key is held by the entry declared furthest   *)
(* down, that a workspace entry's value is made of nothing from the upper  *)
(* bands, and that what is said of the entries left unresolved leads to a  *)
(* cause, for every set of entries, every order in which references,       *)
(* passes and rounds let them be resolved, and commands run or left out.   *)
(***************************************************************************)
EXTENDS EnvBands, TLAPS, FiniteSetTheorems, WellFoundedInduction

Bases == Names \X {"workspace", "feature", "every"}
Values == [by : Nat, from : SUBSET Nat, bases : SUBSET Bases]

Types == /\ setup \in Seq(Entry)
         /\ todo \in Seq(Run)
         /\ phase \in {"start", "first", "second", "over"}
         /\ phase # "start" => todo # <<>>
         /\ resolved \in [Names -> Values]
         /\ confined \in [Names -> Values]

\* What the round has in hand are entries that count and are not held back.
Scheduled == /\ queue \cup waiting \cup shells \subseteq Effective \ Held
             /\ phase = "over" => queue = {}

\* The entries this computation still comes to.
Pending == queue \cup waiting \cup (IF phase = "first" THEN shells ELSE {})

Contribution(i) == IF IsCommand(i) THEN Kept(i) ELSE {setup[i].key}

\* What the entry has to say is said, by itself or by one further down, or is
\* left to the literal that holds the key.
Settled(i) == \A n \in Contribution(i) : resolved[n].by >= i \/ (IsCommand(i) /\ Yields(i, n))

\* No entry falls between the passes and the rounds.
NoneLost == \A i \in Effective \ Held : i \in Pending \/ Settled(i)

WorkspaceOnly(v) == (\A j \in v.from : Restricted(j)) /\ \A base \in v.bases : base[1] # PortBase

Confinement ==
  \A n \in Names :
    /\ WorkspaceOnly(confined[n])
    /\ resolved[n].by \in DOMAIN setup /\ Restricted(resolved[n].by) => WorkspaceOnly(resolved[n])

\* Nothing that lower bands supply by themselves goes missing: a managed variable
\* has a value, and so has a workspace literal's key where workspace entries look.
Supplied ==
  /\ \A n \in BaseKeys \ Keys : resolved[n] # Unset
  /\ \A i \in Effective \ Held : ~IsCommand(i) /\ Restricted(i) =>
       i \in Pending \/ confined[setup[i].key].by >= i

BInv == /\ Types
        /\ phase # "start" => Scheduled /\ NoneLost /\ Confinement /\ Supplied

-----------------------------------------------------------------------------

\* An entry is what SetupsAssumption says.
LEMMA EntryFacts ==
  ASSUME setup \in Seq(Entry), NEW i \in DOMAIN setup
  PROVE  /\ setup[i].key \in Names /\ setup[i].refs \subseteq Names
         /\ setup[i].emits \subseteq Names /\ i \in Nat /\ i > 0
<1>1. setup[i] \in Entry /\ i \in Nat /\ i > 0
  OBVIOUS
<1>2. QED
  BY <1>1 DEF Entry

\* The entry of a declared key counts, and it is the key's.
LEMMA EntryOfKey ==
  ASSUME NEW n \in Keys
  PROVE  EntryOf(n) \in Effective /\ setup[EntryOf(n)].key = n
<1>1. PICK i \in Effective : setup[i].key = n
  BY DEF Keys
<1>2. QED
  BY <1>1 DEF EntryOf

\* The entries in effect are declared, and the ones held back are in effect.
LEMMA EffectiveDeclared == Effective \subseteq DOMAIN setup /\ Held \subseteq Effective
BY DEF Effective, Declared, Held

\* The entries of a computation are the same throughout it.
LEMMA SameEntries ==
  ASSUME UNCHANGED <<setup, todo>>
  PROVE  /\ Effective' = Effective /\ Held' = Held /\ Keys' = Keys
         /\ \A n : EntryOf(n)' = EntryOf(n)
         /\ \A i : Restricted(i)' = Restricted(i) /\ IsCommand(i)' = IsCommand(i)
         /\ \A i : Contribution(i)' = Contribution(i)
         /\ \A i, n : Yields(i, n)' = Yields(i, n)
         /\ BaseKeys' = BaseKeys
<1>1. Effective' = Effective /\ Keys' = Keys
  BY DEF Effective, Declared, Scope, Keys
<1>2. Held' = Held
  BY <1>1 DEF Held, IsCommand, Running
<1>3. \A n : EntryOf(n)' = EntryOf(n)
  BY <1>1 DEF EntryOf
<1>4. \A i : Restricted(i)' = Restricted(i) /\ IsCommand(i)' = IsCommand(i)
  BY DEF Restricted, IsCommand
<1>5. \A i : Contribution(i)' = Contribution(i)
  BY DEF Contribution, IsCommand, Kept
<1>6. \A i, n : Yields(i, n)' = Yields(i, n)
  BY <1>1, <1>3 DEF Yields, IsCommand
<1>7. BaseKeys' = BaseKeys
  BY DEF BaseKeys, Scope
<1>8. QED
  BY <1>1, <1>2, <1>3, <1>4, <1>5, <1>6, <1>7

\* A managed variable speaks of the scope in hand, or of every scope.
LEMMA BaseValue ==
  ASSUME Types, todo # <<>>, NEW n \in Names
  PROVE  Base(n) \in Values
<1>1. todo[1] \in Run
  BY DEF Types
<1>2. SpeaksOf(n) \in {"workspace", "feature", "every"}
  BY <1>1 DEF SpeaksOf, Scope, Run
<1>3. <<n, SpeaksOf(n)>> \in Bases
  BY <1>2 DEF Bases
<1>4. QED
  BY <1>3 DEF Base, Values

\* What an entry sees is made of what the values it reads are made of.
LEMMA VisibleValues ==
  ASSUME Types, phase # "start", NEW i \in DOMAIN setup, NEW n \in Names
  PROVE  Visible(i)[n] \in Values
<1>1. Visible(i)[n] \in {Unset, Base(n), resolved[n], confined[n]}
  BY DEF Visible, ConfinedValue
<1>2. Unset \in Values /\ Base(n) \in Values
  BY BaseValue DEF Unset, Types, Values
<1>3. QED
  BY <1>1, <1>2 DEF Types

\* A workspace entry sees workspace values only.
LEMMA VisibleConfined ==
  ASSUME Types, Confinement, NEW i \in DOMAIN setup, Restricted(i), NEW n \in Names
  PROVE  WorkspaceOnly(Visible(i)[n])
<1>1. \/ Visible(i)[n] \in {Unset, confined[n]}
      \/ n # PortBase /\ Visible(i)[n] = Base(n)
  BY DEF Visible, ConfinedValue
<1>2. WorkspaceOnly(Unset) /\ (n # PortBase => WorkspaceOnly(Base(n)))
  BY DEF WorkspaceOnly, Unset, Base
<1>3. QED
  BY <1>1, <1>2 DEF Confinement

\* A value that an entry makes names it, and is confined if the entry is.
LEMMA MadeValue ==
  ASSUME Types, phase # "start", NEW i \in DOMAIN setup
  PROVE  /\ Made(i) \in Values /\ Made(i).by = i
         /\ Confinement /\ Restricted(i) => WorkspaceOnly(Made(i))
<1> DEFINE parts == (IF IsCommand(i) THEN Names ELSE setup[i].refs) \ Gated
<1>1. parts \subseteq Names
  BY EntryFacts DEF Types
<1>2. Made(i) = [by |-> i, from |-> {i} \cup UNION {Visible(i)[n].from : n \in parts},
                 bases |-> UNION {Visible(i)[n].bases : n \in parts}]
  BY DEF Made
<1>3. \A n \in parts : Visible(i)[n].from \subseteq Nat /\ Visible(i)[n].bases \subseteq Bases
  BY <1>1, VisibleValues DEF Values
<1>4. i \in Nat
  BY EntryFacts DEF Types
<1> HIDE DEF parts
<1>5. Made(i).from \subseteq Nat /\ Made(i).bases \subseteq Bases
  BY <1>2, <1>3, <1>4
<1>6. Made(i) \in Values /\ Made(i).by = i
  BY <1>2, <1>4, <1>5 DEF Values
<1>7. ASSUME Confinement, Restricted(i)
      PROVE  WorkspaceOnly(Made(i))
  <2>1. \A n \in parts : WorkspaceOnly(Visible(i)[n])
    BY <1>1, <1>7, VisibleConfined
  <2>2. QED
    BY <1>2, <1>7, <2>1 DEF WorkspaceOnly
<1>8. QED
  BY <1>6, <1>7

\* A value once given is only ever replaced by one from further down.
LEMMA ClaimRaises ==
  ASSUME Types, phase # "start", NEW i \in DOMAIN setup, NEW names \in SUBSET Names, Claim(i, names, Made(i))
  PROVE  /\ resolved' \in [Names -> Values] /\ confined' \in [Names -> Values]
         /\ \A n \in Names : resolved'[n].by >= resolved[n].by
         /\ \A n \in names : resolved'[n].by >= i
         /\ \A n \in Names : resolved'[n] \in {resolved[n], Made(i)}
         /\ \A n \in Names : confined'[n] = confined[n] \/ (Restricted(i) /\ confined'[n] = Made(i))
         /\ \A n \in Names : confined'[n].by >= confined[n].by
         /\ Restricted(i) => \A n \in names : confined'[n].by >= i
<1>1. Made(i) \in Values /\ Made(i).by = i
  BY MadeValue
<1>2. \A n \in Names : resolved'[n] = IF n \in names /\ resolved[n].by < i THEN Made(i) ELSE resolved[n]
  BY DEF Claim, Outranks
<1>3. resolved' \in [Names -> Values] /\ confined' \in [Names -> Values]
  BY <1>1 DEF Claim, Types
<1>4. i \in Nat /\ \A n \in Names : resolved[n].by \in Nat /\ confined[n].by \in Nat
  BY EntryFacts DEF Types, Values
<1>5. \A n \in Names : confined'[n] = confined[n] \/ (Restricted(i) /\ confined'[n] = Made(i))
  BY DEF Claim
<1>6. \A n \in Names : confined'[n] = IF n \in names /\ Restricted(i) /\ confined[n].by < i
                                        THEN Made(i) ELSE confined[n]
  BY DEF Claim, Outranks
<1>7. /\ \A n \in Names : confined'[n].by >= confined[n].by
      /\ Restricted(i) => \A n \in names : confined'[n].by >= i
  BY <1>1, <1>4, <1>6
<1>8. QED
  BY <1>1, <1>2, <1>3, <1>4, <1>5, <1>7

-----------------------------------------------------------------------------

\* An entry that is tried is resolved, waits, or ends the computation.
LEMMA TryKeeps ==
  ASSUME BInv, phase \in {"first", "second"}, UNCHANGED <<setup, shells>>,
         NEW i \in queue, queue' = queue \ {i}, Try(i) \/ (phase = "second" /\ Wait(i)),
         phase # phase' => phase' = "start"
  PROVE  BInv'
<1>1. Types /\ Scheduled /\ NoneLost /\ Confinement /\ Supplied
  BY DEF BInv
<1>2. i \in Effective \ Held /\ i \in DOMAIN setup
  BY <1>1, EffectiveDeclared DEF Scheduled
<1>3. CASE \E how \in {"failed", "refused"} : Ends(how) /\ UNCHANGED valueVars
  BY <1>1, <1>3 DEF BInv, Types, Ends, valueVars
<1>4. CASE Wait(i)
  <2>1. UNCHANGED <<setup, todo, resolved, confined, phase, shells>> /\ waiting' = waiting \cup {i}
    BY <1>4 DEF Wait, valueVars
  <2>2. Pending' = Pending
    BY <2>1 DEF Pending
  <2>3. Scheduled'
    BY <1>1, <1>2, <2>1, SameEntries DEF Scheduled
  <2>4. \A j : Settled(j)' <=> Settled(j)
    BY <2>1, SameEntries DEF Settled
  <2>5. NoneLost'
    BY <1>1, <2>1, <2>2, <2>4, SameEntries DEF NoneLost
  <2>6. Confinement'
    BY <1>1, <2>1 DEF Confinement, WorkspaceOnly, Restricted
  <2>7. Supplied'
    BY <1>1, <2>1, <2>2, SameEntries DEF Supplied
  <2>8. QED
    BY <1>1, <2>1, <2>3, <2>5, <2>6, <2>7 DEF BInv, Types
<1>5. CASE Resolve(i)
  <2> DEFINE names == IF IsCommand(i) THEN Merged(i) ELSE {setup[i].key}
  <2>1. UNCHANGED <<setup, todo, phase, shells, waiting>> /\ Claim(i, names, Made(i))
    BY <1>5 DEF Resolve
  <2>2. names \in SUBSET Names
    BY <1>1, <1>2, EntryFacts DEF Types, Merged, Kept
  <2>3. \A n \in Contribution(i) : n \in names \/ (IsCommand(i) /\ Yields(i, n))
    BY DEF Contribution, Merged
  <2>0. ~IsCommand(i) => names = {setup[i].key}
    OBVIOUS
  <2> HIDE DEF names
  <2>4. /\ resolved' \in [Names -> Values] /\ confined' \in [Names -> Values]
        /\ \A n \in Names : resolved'[n].by >= resolved[n].by
        /\ \A n \in names : resolved'[n].by >= i
        /\ \A n \in Names : resolved'[n] \in {resolved[n], Made(i)}
        /\ \A n \in Names : confined'[n] = confined[n] \/ (Restricted(i) /\ confined'[n] = Made(i))
        /\ \A n \in Names : confined'[n].by >= confined[n].by
        /\ Restricted(i) => \A n \in names : confined'[n].by >= i
    BY <1>1, <1>2, <2>1, <2>2, ClaimRaises
  <2>5. Scheduled'
    BY <1>1, <2>1, SameEntries DEF Scheduled
  <2>6. \A j \in Effective : Settled(j) => Settled(j)'
    <3>1. SUFFICES ASSUME NEW j \in Effective, Settled(j), NEW n \in Contribution(j), ~(IsCommand(j) /\ Yields(j, n))
                   PROVE  resolved'[n].by >= j
      BY <2>1, SameEntries DEF Settled
    <3>2. j \in Nat /\ n \in Names
      BY <1>1, EffectiveDeclared, EntryFacts DEF Types, Contribution, Kept
    <3>3. resolved[n].by \in Nat /\ resolved'[n].by \in Nat
      BY <1>1, <2>4, <3>2 DEF Types, Values
    <3>4. resolved[n].by >= j
      BY <3>1 DEF Settled
    <3>5. QED
      BY <2>4, <3>2, <3>3, <3>4
  <2>7. Settled(i)'
    BY <2>1, <2>3, <2>4, SameEntries DEF Settled
  <2>8. \A j \in Pending : j = i \/ j \in Pending'
    BY <2>1 DEF Pending
  <2>9. NoneLost'
    BY <1>1, <2>1, <2>6, <2>7, <2>8, SameEntries DEF NoneLost
  <2>10. Confinement'
    <3>1. SUFFICES ASSUME NEW n \in Names
                   PROVE  /\ WorkspaceOnly(confined'[n])
                          /\ resolved'[n].by \in DOMAIN setup /\ Restricted(resolved'[n].by)
                                => WorkspaceOnly(resolved'[n])
      BY <2>1 DEF Confinement, WorkspaceOnly, Restricted
    <3>2. /\ WorkspaceOnly(confined[n])
          /\ resolved[n].by \in DOMAIN setup /\ Restricted(resolved[n].by) => WorkspaceOnly(resolved[n])
      BY <1>1 DEF Confinement
    <3>3. Made(i).by = i /\ (Restricted(i) => WorkspaceOnly(Made(i)))
      BY <1>1, <1>2, MadeValue
    <3>4. WorkspaceOnly(confined'[n])
      BY <2>4, <3>2, <3>3
    <3>5. CASE resolved'[n] = resolved[n]
      BY <3>2, <3>4, <3>5
    <3>6. CASE resolved'[n] = Made(i)
      BY <3>3, <3>4, <3>6
    <3>7. QED
      BY <2>4, <3>5, <3>6
  <2>11. Supplied'
    <3>1. ASSUME NEW n \in BaseKeys \ Keys PROVE resolved'[n] # Unset
      <4>1. n \in Names /\ resolved[n] # Unset
        BY <1>1, NamesAssumption DEF Supplied, BaseKeys
      <4>2. i \in Nat /\ i > 0 /\ Made(i).by = i
        BY <1>1, <1>2, EntryFacts, MadeValue DEF Types
      <4>3. Made(i) # Unset
        BY <4>2 DEF Unset
      <4>4. QED
        BY <2>4, <4>1, <4>3
    <3>2. ASSUME NEW j \in Effective \ Held, ~IsCommand(j), Restricted(j), j \notin Pending'
          PROVE  confined'[setup[j].key].by >= j
      <4>1. setup[j].key \in Names /\ j \in Nat
        BY <1>1, EffectiveDeclared, EntryFacts DEF Types
      <4>2. CASE j = i
        BY <2>0, <2>4, <3>2, <4>2
      <4>3. CASE j # i
        <5>1. confined[setup[j].key].by >= j
          BY <1>1, <2>8, <3>2, <4>3 DEF Supplied
        <5>2. confined'[setup[j].key].by >= confined[setup[j].key].by
          BY <2>4, <4>1
        <5>3. confined[setup[j].key].by \in Nat /\ confined'[setup[j].key].by \in Nat
          BY <1>1, <2>4, <4>1 DEF Types, Values
        <5>4. QED
          BY <4>1, <5>1, <5>2, <5>3
      <4>4. QED
        BY <4>2, <4>3
    <3>3. QED
      BY <2>1, <3>1, <3>2, SameEntries DEF Supplied
  <2>12. QED
    BY <1>1, <2>1, <2>4, <2>5, <2>9, <2>10, <2>11 DEF BInv, Types
<1>6. QED
  BY <1>3, <1>4, <1>5 DEF Try, CommandFails

\* A computation begins with every entry that counts to come, and nothing
\* resolved but the managed variables and the placeholders.
LEMMA StartKeeps == BInv /\ Start => BInv'
<1> SUFFICES ASSUME BInv, Start
             PROVE  BInv'
  OBVIOUS
<1> DEFINE work == Effective \ Held
<1>1. /\ UNCHANGED <<setup, todo>> /\ waiting' = {} /\ todo # <<>>
      /\ queue' = {i \in work : ~setup[i].shell} /\ shells' = {i \in work : setup[i].shell}
      /\ phase' = IF work = {} THEN "over" ELSE "first"
      /\ resolved' = [n \in Names |-> IF n \in Gated THEN Placeholder(n)
                                      ELSE IF n \in BaseKeys \ Keys THEN Base(n) ELSE Unset]
      /\ confined' = [n \in Names |-> IF n \in Gated /\ Restricted(EntryOf(n))
                                      THEN Placeholder(n) ELSE Unset]
  BY DEF Start
<1>2. Types
  BY DEF BInv
<1>3. \A n \in Gated : Placeholder(n) \in Values
  <2>1. \A n \in Gated : n \in Keys
    BY EffectiveDeclared DEF Gated, Keys
  <2>2. \A n \in Gated : EntryOf(n) \in Nat
    BY <1>2, <2>1, EntryOfKey, EffectiveDeclared, EntryFacts DEF Types
  <2>3. QED
    BY <2>2 DEF Placeholder, Values
<1>4. \A n \in Names : Base(n) \in Values /\ Unset \in Values
  BY <1>1, <1>2, BaseValue DEF Unset, Values
<1>5. Types'
  BY <1>1, <1>2, <1>3, <1>4 DEF Types
<1>6. Scheduled'
  BY <1>1, SameEntries DEF Scheduled
<1>7. NoneLost'
  <2>1. queue' \cup shells' = work
    BY <1>1
  <2>2. work = {} \/ (Pending)' = work
    BY <1>1, <2>1 DEF Pending
  <2>3. (Effective \ Held)' = work
    BY <1>1, SameEntries
  <2>4. QED
    BY <2>2, <2>3 DEF NoneLost
<1>8. Confinement'
  <2>1. SUFFICES ASSUME NEW n \in Names
                 PROVE  /\ WorkspaceOnly(confined'[n])
                        /\ resolved'[n].by \in DOMAIN setup => WorkspaceOnly(resolved'[n])
    BY <1>1 DEF Confinement, WorkspaceOnly, Restricted
  <2>2. /\ confined'[n] \in {Placeholder(n), Unset}
        /\ resolved'[n] \in {Placeholder(n), Base(n), Unset}
    BY <1>1
  <2>3. WorkspaceOnly(Placeholder(n)) /\ WorkspaceOnly(Unset)
    BY DEF WorkspaceOnly, Placeholder, Unset
  <2>4. Base(n).by \notin DOMAIN setup
    BY <1>2 DEF Types, Base
  <2>5. QED
    BY <2>2, <2>3, <2>4
<1>9. Supplied'
  <2>1. ASSUME NEW n \in BaseKeys \ Keys PROVE resolved'[n] # Unset
    <3>1. n \in Names /\ n \notin Gated
      BY NamesAssumption, EffectiveDeclared DEF BaseKeys, Gated, Keys
    <3>2. resolved'[n] = Base(n)
      BY <1>1, <3>1
    <3>3. Base(n).bases # {} /\ Unset.bases = {}
      BY DEF Base, Unset
    <3>4. QED
      BY <3>2, <3>3
  <2>2. work = {} \/ Pending' = work
    BY <1>1 DEF Pending
  <2>3. (Effective \ Held)' = work
    BY <1>1, SameEntries
  <2>4. QED
    BY <1>1, <2>1, <2>2, <2>3, SameEntries DEF Supplied
<1>10. QED
  BY <1>5, <1>6, <1>7, <1>8, <1>9 DEF BInv

\* Between the passes, and between the rounds, the entries left change hands.
LEMMA HandOver ==
  ASSUME BInv, phase # "start", UNCHANGED <<setup, todo, valueVars>>,
         phase' \in {"first", "second", "over"},
         queue' \cup waiting' \cup shells' \subseteq queue \cup waiting \cup shells,
         Pending \subseteq Pending', phase' = "over" => queue' = {}
  PROVE  BInv'
<1>1. Types /\ Scheduled /\ NoneLost /\ Confinement /\ Supplied
  BY DEF BInv
<1>2. UNCHANGED <<setup, todo, resolved, confined>>
  BY DEF valueVars
<1>3. Scheduled'
  BY <1>1, <1>2, SameEntries DEF Scheduled
<1>4. \A j : Settled(j)' <=> Settled(j)
  BY <1>2, SameEntries DEF Settled
<1>5. NoneLost'
  BY <1>1, <1>2, <1>4, SameEntries DEF NoneLost
<1>6. Confinement'
  BY <1>1, <1>2 DEF Confinement, WorkspaceOnly, Restricted
<1>7. Supplied'
  BY <1>1, <1>2, SameEntries DEF Supplied
<1>8. QED
  BY <1>1, <1>2, <1>3, <1>5, <1>6, <1>7 DEF BInv, Types

\* BInv holds initially, when nothing was resolved.
LEMMA BandsInit == Init => BInv
<1>1. ASSUME Init
      PROVE  Types /\ phase = "start"
  <2>1. Unset \in Values
    BY DEF Unset, Values
  <2>2. QED
    BY <1>1, <2>1, SetupsAssumption, RunsAssumption DEF Init, Types, Nothing
<1>2. QED
  BY <1>1 DEF BInv

\* Every step of the resolution preserves BInv.
LEMMA BandsNext == BInv /\ [Next]_vars => BInv'
<1> SUFFICES ASSUME BInv, [Next]_vars
             PROVE  BInv'
  OBVIOUS
<1>1. CASE Start
  BY <1>1, StartKeeps
<1>2. CASE TryFirst
  <2>1. PICK i \in queue : Try(i) /\ queue' = queue \ {i}
    BY <1>2 DEF TryFirst
  <2>2. phase # phase' => phase' = "start"
    BY <2>1 DEF Try, Wait, Resolve, CommandFails, Ends
  <2>3. QED
    BY <1>2, <2>1, <2>2, TryKeeps DEF TryFirst
<1>3. CASE FirstDone
  <2>1. /\ phase = "first" /\ phase' = "second" /\ queue' = shells /\ queue = {}
        /\ UNCHANGED <<setup, todo, shells, waiting, valueVars>>
    BY <1>3 DEF FirstDone
  <2>2. Pending' = Pending
    BY <2>1 DEF Pending
  <2>3. QED
    BY <2>1, <2>2, HandOver
<1>4. CASE TryShell
  <2>1. PICK i \in queue : (Try(i) \/ Wait(i)) /\ queue' = queue \ {i}
    BY <1>4 DEF TryShell
  <2>2. phase # phase' => phase' = "start"
    BY <2>1 DEF Try, Wait, Resolve, CommandFails, Ends
  <2>3. QED
    BY <1>4, <2>1, <2>2, TryKeeps DEF TryShell
<1>5. CASE RoundDone
  <2>1. phase = "second" /\ queue = {} /\ UNCHANGED <<setup, todo, valueVars>>
    BY <1>5 DEF RoundDone
  <2>2. CASE waiting # {} /\ moved
    <3>1. /\ queue' = {i \in waiting : ~setup[i].shell} /\ shells' = {i \in waiting : setup[i].shell}
          /\ waiting' = {} /\ phase' = "first"
      BY <1>5, <2>2 DEF RoundDone
    <3>2. Pending \subseteq Pending'
      BY <2>1, <3>1 DEF Pending
    <3>3. QED
      BY <2>1, <3>1, <3>2, HandOver
  <2>3. CASE ~(waiting # {} /\ moved)
    <3>1. phase' = "over" /\ UNCHANGED <<queue, shells, waiting>>
      BY <1>5, <2>3 DEF RoundDone, roundVars
    <3>2. Pending' = Pending
      BY <2>1, <3>1 DEF Pending
    <3>3. QED
      BY <2>1, <3>1, <3>2, HandOver
  <2>4. QED
    BY <2>2, <2>3
<1>6. CASE Over
  BY <1>6 DEF Over, Ends, BInv, Types, valueVars
<1>7. CASE UNCHANGED vars
  <2>1. UNCHANGED <<setup, todo, phase, queue, shells, waiting, resolved, confined>> /\ UNCHANGED valueVars
    BY <1>7 DEF vars, valueVars
  <2>2. CASE phase = "start"
    BY <2>1, <2>2 DEF BInv, Types
  <2>3. CASE phase # "start"
    <3>1. Pending' = Pending /\ phase \in {"first", "second", "over"}
      BY <2>1, <2>3 DEF Pending, BInv, Types
    <3>2. phase = "over" => queue = {}
      BY <2>3 DEF BInv, Scheduled
    <3>3. QED
      BY <2>1, <2>3, <3>1, <3>2, HandOver
  <2>4. QED
    BY <2>2, <2>3
<1>8. QED
  BY <1>1, <1>2, <1>3, <1>4, <1>5, <1>6, <1>7 DEF Next

\* BInv holds of every reachable state.
LEMMA BandsInvariant == Spec => []BInv
BY BandsInit, BandsNext, PTL DEF Spec

-----------------------------------------------------------------------------

\* Each key of a computation that resolves everything holds the value of the
\* entry declared furthest down that has something to put under it: claim and
\* the check for a literal in _try_resolve_entry, across every pass and round.
THEOREM BandsFurthestDownHolds == Spec => []FurthestDownHolds
<1>1. BInv => FurthestDownHolds
  <2>1. SUFFICES ASSUME BInv, Complete, NEW n \in Names, NEW i \in Contributors(n)
                 PROVE  resolved[n].by >= i
    BY DEF FurthestDownHolds
  <2>2. /\ Types /\ Scheduled /\ NoneLost
        /\ Pending = {}
    BY <2>1 DEF BInv, Complete, Scheduled, Pending
  <2>3. /\ i \in Effective \ Held /\ n \in Contribution(i)
        /\ i \in Nat
    BY <2>2, EffectiveDeclared, EntryFacts DEF Contributors, Contribution, Types
  <2>4. resolved[n].by \in Nat
    BY <2>2 DEF Types, Values
  <2>5. CASE IsCommand(i) /\ Yields(i, n)
    <3>1. n \in Keys /\ ~IsCommand(EntryOf(n)) /\ EntryOf(n) > i
      BY <2>5 DEF Yields
    <3>2. EntryOf(n) \in Effective \ Held /\ setup[EntryOf(n)].key = n
      BY <3>1, EntryOfKey DEF Held
    <3>3. Settled(EntryOf(n))
      BY <2>2, <3>2 DEF NoneLost
    <3>4. resolved[n].by >= EntryOf(n)
      BY <3>1, <3>2, <3>3 DEF Settled, Contribution
    <3>5. EntryOf(n) \in Nat
      BY <2>2, <3>2, EffectiveDeclared, EntryFacts DEF Types
    <3>6. QED
      BY <2>3, <2>4, <3>1, <3>4, <3>5
  <2>6. CASE ~(IsCommand(i) /\ Yields(i, n))
    BY <2>2, <2>3, <2>6 DEF NoneLost, Settled
  <2>7. QED
    BY <2>5, <2>6
<1>2. QED
  BY BandsInvariant, <1>1, PTL

\* No value a workspace entry writes is made of a feature or named band's, or
\* of the port base: visible_scope shows it what workspace entries wrote, even
\* where a feature command has overwritten the key since.
THEOREM BandsWorkspaceConfined == Spec => []WorkspaceConfined
<1>1. BInv => WorkspaceConfined
  <2>1. SUFFICES ASSUME BInv, phase # "start", NEW n \in Names, NEW v \in {confined[n], resolved[n]},
                        v.by \in DOMAIN setup, Restricted(v.by)
                 PROVE  WorkspaceOnly(v)
    BY DEF WorkspaceConfined, WorkspaceOnly
  <2>2. QED
    BY <2>1 DEF BInv, Confinement
<1>2. QED
  BY BandsInvariant, <1>1, PTL

-----------------------------------------------------------------------------
(***************************************************************************)
(* What is reached from what: a graph G leads each of its nodes to others. *)
(***************************************************************************)

\* The functions that InCycles's definition speaks of: what is reached in d + 1
\* steps at most.
Steps(f, G, C) ==
  f = [d \in 0..C |-> [k \in DOMAIN G |->
        IF d = 0 THEN G[k] ELSE f[d - 1][k] \cup UNION {f[d - 1][l] : l \in G[k]}]]

\* A set of naturals with 0 and the successors of its members has them all.
LEMMA NatSteps ==
  ASSUME NEW P, 0 \in P, \A n \in Nat : n \in P => n + 1 \in P
  PROVE  Nat \subseteq P
<1> SUFFICES ASSUME NEW bad \in Nat, bad \notin P PROVE FALSE
  OBVIOUS
<1> DEFINE T == {n \in Nat : n \notin P}
           R == {p \in Nat \X Nat : p[1] < p[2]}
<1>1. IsWellFoundedOn(R, Nat)
  BY NatLessThanWellFounded DEF OpToRel
<1>2. \A x, y \in Nat : y < x => <<y, x>> \in R
  OBVIOUS
<1> HIDE DEF R
<1>3. PICK n \in T : \A y \in T : ~(<<y, n>> \in R)
  BY <1>1, WFMin
<1>4. n # 0 /\ n \in Nat
  OBVIOUS
<1>5. n - 1 \in Nat /\ n - 1 < n /\ (n - 1) + 1 = n
  BY <1>4
<1>6. n - 1 \in P
  BY <1>2, <1>3, <1>4, <1>5
<1>7. QED
  BY <1>3, <1>4, <1>5, <1>6

\* A set of naturals that has one whenever it has those below has them all.
LEMMA NatBelow ==
  ASSUME NEW P, \A n \in Nat : (\A m \in 0..n - 1 : m \in P) => n \in P
  PROVE  Nat \subseteq P
<1> DEFINE Q == {n \in Nat : \A m \in 0..n - 1 : m \in P}
<1>1. 0 \in Q
  OBVIOUS
<1>2. ASSUME NEW n \in Nat, n \in Q PROVE n + 1 \in Q
  <2>1. n \in P
    BY <1>2
  <2>2. \A m \in 0..(n + 1) - 1 : m \in 0..n - 1 \/ m = n
    OBVIOUS
  <2>3. QED
    BY <1>2, <2>1, <2>2
<1>3. Nat \subseteq Q
  <2> HIDE DEF Q
  <2>1. QED
    BY <1>1, <1>2, NatSteps
<1>4. QED
  BY <1>3

\* What such a function is at each number of steps.
LEMMA StepsAt ==
  ASSUME NEW G, NEW C \in Nat, NEW f, Steps(f, G, C)
  PROVE  /\ \A k \in DOMAIN G : f[0][k] = G[k]
         /\ \A d \in 1..C : \A k \in DOMAIN G :
              f[d][k] = f[d - 1][k] \cup UNION {f[d - 1][l] : l \in G[k]}
<1> DEFINE at(d) == [k \in DOMAIN G |->
        IF d = 0 THEN G[k] ELSE f[d - 1][k] \cup UNION {f[d - 1][l] : l \in G[k]}]
<1>1. f = [d \in 0..C |-> at(d)]
  BY DEF Steps
<1>2. \A k \in DOMAIN G : at(0)[k] = G[k]
  OBVIOUS
<1>3. \A d \in 1..C : d # 0 /\ d \in 0..C
  OBVIOUS
<1>4. \A d \in 1..C : \A k \in DOMAIN G :
        at(d)[k] = f[d - 1][k] \cup UNION {f[d - 1][l] : l \in G[k]}
  BY <1>3
<1> HIDE DEF at
<1>5. 0 \in 0..C /\ \A d \in 0..C : f[d] = at(d)
  BY <1>1
<1>6. QED
  BY <1>2, <1>3, <1>4, <1>5

\* There is one for every number of steps.
LEMMA StepsExist ==
  ASSUME NEW G, NEW C \in Nat
  PROVE  \E f : Steps(f, G, C)
<1> DEFINE P == {n \in Nat : \E f : Steps(f, G, n)}
           next(f, n) == [d \in 0..n |-> [k \in DOMAIN G |->
             IF d = 0 THEN G[k] ELSE f[d - 1][k] \cup UNION {f[d - 1][l] : l \in G[k]}]]
<1>1. 0 \in P
  <2>1. Steps([d \in 0..0 |-> [k \in DOMAIN G |-> G[k]]], G, 0)
    BY DEF Steps
  <2>2. QED
    BY <2>1
<1>2. ASSUME NEW n \in Nat, n \in P PROVE n + 1 \in P
  <2>1. PICK f : Steps(f, G, n)
    BY <1>2
  <2>2. PICK g : g = next(f, n + 1)
    OBVIOUS
  <2>3. f = next(f, n)
    BY <2>1 DEF Steps
  <2>4. \A d \in 0..n : g[d] = f[d]
    <3>1. \A d \in 0..n : next(f, n)[d] = next(f, n + 1)[d]
      OBVIOUS
    <3> HIDE DEF next
    <3>2. QED
      BY <2>2, <2>3, <3>1
  <2>5. \A d \in 0..n + 1 : d # 0 => d - 1 \in 0..n
    OBVIOUS
  <2>6. \A d \in 0..n + 1 : d # 0 => f[d - 1] = g[d - 1]
    BY <2>4, <2>5
  <2>7. next(f, n + 1) = next(g, n + 1)
    BY <2>6
  <2>8. Steps(g, G, n + 1)
    <3>1. g = next(g, n + 1)
      BY <2>2, <2>7
    <3>2. QED
      BY <3>1 DEF Steps
  <2>9. QED
    BY <2>8
<1>3. Nat \subseteq P
  <2> HIDE DEF P
  <2>1. QED
    BY <1>1, <1>2, NatSteps
<1>4. QED
  BY <1>3

\* It may be read from the other end: a step more from what was reached.
LEMMA StepsOn ==
  ASSUME NEW K, NEW G \in [K -> SUBSET K], NEW C \in Nat, NEW f, Steps(f, G, C)
  PROVE  /\ \A d \in 0..C : \A k \in K : f[d][k] \subseteq K
         /\ \A d \in 1..C : \A k \in K :
              f[d][k] = f[d - 1][k] \cup UNION {G[m] : m \in f[d - 1][k]}
<1>0. DOMAIN G = K /\ \A k \in K : G[k] \subseteq K
  OBVIOUS
<1>1. /\ \A k \in K : f[0][k] = G[k]
      /\ \A d \in 1..C : \A k \in K : f[d][k] = f[d - 1][k] \cup UNION {f[d - 1][l] : l \in G[k]}
  BY <1>0, StepsAt
<1> DEFINE P == {d \in Nat : d <= C => \A k \in K : f[d][k] \subseteq K}
           Q == {d \in Nat : d + 1 <= C => \A k \in K :
                   f[d + 1][k] = f[d][k] \cup UNION {G[m] : m \in f[d][k]}}
<1>2. Nat \subseteq P
  <2>1. 0 \in P
    BY <1>0, <1>1
  <2>2. ASSUME NEW n \in Nat, n \in P PROVE n + 1 \in P
    <3> SUFFICES ASSUME n + 1 <= C, NEW k \in K PROVE f[n + 1][k] \subseteq K
      OBVIOUS
    <3>1. n + 1 \in 1..C /\ (n + 1) - 1 = n /\ n <= C
      OBVIOUS
    <3>2. f[n + 1][k] = f[n][k] \cup UNION {f[n][l] : l \in G[k]}
      BY <1>1, <3>1
    <3>3. \A l \in K : f[n][l] \subseteq K
      BY <2>2, <3>1
    <3>4. QED
      BY <1>0, <3>2, <3>3
  <2> HIDE DEF P
  <2>3. QED
    BY <2>1, <2>2, NatSteps
<1>3. Nat \subseteq Q
  <2>1. 0 \in Q
    <3> SUFFICES ASSUME 0 + 1 <= C, NEW k \in K
                 PROVE  f[0 + 1][k] = f[0][k] \cup UNION {G[m] : m \in f[0][k]}
      OBVIOUS
    <3>1. 0 + 1 = 1 /\ 1 \in 1..C /\ 1 - 1 = 0
      OBVIOUS
    <3>2. f[1][k] = f[0][k] \cup UNION {f[0][l] : l \in G[k]}
      BY <1>1, <3>1
    <3>3. f[0][k] = G[k] /\ \A l \in G[k] : f[0][l] = G[l]
      BY <1>0, <1>1
    <3>4. UNION {f[0][l] : l \in G[k]} = UNION {G[m] : m \in f[0][k]}
      BY <3>3
    <3>5. QED
      BY <3>1, <3>2, <3>4
  <2>2. ASSUME NEW n \in Nat, n \in Q PROVE n + 1 \in Q
    <3> SUFFICES ASSUME (n + 1) + 1 <= C, NEW k \in K
                 PROVE  f[(n + 1) + 1][k] = f[n + 1][k] \cup UNION {G[m] : m \in f[n + 1][k]}
      OBVIOUS
    <3>1. PICK a \in 1..C : a = n + 1 /\ a - 1 = n /\ a + 1 \in 1..C /\ (a + 1) - 1 = a
      OBVIOUS
    <3>2. \A l \in K : f[a + 1][l] = f[a][l] \cup UNION {f[a][m] : m \in G[l]}
      BY <1>1, <3>1
    <3>3. \A l \in K : f[a][l] = f[n][l] \cup UNION {f[n][m] : m \in G[l]}
      BY <1>1, <3>1
    <3>4. \A l \in K : f[a][l] = f[n][l] \cup UNION {G[m] : m \in f[n][l]}
      BY <2>2, <3>1
    <3>5. ASSUME NEW x \in f[a + 1][k] PROVE x \in f[a][k] \cup UNION {G[m] : m \in f[a][k]}
      <4>1. CASE x \in f[a][k]
        BY <4>1
      <4>2. CASE x \notin f[a][k]
        <5>1. PICK l \in G[k] : x \in f[a][l]
          BY <3>2, <3>5, <4>2
        <5>2. l \in K
          BY <1>0, <5>1
        <5>3. CASE x \in f[n][l]
          BY <3>3, <5>1, <5>3
        <5>4. CASE x \notin f[n][l]
          <6>1. PICK m \in f[n][l] : x \in G[m]
            BY <3>4, <5>1, <5>2, <5>4
          <6>2. m \in f[a][k]
            BY <3>3, <5>1, <6>1
          <6>3. QED
            BY <6>1, <6>2
        <5>5. QED
          BY <5>3, <5>4
      <4>3. QED
        BY <4>1, <4>2
    <3>6. ASSUME NEW m \in f[a][k], NEW x \in G[m] PROVE x \in f[a + 1][k]
      <4>1. CASE m \in f[n][k]
        <5>1. x \in f[a][k]
          BY <3>4, <3>6, <4>1
        <5>2. QED
          BY <3>2, <5>1
      <4>2. CASE m \notin f[n][k]
        <5>1. PICK l \in G[k] : m \in f[n][l]
          BY <3>3, <3>6, <4>2
        <5>2. l \in K
          BY <1>0, <5>1
        <5>3. x \in f[a][l]
          BY <3>4, <3>6, <5>1, <5>2
        <5>4. QED
          BY <3>2, <5>1, <5>3
      <4>3. QED
        BY <4>1, <4>2
    <3>7. f[a][k] \subseteq f[a + 1][k]
      BY <3>2
    <3>8. QED
      BY <3>1, <3>5, <3>6, <3>7
  <2> HIDE DEF Q
  <2>3. QED
    BY <2>1, <2>2, NatSteps
<1>4. ASSUME NEW d \in 1..C, NEW k \in K
      PROVE  f[d][k] = f[d - 1][k] \cup UNION {G[m] : m \in f[d - 1][k]}
  <2>1. d - 1 \in Nat /\ (d - 1) + 1 = d /\ (d - 1) + 1 <= C
    OBVIOUS
  <2>2. QED
    BY <1>3, <2>1
<1>5. \A d \in 0..C : d \in Nat /\ d <= C
  OBVIOUS
<1>6. QED
  BY <1>2, <1>4, <1>5

\* In as many steps as there are nodes all is reached that ever is: whatever a
\* node reached leads to was reached as well.
LEMMA StepsClose ==
  ASSUME NEW K, IsFiniteSet(K), NEW G \in [K -> SUBSET K], NEW C \in Nat, Cardinality(K) <= C,
         NEW f, Steps(f, G, C)
  PROVE  \A k \in K : /\ f[C][k] \subseteq K /\ G[k] \subseteq f[C][k]
                      /\ \A m \in f[C][k] : G[m] \subseteq f[C][k]
<1> SUFFICES ASSUME NEW k \in K
             PROVE  /\ f[C][k] \subseteq K /\ G[k] \subseteq f[C][k]
                    /\ \A m \in f[C][k] : G[m] \subseteq f[C][k]
  OBVIOUS
<1>1. /\ f[0][k] = G[k]
      /\ \A d \in 0..C : f[d][k] \subseteq K
      /\ \A d \in 1..C : f[d][k] = f[d - 1][k] \cup UNION {G[m] : m \in f[d - 1][k]}
  <2>1. DOMAIN G = K
    OBVIOUS
  <2>2. QED
    BY <2>1, StepsAt, StepsOn
<1> DEFINE Closed(S) == \A m \in S : G[m] \subseteq S
           P == {d \in Nat : d <= C => /\ G[k] \subseteq f[d][k]
                                       /\ Closed(f[d][k]) \/ Cardinality(f[d][k]) >= d}
<1>2. Nat \subseteq P
  <2>1. 0 \in P
    <3>1. IsFiniteSet(f[0][k]) /\ Cardinality(f[0][k]) \in Nat
      <4>1. f[0][k] \subseteq K
        BY <1>1
      <4>2. QED
        BY <4>1, FS_Subset, FS_CardinalityType
    <3>2. QED
      BY <1>1, <3>1
  <2>2. ASSUME NEW n \in Nat, n \in P PROVE n + 1 \in P
    <3> SUFFICES ASSUME n + 1 <= C
                 PROVE  /\ G[k] \subseteq f[n + 1][k]
                        /\ Closed(f[n + 1][k]) \/ Cardinality(f[n + 1][k]) >= n + 1
      OBVIOUS
    <3>1. PICK a \in 1..C : a = n + 1 /\ a - 1 = n /\ n \in 0..C /\ a \in 0..C /\ n <= C
      OBVIOUS
    <3>2. f[a][k] = f[n][k] \cup UNION {G[m] : m \in f[n][k]}
      BY <1>1, <3>1
    <3>3. G[k] \subseteq f[n][k] /\ (Closed(f[n][k]) \/ Cardinality(f[n][k]) >= n)
      BY <2>2, <3>1
    <3>4. CASE Closed(f[n][k])
      <4>1. f[a][k] = f[n][k]
        BY <3>2, <3>4
      <4>2. QED
        BY <3>1, <3>3, <3>4, <4>1
    <3>5. CASE ~Closed(f[n][k])
      <4>1. f[n][k] \subseteq f[a][k] /\ f[n][k] # f[a][k]
        BY <3>2, <3>5
      <4>2. IsFiniteSet(f[a][k])
        BY <1>1, <3>1, FS_Subset
      <4>3. /\ Cardinality(f[n][k]) <= Cardinality(f[a][k])
            /\ Cardinality(f[n][k]) # Cardinality(f[a][k])
        BY <4>1, <4>2, FS_Subset
      <4>4. Cardinality(f[n][k]) \in Nat /\ Cardinality(f[a][k]) \in Nat
        BY <4>1, <4>2, FS_Subset, FS_CardinalityType
      <4>5. QED
        BY <3>1, <3>3, <3>5, <4>1, <4>3, <4>4
    <3>6. QED
      BY <3>4, <3>5
  <2> HIDE DEF P
  <2>3. QED
    BY <2>1, <2>2, NatSteps
<1>3. C \in 0..C /\ C <= C
  OBVIOUS
<1>4. f[C][k] \subseteq K /\ G[k] \subseteq f[C][k] /\ (Closed(f[C][k]) \/ Cardinality(f[C][k]) >= C)
  BY <1>1, <1>2, <1>3
<1>5. CASE Closed(f[C][k])
  BY <1>4, <1>5
<1>6. CASE ~Closed(f[C][k])
  <2>1. Cardinality(f[C][k]) <= Cardinality(K) /\ Cardinality(f[C][k]) \in Nat /\ Cardinality(K) \in Nat
    BY <1>4, FS_Subset, FS_CardinalityType
  <2>2. Cardinality(f[C][k]) = Cardinality(K)
    BY <1>4, <1>6, <2>1
  <2>3. f[C][k] = K
    BY <1>4, <2>2, FS_Subset
  <2>4. QED
    BY <1>6, <2>3
<1>7. QED
  BY <1>5, <1>6

\* So what is reached from something reached is reached.
LEMMA StepsThrough ==
  ASSUME NEW K, IsFiniteSet(K), NEW G \in [K -> SUBSET K], NEW C \in Nat, Cardinality(K) <= C,
         NEW f, Steps(f, G, C)
  PROVE  \A k \in K : \A m \in f[C][k] : f[C][m] \subseteq f[C][k]
<1> SUFFICES ASSUME NEW k \in K PROVE \A m \in f[C][k] : f[C][m] \subseteq f[C][k]
  OBVIOUS
<1>1. PICK S : S = f[C][k]
  OBVIOUS
<1>2. S \subseteq K /\ \A m \in S : G[m] \subseteq S
  BY <1>1, StepsClose
<1>3. /\ \A m \in K : f[0][m] = G[m]
      /\ \A d \in 1..C : \A m \in K : f[d][m] = f[d - 1][m] \cup UNION {G[l] : l \in f[d - 1][m]}
  <2>1. DOMAIN G = K
    OBVIOUS
  <2>2. QED
    BY <2>1, StepsAt, StepsOn
<1> DEFINE P == {d \in Nat : d <= C => \A m \in S : f[d][m] \subseteq S}
<1>4. 0 \in P
  BY <1>2, <1>3
<1>5. ASSUME NEW n \in Nat, n \in P PROVE n + 1 \in P
  <2> SUFFICES ASSUME n + 1 <= C, NEW m \in S PROVE f[n + 1][m] \subseteq S
    OBVIOUS
  <2>1. PICK a \in 1..C : a = n + 1 /\ a - 1 = n /\ n <= C
    OBVIOUS
  <2>2. f[a][m] = f[n][m] \cup UNION {G[l] : l \in f[n][m]}
    BY <1>2, <1>3, <2>1
  <2>3. f[n][m] \subseteq S
    BY <1>5, <2>1
  <2>4. QED
    BY <1>2, <2>1, <2>2, <2>3
<1>6. Nat \subseteq P
  <2> HIDE DEF P
  <2>1. QED
    BY <1>4, <1>5, NatSteps
<1>7. QED
  BY <1>1, <1>6

-----------------------------------------------------------------------------
(***************************************************************************)
(* What is said of the entries that are left.                              *)
(***************************************************************************)

Left == {setup[i].key : i \in waiting}
Causes == {"undefined", "never supplied", "cycle", "withheld"}

\* The entries left are finitely many, and each is its key's.
LEMMA LeftParts ==
  ASSUME Types, Scheduled
  PROVE  /\ waiting \subseteq Effective \ Held /\ waiting \subseteq DOMAIN setup
         /\ IsFiniteSet(waiting) /\ Cardinality(waiting) \in Nat
         /\ IsFiniteSet(Left) /\ Cardinality(Left) <= Cardinality(waiting)
         /\ Left \subseteq Keys
         /\ \A i \in waiting : EntryOf(setup[i].key) = i /\ setup[i].key \in Left
         /\ \A n \in Left : EntryOf(n) \in waiting /\ setup[EntryOf(n)].key = n
<1>1. waiting \subseteq Effective \ Held /\ waiting \subseteq DOMAIN setup
  BY EffectiveDeclared DEF Scheduled
<1>2. setup \in Seq(Entry) /\ DOMAIN setup = 1..Len(setup) /\ Len(setup) \in Nat
  BY DEF Types
<1>3. IsFiniteSet(waiting) /\ Cardinality(waiting) \in Nat
  <2>1. IsFiniteSet(1..Len(setup))
    BY <1>2, FS_Interval
  <2>2. QED
    BY <1>1, <1>2, <2>1, FS_Subset, FS_CardinalityType
<1>4. ASSUME NEW i \in waiting PROVE EntryOf(setup[i].key) = i /\ setup[i].key \in Left
  <2>1. i \in Effective /\ i \in Declared /\ i \in Nat
    BY <1>1, <1>2 DEF Effective
  <2>2. setup[i].key \in Keys
    BY <2>1 DEF Keys
  <2>3. PICK j : j = EntryOf(setup[i].key)
    OBVIOUS
  <2>4. j \in Effective /\ setup[j].key = setup[i].key
    BY <2>2, <2>3, EntryOfKey
  <2>5. j \in Declared /\ j \in Nat
    BY <1>2, <2>4 DEF Effective, Declared
  <2>6. ~(j > i) /\ ~(i > j)
    BY <2>1, <2>4, <2>5 DEF Effective
  <2>7. QED
    BY <2>1, <2>3, <2>5, <2>6 DEF Left
<1>5. Left \subseteq Keys
  BY <1>1 DEF Left, Keys
<1>6. \A n \in Left : EntryOf(n) \in waiting /\ setup[EntryOf(n)].key = n
  BY <1>4 DEF Left
<1>7. IsFiniteSet(Left) /\ Cardinality(Left) <= Cardinality(waiting)
  <2> DEFINE f == [i \in waiting |-> setup[i].key]
  <2>1. f \in Surjection(waiting, Left)
    BY DEF Surjection, Left
  <2>2. QED
    BY <1>3, <2>1, FS_Surjection
<1>8. QED
  BY <1>1, <1>3, <1>4, <1>5, <1>6, <1>7

\* What is reached from each key that is left; the ones in a cycle reach
\* themselves.
LEMMA CycleParts ==
  ASSUME Types, Scheduled
  PROVE  \E reached \in [Left -> SUBSET Left] :
           /\ InCycles = {k \in Left : k \in reached[k]}
           /\ \A k \in Left : /\ setup[EntryOf(k)].refs \cap Left \subseteq reached[k]
                              /\ \A m \in reached[k] : reached[m] \subseteq reached[k]
<1> DEFINE C == Cardinality(waiting)
<1>1. C \in Nat /\ IsFiniteSet(Left) /\ Cardinality(Left) <= C
  BY LeftParts
<1>2. DOMAIN Leads = Left /\ \A k \in Left : Leads[k] = setup[EntryOf(k)].refs \cap Left
  BY DEF Leads, Left
<1>3. Leads \in [Left -> SUBSET Left]
  BY DEF Leads, Left
<1>4. PICK after : after = CHOOSE f : Steps(f, Leads, C)
  OBVIOUS
<1>5. InCycles = {k \in DOMAIN Leads : k \in after[C][k]}
  BY <1>4 DEF InCycles, Steps
<1>6. Steps(after, Leads, C)
  BY <1>1, <1>4, StepsExist
<1>7. PICK G \in [Left -> SUBSET Left] : G = Leads
  BY <1>3
<1> HIDE DEF C
<1>8. \A k \in Left : after[C][k] \subseteq Left /\ G[k] \subseteq after[C][k]
  BY <1>1, <1>6, <1>7, StepsClose
<1>9. \A k \in Left : \A m \in after[C][k] : after[C][m] \subseteq after[C][k]
  BY <1>1, <1>6, <1>7, StepsThrough
<1>10. PICK reached \in [Left -> SUBSET Left] : reached = [k \in Left |-> after[C][k]]
  <2>1. [k \in Left |-> after[C][k]] \in [Left -> SUBSET Left]
    BY <1>8
  <2>2. QED
    BY <2>1
<1>11. \A k \in Left : reached[k] = after[C][k]
  BY <1>10
<1>12. InCycles = {k \in Left : k \in reached[k]}
  BY <1>2, <1>5, <1>11
<1>13. ASSUME NEW k \in Left
       PROVE  /\ setup[EntryOf(k)].refs \cap Left \subseteq reached[k]
              /\ \A m \in reached[k] : reached[m] \subseteq reached[k]
  <2>1. setup[EntryOf(k)].refs \cap Left \subseteq reached[k]
    BY <1>2, <1>7, <1>8, <1>11
  <2>2. \A m \in reached[k] : m \in Left
    OBVIOUS
  <2>3. QED
    BY <1>9, <1>11, <2>1, <2>2
<1>14. QED
  BY <1>12, <1>13

\* A reference that is missing at the end has a cause, or is blocked.
LEMMA MissingExplained ==
  ASSUME BInv, phase = "over", NEW i \in waiting, NEW n \in Missing(i)
  PROVE  \/ Reason(i, n) \in Causes
         \/ Reason(i, n) = "blocked" /\ n \in Left \ InCycles
<1>1. Types /\ Scheduled /\ NoneLost /\ Supplied
  BY DEF BInv
<1>2. waiting \subseteq Effective \ Held /\ waiting \subseteq DOMAIN setup /\ Left \subseteq Keys
      /\ \A k \in Left : EntryOf(k) \in waiting
      /\ \A j \in waiting : EntryOf(setup[j].key) = j /\ setup[j].key \in Left
  BY <1>1, LeftParts
<1>3. Pending = waiting
  BY <1>1 DEF Scheduled, Pending
<1>4. n \in setup[i].refs /\ n \in Names /\ Visible(i)[n] = Unset /\ n \notin Gated
  BY <1>1, <1>2, EntryFacts DEF Missing, Types
<1>5. Visible(i)[n] =
        IF ~Restricted(i)
        THEN IF n = setup[i].key /\ n \in BaseKeys /\ resolved[n] = Unset THEN Base(n) ELSE resolved[n]
        ELSE IF IsBaseVar(n) THEN IF n \in BaseKeys \ {PortBase} THEN Base(n) ELSE Unset
        ELSE IF n \in Keys /\ Restricted(EntryOf(n)) THEN confined[n] ELSE Unset
  BY <1>4 DEF Visible, ConfinedValue
<1>6. Base(n) # Unset
  BY DEF Base, Unset
<1>7. DOMAIN Leads = Left
  BY DEF Leads, Left
<1>8. InCycles \subseteq Left
  BY <1>7 DEF InCycles
<1>9. CASE n \in Left
  <2>1. n \in Keys /\ EntryOf(n) \in waiting
    BY <1>2, <1>9
  <2>2. CASE n \notin Reachable(i)
    <3>1. Reason(i, n) = "undefined"
      BY <1>7, <2>1, <2>2 DEF Reason
    <3>2. QED
      BY <3>1 DEF Causes
  <2>3. CASE n \in Reachable(i) /\ n \in InCycles
    <3>1. Reason(i, n) = "cycle"
      BY <1>7, <2>1, <2>3 DEF Reason
    <3>2. QED
      BY <3>1 DEF Causes
  <2>4. CASE n \in Reachable(i) /\ n \notin InCycles
    <3>1. Reason(i, n) = "blocked"
      BY <1>7, <1>9, <2>1, <2>4 DEF Reason
    <3>2. QED
      BY <1>9, <2>4, <3>1
  <2>5. QED
    BY <2>2, <2>3, <2>4
<1>10. CASE n \notin Left
  <2>1. n \notin InCycles
    BY <1>8, <1>10
  <2>2. CASE n \notin Reachable(i)
    <3>1. Reason(i, n) = "undefined"
      BY <1>7, <1>10, <2>1, <2>2 DEF Reason
    <3>2. QED
      BY <3>1 DEF Causes
  <2>3. ASSUME n \in Reachable(i) PROVE n \in Keys /\ IsCommand(EntryOf(n)) /\ EntryOf(n) \notin waiting
    <3>1. n \in Keys => /\ EntryOf(n) \in Effective /\ setup[EntryOf(n)].key = n
                        /\ EntryOf(n) \notin waiting
      BY <1>10, EntryOfKey DEF Left
    <3>2. ASSUME n \in Keys, ~IsCommand(EntryOf(n))
          PROVE  /\ resolved[n] # Unset
                 /\ Restricted(EntryOf(n)) => confined[n] # Unset
      <4>1. PICK j : j = EntryOf(n)
        OBVIOUS
      <4>2. j \in Effective \ Held /\ j \in Nat /\ j > 0 /\ setup[j].key = n /\ j \notin Pending
        BY <1>1, <1>3, <3>1, <3>2, <4>1, EffectiveDeclared, EntryFacts DEF Types, Held
      <4>3. resolved[n].by >= j
        BY <1>1, <3>2, <4>1, <4>2 DEF NoneLost, Settled, Contribution
      <4>4. Restricted(j) => confined[n].by >= j
        BY <1>1, <3>2, <4>1, <4>2 DEF Supplied
      <4>5. Unset.by = 0
        BY DEF Unset
      <4>6. QED
        BY <4>1, <4>2, <4>3, <4>4, <4>5
    <3>3. CASE Restricted(i)
      <4>1. n \in (BaseKeys \ {PortBase}) \cup {k \in Keys : Restricted(EntryOf(k)) /\ ~IsBaseVar(k)}
        BY <2>3, <3>3 DEF Reachable
      <4>2. n \notin BaseKeys \ {PortBase}
        BY <1>4, <1>5, <1>6, <3>3 DEF IsBaseVar
      <4>3. n \in Keys /\ Restricted(EntryOf(n)) /\ ~IsBaseVar(n)
        BY <4>1, <4>2
      <4>4. confined[n] = Unset
        BY <1>4, <1>5, <3>3, <4>3
      <4>5. QED
        BY <3>1, <3>2, <4>3, <4>4
    <3>4. CASE ~Restricted(i)
      <4>1. n \in BaseKeys \cup Keys
        BY <2>3, <3>4 DEF Reachable
      <4>2. resolved[n] = Unset
        BY <1>4, <1>5, <1>6, <3>4
      <4>3. n \in Keys
        BY <1>1, <4>1, <4>2 DEF Supplied
      <4>4. QED
        BY <3>1, <3>2, <4>2, <4>3
    <3>5. QED
      BY <3>3, <3>4
  <2>4. CASE n \in Reachable(i)
    <3>1. Reason(i, n) = "never supplied"
      BY <1>7, <1>10, <2>1, <2>3, <2>4 DEF Reason
    <3>2. QED
      BY <3>1 DEF Causes
  <2>5. QED
    BY <2>2, <2>4
<1>11. QED
  BY <1>9, <1>10

\* From entry i the blame leads to a cause, in a path of at most n entries.
Blames(i, n) ==
  \E path \in [1..Cardinality(waiting) -> waiting] :
    /\ path[1] = i
    /\ \E last \in DOMAIN path :
        /\ last <= n
        /\ Reasons(path[last]) \subseteq Causes
        /\ \A p \in 1..(last - 1) : \E m \in Missing(path[p]) :
             Reason(path[p], m) = "blocked" /\ EntryOf(m) = path[p + 1]

\* An entry that is not blocked is its own cause.
LEMMA BlamesItself ==
  ASSUME NEW i \in waiting, Reasons(i) \subseteq Causes, NEW n \in Nat, n >= 1,
         Cardinality(waiting) \in Nat, Cardinality(waiting) >= 1
  PROVE  Blames(i, n)
<1>1. PICK path \in [1..Cardinality(waiting) -> waiting] :
        path = [p \in 1..Cardinality(waiting) |-> i]
  OBVIOUS
<1>2. 1 \in DOMAIN path /\ path[1] = i /\ 1 <= n
  BY <1>1
<1>3. \A p \in 1..(1 - 1) : FALSE
  OBVIOUS
<1>4. QED
  BY <1>2, <1>3 DEF Blames

\* One that is blocked by another shares the other's.
LEMMA BlamesAnother ==
  ASSUME NEW i \in waiting, NEW m \in Missing(i), Reason(i, m) = "blocked",
         Cardinality(waiting) \in Nat,
         NEW n \in Nat, n + 1 <= Cardinality(waiting), Blames(EntryOf(m), n)
  PROVE  Blames(i, n + 1)
<1> DEFINE C == Cardinality(waiting)
<1>1. PICK path \in [1..C -> waiting], last \in 1..C :
        /\ path[1] = EntryOf(m) /\ last <= n
        /\ Reasons(path[last]) \subseteq Causes
        /\ \A p \in 1..(last - 1) : \E k \in Missing(path[p]) :
             Reason(path[p], k) = "blocked" /\ EntryOf(k) = path[p + 1]
  BY DEF Blames
<1> HIDE DEF C
<1>2. C = Cardinality(waiting) /\ C \in Nat
  BY DEF C
<1>3. \A p \in 1..C : p # 1 => p - 1 \in 1..C
  BY <1>2
<1>4. PICK on \in [1..C -> waiting] : on = [p \in 1..C |-> IF p = 1 THEN i ELSE path[p - 1]]
  <2>1. [p \in 1..C |-> IF p = 1 THEN i ELSE path[p - 1]] \in [1..C -> waiting]
    BY <1>3
  <2>2. QED
    BY <2>1
<1>5. \A p \in 1..C : on[p] = IF p = 1 THEN i ELSE path[p - 1]
  BY <1>4
<1>6. last + 1 \in 1..C /\ last + 1 <= n + 1 /\ (last + 1) - 1 = last /\ last + 1 # 1 /\ 1 \in 1..C
  BY <1>1, <1>2
<1>7. on[1] = i /\ on[last + 1] = path[last]
  BY <1>5, <1>6
<1>8. ASSUME NEW p \in 1..((last + 1) - 1)
      PROVE  \E k \in Missing(on[p]) : Reason(on[p], k) = "blocked" /\ EntryOf(k) = on[p + 1]
  <2>1. p \in 1..C /\ p + 1 \in 1..C /\ (p + 1) - 1 = p /\ p + 1 # 1 /\ on[p + 1] = path[p]
    <3>1. p \in 1..C /\ p + 1 \in 1..C /\ (p + 1) - 1 = p /\ p + 1 # 1
      BY <1>2, <1>6
    <3>2. QED
      BY <1>5, <3>1
  <2>2. CASE p = 1
    BY <1>1, <1>7, <2>1, <2>2
  <2>3. CASE p # 1
    <3>1. p - 1 \in 1..(last - 1) /\ (p - 1) + 1 = p
      BY <2>3
    <3>2. on[p] = path[p - 1]
      BY <1>5, <2>1, <2>3
    <3>3. QED
      BY <1>1, <2>1, <3>1, <3>2
  <2>4. QED
    BY <2>2, <2>3
<1>9. last + 1 \in DOMAIN on
  BY <1>6
<1>10. /\ on[1] = i
       /\ \E end \in DOMAIN on :
           /\ end <= n + 1
           /\ Reasons(on[end]) \subseteq Causes
           /\ \A p \in 1..(end - 1) : \E k \in Missing(on[p]) :
                Reason(on[p], k) = "blocked" /\ EntryOf(k) = on[p + 1]
  <2>1. Reasons(on[last + 1]) \subseteq Causes
    BY <1>1, <1>7
  <2>2. QED
    BY <1>6, <1>7, <1>8, <1>9, <2>1
<1>11. on \in [1..Cardinality(waiting) -> waiting]
  BY <1>2, <1>4
<1>12. QED
  BY <1>10, <1>11 DEF Blames

\* From every entry that is left the blame leads to a cause: what a blocked
\* reference reaches shrinks at every step, as it does not reach itself.
LEMMA BlameLeads ==
  ASSUME BInv, phase = "over", NEW i \in waiting
  PROVE  Blames(i, Cardinality(waiting))
<1>1. Types /\ Scheduled
  BY DEF BInv
<1>2. /\ waiting \subseteq DOMAIN setup /\ IsFiniteSet(waiting) /\ Cardinality(waiting) \in Nat
      /\ IsFiniteSet(Left) /\ Cardinality(Left) <= Cardinality(waiting)
      /\ \A j \in waiting : EntryOf(setup[j].key) = j /\ setup[j].key \in Left
      /\ \A n \in Left : EntryOf(n) \in waiting /\ setup[EntryOf(n)].key = n
  BY <1>1, LeftParts
<1>3. PICK reached \in [Left -> SUBSET Left] :
           /\ InCycles = {k \in Left : k \in reached[k]}
           /\ \A k \in Left : /\ setup[EntryOf(k)].refs \cap Left \subseteq reached[k]
                              /\ \A m \in reached[k] : reached[m] \subseteq reached[k]
  BY <1>1, CycleParts
<1>4. PICK C \in Nat : C = Cardinality(waiting)
  BY <1>2
<1>5. Cardinality(Left) \in Nat /\ Cardinality(Left) <= C
  BY <1>2, <1>4, FS_CardinalityType
<1>6. \A k \in Left : IsFiniteSet(reached[k]) /\ Cardinality(reached[k]) \in Nat
  BY <1>2, FS_Subset, FS_CardinalityType
<1>7. C >= 1
  <2>1. waiting # {}
    OBVIOUS
  <2>2. C # 0
    BY <1>2, <1>4, <2>1, FS_EmptySet
  <2>3. QED
    BY <2>2
<1>8. ASSUME NEW j \in waiting, ~(Reasons(j) \subseteq Causes)
      PROVE  \E m \in Missing(j) : /\ Reason(j, m) = "blocked" /\ m \in Left /\ m \notin reached[m]
                                   /\ m \in reached[setup[j].key]
                                   /\ reached[m] \subseteq reached[setup[j].key]
  <2>1. Missing(j) # {}
    <3>1. "withheld" \in Causes
      BY DEF Causes
    <3>2. QED
      BY <1>8, <3>1 DEF Reasons
  <2>2. PICK m \in Missing(j) : Reason(j, m) \notin Causes
    BY <1>8, <2>1 DEF Reasons
  <2>3. Reason(j, m) = "blocked" /\ m \in Left \ InCycles
    BY <2>2, MissingExplained
  <2>4. m \in setup[j].refs
    BY DEF Missing
  <2>5. setup[j].key \in Left /\ EntryOf(setup[j].key) = j
    BY <1>2
  <2>6. m \in reached[setup[j].key]
    BY <1>3, <2>3, <2>4, <2>5
  <2>7. QED
    BY <1>3, <2>3, <2>5, <2>6
<1> DEFINE P == {s \in Nat : \A j \in waiting :
                   /\ setup[j].key \notin reached[setup[j].key]
                   /\ Cardinality(reached[setup[j].key]) = s
                   => Blames(j, s + 1)}
<1>9. Nat \subseteq P
  <2>1. ASSUME NEW s \in Nat, \A t \in 0..s - 1 : t \in P PROVE s \in P
    <3> SUFFICES ASSUME NEW j \in waiting, setup[j].key \notin reached[setup[j].key],
                        Cardinality(reached[setup[j].key]) = s
                 PROVE  Blames(j, s + 1)
      OBVIOUS
    <3>1. CASE Reasons(j) \subseteq Causes
      BY <1>4, <1>7, <3>1, BlamesItself
    <3>2. CASE ~(Reasons(j) \subseteq Causes)
      <4>1. PICK m \in Missing(j) : /\ Reason(j, m) = "blocked" /\ m \in Left /\ m \notin reached[m]
                                    /\ m \in reached[setup[j].key]
                                    /\ reached[m] \subseteq reached[setup[j].key]
        BY <1>8, <3>2
      <4>2. PICK k \in Left : k = setup[j].key
        BY <1>2
      <4>3. PICK t \in Nat : t = Cardinality(reached[m])
        BY <1>6, <4>1
      <4>4. t < s
        <5>1. reached[m] \subseteq reached[k] /\ reached[m] # reached[k]
          BY <4>1, <4>2
        <5>2. Cardinality(reached[m]) <= Cardinality(reached[k])
              /\ Cardinality(reached[m]) # Cardinality(reached[k])
          BY <1>6, <5>1, FS_Subset
        <5>3. QED
          BY <4>2, <4>3, <5>2
      <4>5. s + 1 <= C
        <5>1. reached[k] \subseteq Left /\ reached[k] # Left
          BY <4>2
        <5>2. Cardinality(reached[k]) <= Cardinality(Left) /\ Cardinality(reached[k]) # Cardinality(Left)
          BY <1>2, <5>1, FS_Subset
        <5>3. QED
          BY <1>5, <4>2, <5>2
      <4>6. EntryOf(m) \in waiting /\ setup[EntryOf(m)].key = m
        BY <1>2, <4>1
      <4>7. Blames(EntryOf(m), t + 1)
        <5>1. t \in P
          BY <2>1, <4>4
        <5>2. QED
          BY <4>1, <4>3, <4>6, <5>1
      <4>8. Blames(EntryOf(m), s)
        <5>1. t + 1 <= s
          BY <4>4
        <5>2. \A last \in 1..C : last <= t + 1 => last <= s
          BY <5>1
        <5>3. QED
          BY <1>4, <4>7, <5>2 DEF Blames
      <4>9. QED
        BY <1>4, <4>1, <4>5, <4>8, BlamesAnother
    <3>3. QED
      BY <3>1, <3>2
  <2> HIDE DEF P
  <2>2. QED
    BY <2>1, NatBelow
<1>10. ASSUME NEW j \in waiting, setup[j].key \notin reached[setup[j].key],
              NEW s \in Nat, s = Cardinality(reached[setup[j].key])
       PROVE  Blames(j, s + 1)
  BY <1>9, <1>10
<1> HIDE DEF P
<1>11. PICK k \in Left : k = setup[i].key
  BY <1>2
<1>12. ASSUME NEW j \in waiting, NEW n \in Nat, n <= C, Blames(j, n) PROVE Blames(j, C)
  <2>1. \A last \in 1..C : last <= C
    BY <1>12
  <2>2. QED
    BY <1>4, <1>12, <2>1 DEF Blames
<1>13. CASE k \notin reached[k]
  <2>1. PICK s \in Nat : s = Cardinality(reached[k])
    BY <1>6
  <2>2. reached[k] \subseteq Left /\ reached[k] # Left
    BY <1>13
  <2>3. Cardinality(reached[k]) <= Cardinality(Left) /\ Cardinality(reached[k]) # Cardinality(Left)
    BY <1>2, <2>2, FS_Subset
  <2>4. s + 1 <= C /\ s + 1 \in Nat
    BY <1>5, <2>1, <2>3
  <2>5. Blames(i, s + 1)
    BY <1>10, <1>11, <1>13, <2>1
  <2>6. QED
    BY <1>4, <1>12, <2>4, <2>5
<1>14. CASE k \in reached[k]
  <2>1. CASE Reasons(i) \subseteq Causes
    BY <1>4, <1>7, <2>1, BlamesItself
  <2>2. CASE ~(Reasons(i) \subseteq Causes)
    <3>1. PICK m \in Missing(i) : /\ Reason(i, m) = "blocked" /\ m \in Left /\ m \notin reached[m]
                                  /\ m \in reached[k] /\ reached[m] \subseteq reached[k]
      BY <1>8, <1>11, <2>2
    <3>2. k \notin reached[m] /\ k # m
      BY <1>3, <1>14, <3>1
    <3>3. PICK s \in Nat : s = Cardinality(reached[m])
      BY <1>6, <3>1
    <3>4. (s + 1) + 1 <= C /\ s + 1 \in Nat
      <4>1. IsFiniteSet(reached[m] \cup {m}) /\ Cardinality(reached[m] \cup {m}) = s + 1
        BY <1>6, <3>1, <3>3, FS_AddElement
      <4>2. reached[m] \cup {m} \subseteq Left /\ reached[m] \cup {m} # Left
        BY <3>1, <3>2
      <4>3. s + 1 <= Cardinality(Left) /\ s + 1 # Cardinality(Left)
        BY <1>2, <4>1, <4>2, FS_Subset
      <4>4. QED
        BY <1>5, <4>3
    <3>5. EntryOf(m) \in waiting /\ setup[EntryOf(m)].key = m
      BY <1>2, <3>1
    <3>6. Blames(EntryOf(m), s + 1)
      BY <1>10, <3>1, <3>3, <3>5
    <3>7. Blames(i, (s + 1) + 1)
      BY <1>4, <3>1, <3>4, <3>6, BlamesAnother
    <3>8. QED
      BY <1>4, <1>12, <3>4, <3>7
  <2>3. QED
    BY <2>1, <2>2
<1>15. QED
  BY <1>13, <1>14

\* Where a computation ends unresolved, following the references that are said to
\* be blocked from any entry leads to one whose own line names a cause: an
\* undefined name, a command that never supplied it, a cycle, or a command held
\* back (_describe_unresolved).
THEOREM BandsBlameReachesACause == Spec => []BlameReachesACause
<1>1. BInv => BlameReachesACause
  <2>1. SUFFICES ASSUME BInv, phase = "over", NEW i \in waiting
                 PROVE  \E path \in [1..Cardinality(waiting) -> waiting] :
                          /\ path[1] = i
                          /\ \E last \in DOMAIN path :
                              /\ Reasons(path[last]) \subseteq Causes
                              /\ \A p \in 1..(last - 1) : \E n \in Missing(path[p]) :
                                   Reason(path[p], n) = "blocked" /\ EntryOf(n) = path[p + 1]
    BY DEF BlameReachesACause, Causes
  <2>2. Blames(i, Cardinality(waiting))
    BY <2>1, BlameLeads
  <2>3. QED
    BY <2>2 DEF Blames
<1>2. QED
  BY BandsInvariant, <1>1, PTL
=============================================================================

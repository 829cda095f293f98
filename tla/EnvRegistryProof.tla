-------------------------- MODULE EnvRegistryProof --------------------------
(***************************************************************************)
(* Theorems about EnvRegistry: type correctness for every instance, and,   *)
(* when one command runs at a time, what the registry keeps across any     *)
(* number of commands, kills and config edits: the index that was handed   *)
(* out, the band of every index, and one environment for each of them.     *)
(***************************************************************************)
EXTENDS EnvRegistry, TLAPS

Indices == 1..EnvsPerWorkspace

\* A name's first bytes modulo the band's size land in the band.
LEMMA ProbeSlotInBand ==
  ASSUME NEW al \in AliasLists, NEW n \in Names, NEW k \in Nat
  PROVE  /\ ProbeSlot(al, n, k) \in HashBand(al)
         /\ HashBand(al) \subseteq Indices
<1>1. Len(al) \in Nat /\ EnvsPerWorkspace \in Nat /\ Len(al) + 2 <= EnvsPerWorkspace
  BY ConfigAssumption
<1>2. Digest[n] \in Nat
  BY ConfigAssumption
<1>3. BandSize(al) \in Nat /\ BandSize(al) > 0
  BY <1>1 DEF BandSize
<1>4. (Digest[n] + k) % BandSize(al) \in 0..(BandSize(al) - 1)
  BY <1>2, <1>3
<1>5. QED
  BY <1>1, <1>4 DEF ProbeSlot, HashBand, BandStart, BandSize, Indices

\* An alias's place in the list is an index, and no two aliases share one.
LEMMA FixedIndexInList ==
  ASSUME NEW al \in AliasLists, NEW n, IsAlias(al, n)
  PROVE  /\ FixedIndex(al, n) \in 1..Len(al)
         /\ al[FixedIndex(al, n)] = n
         /\ FixedIndex(al, n) \in Indices
<1>1. FixedIndex(al, n) \in 1..Len(al) /\ al[FixedIndex(al, n)] = n
  BY DEF IsAlias, FixedIndex
<1>2. Len(al) \in Nat /\ EnvsPerWorkspace \in Nat /\ Len(al) + 2 <= EnvsPerWorkspace
  BY ConfigAssumption
<1>3. QED
  BY <1>1, <1>2 DEF Indices

\* Every step keeps every variable in its type.
LEMMA TypeStep == ASSUME TypeOK, [Next]_vars PROVE TypeOK'
<1> USE DEF TypeOK, Steps, Goto, EmptyRegistry, Registries
<1>1. ASSUME NEW p \in Procs, NEW n \in Names, BeginInit(p, n) PROVE TypeOK'
  BY <1>1 DEF BeginInit, Idle
<1>3. ASSUME NEW p \in Procs, NEW n \in Names, BeginDestroy(p, n) PROVE TypeOK'
  BY <1>3 DEF BeginDestroy, Idle
<1>4. ASSUME NEW p \in Procs, ClaimFixed(p) PROVE TypeOK'
  <2>1. FixedIndex(aliases, env[p]) \in Indices
    BY <1>4, FixedIndexInList DEF ClaimFixed
  <2>2. QED
    BY <1>4, <2>1 DEF ClaimFixed, Indices, Idle
<1>5. ASSUME NEW p \in Procs, KeepRecorded(p) PROVE TypeOK'
  BY <1>5 DEF KeepRecorded, HandOut, End, Idle
<1>6. ASSUME NEW p \in Procs, FindNothing(p) PROVE TypeOK'
  BY <1>6 DEF FindNothing, Idle
<1>7. ASSUME NEW p \in Procs, Probe(p) PROVE TypeOK'
  BY <1>7, ProbeSlotInBand DEF Probe, Indices, Idle
<1>8. ASSUME NEW p \in Procs, BandFull(p) PROVE TypeOK'
  BY <1>8 DEF BandFull, End, Idle
<1>9. ASSUME NEW p \in Procs, LoadDoc(p) PROVE TypeOK'
  BY <1>9 DEF LoadDoc, Idle
<1>10. ASSUME NEW p \in Procs, Truncate(p) PROVE TypeOK'
  BY <1>10 DEF Truncate, Idle
<1>11. ASSUME NEW p \in Procs, Fill(p) PROVE TypeOK'
  BY <1>11 DEF Fill, HandOut, Stored, End, Idle
<1>12. ASSUME NEW p \in Procs, RemoveTree(p) PROVE TypeOK'
  BY <1>12 DEF RemoveTree, Idle
<1>13. ASSUME NEW p \in Procs, LoadForRemove(p) PROVE TypeOK'
  BY <1>13 DEF LoadForRemove, Idle
<1>14. ASSUME NEW p \in Procs, NothingToRemove(p) PROVE TypeOK'
  BY <1>14 DEF NothingToRemove, End, Idle
<1>15. ASSUME NEW p \in Procs, Crash(p) PROVE TypeOK'
  BY <1>15 DEF Crash, End, Idle
<1>16. ASSUME NEW n \in Names, RemoveByHand(n) PROVE TypeOK'
  BY <1>16 DEF RemoveByHand, Idle
<1>17. ASSUME NEW al \in AliasLists, EditAliases(al) PROVE TypeOK'
  BY <1>17 DEF EditAliases, Idle
<1>18. CASE UNCHANGED vars
  BY <1>18 DEF vars, Idle
<1>19. QED
  BY <1>1, <1>3, <1>4, <1>5, <1>6, <1>7, <1>8, <1>9, <1>10, <1>11,
     <1>12, <1>13, <1>14, <1>15, <1>16, <1>17, <1>18 DEF Next, Command

\* The variables keep their types throughout every behaviour.
THEOREM TypeCorrect == Spec => []TypeOK
<1>1. Init => TypeOK
  BY DEF Init, TypeOK, EmptyRegistry, Registries, Steps, Idle
<1>2. TypeOK /\ [Next]_vars => TypeOK'
  BY TypeStep
<1>3. QED
  BY <1>1, <1>2, PTL DEF Spec

(***************************************************************************)
(* One command at a time, and what it knows: the document it loaded is     *)
(* what the file held, a name that is not an alias is given an index only  *)
(* when it had none, and the file is empty while it is filled.  The index  *)
(* handed out is the one in the file, or in the document that is about to  *)
(* be the file.                                                            *)
(***************************************************************************)
Alone == \A p, q \in Procs : ~Idle(p) /\ ~Idle(q) => p = q

\* p gives its target its fixed index, or one where reg has none.
Fresh(p, reg) ==
  IF IsAlias(aliases, env[p]) THEN slot[p] = FixedIndex(aliases, env[p]) ELSE reg[env[p]] = None

Known ==
  \A p \in Procs :
    /\ pc[p] = "probe" => ~IsAlias(aliases, env[p]) /\ file[env[p]] = None
    /\ pc[p] = "load" => slot[p] # None /\ Fresh(p, file)
    /\ pc[p] \in {"rmtree", "unload"} => slot[p] = None
    /\ pc[p] = "store" => doc[p] = file
    /\ pc[p] = "fill" => file = EmptyRegistry
    /\ pc[p] \in {"store", "fill"} => slot[p] = None \/ Fresh(p, doc[p])

HeldBy(reg) ==
  \A n \in Entries(held) : /\ reg[n] = held[n]
                           /\ IsAlias(aliases, n) => held[n] = FixedIndex(aliases, n)

Remembered ==
  /\ (\A p \in Procs : pc[p] # "fill") => HeldBy(file)
  /\ \A p \in Procs : pc[p] = "fill" => HeldBy(doc[p])

KInv == TypeOK /\ Alone /\ Known /\ Remembered

\* A command starts only when no other one runs, so two never run at once.
LEMMA AloneStep ==
  ASSUME ~Overlap, TypeOK, Alone, [Next]_vars
  PROVE  Alone'
<1> USE DEF Alone, Idle, Quiet, Goto, End, TypeOK
<1>1. ASSUME NEW p \in Procs, NEW n \in Names,
             BeginInit(p, n) \/ BeginDestroy(p, n)
      PROVE Alone'
  BY <1>1 DEF BeginInit, BeginDestroy
<1>2. ASSUME NEW p \in Procs,
             ClaimFixed(p) \/ FindNothing(p) \/ Probe(p) \/ LoadDoc(p)
             \/ Truncate(p) \/ RemoveTree(p) \/ LoadForRemove(p)
      PROVE Alone'
  BY <1>2 DEF ClaimFixed, FindNothing, Probe, LoadDoc, Truncate, RemoveTree, LoadForRemove
<1>3. ASSUME NEW p \in Procs,
             KeepRecorded(p) \/ BandFull(p) \/ Fill(p) \/ NothingToRemove(p) \/ Crash(p)
      PROVE Alone'
  BY <1>3 DEF KeepRecorded, BandFull, Fill, NothingToRemove, Crash
<1>4. ASSUME UNCHANGED pc PROVE Alone'
  BY <1>4
<1>5. QED
  BY <1>1, <1>2, <1>3, <1>4 DEF Next, Command, RemoveByHand, EditAliases, vars

\* What a running process has found out stays true: no other one runs meanwhile.
LEMMA KnownStep ==
  ASSUME ~Overlap, KInv, [Next]_vars
  PROVE  Known'
<1> USE DEF KInv, TypeOK, Alone, Known, Fresh, Steps, Idle, Goto, End
<1>1. ASSUME NEW p \in Procs, NEW n \in Names, BeginInit(p, n) \/ BeginDestroy(p, n) PROVE Known'
  BY <1>1 DEF BeginInit, BeginDestroy, Quiet
<1>2. ASSUME NEW p \in Procs, ClaimFixed(p) PROVE Known'
  <2>1. FixedIndex(aliases, env[p]) # None
    BY <1>2, FixedIndexInList, ConfigAssumption DEF ClaimFixed, Indices
  <2>2. QED BY <1>2, <2>1 DEF ClaimFixed
<1>3. ASSUME NEW p \in Procs, KeepRecorded(p) \/ BandFull(p) PROVE Known'
  BY <1>3 DEF KeepRecorded, BandFull
<1>4. ASSUME NEW p \in Procs, FindNothing(p) PROVE Known'
  BY <1>4 DEF FindNothing
<1>5. ASSUME NEW p \in Procs, Probe(p) PROVE Known'
  <2>1. PICK k \in 0..(BandSize(aliases) - 1) : slot' = [slot EXCEPT ![p] = ProbeSlot(aliases, env[p], k)]
    BY <1>5 DEF Probe
  <2>2. ProbeSlot(aliases, env[p], k) # None
    <3>1. env[p] \in Names /\ aliases \in AliasLists /\ k \in Nat BY <1>5 DEF Probe
    <3>2. ProbeSlot(aliases, env[p], k) \in Indices BY <3>1, ProbeSlotInBand
    <3>3. QED BY <3>2, ConfigAssumption DEF Indices
  <2>3. QED BY <1>5, <2>1, <2>2 DEF Probe
<1>6. ASSUME NEW p \in Procs, LoadDoc(p) PROVE Known'
  BY <1>6 DEF LoadDoc
<1>7. ASSUME NEW p \in Procs, Truncate(p) PROVE Known'
  BY <1>7 DEF Truncate
<1>8. ASSUME NEW p \in Procs, Fill(p) PROVE Known'
  BY <1>8 DEF Fill
<1>9. ASSUME NEW p \in Procs, RemoveTree(p) PROVE Known'
  BY <1>9 DEF RemoveTree
<1>10. ASSUME NEW p \in Procs, LoadForRemove(p) PROVE Known'
  BY <1>10 DEF LoadForRemove
<1>11. ASSUME NEW p \in Procs, NothingToRemove(p) \/ Crash(p) PROVE Known'
  BY <1>11 DEF NothingToRemove, Crash
<1>12. ASSUME NEW al \in AliasLists, EditAliases(al) PROVE Known'
  BY <1>12 DEF EditAliases, Quiet
<1>13. CASE UNCHANGED <<aliases, pc, file, env, slot, doc>>
  BY <1>13
<1>14. QED
  BY <1>1, <1>2, <1>3, <1>4, <1>5, <1>6, <1>7, <1>8, <1>9, <1>10, <1>11, <1>12, <1>13
     DEF Next, Command, RemoveByHand, vars

\* An index that was handed out stays recorded, by the file or by its rewrite under way.
LEMMA RememberedStep ==
  ASSUME ~Overlap, KInv, [Next]_vars
  PROVE  Remembered'
<1> USE DEF KInv, TypeOK, Alone, Remembered, HeldBy, Entries, Steps, Idle, Goto, End
<1>1. ASSUME NEW p \in Procs, NEW n \in Names, BeginInit(p, n) \/ BeginDestroy(p, n) PROVE Remembered'
  BY <1>1 DEF BeginInit, BeginDestroy, Quiet
<1>2. ASSUME NEW p \in Procs,
             ClaimFixed(p) \/ FindNothing(p) \/ Probe(p) \/ BandFull(p) \/ LoadDoc(p) \/ RemoveTree(p) \/ LoadForRemove(p)
      PROVE Remembered'
  BY <1>2 DEF ClaimFixed, FindNothing, Probe, BandFull, LoadDoc, RemoveTree, LoadForRemove
<1>3. ASSUME NEW p \in Procs, KeepRecorded(p) PROVE Remembered'
  <2>1. env[p] \in Names /\ ~IsAlias(aliases, env[p]) /\ HeldBy(file) /\ UNCHANGED <<aliases, file>>
    BY <1>3 DEF KeepRecorded
  <2>2. held' = [held EXCEPT ![env[p]] = IF @ = None THEN file[env[p]] ELSE @]
    BY <1>3 DEF KeepRecorded, HandOut
  <2>3. HeldBy(file)' BY <2>1, <2>2 DEF Registries
  <2>4. \A q \in Procs : pc'[q] # "fill" BY <1>3 DEF KeepRecorded
  <2>5. QED BY <2>3, <2>4
<1>4. ASSUME NEW p \in Procs, Truncate(p) PROVE Remembered'
  BY <1>4 DEF Truncate, Known
<1>5. ASSUME NEW p \in Procs, Fill(p) PROVE Remembered'
  <2>1. /\ env[p] \in Names /\ HeldBy(doc[p]) /\ UNCHANGED aliases
        /\ file' = [doc[p] EXCEPT ![env[p]] = slot[p]] /\ doc[p] \in Registries
    BY <1>5 DEF Fill, Stored
  <2>2. slot[p] = None \/ Fresh(p, doc[p]) BY <1>5 DEF Fill, Known
  <2>3. held' = IF slot[p] = None THEN [held EXCEPT ![env[p]] = None]
                ELSE [held EXCEPT ![env[p]] = IF @ = None THEN slot[p] ELSE @]
    BY <1>5 DEF Fill, HandOut
  <2>4. HeldBy(file)'
    <3>1. CASE slot[p] = None BY <2>1, <2>3, <3>1 DEF Registries
    <3>2. CASE slot[p] # None BY <2>1, <2>2, <2>3, <3>2 DEF Registries, Fresh
    <3>3. QED BY <3>1, <3>2
  <2>5. \A q \in Procs : pc'[q] # "fill" BY <1>5 DEF Fill
  <2>6. QED BY <2>4, <2>5
<1>6. ASSUME NEW p \in Procs, NothingToRemove(p) PROVE Remembered'
  BY <1>6 DEF NothingToRemove, Registries
<1>7. ASSUME NEW p \in Procs, Crash(p) PROVE Remembered'
  <2>1. CASE pc[p] = "fill" BY <1>7, <2>1 DEF Crash, EmptyRegistry
  <2>2. CASE pc[p] # "fill" BY <1>7, <2>2 DEF Crash
  <2>3. QED BY <2>1, <2>2
<1>8. ASSUME NEW al \in AliasLists, EditAliases(al) PROVE Remembered'
  BY <1>8 DEF EditAliases, EmptyRegistry, Quiet
<1>9. CASE UNCHANGED <<aliases, pc, file, held, doc>>
  BY <1>9
<1>10. QED
  BY <1>1, <1>2, <1>3, <1>4, <1>5, <1>6, <1>7, <1>8, <1>9 DEF Next, Command, RemoveByHand, vars

\* KInv holds initially, when no command runs.
LEMMA KnowledgeInit == Init => KInv
BY DEF Init, KInv, TypeOK, Alone, Known, Remembered, HeldBy, Entries, Idle, EmptyRegistry, Registries, Steps

\* KInv is an invariant when commands do not overlap.
LEMMA KnowledgeHolds ==
  ASSUME ~Overlap
  PROVE  Spec => []KInv
<1>1. KInv /\ [Next]_vars => KInv'
  BY TypeStep, AloneStep, KnownStep, RememberedStep DEF KInv
<1>2. QED
  BY <1>1, KnowledgeInit, PTL DEF Spec

\* Between two commands, every environment that was initialised and not destroyed has the index
\* that its first init handed out, whatever came and went, was edited or killed meanwhile.
THEOREM RegistryHandedOutStays ==
  ASSUME ~Overlap
  PROVE  Spec => []HandedOutStays
<1>1. KInv => HandedOutStays
  BY DEF KInv, TypeOK, Remembered, HeldBy, HandedOutStays, Quiet, Idle, Entries, EnvTrioIndex
<1>2. QED
  BY <1>1, KnowledgeHolds, PTL

(***************************************************************************)
(* Where the indices lie.  S is a set of alias lists that the allocator    *)
(* has gone by.  UniqueIndices alone is not inductive: a store in progress *)
(* carries a document and an entry of its own, and these must already be   *)
(* such that writing them back is harmless.                                *)
(***************************************************************************)

\* i is where a list of S puts n: its fixed index, or the hash band.
Placed(S, n, i) ==
  \E al \in S : IF IsAlias(al, n) THEN i = FixedIndex(al, n) ELSE i \in HashBand(al)

WellFormed(S, reg) ==
  /\ \A m, n \in Entries(reg) : m # n => reg[m] # reg[n]
  /\ \A n \in Entries(reg) : Placed(S, n, reg[n])

\* Writing the entry (n, i) to reg keeps it well formed; None deletes.
Fits(S, reg, n, i) ==
  i # None => Placed(S, n, i) /\ \A m \in Names \ {n} : reg[m] # i

Sound(S) ==
  /\ WellFormed(S, file)
  /\ \A p \in Procs : pc[p] = "load" => Fits(S, file, env[p], slot[p])
  /\ \A p \in Procs : pc[p] \in {"store", "fill"} =>
       WellFormed(S, doc[p]) /\ Fits(S, doc[p], env[p], slot[p])

\* Storing an entry that fits leaves a well-formed registry.
LEMMA StoreKeepsWellFormed ==
  ASSUME NEW S, NEW reg \in Registries, NEW n \in Names, NEW i \in Indices \union {None},
         WellFormed(S, reg), Fits(S, reg, n, i)
  PROVE  WellFormed(S, [reg EXCEPT ![n] = i])
<1> DEFINE new == [reg EXCEPT ![n] = i]
<1>1. new[n] = i /\ \A m \in Names \ {n} : new[m] = reg[m]
  BY DEF Registries
<1>2. \A m \in Entries(new) : m # n => m \in Entries(reg)
  BY <1>1 DEF Entries
<1>3. ASSUME NEW m \in Entries(new), NEW k \in Entries(new), m # k
      PROVE new[m] # new[k]
  BY <1>1, <1>2, <1>3 DEF Entries, WellFormed, Fits
<1>4. ASSUME NEW m \in Entries(new) PROVE Placed(S, m, new[m])
  BY <1>1, <1>2 DEF Entries, WellFormed, Fits
<1>5. QED
  BY <1>3, <1>4 DEF WellFormed

\* The fixed index of an alias is free in a well-formed registry: other
\* aliases have other places in every list, and each hash band starts past its
\* list's buffer, which is all that another list can exceed it by.
LEMMA FixedIndexFits ==
  ASSUME NEW S, S \subseteq AliasLists, Appended(S), aliases \in S,
         file \in Registries, WellFormed(S, file), NEW n \in Names, IsAlias(aliases, n)
  PROVE  Fits(S, file, n, FixedIndex(aliases, n))
<1>0. FixedIndex(aliases, n) \in 1..Len(aliases) /\ aliases[FixedIndex(aliases, n)] = n
  BY FixedIndexInList
<1>1. ASSUME NEW m \in Names \ {n}, file[m] = FixedIndex(aliases, n) PROVE FALSE
  <2>1. m \in Entries(file)
    BY <1>0, <1>1, ConfigAssumption DEF Entries
  <2>2. PICK al \in S : IF IsAlias(al, m) THEN file[m] = FixedIndex(al, m) ELSE file[m] \in HashBand(al)
    BY <2>1 DEF WellFormed, Placed
  <2>3. Len(al) \in Nat /\ Len(aliases) \in Nat /\ Len(aliases) <= Len(al) + 1
    BY ConfigAssumption DEF Appended
  <2>4. CASE IsAlias(al, m)
    <3>1. FixedIndex(al, m) \in 1..Len(al) /\ al[FixedIndex(al, m)] = m
      BY <2>4, FixedIndexInList
    <3>2. al[file[m]] = aliases[file[m]]
      BY <1>0, <1>1, <2>2, <2>3, <2>4, <3>1 DEF Appended
    <3>3. QED BY <1>0, <1>1, <2>2, <2>4, <3>1, <3>2
  <2>5. CASE ~IsAlias(al, m)
    BY <1>0, <1>1, <2>2, <2>3, <2>5, ConfigAssumption DEF HashBand, BandStart
  <2>6. QED
    BY <2>4, <2>5
<1>2. Placed(S, n, FixedIndex(aliases, n))
  BY DEF Placed
<1>3. QED
  BY <1>1, <1>2 DEF Fits

\* So is the slot a probe stops at.
LEMMA ProbedSlotFits ==
  ASSUME NEW S, S \subseteq AliasLists, aliases \in S, NEW n \in Names, ~IsAlias(aliases, n),
         NEW k \in 0..(BandSize(aliases) - 1), FirstFree(aliases, file, n, k)
  PROVE  Fits(S, file, n, ProbeSlot(aliases, n, k))
<1>1. ProbeSlot(aliases, n, k) \in HashBand(aliases)
  BY ProbeSlotInBand
<1>2. QED
  BY <1>1 DEF Fits, Placed, FirstFree, FreeDistances

\* While the allocator goes by lists of S, the registry stays sound for S.
LEMMA SoundStep ==
  ASSUME ~Overlap, NEW S, S \subseteq AliasLists, Appended(S), aliases \in S,
         KInv, Sound(S), [Next]_vars
  PROVE  Sound(S)'
<1>1. WellFormed(S, EmptyRegistry)
  BY DEF WellFormed, EmptyRegistry, Entries
<1> USE DEF KInv, TypeOK, Steps, Alone, Idle, Goto, End, Sound, Fits
<1>2. ASSUME NEW p \in Procs, NEW n \in Names, BeginInit(p, n) \/ BeginDestroy(p, n) PROVE Sound(S)'
  BY <1>2 DEF BeginInit, BeginDestroy, Quiet
<1>3. ASSUME NEW p \in Procs, ClaimFixed(p) PROVE Sound(S)'
  <2>1. pc[p] = "lookup" /\ env[p] \in Names /\ IsAlias(aliases, env[p]) BY <1>3 DEF ClaimFixed
  <2>2. Fits(S, file, env[p], FixedIndex(aliases, env[p])) BY <2>1, FixedIndexFits
  <2>3. QED BY <1>3, <2>1, <2>2 DEF ClaimFixed
<1>4. ASSUME NEW p \in Procs, KeepRecorded(p) \/ BandFull(p) \/ NothingToRemove(p) \/ Crash(p) PROVE Sound(S)'
  BY <1>4 DEF KeepRecorded, BandFull, NothingToRemove, Crash
<1>5. ASSUME NEW p \in Procs, FindNothing(p) \/ RemoveTree(p) PROVE Sound(S)'
  BY <1>5 DEF FindNothing, RemoveTree
<1>6. ASSUME NEW p \in Procs, Probe(p) PROVE Sound(S)'
  <2>1. PICK k \in 0..(BandSize(aliases) - 1) :
          /\ FirstFree(aliases, file, env[p], k)
          /\ slot' = [slot EXCEPT ![p] = ProbeSlot(aliases, env[p], k)]
    BY <1>6 DEF Probe
  <2>2. pc[p] = "probe" /\ env[p] \in Names /\ ~IsAlias(aliases, env[p])
    BY <1>6 DEF Probe, Known
  <2>3. Fits(S, file, env[p], ProbeSlot(aliases, env[p], k))
    BY <2>1, <2>2, ProbedSlotFits
  <2>4. Fits(S, file, env[p], slot[p])'
    BY <1>6, <2>1, <2>3 DEF Probe
  <2>5. QED
    BY <1>6, <2>4 DEF Probe
<1>7. ASSUME NEW p \in Procs, LoadDoc(p) PROVE Sound(S)'
  BY <1>7 DEF LoadDoc
<1>8. ASSUME NEW p \in Procs, Truncate(p) PROVE Sound(S)'
  BY <1>1, <1>8 DEF Truncate
<1>9. ASSUME NEW p \in Procs, Fill(p) PROVE Sound(S)'
  BY <1>9, StoreKeepsWellFormed DEF Fill, Stored, Indices
<1>10. ASSUME NEW p \in Procs, LoadForRemove(p) PROVE Sound(S)'
  BY <1>10 DEF LoadForRemove, Known
<1>11. CASE UNCHANGED <<file, pc, env, slot, doc>>
  BY <1>11
<1>12. QED
  BY <1>2, <1>3, <1>4, <1>5, <1>6, <1>7, <1>8, <1>9, <1>10, <1>11
     DEF Next, Command, RemoveByHand, EditAliases, vars

\* The initial registry is sound for every set of alias lists.
LEMMA SoundInit ==
  ASSUME NEW S, Init
  PROVE  Sound(S)
BY DEF Init, Sound, WellFormed, Entries, EmptyRegistry

\* The registry is sound for the lists configured so far, when they differ by an alias at the
\* end; so it is while there is only one.
SoundSoFar == Appended(lists) => Sound(lists)

\* Every step keeps the registry sound for the lists configured so far.
LEMMA SoundSoFarStep ==
  ASSUME ~Overlap, KInv, SoundSoFar, [Next]_vars
  PROVE  SoundSoFar'
<1> SUFFICES ASSUME Appended(lists') PROVE Sound(lists)'
  BY DEF SoundSoFar
<1>1. lists \subseteq lists' /\ lists \subseteq AliasLists /\ aliases \in lists
  BY DEF Next, Command, RemoveByHand, EditAliases, vars, BeginInit, BeginDestroy, ClaimFixed, KeepRecorded, FindNothing,
         Probe, BandFull, LoadDoc, Truncate, Fill, RemoveTree, LoadForRemove, NothingToRemove, Crash, KInv, TypeOK
<1>2. Appended(lists) /\ Sound(lists)
  BY <1>1 DEF SoundSoFar, Appended
<1>3. PICK S \in SUBSET AliasLists : S = lists
  BY <1>1
<1>4. Sound(S)'
  BY <1>1, <1>2, <1>3, SoundStep
<1>5. CASE lists' = lists
  BY <1>3, <1>4, <1>5 DEF Sound
<1>6. CASE UNCHANGED <<file, pc, env, slot, doc>>
  <2>1. \A n, i : Placed(lists, n, i) => Placed(lists', n, i) BY <1>1 DEF Placed
  <2>2. QED BY <1>2, <1>6, <2>1 DEF Sound, WellFormed, Fits
<1>7. lists' = lists \/ UNCHANGED <<file, pc, env, slot, doc>>
  BY DEF Next, Command, RemoveByHand, EditAliases, vars, BeginInit, BeginDestroy, ClaimFixed, KeepRecorded, FindNothing,
         Probe, BandFull, LoadDoc, Truncate, Fill, RemoveTree, LoadForRemove, NothingToRemove, Crash
<1>8. QED
  BY <1>5, <1>6, <1>7

\* The registry is sound for the lists configured so far.
LEMMA SoundSoFarHolds ==
  ASSUME ~Overlap
  PROVE  Spec => [](KInv /\ SoundSoFar)
<1>1. Init => SoundSoFar
  BY SoundInit DEF SoundSoFar
<1>2. KInv /\ SoundSoFar /\ [Next]_vars => SoundSoFar'
  BY SoundSoFarStep
<1>3. QED
  BY <1>1, <1>2, KnowledgeHolds, PTL DEF Spec

(***************************************************************************)
(* Whatever the lists: a pair that shares an index came about by an alias  *)
(* that was written to its place without a look at the registry.           *)
(***************************************************************************)

\* i is the place of n in a list configured so far.
ByAlias(n, i) == \E al \in lists : IsAlias(al, n) /\ i = FixedIndex(al, n)

Excused(reg) ==
  \A m, n \in Entries(reg) : m # n /\ reg[m] = reg[n] => ByAlias(m, reg[m]) \/ ByAlias(n, reg[n])

\* Writing the entry (n, i) to reg makes no pair that is not excused; None deletes.
Harmless(reg, n, i) ==
  i # None => ByAlias(n, i) \/ \A m \in Names \ {n} : reg[m] # i

PairsExcused ==
  /\ Excused(file)
  /\ \A p \in Procs : pc[p] = "load" => Harmless(file, env[p], slot[p])
  /\ \A p \in Procs : pc[p] \in {"store", "fill"} => Excused(doc[p]) /\ Harmless(doc[p], env[p], slot[p])

\* Storing a harmless entry makes no pair that is not excused.
LEMMA StoreKeepsExcused ==
  ASSUME NEW reg \in Registries, NEW n \in Names, NEW i \in Indices \union {None},
         Excused(reg), Harmless(reg, n, i)
  PROVE  Excused([reg EXCEPT ![n] = i])
<1> DEFINE new == [reg EXCEPT ![n] = i]
<1>1. new[n] = i /\ \A m \in Names \ {n} : new[m] = reg[m]
  BY DEF Registries
<1>2. \A m \in Entries(new) : m # n => m \in Entries(reg)
  BY <1>1 DEF Entries
<1> HIDE DEF new
<1>3. ASSUME NEW m \in Entries(new), NEW k \in Entries(new), m # k, new[m] = new[k]
      PROVE ByAlias(m, new[m]) \/ ByAlias(k, new[k])
  BY <1>1, <1>2, <1>3 DEF Entries, Excused, Harmless
<1>4. QED
  BY <1>3 DEF Excused, new

\* Every step keeps the pairs that share an index excused.
LEMMA ExcusedStep ==
  ASSUME ~Overlap, KInv, PairsExcused, [Next]_vars
  PROVE  PairsExcused'
<1>1. Excused(EmptyRegistry)
  BY DEF Excused, EmptyRegistry, Entries
<1> USE DEF KInv, TypeOK, Steps, Alone, Idle, Goto, End, PairsExcused, Harmless, Excused, ByAlias
<1>2. ASSUME NEW p \in Procs, NEW n \in Names, BeginInit(p, n) \/ BeginDestroy(p, n) PROVE PairsExcused'
  BY <1>2 DEF BeginInit, BeginDestroy, Quiet
<1>3. ASSUME NEW p \in Procs, ClaimFixed(p) PROVE PairsExcused'
  <2>1. ByAlias(env[p], FixedIndex(aliases, env[p])) BY <1>3 DEF ClaimFixed
  <2>2. QED BY <1>3, <2>1 DEF ClaimFixed
<1>4. ASSUME NEW p \in Procs, KeepRecorded(p) \/ BandFull(p) \/ NothingToRemove(p) \/ Crash(p) PROVE PairsExcused'
  BY <1>4 DEF KeepRecorded, BandFull, NothingToRemove, Crash
<1>5. ASSUME NEW p \in Procs, FindNothing(p) \/ RemoveTree(p) PROVE PairsExcused'
  BY <1>5 DEF FindNothing, RemoveTree
<1>6. ASSUME NEW p \in Procs, Probe(p) PROVE PairsExcused'
  <2>1. PICK k \in 0..(BandSize(aliases) - 1) :
          /\ FirstFree(aliases, file, env[p], k)
          /\ slot' = [slot EXCEPT ![p] = ProbeSlot(aliases, env[p], k)]
    BY <1>6 DEF Probe
  <2>2. \A m \in Names \ {env[p]} : file[m] # slot'[p] BY <2>1 DEF FirstFree, FreeDistances
  <2>3. QED BY <1>6, <2>1, <2>2 DEF Probe
<1>7. ASSUME NEW p \in Procs, LoadDoc(p) PROVE PairsExcused'
  BY <1>7 DEF LoadDoc
<1>8. ASSUME NEW p \in Procs, Truncate(p) PROVE PairsExcused'
  BY <1>1, <1>8 DEF Truncate
<1>9. ASSUME NEW p \in Procs, Fill(p) PROVE PairsExcused'
  <2>1. /\ doc[p] \in Registries /\ env[p] \in Names /\ slot[p] \in Indices \union {None}
        /\ Excused(doc[p]) /\ Harmless(doc[p], env[p], slot[p])
    BY <1>9 DEF Fill, Indices
  <2> HIDE DEF Excused, Harmless
  <2>2. Excused([doc[p] EXCEPT ![env[p]] = slot[p]]) BY <2>1, StoreKeepsExcused
  <2>3. Excused(file') BY <1>9, <2>2 DEF Fill, Stored
  <2>4. QED BY <1>9, <2>3 DEF Fill, Excused
<1>10. ASSUME NEW p \in Procs, LoadForRemove(p) PROVE PairsExcused'
  BY <1>10 DEF LoadForRemove, Known
<1>11. ASSUME NEW al \in AliasLists, EditAliases(al) PROVE PairsExcused'
  <2>1. \A n, i : ByAlias(n, i) => ByAlias(n, i)' BY <1>11 DEF EditAliases
  <2>2. QED BY <1>11, <2>1 DEF EditAliases, Quiet
<1>12. CASE UNCHANGED <<file, pc, env, slot, doc, lists>>
  BY <1>12
<1>13. QED
  BY <1>2, <1>3, <1>4, <1>5, <1>6, <1>7, <1>8, <1>9, <1>10, <1>11, <1>12 DEF Next, Command, RemoveByHand, vars

\* For any alias lists and any edits between them, two environments come to share an index
\* only where one was written to its fixed index as an alias, and never while the lists
\* configured so far differ by no more than an alias at the end.
THEOREM RegistryCollisionFree ==
  ASSUME ~Overlap
  PROVE  Spec => []UniqueIndices
<1>1. Init => PairsExcused
  BY DEF Init, PairsExcused, Excused, Entries, EmptyRegistry
<1>2. KInv /\ PairsExcused /\ [Next]_vars => PairsExcused'
  BY ExcusedStep
<1>3. SoundSoFar /\ PairsExcused => UniqueIndices
  BY DEF SoundSoFar, PairsExcused, Excused, ByAlias, Sound, WellFormed, UniqueIndices
<1>4. QED
  BY <1>1, <1>2, <1>3, SoundSoFarHolds, PTL DEF Spec

\* Until the alias list is edited, the registry is sound for it.
LEMMA SoundNow ==
  ASSUME KInv, SoundSoFar, ~Edited
  PROVE  Sound({aliases})
<1>1. lists = {aliases} /\ Len(aliases) \in Nat
  BY ConfigAssumption DEF Edited, KInv, TypeOK
<1>2. QED
  BY <1>1 DEF SoundSoFar, Appended

\* Until the alias list is edited, every recorded index is one the allocator may assign: an
\* alias has its fixed index, any other name one of the hash band, nobody 0 or the buffer.
THEOREM RegistryInBand ==
  ASSUME ~Overlap
  PROVE  Spec => []RecordedInBand
<1>1. KInv /\ SoundSoFar => RecordedInBand
  <2> SUFFICES ASSUME KInv, SoundSoFar, ~Edited, NEW n \in Entries(file)
               PROVE /\ IsValidEnvIndex(aliases, file[n])
                     /\ IF IsAlias(aliases, n) THEN file[n] = FixedIndex(aliases, n)
                                              ELSE file[n] \in HashBand(aliases)
    BY DEF RecordedInBand
  <2>1. Placed({aliases}, n, file[n]) /\ aliases \in AliasLists
    BY SoundNow DEF KInv, Sound, WellFormed, TypeOK
  <2>2. QED
    BY <2>1, FixedIndexInList DEF Placed, IsValidEnvIndex
<1>2. QED
  BY <1>1, SoundSoFarHolds, PTL

(***************************************************************************)
(* The registry implements the pool.                                       *)
(***************************************************************************)

\* The filling process is the only one, so Recorded is the document it loaded.
RecordedKnown ==
  /\ \A p \in Procs : pc[p] = "fill" => Recorded = doc[p]
  /\ (\A p \in Procs : pc[p] # "fill") => Recorded = file

\* What is recorded is the file, or the document of the process that rewrites it.
LEMMA RecordedIs == KInv => RecordedKnown
<1> SUFFICES ASSUME KInv PROVE RecordedKnown
  OBVIOUS
<1>1. ASSUME NEW p \in Procs, pc[p] = "fill" PROVE Recorded = doc[p]
  <2> DEFINE q == CHOOSE r \in Procs : pc[r] = "fill"
  <2>1. q \in Procs /\ pc[q] = "fill"
    BY <1>1
  <2>2. q = p
    BY <1>1, <2>1 DEF KInv, Alone, Idle
  <2>3. QED
    BY <1>1, <2>2 DEF Recorded
<1>2. QED
  BY <1>1 DEF Recorded, RecordedKnown

\* Storing an entry is a claim, a release, or no change at all.
LEMMA StoreIsPoolStep ==
  ASSUME NEW p \in Procs, KInv, Sound({aliases}), Recorded = doc[p], pc[p] = "fill",
         Recorded' = Stored(p)
  PROVE  Pool!Next \/ Recorded' = Recorded
<1> DEFINE n == env[p]
           i == slot[p]
           d == doc[p]
<1>1. n \in Names /\ i \in Indices \union {None} /\ d \in Registries
  BY DEF KInv, TypeOK, Idle, Indices
<1>2. Fits({aliases}, d, n, i) /\ (i = None \/ d[n] \in {None, i})
  <2>1. Fits({aliases}, d, n, i) /\ WellFormed({aliases}, d) /\ (i = None \/ Fresh(p, d))
    BY DEF KInv, Known, Sound
  <2>2. n \in Entries(d) /\ IsAlias(aliases, n) => d[n] = FixedIndex(aliases, n)
    BY <2>1 DEF WellFormed, Placed
  <2>3. QED BY <1>1, <2>1, <2>2 DEF Fresh, Entries
<1>3. Recorded' = [d EXCEPT ![n] = i]
  BY DEF Stored
<1>4. CASE d[n] = i
  BY <1>1, <1>3, <1>4 DEF Registries
<1>5. CASE i = None /\ d[n] # None
  <2>1. Pool!Release(n)
    BY <1>3, <1>5 DEF Pool!Release
  <2>2. QED
    BY <1>1, <2>1 DEF Pool!Next
<1>6. CASE i # None /\ d[n] = None
  <2>1. \A m \in Names : d[m] # i
    BY <1>2, <1>6 DEF Fits
  <2>2. Pool!Claim(n, i)
    BY <1>3, <1>6, <2>1 DEF Pool!Claim
  <2>3. QED
    BY <1>1, <1>6, <2>2 DEF Pool!Next, Indices
<1>7. QED
  BY <1>2, <1>4, <1>5, <1>6

\* A step is a step of the pool, a loss by a kill, or changes nothing recorded.
LEMMA PoolStep ==
  ASSUME KInv, KInv', SoundSoFar, ~Edited, [Next]_vars
  PROVE  Pool!Next \/ (Killed /\ Pool!Lose) \/ Recorded' = Recorded
<1>1. /\ \A p \in Procs : pc[p] = "fill" => Recorded = doc[p]
      /\ (\A p \in Procs : pc[p] # "fill") => Recorded = file
  BY RecordedIs DEF RecordedKnown
<1>2. /\ \A p \in Procs : pc'[p] = "fill" => Recorded' = doc'[p]
      /\ (\A p \in Procs : pc'[p] # "fill") => Recorded' = file'
  <2>1. RecordedKnown'
    BY RecordedIs, PTL
  <2>2. QED
    BY <2>1 DEF RecordedKnown
<1> USE <1>1, <1>2 DEF KInv, TypeOK, Alone, Known, Idle, Goto, End
<1>3. ASSUME NEW p \in Procs, NEW n \in Names, BeginInit(p, n) \/ BeginDestroy(p, n)
      PROVE Recorded' = Recorded
  <2>1. file' = file /\ doc' = doc /\ \A q \in Procs : pc'[q] = "fill" <=> pc[q] = "fill"
    BY <1>3 DEF BeginInit, BeginDestroy
  <2>2. QED
    BY <2>1
<1>4. ASSUME NEW p \in Procs, pc[p] \notin {"idle", "fill"}, pc'[p] # "fill",
             file' = file, \A q \in Procs \ {p} : pc'[q] = pc[q]
      PROVE Recorded' = Recorded
  <2>1. \A q \in Procs : pc[q] # "fill" /\ pc'[q] # "fill"
    BY <1>4
  <2>2. QED
    BY <1>4, <2>1
<1>5. ASSUME NEW p \in Procs, Truncate(p) PROVE Recorded' = Recorded
  <2>1. pc[p] = "store" /\ pc'[p] = "fill" /\ doc' = doc /\ doc[p] = file
    BY <1>5 DEF Truncate
  <2>2. \A q \in Procs : pc[q] # "fill"
    BY <2>1
  <2>3. QED
    BY <2>1, <2>2
<1>6. ASSUME NEW p \in Procs, Fill(p) PROVE Pool!Next \/ Recorded' = Recorded
  <2>1. pc[p] = "fill" /\ file' = Stored(p) /\ \A q \in Procs : pc'[q] # "fill"
    BY <1>6 DEF Fill
  <2>2. Recorded = doc[p] /\ Recorded' = Stored(p)
    BY <2>1
  <2>3. QED
    BY <2>1, <2>2, StoreIsPoolStep, SoundNow
<1>7. ASSUME NEW p \in Procs, Crash(p) PROVE (Killed /\ Pool!Lose) \/ Recorded' = Recorded
  <2>1. file' = file /\ \A q \in Procs : pc'[q] # "fill"
    BY <1>7 DEF Crash
  <2>2. CASE pc[p] = "fill"
    <3>1. Recorded' = EmptyRegistry
      BY <2>1, <2>2
    <3>2. QED
      BY <1>7, <3>1 DEF Pool!Lose, Killed, EmptyRegistry
  <2>3. CASE pc[p] # "fill"
    BY <1>7, <2>1, <2>3 DEF Crash
  <2>4. QED
    BY <2>2, <2>3
<1>8. CASE UNCHANGED <<pc, file, doc>>
  BY <1>8
<1>9. ASSUME NEW p \in Procs,
             \/ ClaimFixed(p) \/ KeepRecorded(p) \/ FindNothing(p) \/ Probe(p)
             \/ BandFull(p) \/ LoadDoc(p) \/ RemoveTree(p) \/ LoadForRemove(p)
             \/ NothingToRemove(p)
      PROVE Recorded' = Recorded
  <2>1. /\ pc[p] \notin {"idle", "fill"} /\ pc'[p] # "fill" /\ file' = file
        /\ \A q \in Procs \ {p} : pc'[q] = pc[q]
    BY <1>9 DEF ClaimFixed, KeepRecorded, FindNothing, Probe, BandFull, LoadDoc,
                RemoveTree, LoadForRemove, NothingToRemove
  <2>2. QED
    BY <2>1, <1>4
<1>10. QED
  BY <1>3, <1>5, <1>6, <1>7, <1>8, <1>9
     DEF Next, Command, RemoveByHand, EditAliases, vars

\* With one command at a time, every step of the registry protocol that is not a config edit
\* or after one, kills between any two file accesses included, is a step of the pool or changes
\* nothing the pool knows.
THEOREM RegistryImplementsPool ==
  ASSUME ~Overlap
  PROVE  Spec => ImplementsPool
<1>1. Init => Pool!Init
  <2>1. Init => Recorded = EmptyRegistry
    BY DEF Init, Recorded
  <2>2. QED
    BY <2>1 DEF Pool!Init, EmptyRegistry
<1>2. KInv /\ KInv' /\ SoundSoFar /\ [Next]_vars => [Pool!Next \/ Edited' \/ (Killed /\ Pool!Lose)]_Recorded
  <2> SUFFICES ASSUME KInv, KInv', SoundSoFar, [Next]_vars, ~Edited'
               PROVE  Pool!Next \/ (Killed /\ Pool!Lose) \/ Recorded' = Recorded
    OBVIOUS
  <2>1. ~Edited
    BY DEF Edited, KInv, TypeOK, Next, Command, RemoveByHand, EditAliases, vars, BeginInit, BeginDestroy, ClaimFixed, KeepRecorded, FindNothing,
           Probe, BandFull, LoadDoc, Truncate, Fill, RemoveTree, LoadForRemove, NothingToRemove, Crash
  <2>2. QED
    BY <2>1, PoolStep
<1>3. QED
  BY <1>1, <1>2, SoundSoFarHolds, PTL DEF Spec, ImplementsPool
=============================================================================

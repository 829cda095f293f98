------------------------------ MODULE EnvIndex ------------------------------
(***************************************************************************)
(* The index arithmetic of a winter workspace: which index an environment  *)
(* name gets.  Aliases own the fixed indices 1..N, N+1 is a buffer that is *)
(* never assigned, and every other name hashes into the band N+2..M, where *)
(* a linear probe that wraps inside the band resolves collisions.  Index 0 *)
(* belongs to the workspace's shared services.                             *)
(*                                                                         *)
(* A registry maps each name to its recorded index or to None.             *)
(***************************************************************************)
EXTENDS Integers, Sequences, FiniteSets

CONSTANTS
  Names,            \* environment names
  EnvsPerWorkspace, \* M, the largest index a workspace hands out
  Digest,           \* [Names -> Nat]: the first two bytes of a name's SHA-1
  AliasLists,       \* the alias lists the workspace's config may hold
  None              \* "no entry"

\* config.workspace refuses an alias list that leaves no hash band.
ASSUME ConfigAssumption ==
  /\ EnvsPerWorkspace \in Nat
  /\ Digest \in [Names -> Nat]
  /\ AliasLists \subseteq Seq(Names)
  /\ \A al \in AliasLists :
       /\ Len(al) + 2 <= EnvsPerWorkspace
       /\ \A i, j \in 1..Len(al) : al[i] = al[j] => i = j
  /\ None \notin Nat

Registries == [Names -> 1..EnvsPerWorkspace \union {None}]
EmptyRegistry == [n \in Names |-> None]

Entries(reg) == {n \in Names : reg[n] # None}

IsAlias(al, n) == \E i \in 1..Len(al) : al[i] = n
FixedIndex(al, n) == CHOOSE i \in 1..Len(al) : al[i] = n

BandStart(al) == Len(al) + 2
BandSize(al) == EnvsPerWorkspace - Len(al) - 1
HashBand(al) == BandStart(al)..EnvsPerWorkspace

\* The k-th slot the probe of n looks at; the 0-th is the bare hash.
ProbeSlot(al, n, k) == BandStart(al) + ((Digest[n] + k) % BandSize(al))

\* The suggestion for a name, which never consults the registry.
ResolveEnvIndex(al, n) ==
  IF IsAlias(al, n) THEN FixedIndex(al, n) ELSE ProbeSlot(al, n, 0)

\* Mutant: the suggestion is taken without a look at the registry.
AnyDistance(al, reg, n) == 0..(BandSize(al) - 1)

\* The probe distances at which n finds no other environment's index.
FreeDistances(al, reg, n) ==
  {k \in 0..(BandSize(al) - 1) :
     \A m \in Names \ {n} : reg[m] # ProbeSlot(al, n, k)}

\* The first of them, where the probe stops.
FirstFree(al, reg, n, k) ==
  /\ k \in FreeDistances(al, reg, n)
  /\ \A j \in FreeDistances(al, reg, n) : k <= j

\* What `winter env n` reports: the recorded index, else the suggestion.
EnvTrioIndex(al, reg, n) ==
  IF reg[n] # None THEN reg[n] ELSE ResolveEnvIndex(al, n)

IsValidEnvIndex(al, i) == i \in (1..Len(al)) \union HashBand(al)
=============================================================================

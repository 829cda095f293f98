---------------------------- MODULE RestackProof ----------------------------
(***************************************************************************)
(* The proofs about Restack, in the order they rest on each other:          *)
(*   sequences, FlattenSeq, and what git computes of commits;               *)
(*   Typed and Present: the state has its type, and what a rebase or a job  *)
(*     names is there;                                                      *)
(*   OwnInv: every branch and every stopped rebase carries its env's        *)
(*     commits (RestackOwnCommitsKept);                                     *)
(*   Unrepeated: no patch twice on a branch;                                *)
(*   JobsApart and PlanHolds: the frozen plan is still true of the branches *)
(*     (RestackStandsOnPredecessor);                                        *)
(*   DoneHolds: a finished link fits its predecessor, whatever stops, ends  *)
(*     or starts again (RestackResumeSkipsCompleted).                       *)
(***************************************************************************)
EXTENDS Restack, TLAPS, FiniteSetTheorems, WellFoundedInduction

(***************************************************************************)
(* Induction on sequences, and what Only does to one.                      *)
(***************************************************************************)

\* Every set of naturals has a least member.
LEMMA LeastNat ==
  ASSUME NEW T \in SUBSET Nat, T # {}
  PROVE  \E x \in T : \A y \in T : x <= y
<1> DEFINE R == {p \in Nat \X Nat : p[1] < p[2]}
<1>1. IsWellFoundedOn(R, Nat) BY NatLessThanWellFounded DEF OpToRel
<1>2. \A x, y \in Nat : y < x => <<y, x>> \in R OBVIOUS
<1> HIDE DEF R
<1>3. PICK x \in T : \A y \in T : ~ (<<y, x>> \in R) BY <1>1, WFMin
<1>4. ASSUME NEW y \in T PROVE x <= y
  <2>1. x \in Nat /\ y \in Nat OBVIOUS
  <2>2. ~ (y < x) BY <1>2, <1>3, <2>1
  <2>3. QED BY <2>1, <2>2
<1>5. QED BY <1>4

\* A set of sequences with the empty one, closed under Append, has them all.
LEMMA SeqInduction ==
  ASSUME NEW T, NEW P, <<>> \in P,
         \A s \in Seq(T), x \in T : s \in P => Append(s, x) \in P
  PROVE  Seq(T) \subseteq P
<1> SUFFICES ASSUME NEW bad \in Seq(T), bad \notin P PROVE FALSE
  OBVIOUS
<1> DEFINE L == { Len(s) : s \in { t \in Seq(T) : t \notin P } }
<1>1. Len(bad) \in L
  OBVIOUS
<1>2. PICK n \in L : \A m \in L : n <= m
  <2>1. \A s \in Seq(T) : Len(s) \in Nat
    OBVIOUS
  <2>2. L \in SUBSET Nat
    BY <2>1
  <2>3. QED
    BY <1>1, <2>2, LeastNat
<1>3. PICK s \in Seq(T) : s \notin P /\ Len(s) = n
  OBVIOUS
<1>4. s # <<>> /\ n \in Nat /\ n > 0
  BY <1>3
<1> DEFINE f == SubSeq(s, 1, n - 1)
<1>5. f \in Seq(T) /\ Len(f) = n - 1 /\ s[n] \in T /\ s = Append(f, s[n])
  BY <1>3, <1>4
<1>6. f \notin P
  BY <1>3, <1>5
<1>7. n - 1 \in L
  BY <1>5, <1>6
<1> HIDE DEF L, f
<1>8. n <= n - 1
  BY <1>2, <1>7
<1>9. QED
  BY <1>4, <1>8

\* The functions Only's definition speaks of, up to a position.
Upto(f, s, S, n) ==
  f = [k \in 0..n |-> IF k = 0 THEN <<>>
                      ELSE IF s[k] \in S THEN Append(f[k - 1], s[k]) ELSE f[k - 1]]

\* What such a function is at a position.
At(f, s, S, k) == f[k] = IF s[k] \in S THEN Append(f[k - 1], s[k]) ELSE f[k - 1]

\* It is that at every position.
LEMMA UptoAt ==
  ASSUME NEW s, NEW S, NEW n \in Nat, NEW f, Upto(f, s, S, n)
  PROVE  f[0] = <<>> /\ \A k \in 1..n : At(f, s, S, k)
<1> DEFINE step(k) == IF k = 0 THEN <<>>
                      ELSE IF s[k] \in S THEN Append(f[k - 1], s[k]) ELSE f[k - 1]
<1>1. f = [k \in 0..n |-> step(k)]
  BY DEF Upto
<1>2. step(0) = <<>> /\ \A k \in 1..n : step(k) = IF s[k] \in S THEN Append(f[k - 1], s[k]) ELSE f[k - 1]
  OBVIOUS
<1> HIDE DEF step
<1>3. \A k \in 0..n : f[k] = step(k)
  BY <1>1
<1>4. 0 \in 0..n /\ \A k \in 1..n : k \in 0..n
  OBVIOUS
<1>5. QED
  BY <1>2, <1>3, <1>4 DEF At

\* There is one for every position.
LEMMA UptoExists ==
  ASSUME NEW s, NEW S, NEW m \in Nat
  PROVE  \E f : Upto(f, s, S, m)
<1> SUFFICES ASSUME ~ \E f : Upto(f, s, S, m) PROVE FALSE
  OBVIOUS
<1> DEFINE B == { n \in Nat : ~ \E f : Upto(f, s, S, n) }
<1>1. PICK n \in B : \A k \in B : n <= k
  BY LeastNat
<1>2. CASE n = 0
  <2>1. Upto([k \in 0..0 |-> <<>>], s, S, 0)
    BY DEF Upto
  <2>2. QED
    BY <1>1, <1>2, <2>1
<1>3. CASE n # 0
  <2>1. n - 1 \in Nat /\ n - 1 \notin B
    BY <1>1, <1>3
  <2>2. PICK f : Upto(f, s, S, n - 1)
    BY <2>1
  <2> DEFINE g == [k \in 0..n |-> IF k = 0 THEN <<>>
                      ELSE IF s[k] \in S THEN Append(f[k - 1], s[k]) ELSE f[k - 1]]
  <2>3. \A k \in 0..n - 1 : g[k] = f[k]
    <3>1. f[0] = <<>> /\ \A k \in 1..n - 1 : At(f, s, S, k)
      BY <2>1, <2>2, UptoAt
    <3>2. QED
      BY <2>1, <3>1 DEF At
  <2>4. \A k \in 0..n : k # 0 => k - 1 \in 0..n - 1 /\ g[k - 1] = f[k - 1]
    <3> SUFFICES ASSUME NEW k \in 0..n, k # 0 PROVE k - 1 \in 0..n - 1 /\ g[k - 1] = f[k - 1]
      OBVIOUS
    <3>1. k - 1 \in 0..n - 1
      BY <1>1
    <3> HIDE DEF g
    <3>2. QED
      BY <2>3, <3>1
  <2>5. g = [k \in 0..n |-> IF k = 0 THEN <<>>
                      ELSE IF s[k] \in S THEN Append(g[k - 1], s[k]) ELSE g[k - 1]]
    BY <2>4
  <2>6. Upto(g, s, S, n)
    BY <2>5 DEF Upto
  <2>7. QED
    BY <1>1, <2>6
<1>4. QED
  BY <1>2, <1>3

\* There is only one, up to any earlier position.
LEMMA UptoAgree ==
  ASSUME NEW T, NEW s \in Seq(T), NEW x \in T, NEW S, NEW f, NEW g,
         Upto(f, s, S, Len(s)), Upto(g, Append(s, x), S, Len(s) + 1)
  PROVE  \A n \in 0..Len(s) : f[n] = g[n]
<1> SUFFICES ASSUME NEW m \in 0..Len(s), f[m] # g[m] PROVE FALSE
  OBVIOUS
<1> DEFINE B == { n \in 0..Len(s) : f[n] # g[n] }
<1>1. PICK n \in B : \A k \in B : n <= k
  <2>1. B \in SUBSET Nat /\ B # {}
    OBVIOUS
  <2>2. QED
    BY <2>1, LeastNat
<1>n. Len(s) \in Nat /\ Len(s) + 1 \in Nat
  OBVIOUS
<1>f. f[0] = <<>> /\ \A k \in 1..Len(s) : At(f, s, S, k)
  BY <1>n, UptoAt
<1>g. g[0] = <<>> /\ \A k \in 1..Len(s) + 1 : At(g, Append(s, x), S, k)
  BY <1>n, UptoAt
<1>2. n # 0
  BY <1>1, <1>f, <1>g
<1>3. n \in 1..Len(s) /\ n - 1 \in 0..Len(s) /\ f[n - 1] = g[n - 1]
  BY <1>1, <1>2
<1>4. Append(s, x)[n] = s[n]
  BY <1>3
<1>5. f[n] = g[n]
  <2>1. At(f, s, S, n) /\ At(g, Append(s, x), S, n)
    BY <1>3, <1>f, <1>g
  <2>2. QED
    BY <1>3, <1>4, <2>1 DEF At
<1>6. QED
  BY <1>1, <1>5

\* Nothing of nothing.
LEMMA OnlyEmpty == ASSUME NEW S PROVE Only(<<>>, S) = <<>>
<1>1. \E f : Upto(f, <<>>, S, 0)
  BY UptoExists
<1>2. QED
  BY <1>1 DEF Upto, Only

\* Only goes through a sequence from its first member to its last.
LEMMA OnlyAppend ==
  ASSUME NEW T, NEW s \in Seq(T), NEW x \in T, NEW S
  PROVE  Only(Append(s, x), S) = IF x \in S THEN Append(Only(s, S), x) ELSE Only(s, S)
<1> DEFINE f == CHOOSE h : Upto(h, s, S, Len(s))
           g == CHOOSE h : Upto(h, Append(s, x), S, Len(s) + 1)
<1>1. Upto(f, s, S, Len(s)) /\ Only(s, S) = f[Len(s)]
  <2>1. Upto(f, s, S, Len(s))
    BY UptoExists
  <2>2. QED
    BY <2>1 DEF Upto, Only
<1>2. Len(Append(s, x)) = Len(s) + 1 /\ Append(s, x)[Len(s) + 1] = x
  OBVIOUS
<1>3. Upto(g, Append(s, x), S, Len(s) + 1) /\ Only(Append(s, x), S) = g[Len(s) + 1]
  <2>1. Upto(g, Append(s, x), S, Len(s) + 1)
    BY UptoExists
  <2>2. Only(Append(s, x), S) = g[Len(s) + 1]
    BY <1>2 DEF Upto, Only
  <2>3. QED
    BY <2>1, <2>2
<1> HIDE DEF f, g
<1>4. f[Len(s)] = g[Len(s)]
  BY <1>1, <1>3, UptoAgree
<1>5. g[Len(s) + 1] = IF x \in S THEN Append(g[Len(s)], x) ELSE g[Len(s)]
  <2>1. \A k \in 1..Len(s) + 1 : At(g, Append(s, x), S, k)
    <3>1. Len(s) + 1 \in Nat
      OBVIOUS
    <3>2. QED
      BY <1>3, <3>1, UptoAt
  <2>2. Len(s) + 1 \in 1..Len(s) + 1 /\ Len(s) + 1 - 1 = Len(s)
    OBVIOUS
  <2>3. QED
    BY <1>2, <2>1, <2>2 DEF At
<1>6. QED
  BY <1>1, <1>3, <1>4, <1>5

\* The two cases of OnlyAppend.
LEMMA OnlyStep ==
  \A T : \A x \in T, s \in Seq(T) : \A S :
    /\ x \in S => Only(Append(s, x), S) = Append(Only(s, S), x)
    /\ x \notin S => Only(Append(s, x), S) = Only(s, S)
<1> SUFFICES ASSUME NEW T, NEW x \in T, NEW s \in Seq(T), NEW S
             PROVE  /\ x \in S => Only(Append(s, x), S) = Append(Only(s, S), x)
                    /\ x \notin S => Only(Append(s, x), S) = Only(s, S)
  OBVIOUS
<1>1. Only(Append(s, x), S) = IF x \in S THEN Append(Only(s, S), x) ELSE Only(s, S)
  BY OnlyAppend
<1>2. QED
  BY <1>1

\* What Only keeps is of the sequence and in the set.
LEMMA OnlyType ==
  ASSUME NEW T, NEW s \in Seq(T), NEW S
  PROVE  Only(s, S) \in Seq(T \cap S)
<1> DEFINE Q(t) == Only(t, S) \in Seq(T \cap S)
<1>1. Q(<<>>)
  <2>1. <<>> \in Seq(T \cap S)
    OBVIOUS
  <2>2. QED
    BY <2>1, OnlyEmpty
<1>2. ASSUME NEW t \in Seq(T), NEW x \in T, Q(t) PROVE Q(Append(t, x))
  <2>1. Only(Append(t, x), S) = IF x \in S THEN Append(Only(t, S), x) ELSE Only(t, S)
    BY OnlyAppend
  <2>2. Only(t, S) \in Seq(T \cap S)
    BY <1>2
  <2>3. x \in S => Append(Only(t, S), x) \in Seq(T \cap S)
    BY <2>2
  <2>4. QED
    BY <2>1, <2>2, <2>3
<1>3. \A t \in Seq(T) : Q(t)
  <2> DEFINE P == { t \in Seq(T) : Q(t) }
  <2> HIDE DEF Q
  <2>1. <<>> \in P /\ \A t \in Seq(T), x \in T : t \in P => Append(t, x) \in P
    BY <1>1, <1>2
  <2> HIDE DEF P
  <2>2. Seq(T) \subseteq P
    BY <2>1, SeqInduction
  <2>3. QED
    BY <2>2 DEF P
<1>4. QED
  BY <1>3

\* Appending to a concatenation appends to its second part.
LEMMA ConcatAppend ==
  \A T : \A x \in T, p, q \in Seq(T) : Append(p \o q, x) = p \o Append(q, x)
OBVIOUS

\* Only goes through two sequences one after the other.
LEMMA OnlyConcat ==
  ASSUME NEW T, NEW s \in Seq(T), NEW u \in Seq(T), NEW S
  PROVE  Only(s \o u, S) = Only(s, S) \o Only(u, S)
<1> DEFINE Q(t) == Only(s \o t, S) = Only(s, S) \o Only(t, S)
<1>0. Only(s, S) \in Seq(T \cap S)
  BY OnlyType
<1>1. Q(<<>>)
  <2>1. s \o <<>> = s /\ Only(s, S) \o <<>> = Only(s, S)
    BY <1>0
  <2>2. QED
    BY <2>1, OnlyEmpty
<1>2. ASSUME NEW t \in Seq(T), NEW x \in T, Q(t) PROVE Q(Append(t, x))
  <2>1. Only(Append(t, x), S) = IF x \in S THEN Append(Only(t, S), x) ELSE Only(t, S)
    BY OnlyAppend
  <2>2. s \o t \in Seq(T) /\ s \o Append(t, x) = Append(s \o t, x)
    OBVIOUS
  <2>3. Only(s \o Append(t, x), S) = IF x \in S THEN Append(Only(s \o t, S), x) ELSE Only(s \o t, S)
    BY <2>2, OnlyAppend
  <2>4. Only(t, S) \in Seq(T \cap S)
    BY OnlyType
  <2>5. x \in S => Append(Only(s, S) \o Only(t, S), x) = Only(s, S) \o Append(Only(t, S), x)
    <3>1. Only(s, S) \in Seq(T) /\ Only(t, S) \in Seq(T)
      BY <1>0, <2>4
    <3>2. Append(Only(s, S) \o Only(t, S), x) = Only(s, S) \o Append(Only(t, S), x)
      BY <3>1, ConcatAppend
    <3>3. QED
      BY <3>2
  <2>6. QED
    BY <1>2, <2>1, <2>3, <2>5
<1>3. \A t \in Seq(T) : Q(t)
  <2> DEFINE P == { t \in Seq(T) : Q(t) }
  <2> HIDE DEF Q
  <2>1. <<>> \in P /\ \A t \in Seq(T), x \in T : t \in P => Append(t, x) \in P
    BY <1>1, <1>2
  <2> HIDE DEF P
  <2>2. Seq(T) \subseteq P
    BY <2>1, SeqInduction
  <2>3. QED
    BY <2>2 DEF P
<1>4. QED
  BY <1>3

\* Two sets that agree on a sequence keep the same of it.
LEMMA OnlySame ==
  ASSUME NEW T, NEW s \in Seq(T), NEW S, NEW U,
         \A i \in 1..Len(s) : s[i] \in S <=> s[i] \in U
  PROVE  Only(s, S) = Only(s, U)
<1> DEFINE Q(t) == (\A i \in 1..Len(t) : t[i] \in S <=> t[i] \in U)
                                   => Only(t, S) = Only(t, U)
<1>1. Q(<<>>)
  BY OnlyEmpty
<1>2. ASSUME NEW t \in Seq(T), NEW x \in T, Q(t) PROVE Q(Append(t, x))
  <2>1. SUFFICES ASSUME \A i \in 1..Len(Append(t, x)) : Append(t, x)[i] \in S <=> Append(t, x)[i] \in U
                 PROVE  Only(Append(t, x), S) = Only(Append(t, x), U)
    OBVIOUS
  <2>2. x \in S <=> x \in U
    <3>1. Append(t, x)[Len(t) + 1] = x /\ Len(t) + 1 \in 1..Len(Append(t, x))
      OBVIOUS
    <3>2. QED
      BY <2>1, <3>1
  <2>3. \A i \in 1..Len(t) : t[i] \in S <=> t[i] \in U
    BY <2>1
  <2>4. Only(t, S) = Only(t, U)
    BY <1>2, <2>3
  <2>5. QED
    <3>1. \A W : Only(Append(t, x), W) = IF x \in W THEN Append(Only(t, W), x) ELSE Only(t, W)
      BY OnlyAppend
    <3>2. QED
      BY <2>2, <2>4, <3>1
<1>3. \A t \in Seq(T) : Q(t)
  <2> DEFINE P == { t \in Seq(T) : Q(t) }
  <2> HIDE DEF Q
  <2>1. <<>> \in P /\ \A t \in Seq(T), x \in T : t \in P => Append(t, x) \in P
    BY <1>1, <1>2
  <2> HIDE DEF P
  <2>2. Seq(T) \subseteq P
    BY <2>1, SeqInduction
  <2>3. QED
    BY <2>2 DEF P
<1>4. QED
  BY <1>3

\* Nothing is kept of a sequence that has no member in the set.
LEMMA OnlyNone ==
  ASSUME NEW T, NEW s \in Seq(T), NEW S, \A i \in 1..Len(s) : s[i] \notin S
  PROVE  Only(s, S) = <<>>
<1>1. Only(s, S) = Only(s, {})
  BY OnlySame
<1>2. Only(s, {}) \in Seq(T \cap {})
  BY OnlyType
<1>3. QED
  BY <1>1, <1>2

\* All is kept of a sequence that has all its members in the set.
LEMMA OnlyAll ==
  ASSUME NEW T, NEW s \in Seq(T), NEW S, \A i \in 1..Len(s) : s[i] \in S
  PROVE  Only(s, S) = s
<1> DEFINE Q(t) == Only(t, T) = t
<1>1. Q(<<>>)
  BY OnlyEmpty
<1>2. ASSUME NEW t \in Seq(T), NEW x \in T, Q(t) PROVE Q(Append(t, x))
  BY <1>2, OnlyAppend
<1>3. \A t \in Seq(T) : Q(t)
  <2> DEFINE P == { t \in Seq(T) : Q(t) }
  <2> HIDE DEF Q
  <2>1. <<>> \in P /\ \A t \in Seq(T), x \in T : t \in P => Append(t, x) \in P
    BY <1>1, <1>2
  <2> HIDE DEF P
  <2>2. Seq(T) \subseteq P
    BY <2>1, SeqInduction
  <2>3. QED
    BY <2>2 DEF P
<1>4. \A i \in 1..Len(s) : s[i] \in S <=> s[i] \in T
  OBVIOUS
<1>5. Only(s, S) = Only(s, T)
  BY <1>4, OnlySame
<1>6. QED
  BY <1>3, <1>5

\* Of what was kept, a second set keeps what is in both.
LEMMA OnlyOnly ==
  ASSUME NEW T, NEW s \in Seq(T), NEW S, NEW U
  PROVE  Only(Only(s, S), U) = Only(s, S \cap U)
<1> DEFINE Q(t) == Only(Only(t, S), U) = Only(t, S \cap U)
<1>1. Q(<<>>)
  BY OnlyEmpty
<1>2. ASSUME NEW t \in Seq(T), NEW x \in T, Q(t) PROVE Q(Append(t, x))
  <2>1. Only(Append(t, x), S) = IF x \in S THEN Append(Only(t, S), x) ELSE Only(t, S)
    BY OnlyAppend
  <2>2. Only(Append(t, x), S \cap U) = IF x \in S \cap U THEN Append(Only(t, S \cap U), x) ELSE Only(t, S \cap U)
    BY OnlyAppend
  <2>3. Only(t, S) \in Seq(T)
    <3>1. Only(t, S) \in Seq(T \cap S)
      BY OnlyType
    <3>2. QED
      BY <3>1
  <2>4. Only(Append(Only(t, S), x), U) = IF x \in U THEN Append(Only(Only(t, S), U), x) ELSE Only(Only(t, S), U)
    BY <2>3, OnlyAppend
  <2>5. CASE x \in S
    <3>1. Only(Append(t, x), S) = Append(Only(t, S), x) /\ (x \in S \cap U <=> x \in U)
      BY <2>1, <2>5
    <3> DEFINE a == Only(t, S)
               b == Only(t, S \cap U)
    <3>2. Only(a, U) = b
      BY <1>2
    <3>3. Only(Append(a, x), U) = IF x \in U THEN Append(b, x) ELSE b
      BY <2>4, <3>2
    <3>4. QED
      BY <2>2, <3>1, <3>3
  <2>6. CASE x \notin S
    BY <1>2, <2>1, <2>2, <2>6
  <2>7. QED
    BY <2>5, <2>6
<1>3. \A t \in Seq(T) : Q(t)
  <2> DEFINE P == { t \in Seq(T) : Q(t) }
  <2> HIDE DEF Q
  <2>1. <<>> \in P /\ \A t \in Seq(T), x \in T : t \in P => Append(t, x) \in P
    BY <1>1, <1>2
  <2> HIDE DEF P
  <2>2. Seq(T) \subseteq P
    BY <2>1, SeqInduction
  <2>3. QED
    BY <2>2 DEF P
<1>4. QED
  BY <1>3

\* What is kept is exactly what is in the set.
LEMMA OnlyRange ==
  ASSUME NEW T, NEW s \in Seq(T), NEW S
  PROVE  Range(Only(s, S)) = Range(s) \cap S
<1> DEFINE Q(t) == Range(Only(t, S)) = Range(t) \cap S
<1>0. \A u \in Seq(T), x \in T : Range(Append(u, x)) = Range(u) \union {x}
  <2> SUFFICES ASSUME NEW u \in Seq(T), NEW x \in T PROVE Range(Append(u, x)) = Range(u) \union {x}
    OBVIOUS
  <2>1. DOMAIN Append(u, x) = 1..Len(u) + 1 /\ DOMAIN u = 1..Len(u)
    OBVIOUS
  <2>2. \A i \in 1..Len(u) : Append(u, x)[i] = u[i]
    OBVIOUS
  <2>3. Append(u, x)[Len(u) + 1] = x /\ Len(u) + 1 \in 1..Len(u) + 1
    OBVIOUS
  <2>4. \A i \in 1..Len(u) + 1 : i \in 1..Len(u) \/ i = Len(u) + 1
    OBVIOUS
  <2>5. \A i \in 1..Len(u) : i \in 1..Len(u) + 1
    OBVIOUS
  <2>6. ASSUME NEW y PROVE y \in Range(Append(u, x)) <=> y \in Range(u) \union {x}
    BY <2>1, <2>2, <2>3, <2>4, <2>5 DEF Range
  <2>7. QED
    BY <2>6
<1>1. Q(<<>>)
  BY OnlyEmpty DEF Range
<1>2. ASSUME NEW t \in Seq(T), NEW x \in T, Q(t) PROVE Q(Append(t, x))
  <2>1. Only(Append(t, x), S) = IF x \in S THEN Append(Only(t, S), x) ELSE Only(t, S)
    BY OnlyAppend
  <2>2. Range(Append(t, x)) = Range(t) \union {x}
    BY <1>0
  <2>3. Only(t, S) \in Seq(T)
    <3>1. Only(t, S) \in Seq(T \cap S)
      BY OnlyType
    <3>2. QED
      BY <3>1
  <2>4. Range(Append(Only(t, S), x)) = Range(Only(t, S)) \union {x}
    BY <1>0, <2>3
  <2>5. Append(t, x) \in Seq(T) /\ Range(Only(t, S)) = Range(t) \cap S
    BY <1>2
  <2>6. QED
    BY <2>1, <2>2, <2>4, <2>5
<1>3. \A t \in Seq(T) : Q(t)
  <2> DEFINE P == { t \in Seq(T) : Q(t) }
  <2> HIDE DEF Q
  <2>1. <<>> \in P /\ \A t \in Seq(T), x \in T : t \in P => Append(t, x) \in P
    BY <1>1, <1>2
  <2> HIDE DEF P
  <2>2. Seq(T) \subseteq P
    BY <2>1, SeqInduction
  <2>3. QED
    BY <2>2 DEF P
<1>4. QED
  BY <1>3

\* Of a sequence without repetition nothing is kept twice.
LEMMA OnlyInjective ==
  ASSUME NEW T, NEW s \in Seq(T), NEW S,
         \A i, k \in 1..Len(s) : s[i] = s[k] => i = k
  PROVE  \A i, k \in 1..Len(Only(s, S)) : Only(s, S)[i] = Only(s, S)[k] => i = k
<1> DEFINE Inj(t) == \A i, k \in 1..Len(t) : t[i] = t[k] => i = k
           Q(t) == Inj(t) => Inj(Only(t, S))
<1>1. Q(<<>>)
  BY OnlyEmpty
<1>2. ASSUME NEW t \in Seq(T), NEW x \in T, Q(t) PROVE Q(Append(t, x))
  <2>1. SUFFICES ASSUME Inj(Append(t, x)) PROVE Inj(Only(Append(t, x), S))
    OBVIOUS
  <2>2. Inj(t) /\ x \notin Range(t)
    <3>1. \A i \in 1..Len(t) : Append(t, x)[i] = t[i] /\ i \in 1..Len(Append(t, x))
      OBVIOUS
    <3>2. Append(t, x)[Len(t) + 1] = x /\ Len(t) + 1 \in 1..Len(Append(t, x))
      OBVIOUS
    <3>3. Inj(t)
      BY <2>1, <3>1
    <3>4. \A i \in 1..Len(t) : t[i] # x
      BY <2>1, <3>1, <3>2
    <3>5. QED
      BY <3>3, <3>4 DEF Range
  <2>3. Inj(Only(t, S))
    BY <1>2, <2>2
  <2>4. Only(t, S) \in Seq(T) /\ Range(Only(t, S)) = Range(t) \cap S
    <3>1. Only(t, S) \in Seq(T \cap S)
      BY OnlyType
    <3>2. QED
      BY <3>1, OnlyRange
  <2> DEFINE u == Only(t, S)
  <2> HIDE DEF u
  <2>5. \A i \in 1..Len(u) : u[i] # x
    <3>1. Range(u) = Range(t) \cap S
      BY <2>4 DEF u
    <3>2. u \in Seq(T)
      BY <2>4 DEF u
    <3>3. \A i \in 1..Len(u) : u[i] \in Range(u)
      BY <3>2 DEF Range
    <3>4. QED
      BY <2>2, <3>1, <3>3
  <2>6. u \in Seq(T) /\ Inj(u)
    BY <2>3, <2>4 DEF u
  <2>7. Inj(Append(u, x))
    BY <2>5, <2>6
  <2>8. Only(Append(t, x), S) = IF x \in S THEN Append(u, x) ELSE u
    BY OnlyAppend DEF u
  <2>9. QED
    BY <2>6, <2>7, <2>8
<1>3. \A t \in Seq(T) : Q(t)
  <2> DEFINE P == { t \in Seq(T) : Q(t) }
  <2> HIDE DEF Q
  <2>1. <<>> \in P /\ \A t \in Seq(T), x \in T : t \in P => Append(t, x) \in P
    BY <1>1, <1>2
  <2> HIDE DEF P
  <2>2. Seq(T) \subseteq P
    BY <2>1, SeqInduction
  <2>3. QED
    BY <2>2 DEF P
<1>4. QED
  BY <1>3

(***************************************************************************)
(* FlattenSeq, which puts the links' jobs one after the other.             *)
(***************************************************************************)

\* The functions FlattenSeq's definition speaks of.
Flat(f, ss, n) == f = [i \in 1..n |-> IF i = 1 THEN ss[i] ELSE f[i - 1] \o ss[i]]

\* What such a function is at a position.
FlatAt(f, ss, i) == f[i] = IF i = 1 THEN ss[i] ELSE f[i - 1] \o ss[i]

\* It is that at every position.
LEMMA FlatIsAt ==
  ASSUME NEW ss, NEW n \in Nat, NEW f, Flat(f, ss, n)
  PROVE  \A i \in 1..n : FlatAt(f, ss, i)
<1> DEFINE step(i) == IF i = 1 THEN ss[i] ELSE f[i - 1] \o ss[i]
<1>1. f = [i \in 1..n |-> step(i)]
  BY DEF Flat
<1>2. \A i \in 1..n : f[i] = step(i) => FlatAt(f, ss, i)
  BY DEF FlatAt
<1> HIDE DEF step
<1>3. \A i \in 1..n : f[i] = step(i)
  BY <1>1
<1>4. QED
  BY <1>2, <1>3

\* There is one for every number of parts.
LEMMA FlatExists ==
  ASSUME NEW ss, NEW m \in Nat
  PROVE  \E f : Flat(f, ss, m)
<1> SUFFICES ASSUME ~ \E f : Flat(f, ss, m) PROVE FALSE
  OBVIOUS
<1> DEFINE B == { n \in Nat : ~ \E f : Flat(f, ss, n) }
<1>1. PICK n \in B : \A k \in B : n <= k
  BY LeastNat
<1>2. n # 0
  <2>1. Flat([i \in 1..0 |-> <<>>], ss, 0)
    BY DEF Flat
  <2>2. QED
    BY <1>1, <2>1
<1>3. n - 1 \in Nat /\ n - 1 \notin B
  BY <1>1, <1>2
<1>4. PICK f : Flat(f, ss, n - 1)
  BY <1>3
<1> DEFINE g == [i \in 1..n |-> IF i = 1 THEN ss[i] ELSE f[i - 1] \o ss[i]]
<1>5. \A i \in 1..n - 1 : g[i] = f[i]
  <2>1. \A i \in 1..n - 1 : FlatAt(f, ss, i)
    BY <1>3, <1>4, FlatIsAt
  <2>2. QED
    BY <1>3, <2>1 DEF FlatAt
<1>6. \A i \in 1..n : i # 1 => i - 1 \in 1..n - 1 /\ g[i - 1] = f[i - 1]
  <2> SUFFICES ASSUME NEW i \in 1..n, i # 1 PROVE i - 1 \in 1..n - 1 /\ g[i - 1] = f[i - 1]
    OBVIOUS
  <2>1. i - 1 \in 1..n - 1
    BY <1>1
  <2> HIDE DEF g
  <2>2. QED
    BY <1>5, <2>1
<1>7. g = [i \in 1..n |-> IF i = 1 THEN ss[i] ELSE g[i - 1] \o ss[i]]
  BY <1>6
<1>8. Flat(g, ss, n)
  BY <1>7 DEF Flat
<1>9. QED
  BY <1>1, <1>8

\* Two of them agree on the parts they share.
LEMMA FlatAgree ==
  ASSUME NEW T, NEW ss \in Seq(T), NEW x \in T, NEW f, NEW g,
         Flat(f, ss, Len(ss)), Flat(g, Append(ss, x), Len(ss) + 1)
  PROVE  \A n \in 1..Len(ss) : f[n] = g[n]
<1> SUFFICES ASSUME NEW m \in 1..Len(ss), f[m] # g[m] PROVE FALSE
  OBVIOUS
<1> DEFINE B == { n \in 1..Len(ss) : f[n] # g[n] }
<1>1. PICK n \in B : \A k \in B : n <= k
  <2>1. B \in SUBSET Nat /\ B # {}
    OBVIOUS
  <2>2. QED
    BY <2>1, LeastNat
<1>2. Len(ss) \in Nat /\ Len(ss) + 1 \in Nat
  OBVIOUS
<1>3. FlatAt(f, ss, n) /\ FlatAt(g, Append(ss, x), n)
  <2>1. \A i \in 1..Len(ss) : FlatAt(f, ss, i)
    BY <1>2, FlatIsAt
  <2>2. \A i \in 1..Len(ss) + 1 : FlatAt(g, Append(ss, x), i)
    BY <1>2, FlatIsAt
  <2>3. QED
    BY <1>1, <2>1, <2>2
<1>4. Append(ss, x)[n] = ss[n]
  BY <1>1
<1>5. n # 1 => f[n - 1] = g[n - 1]
  BY <1>1
<1>6. f[n] = g[n]
  BY <1>3, <1>4, <1>5 DEF FlatAt
<1>7. QED
  BY <1>1, <1>6

\* Flattening nothing.
LEMMA FlattenEmpty == FlattenSeq(<<>>) = <<>>
BY DEF FlattenSeq

\* One part more comes last.
LEMMA FlattenAppend ==
  ASSUME NEW T, NEW ss \in Seq(Seq(T)), NEW x \in Seq(T), FlattenSeq(ss) \in Seq(T)
  PROVE  FlattenSeq(Append(ss, x)) = FlattenSeq(ss) \o x
<1> DEFINE f == CHOOSE h : Flat(h, ss, Len(ss))
           g == CHOOSE h : Flat(h, Append(ss, x), Len(ss) + 1)
<1>0. Len(ss) \in Nat /\ Len(ss) + 1 \in Nat /\ Len(ss) + 1 # 0 /\ (ss # <<>> => Len(ss) # 0)
  OBVIOUS
<1>1. Flat(f, ss, Len(ss)) /\ (ss # <<>> => FlattenSeq(ss) = f[Len(ss)])
  <2>1. Flat(f, ss, Len(ss))
    BY <1>0, FlatExists
  <2>2. ss # <<>> => FlattenSeq(ss) = f[Len(ss)]
    BY <1>0 DEF Flat, FlattenSeq
  <2>3. QED
    BY <2>1, <2>2
<1>2. Len(Append(ss, x)) = Len(ss) + 1 /\ Append(ss, x)[Len(ss) + 1] = x
  OBVIOUS
<1>3. Flat(g, Append(ss, x), Len(ss) + 1) /\ FlattenSeq(Append(ss, x)) = g[Len(ss) + 1]
  <2>1. Flat(g, Append(ss, x), Len(ss) + 1)
    BY <1>0, FlatExists
  <2>2. FlattenSeq(Append(ss, x)) = g[Len(ss) + 1]
    BY <1>0, <1>2 DEF Flat, FlattenSeq
  <2>3. QED
    BY <2>1, <2>2
<1> HIDE DEF f, g
<1>4. FlatAt(g, Append(ss, x), Len(ss) + 1)
  <2>1. Len(ss) + 1 \in Nat /\ Len(ss) + 1 \in 1..Len(ss) + 1
    OBVIOUS
  <2>2. QED
    BY <1>3, <2>1, FlatIsAt
<1>5. CASE ss = <<>>
  <2>1. g[Len(ss) + 1] = x
    BY <1>2, <1>4, <1>5 DEF FlatAt
  <2>2. <<>> \o x = x
    OBVIOUS
  <2>3. QED
    BY <1>3, <1>5, <2>1, <2>2, FlattenEmpty
<1>6. CASE ss # <<>>
  <2>1. Len(ss) \in 1..Len(ss) /\ Len(ss) + 1 # 1 /\ Len(ss) + 1 - 1 = Len(ss)
    BY <1>6
  <2>2. f[Len(ss)] = g[Len(ss)]
    BY <1>1, <1>3, <2>1, FlatAgree
  <2>3. g[Len(ss) + 1] = g[Len(ss)] \o x
    BY <1>2, <1>4, <2>1, SMTT(30) DEF FlatAt
  <2>4. QED
    BY <1>1, <1>3, <1>6, <2>2, <2>3
<1>7. QED
  BY <1>5, <1>6

\* Sequences flatten into a sequence of the same things.
LEMMA FlattenType ==
  ASSUME NEW T, NEW ss \in Seq(Seq(T))
  PROVE  FlattenSeq(ss) \in Seq(T)
<1> DEFINE P == { t \in Seq(Seq(T)) : FlattenSeq(t) \in Seq(T) }
<1>1. <<>> \in P
  <2>1. <<>> \in Seq(T) /\ <<>> \in Seq(Seq(T))
    OBVIOUS
  <2>2. QED
    BY <2>1, FlattenEmpty
<1>2. ASSUME NEW t \in Seq(Seq(T)), NEW x \in Seq(T), t \in P PROVE Append(t, x) \in P
  <2>1. FlattenSeq(Append(t, x)) = FlattenSeq(t) \o x
    BY <1>2, FlattenAppend
  <2>2. FlattenSeq(t) \o x \in Seq(T)
    BY <1>2
  <2>3. Append(t, x) \in Seq(Seq(T))
    OBVIOUS
  <2>4. QED
    BY <2>1, <2>2, <2>3
<1> HIDE DEF P
<1>3. Seq(Seq(T)) \subseteq P
  BY <1>1, <1>2, SeqInduction
<1>4. QED
  BY <1>3 DEF P

(***************************************************************************)
(* What git computes.                                                      *)
(***************************************************************************)

\* The merge base is the longest history that both commits have.
LEMMA CommonPrefix ==
  ASSUME NEW T, NEW c \in Seq(T), NEW d \in Seq(T)
  PROVE  \E n \in 0..Len(c) :
           /\ n <= Len(d)
           /\ Common(c, d) = SubSeq(c, 1, n)
           /\ \A i \in 1..n : c[i] = d[i]
           /\ n < Len(c) => n = Len(d) \/ c[n + 1] # d[n + 1]
<1> DEFINE apart == { k \in DOMAIN c : k > Len(d) \/ c[k] # d[k] }
<1>1. CASE apart = {}
  <2>1. Common(c, d) = c
    BY <1>1 DEF Common
  <2>2. \A k \in 1..Len(c) : k <= Len(d) /\ c[k] = d[k]
    BY <1>1
  <2>3. Len(c) <= Len(d)
    BY <2>2
  <2>4. c = SubSeq(c, 1, Len(c)) /\ Len(c) \in 0..Len(c)
    OBVIOUS
  <2>5. Common(c, d) = SubSeq(c, 1, Len(c)) /\ ~ (Len(c) < Len(c))
    BY <2>1, <2>4
  <2>6. QED
    BY <2>2, <2>3, <2>4, <2>5, Zenon
<1>2. CASE apart # {}
  <2> DEFINE m == CHOOSE k \in apart : \A l \in apart : k <= l
  <2>1. \E k \in apart : \A l \in apart : k <= l
    <3>1. apart \in SUBSET Nat
      OBVIOUS
    <3>2. QED
      BY <1>2, <3>1, LeastNat
  <2>2. m \in apart /\ \A l \in apart : m <= l
    BY <2>1
  <2>3. Common(c, d) = SubSeq(c, 1, m - 1)
    BY <1>2 DEF Common
  <2> HIDE DEF m
  <2>4. m \in 1..Len(c) /\ (m > Len(d) \/ c[m] # d[m])
    BY <2>2
  <2>5. \A i \in 1..m - 1 : i <= Len(d) /\ c[i] = d[i]
    <3> SUFFICES ASSUME NEW i \in 1..m - 1, ~ (i <= Len(d) /\ c[i] = d[i]) PROVE FALSE
      OBVIOUS
    <3>1. i \in apart
      BY <2>4
    <3>2. QED
      BY <2>2, <2>4, <3>1
  <2>6. m - 1 \in 0..Len(c) /\ m - 1 <= Len(d) /\ m - 1 + 1 = m
    <3>1. m - 1 \in 0..Len(c) /\ m - 1 + 1 = m
      BY <2>4
    <3>2. m # 1 => m - 1 \in 1..m - 1
      BY <2>4
    <3>3. m - 1 <= Len(d)
      BY <2>4, <2>5, <3>2
    <3>4. QED
      BY <3>1, <3>3
  <2>7. m - 1 < Len(c) => m - 1 = Len(d) \/ c[m - 1 + 1] # d[m - 1 + 1]
    BY <2>4, <2>6
  <2>8. QED
    BY <2>3, <2>5, <2>6, <2>7
<1>3. QED
  BY <1>1, <1>2

\* It is a commit of both.
LEMMA CommonType ==
  ASSUME NEW T, NEW c \in Seq(T), NEW d \in Seq(T)
  PROVE  Common(c, d) \in Seq(T) /\ Len(Common(c, d)) <= Len(c) /\ Len(Common(c, d)) <= Len(d)
<1>1. PICK n \in 0..Len(c) : n <= Len(d) /\ Common(c, d) = SubSeq(c, 1, n)
  BY CommonPrefix
<1>2. SubSeq(c, 1, n) \in Seq(T) /\ Len(SubSeq(c, 1, n)) = n
  OBVIOUS
<1>3. QED
  BY <1>1, <1>2

\* A rebase keeps the base and puts commits of the branch on top of it.
LEMMA ReplayType ==
  ASSUME NEW base \in Commit, NEW patches \in Commit
  PROVE  Replay(base, patches) \in Commit
<1>1. Only(patches, Patch \ Range(base)) \in Seq(Patch \cap (Patch \ Range(base)))
  BY OnlyType DEF Commit
<1>2. Only(patches, Patch \ Range(base)) \in Seq(Patch)
  BY <1>1
<1>3. QED
  BY <1>2 DEF Replay, Commit

-----------------------------------------------------------------------------
(***************************************************************************)
(* Types.                                                                  *)
(***************************************************************************)

\* What a plan is made of.
JobSet == [env : Envs, pred : Branches, repo : RepoSet, boundary : Commit, cut : BOOLEAN]

\* The type invariant.
Typed ==
  /\ tip \in [RepoSet -> [Branches -> Commit \union {None}]]
  /\ reflog \in [RepoSet -> [Branches -> SUBSET Commit]]
  /\ tree \in [RepoSet -> [Envs -> {"clean", "dirty", "parked"}]]
  /\ rebasing \in [RepoSet -> [Envs -> Stop \union {None}]]
  /\ own \in [RepoSet -> [Branches -> Commit]]
  /\ jobs \in Seq(JobSet)
  /\ edits \in Nat /\ pulls \in Nat
  /\ cmd \in Commands \union {None}

\* A rebase is of a branch that is there, as the two ends of every link are.
Present ==
  /\ \A r \in RepoSet : Has(r, Main)
  /\ \A r \in RepoSet, e \in Envs : rebasing[r][e] # None => Has(r, e)
  /\ \A k \in 1..Len(jobs) : Has(jobs[k].repo, jobs[k].env) /\ Has(jobs[k].repo, jobs[k].pred)

\* What the commands that may be given are made of.
LEMMA CommandParts ==
  ASSUME NEW c \in Commands
  PROVE  /\ Links(c) = 1..Len(c.chain) /\ Len(c.chain) \in Nat \ {0}
         /\ \A i \in Links(c) : Env(c, i) \in Envs /\ Predecessor(c, i) \in Branches
         /\ c.base \in Branches /\ c.cut \in Branches \union {None}
         /\ c # None
<1>1. c.chain \in Seq(Envs) /\ c.chain # <<>>
  BY RestackAssumption
<1>2. c.base \in Branches /\ c.cut \in Branches \union {None} /\ c # None
  BY RestackAssumption DEF Branches
<1>3. Links(c) = 1..Len(c.chain) /\ Len(c.chain) \in Nat \ {0}
  BY <1>1 DEF Links
<1>4. ASSUME NEW i \in Links(c) PROVE Env(c, i) \in Envs /\ Predecessor(c, i) \in Branches
  <2>1. Env(c, i) \in Envs
    BY <1>1, <1>3 DEF Env
  <2>2. i < Len(c.chain) => c.chain[i + 1] \in Envs
    BY <1>1, <1>3
  <2>3. QED
    BY <1>2, <2>1, <2>2 DEF Predecessor, Branches
<1>5. QED
  BY <1>2, <1>3, <1>4

\* A repository that is to be rebased has a worktree and a predecessor there.
LEMMA ParticipatingParts ==
  ASSUME NEW c, NEW i, NEW r \in Participating(c, i)
  PROVE  r \in RepoSet /\ Has(r, Env(c, i)) /\ Has(r, Predecessor(c, i))
BY DEF Participating

\* What the plan may hold for command c.
Planned(c) == UNION { { Job(c, i, r) : r \in Participating(c, i) } : i \in Links(c) }

\* The plan of a command holds jobs of its links.
LEMMA JobsArePlanned ==
  ASSUME NEW c \in Commands
  PROVE  Jobs(c) \in Seq(Planned(c))
<1> DEFINE n == Len(c.chain)
<1>1. n \in Nat \ {0} /\ Links(c) = 1..n
  BY CommandParts
<1>2. ASSUME NEW i \in Links(c) PROVE LinkJobs(c, i) \in Seq(Planned(c))
  <2> DEFINE in == Only(Repos, Participating(c, i))
  <2>1. in \in Seq(Range(Repos) \cap Participating(c, i))
    BY OnlyType, RestackAssumption
  <2> HIDE DEF in
  <2>2. \A k \in 1..Len(in) : in[k] \in Participating(c, i) /\ in[k] \in RepoSet
    BY <2>1 DEF RepoSet
  <2>3. \A k \in 1..Len(in) : Job(c, i, in[k]) \in Planned(c)
    BY <2>2 DEF Planned
  <2>4. Len(in) \in Nat
    BY <2>1
  <2>5. [k \in 1..Len(in) |-> Job(c, i, in[k])] \in Seq(Planned(c))
    BY <2>3, <2>4
  <2>6. QED
    BY <2>5 DEF LinkJobs, in
<1> DEFINE parts == [i \in 1..n |-> LinkJobs(c, n + 1 - i)]
<1> HIDE DEF n
<1>3. \A i \in 1..n : n + 1 - i \in Links(c)
  BY <1>1
<1>4. \A i \in 1..n : LinkJobs(c, n + 1 - i) \in Seq(Planned(c))
  BY <1>2, <1>3
<1>5. parts \in Seq(Seq(Planned(c)))
  BY <1>1, <1>4
<1>6. Jobs(c) = FlattenSeq(parts)
  BY DEF Jobs, n
<1> HIDE DEF parts
<1>7. QED
  BY <1>5, <1>6, FlattenType

\* A frozen boundary is a commit the predecessor pointed to, or the cut's tip.
LEMMA BoundaryParts ==
  ASSUME Typed, NEW c \in Commands, NEW i \in Links(c), NEW r \in Participating(c, i),
         Boundary(c, i, r) # None
  PROVE  /\ Boundary(c, i, r) \in Commit
         /\ ~AtCut(c, i) => /\ Boundary(c, i, r) = ForkPoint(r, Predecessor(c, i), Env(c, i))
                            /\ Boundary(c, i, r) \in reflog[r][Predecessor(c, i)]
         /\ AtCut(c, i) => /\ c.cut \in Branches /\ Has(r, c.cut)
                           /\ Boundary(c, i, r) = tip[r][c.cut]
                           /\ CutApplies(r, c.cut, Env(c, i)) \/ CutAlreadyDone(r, c.base, Env(c, i))
<1>1. r \in RepoSet /\ Env(c, i) \in Envs /\ Predecessor(c, i) \in Branches /\ c.cut \in Branches \union {None}
  BY CommandParts, ParticipatingParts
<1>2. CASE ~AtCut(c, i)
  <2>1. Boundary(c, i, r) = ForkPoint(r, Predecessor(c, i), Env(c, i))
    BY <1>2 DEF Boundary
  <2>2. Boundary(c, i, r) \in reflog[r][Predecessor(c, i)]
    BY <2>1 DEF ForkPoint
  <2>3. reflog[r][Predecessor(c, i)] \subseteq Commit
    BY <1>1 DEF Typed
  <2>4. QED
    BY <1>2, <2>1, <2>2, <2>3
<1>3. CASE AtCut(c, i)
  <2>1. /\ Has(r, c.cut) /\ Boundary(c, i, r) = tip[r][c.cut]
        /\ CutApplies(r, c.cut, Env(c, i)) \/ CutAlreadyDone(r, c.base, Env(c, i))
    BY <1>3 DEF Boundary
  <2>2. c.cut \in Branches
    BY <1>1, <1>3 DEF AtCut
  <2>3. tip[r][c.cut] \in Commit
    BY <1>1, <2>1, <2>2 DEF Typed, Has
  <2>4. QED
    BY <1>3, <2>1, <2>2, <2>3
<1>4. QED
  BY <1>2, <1>3

\* What a plan that is not refused holds: jobs, each of a link and a repository.
LEMMA PlanParts ==
  ASSUME Typed, NEW c \in Commands, ~Refused(c), NEW k \in 1..Len(Jobs(c))
  PROVE  \E i \in Links(c) : \E r \in Participating(c, i) :
           /\ Jobs(c)[k] = Job(c, i, r) /\ Job(c, i, r) \in JobSet
           /\ Boundary(c, i, r) # None /\ rebasing[r][Env(c, i)] = None
<1>1. Jobs(c) \in Seq(Planned(c))
  BY JobsArePlanned
<1>2. Jobs(c)[k] \in Planned(c)
  BY <1>1
<1>3. PICK i \in Links(c) : \E r \in Participating(c, i) : Jobs(c)[k] = Job(c, i, r)
  BY <1>2 DEF Planned
<1>4. PICK r \in Participating(c, i) : Jobs(c)[k] = Job(c, i, r)
  BY <1>3
<1>5. Boundary(c, i, r) # None /\ rebasing[r][Env(c, i)] = None
  BY DEF Refused, UnknownBoundary, UnsafeWorktree
<1>6. Boundary(c, i, r) \in Commit
  BY <1>5, BoundaryParts
<1>7. r \in RepoSet /\ Env(c, i) \in Envs /\ Predecessor(c, i) \in Branches
  BY CommandParts, ParticipatingParts
<1>8. AtCut(c, i) \in BOOLEAN
  BY DEF AtCut
<1>9. Job(c, i, r) \in JobSet
  BY <1>6, <1>7, <1>8 DEF Job, JobSet
<1>10. QED
  BY <1>4, <1>5, <1>9

\* What a job that is run works on.
LEMMA JobParts ==
  ASSUME Typed, Present, NEW j \in JobSet, Has(j.repo, j.env), Has(j.repo, j.pred)
  PROVE  /\ j.repo \in RepoSet /\ j.env \in Envs /\ j.env \in Branches /\ j.pred \in Branches
         /\ j.boundary \in Commit /\ j.cut \in BOOLEAN
         /\ Upper(j) \in Commit /\ NewBase(j) \in Commit
         /\ Replayed(j) \in Commit
<1>1. j.repo \in RepoSet /\ j.env \in Envs /\ j.env \in Branches /\ j.pred \in Branches
      /\ j.boundary \in Commit /\ j.cut \in BOOLEAN
  BY DEF JobSet, Branches
<1>2. Upper(j) \in Commit /\ NewBase(j) \in Commit
  BY <1>1 DEF Typed, Has, Upper, NewBase
<1>3. Common(j.boundary, Upper(j)) \in Commit /\ Len(Common(j.boundary, Upper(j))) <= Len(Upper(j))
  BY <1>1, <1>2, CommonType DEF Commit
<1>4. Len(Common(j.boundary, Upper(j))) \in Nat
  BY <1>3 DEF Commit
<1>5. Replayed(j) \in Commit
  BY <1>2, <1>3, <1>4 DEF Replayed, Commit
<1>6. QED
  BY <1>1, <1>2, <1>5

\* The head of the plan is such a job, and the rest of it stays.
LEMMA HeadParts ==
  ASSUME Typed, Present, jobs # <<>>
  PROVE  /\ Head(jobs) \in JobSet /\ Head(jobs) = jobs[1] /\ 1 \in 1..Len(jobs)
         /\ Has(Head(jobs).repo, Head(jobs).env) /\ Has(Head(jobs).repo, Head(jobs).pred)
         /\ Tail(jobs) \in Seq(JobSet) /\ Len(Tail(jobs)) = Len(jobs) - 1
         /\ \A k \in 1..Len(jobs) - 1 : Tail(jobs)[k] = jobs[k + 1] /\ k + 1 \in 1..Len(jobs)
<1>1. jobs \in Seq(JobSet)
  BY DEF Typed
<1>2. Head(jobs) \in JobSet /\ Head(jobs) = jobs[1] /\ 1 \in 1..Len(jobs)
  BY <1>1
<1>3. Tail(jobs) \in Seq(JobSet) /\ Len(Tail(jobs)) = Len(jobs) - 1
  BY <1>1
<1>4. \A k \in 1..Len(jobs) - 1 : Tail(jobs)[k] = jobs[k + 1] /\ k + 1 \in 1..Len(jobs)
  BY <1>1
<1>5. QED
  BY <1>2, <1>3, <1>4 DEF Present

\* The initial branches: the bottom env is at Main's first commit or one commit
\* further, another env is at Main's first commit, on the bottom, or one further.
Below(under) == Append(Root, First(under))
InitialTips(under) ==
  \A r \in RepoSet :
    /\ tip[r][Main] = Root
    /\ tip[r][under] \in {None, Root, Below(under)}
    /\ \A e \in Envs \ {under} :
         \/ tip[r][e] \in {None, Root}
         \/ /\ tip[r][e] \in {Below(under), Append(Below(under), First(e))}
            /\ tip[r][under] = Below(under)
    /\ \A b \in Branches :
         /\ Has(r, b) => /\ tip[r][b] \in reflog[r][b]
                         /\ \A c \in reflog[r][b] : /\ c \in {Root, Below(under), tip[r][b]}
                                                    /\ IsAncestor(c, tip[r][b])
         /\ ~Has(r, b) => reflog[r][b] = {}

\* What one member more makes of a sequence.
LEMMA AppendParts ==
  \A T : \A x \in T, s \in Seq(T) :
    /\ Append(s, x) \in Seq(T) /\ Len(Append(s, x)) = Len(s) + 1
    /\ Append(s, x)[Len(s) + 1] = x
    /\ \A i \in 1..Len(s) : Append(s, x)[i] = s[i]
OBVIOUS

\* The commits of the initial branches.
LEMMA FirstCommits ==
  ASSUME NEW under \in Envs
  PROVE  /\ Root \in Commit /\ Len(Root) = 1 /\ Root[1].by = Main
         /\ Below(under) \in Commit /\ Len(Below(under)) = 2
         /\ Below(under)[1] = Root[1] /\ Below(under)[2] = First(under)
         /\ \A e \in Envs : /\ First(e) \in Patch /\ First(e).by = e
                            /\ Append(Below(under), First(e)) \in Commit
                            /\ Len(Append(Below(under), First(e))) = 3
                            /\ Append(Below(under), First(e))[1] = Root[1]
                            /\ Append(Below(under), First(e))[2] = First(under)
                            /\ Append(Below(under), First(e))[3] = First(e)
<1>1. \A b \in Branches : First(b) \in Patch /\ First(b).by = b
  BY DEF First, Patch
<1>2. Main \in Branches /\ Envs \subseteq Branches
  BY DEF Branches
<1>3. Root = <<First(Main)>>
  BY DEF Root, First
<1>4. Root \in Commit /\ Len(Root) = 1 /\ Root[1] = First(Main)
  BY <1>1, <1>2, <1>3 DEF Commit
<1>5. Below(under) \in Commit /\ Len(Below(under)) = 2
      /\ Below(under)[1] = Root[1] /\ Below(under)[2] = First(under)
  <2>1. Root \in Seq(Patch) /\ First(under) \in Patch /\ 1 \in 1..Len(Root) /\ Len(Root) + 1 = 2
    BY <1>1, <1>2, <1>4 DEF Commit
  <2>2. /\ Below(under) \in Seq(Patch) /\ Len(Below(under)) = Len(Root) + 1
        /\ Below(under)[Len(Root) + 1] = First(under)
        /\ \A i \in 1..Len(Root) : Below(under)[i] = Root[i]
    BY <2>1, AppendParts DEF Below
  <2>3. QED
    BY <2>1, <2>2 DEF Commit
<1>6. ASSUME NEW e \in Envs
      PROVE  /\ Append(Below(under), First(e)) \in Commit
             /\ Len(Append(Below(under), First(e))) = 3
             /\ Append(Below(under), First(e))[1] = Root[1]
             /\ Append(Below(under), First(e))[2] = First(under)
             /\ Append(Below(under), First(e))[3] = First(e)
  <2>1. Below(under) \in Seq(Patch) /\ Len(Below(under)) + 1 = 3 /\ First(e) \in Patch
        /\ 1 \in 1..Len(Below(under)) /\ 2 \in 1..Len(Below(under))
    BY <1>1, <1>2, <1>5 DEF Commit
  <2>2. /\ Append(Below(under), First(e)) \in Seq(Patch)
        /\ Len(Append(Below(under), First(e))) = Len(Below(under)) + 1
        /\ Append(Below(under), First(e))[Len(Below(under)) + 1] = First(e)
        /\ \A i \in 1..Len(Below(under)) : Append(Below(under), First(e))[i] = Below(under)[i]
    BY <2>1, AppendParts
  <2>3. QED
    BY <1>5, <2>1, <2>2 DEF Commit
<1>7. QED
  BY <1>1, <1>2, <1>4, <1>5, <1>6

\* They are what Init says.
LEMMA InitialParts ==
  ASSUME Init
  PROVE  \E under \in Bottoms : under \in Envs /\ InitialTips(under)
<1> DEFINE onTop(under, e) == {None, Root, Below(under), Append(Below(under), First(e))}
<1>1. PICK under \in Bottoms :
        /\ tip \in [RepoSet -> [Branches -> UNION { onTop(under, b) : b \in Branches }]]
        /\ \A r \in RepoSet :
             /\ tip[r][Main] = Root
             /\ tip[r][under] \in {None, Root, Below(under)}
             /\ \A e \in Envs : Has(r, e) \/ r = Last(Repos)
             /\ \A e \in Envs \ {under} :
                  tip[r][e] \in IF tip[r][under] = Below(under) THEN onTop(under, e) ELSE {None, Root}
        /\ reflog = [r \in RepoSet |-> [b \in Branches |->
             IF ~Has(r, b) THEN {}
             ELSE { c \in {Root, Below(under), tip[r][b]} :
                      /\ IsAncestor(c, tip[r][b])
                      /\ c = Root => b = under \/ c = tip[r][b] }]]
  BY DEF Init, Below
<1>2. under \in Envs
  BY RestackAssumption
<1>3. ASSUME NEW r \in RepoSet, NEW b \in Branches
      PROVE  /\ Has(r, b) => /\ tip[r][b] \in reflog[r][b]
                             /\ \A c \in reflog[r][b] : /\ c \in {Root, Below(under), tip[r][b]}
                                                        /\ IsAncestor(c, tip[r][b])
             /\ ~Has(r, b) => reflog[r][b] = {}
  <2>1. reflog[r][b] = IF ~Has(r, b) THEN {}
             ELSE { c \in {Root, Below(under), tip[r][b]} :
                      /\ IsAncestor(c, tip[r][b])
                      /\ c = Root => b = under \/ c = tip[r][b] }
    BY <1>1
  <2>2. ASSUME Has(r, b) PROVE IsAncestor(tip[r][b], tip[r][b])
    <3>1. tip[r][b] \in Commit
      <4>1. b = Main \/ b = under \/ b \in Envs \ {under}
        BY DEF Branches
      <4>2. tip[r][b] \in {None, Root, Below(under), Append(Below(under), First(b))}
            /\ (b \in Envs \/ tip[r][b] = Root)
        <5>1. CASE b = Main
          BY <1>1, <5>1
        <5>2. CASE b = under
          BY <1>1, <1>2, <5>2
        <5>3. CASE b \in Envs \ {under}
          BY <1>1, <5>3
        <5>4. QED
          BY <4>1, <5>1, <5>2, <5>3
      <4>3. QED
        BY <1>2, <2>2, <4>2, FirstCommits DEF Has
    <3>2. QED
      BY <3>1 DEF Commit, IsAncestor, IsPrefix
  <2>3. QED
    BY <2>1, <2>2
<1>4. ASSUME NEW r \in RepoSet
      PROVE  /\ tip[r][Main] = Root
             /\ tip[r][under] \in {None, Root, Below(under)}
             /\ \A e \in Envs \ {under} :
                  \/ tip[r][e] \in {None, Root}
                  \/ /\ tip[r][e] \in {Below(under), Append(Below(under), First(e))}
                     /\ tip[r][under] = Below(under)
  BY <1>1
<1>5. InitialTips(under)
  BY <1>3, <1>4 DEF InitialTips
<1>6. QED
  BY <1>2, <1>5

\* Initially everything is well typed.
LEMMA TypedInit == Init => Typed /\ Present
<1> SUFFICES ASSUME Init PROVE Typed /\ Present
  OBVIOUS
<1>1. PICK under \in Bottoms : under \in Envs /\ InitialTips(under)
  BY InitialParts
<1>2. ASSUME NEW r \in RepoSet, NEW b \in Branches
      PROVE  tip[r][b] \in Commit \union {None} /\ reflog[r][b] \in SUBSET Commit
  <2>1. Root \in Commit /\ Below(under) \in Commit
    BY <1>1, FirstCommits
  <2>2. tip[r][b] \in Commit \union {None}
    <3>1. CASE b = Main
      BY <1>1, <2>1, <3>1 DEF InitialTips
    <3>2. CASE b = under
      BY <1>1, <2>1, <3>2 DEF InitialTips
    <3>3. CASE b \in Envs \ {under}
      BY <1>1, <2>1, <3>3, FirstCommits, ZenonT(40) DEF InitialTips
    <3>4. QED
      BY <3>1, <3>2, <3>3 DEF Branches
  <2>3. Has(r, b) => tip[r][b] \in Commit /\ reflog[r][b] \subseteq {Root, Below(under), tip[r][b]}
    BY <1>1, <2>2 DEF InitialTips, Has
  <2>4. ~Has(r, b) => reflog[r][b] = {}
    BY <1>1 DEF InitialTips
  <2>5. QED
    BY <2>1, <2>2, <2>3, <2>4
<1>3. tip \in [RepoSet -> [Branches -> Commit \union {None}]]
  <2>1. tip = [r \in RepoSet |-> tip[r]] /\ \A r \in RepoSet : tip[r] = [b \in Branches |-> tip[r][b]]
    BY DEF Init
  <2>2. QED
    BY <1>2, <2>1
<1>4. reflog \in [RepoSet -> [Branches -> SUBSET Commit]]
  <2>1. reflog = [r \in RepoSet |-> reflog[r]] /\ \A r \in RepoSet : reflog[r] = [b \in Branches |-> reflog[r][b]]
    BY DEF Init
  <2>2. QED
    BY <1>2, <2>1
<1>5. own \in [RepoSet -> [Branches -> Commit]]
  <2>1. ASSUME NEW r \in RepoSet, NEW b \in Branches
        PROVE  (IF b \in Envs /\ Has(r, b) THEN Only(tip[r][b], By(b)) ELSE <<>>) \in Commit
    <3>1. Has(r, b) => tip[r][b] \in Seq(Patch)
      BY <1>2 DEF Has, Commit
    <3>2. Has(r, b) => Only(tip[r][b], By(b)) \in Seq(Patch \cap By(b))
      BY <3>1, OnlyType
    <3>3. Has(r, b) => Only(tip[r][b], By(b)) \in Seq(Patch)
      BY <3>2
    <3>4. <<>> \in Seq(Patch)
      OBVIOUS
    <3>5. QED
      BY <3>3, <3>4 DEF Commit
  <2>2. QED
    BY <2>1 DEF Init
<1>6. \A r \in RepoSet : Has(r, Main)
  <2>1. Root \in Commit
    BY <1>1, FirstCommits
  <2>2. Root # None
    BY <2>1, RestackAssumption
  <2>3. QED
    BY <1>1, <2>2 DEF InitialTips, Has
<1>7. /\ tree \in [RepoSet -> [Envs -> {"clean", "dirty", "parked"}]]
      /\ rebasing \in [RepoSet -> [Envs -> Stop \union {None}]]
      /\ \A r \in RepoSet, e \in Envs : rebasing[r][e] = None
      /\ jobs \in Seq(JobSet) /\ jobs = <<>>
      /\ edits \in Nat /\ pulls \in Nat
      /\ cmd \in Commands \union {None}
  BY DEF Init
<1>8. QED
  BY <1>3, <1>4, <1>5, <1>6, <1>7 DEF Typed, Present

\* A branch that moves to a commit is there, and the others stay.
LEMMA PointParts ==
  ASSUME Typed, NEW r \in RepoSet, NEW b \in Branches, NEW c \in Commit, Point(r, b, c)
  PROVE  /\ tip' \in [RepoSet -> [Branches -> Commit \union {None}]]
         /\ reflog' \in [RepoSet -> [Branches -> SUBSET Commit]]
         /\ tip'[r][b] = c /\ reflog'[r][b] = reflog[r][b] \union {c}
         /\ \A q \in RepoSet, d \in Branches :
              q # r \/ d # b => tip'[q][d] = tip[q][d] /\ reflog'[q][d] = reflog[q][d]
         /\ \A q \in RepoSet, d \in Branches : tip[q][d] # None => tip'[q][d] # None
<1>1. tip' = [tip EXCEPT ![r][b] = c] /\ reflog' = [reflog EXCEPT ![r][b] = reflog[r][b] \union {c}]
  BY DEF Point
<1>2. tip' \in [RepoSet -> [Branches -> Commit \union {None}]]
  BY <1>1 DEF Typed
<1>3. reflog' \in [RepoSet -> [Branches -> SUBSET Commit]]
  <2>1. reflog[r][b] \union {c} \in SUBSET Commit
    BY DEF Typed
  <2>2. QED
    BY <1>1, <2>1 DEF Typed
<1>4. tip'[r][b] = c /\ reflog'[r][b] = reflog[r][b] \union {c}
  BY <1>1 DEF Typed
<1>5. \A q \in RepoSet, d \in Branches :
        q # r \/ d # b => tip'[q][d] = tip[q][d] /\ reflog'[q][d] = reflog[q][d]
  BY <1>1 DEF Typed
<1>6. c # None
  BY RestackAssumption
<1>7. \A q \in RepoSet, d \in Branches : tip[q][d] # None => tip'[q][d] # None
  BY <1>4, <1>5, <1>6
<1>8. QED
  BY <1>2, <1>3, <1>4, <1>5, <1>7

\* The two halves of `git rebase --continue`.
ContinueToEnd(r, e) ==
  /\ rebasing[r][e] # None
  /\ Point(r, e, Replay(rebasing[r][e].onto, rebasing[r][e].todo))
  /\ rebasing' = [rebasing EXCEPT ![r][e] = None]
  /\ IF jobs = <<>> /\ Rebases(cmd, r, e)
     THEN done' = done \union {<<r, e>>} /\ UNCHANGED cmd
     ELSE Disturb
  /\ UNCHANGED <<tree, jobs, edits, pulls, own>>

\* ... or to the next patch that git stops at.
ContinueToNext(r, e) ==
  /\ rebasing[r][e] # None
  /\ Len(rebasing[r][e].todo) > 1
  /\ rebasing' = [rebasing EXCEPT ![r][e] =
       [onto |-> Replay(rebasing[r][e].onto, <<Head(rebasing[r][e].todo)>>),
        todo |-> Tail(rebasing[r][e].todo)]]
  /\ UNCHANGED <<tip, reflog, cmd, done, tree, jobs, edits, pulls, own>>

\* What a step does to the history of a user's env.
CommittedPatch(r, e) == [by |-> e, n |-> Len(own[r][e]) + 1, v |-> 0]

\* ... and the one an amendment leaves.
AmendedPatch(r, e) == [by |-> Last(own[r][e]).by, n |-> Last(own[r][e]).n, v |-> Last(own[r][e]).v + 1]

\* Next, action by action.
LEMMA NextCases ==
  ASSUME [Next]_vars
  PROVE  \/ \E c \in Commands : Start(c)
         \/ /\ jobs # <<>> /\ UNCHANGED <<edits, pulls, own>>
            /\ Skip(Head(jobs)) \/ Rebased(Head(jobs)) \/ Conflict(Head(jobs)) \/ Fail
         \/ \E r \in RepoSet, e \in Envs :
              Edit(r, e) \/ Switch(r, e) \/ CommitEdit(r, e) \/ Amend(r, e)
              \/ ContinueToEnd(r, e) \/ ContinueToNext(r, e) \/ Abort(r, e)
         \/ \E r \in RepoSet : PullMain(r)
         \/ UNCHANGED vars
<1>1. CASE \E c \in Commands : Start(c)
  BY <1>1
<1>2. CASE Execute
  BY <1>2 DEF Execute
<1>3. ASSUME NEW r \in RepoSet, NEW e \in Envs, Continue(r, e)
      PROVE  ContinueToEnd(r, e) \/ ContinueToNext(r, e)
  BY <1>3 DEF Continue, ContinueToEnd, ContinueToNext
<1>4. CASE User
  BY <1>3, <1>4 DEF User
<1>5. QED
  BY <1>1, <1>2, <1>4 DEF Next

\* A rebase in progress holds what it is onto and what it still has to do.
LEMMA StopParts ==
  ASSUME Typed, NEW r \in RepoSet, NEW e \in Envs, rebasing[r][e] # None
  PROVE  /\ rebasing[r][e] \in Stop
         /\ rebasing[r][e].onto \in Commit /\ rebasing[r][e].todo \in Commit
         /\ Replay(rebasing[r][e].onto, rebasing[r][e].todo) \in Commit
<1>1. rebasing[r][e] \in Stop
  BY DEF Typed
<1>2. rebasing[r][e].onto \in Commit /\ rebasing[r][e].todo \in Commit
  BY <1>1 DEF Stop
<1>3. QED
  BY <1>1, <1>2, ReplayType

\* Where a rebase stops: what is onto, and what is to do.
StopAt(j, k) ==
  [onto |-> Replay(NewBase(j), SubSeq(Replayed(j), 1, k - 1)),
   todo |-> SubSeq(Replayed(j), k, Len(Replayed(j)))]

\* It is a commit and a list of patches.
LEMMA StopAtType ==
  ASSUME Typed, Present, jobs # <<>>, NEW k \in 1..Len(Replayed(Head(jobs)))
  PROVE  /\ StopAt(Head(jobs), k) \in Stop
         /\ SubSeq(Replayed(Head(jobs)), 1, k - 1) \in Commit
         /\ SubSeq(Replayed(Head(jobs)), k, Len(Replayed(Head(jobs)))) \in Commit
<1> DEFINE j == Head(jobs)
           p == Replayed(j)
<1>1. NewBase(j) \in Commit /\ p \in Commit
  BY HeadParts, JobParts
<1> HIDE DEF j
<1>2. SubSeq(p, 1, k - 1) \in Commit /\ SubSeq(p, k, Len(p)) \in Commit
  <2> HIDE DEF p
  <2>1. \A s \in Seq(Patch) : \A i \in 1..Len(s) : SubSeq(s, 1, i - 1) \in Seq(Patch) /\ SubSeq(s, i, Len(s)) \in Seq(Patch)
    OBVIOUS
  <2>2. k \in 1..Len(p)
    BY DEF p, j
  <2>3. QED
    BY <1>1, <2>1, <2>2 DEF Commit
<1>3. Replay(NewBase(j), SubSeq(p, 1, k - 1)) \in Commit
  BY <1>1, <1>2, ReplayType
<1>4. QED
  BY <1>2, <1>3 DEF StopAt, Stop, j

\* The user's commits are patches.
LEMMA UserPatches ==
  ASSUME Typed, NEW r \in RepoSet, NEW e \in Envs
  PROVE  /\ own[r][e] \in Commit
         /\ CommittedPatch(r, e) \in Patch
         /\ own[r][e] # <<>> => /\ Last(own[r][e]) \in Patch
                                /\ AmendedPatch(r, e) \in Patch
                                /\ AmendedPatch(r, e) = [Last(own[r][e]) EXCEPT !.v = @ + 1]
                                /\ Front(own[r][e]) \in Commit
                                /\ own[r][e] = Append(Front(own[r][e]), Last(own[r][e]))
<1>1. own[r][e] \in Seq(Patch) /\ e \in Branches
  BY DEF Typed, Commit, Branches
<1>2. CommittedPatch(r, e) \in Patch
  BY <1>1 DEF CommittedPatch, Patch
<1>3. ASSUME own[r][e] # <<>>
      PROVE  /\ Last(own[r][e]) \in Patch
             /\ AmendedPatch(r, e) \in Patch
             /\ AmendedPatch(r, e) = [Last(own[r][e]) EXCEPT !.v = @ + 1]
             /\ Front(own[r][e]) \in Commit
             /\ own[r][e] = Append(Front(own[r][e]), Last(own[r][e]))
  <2>1. \A s \in Seq(Patch) : s # <<>> => /\ Last(s) \in Patch /\ Front(s) \in Seq(Patch)
                                          /\ s = Append(Front(s), Last(s))
    BY DEF Last, Front
  <2>2. Last(own[r][e]) \in Patch
    BY <1>1, <1>3, <2>1
  <2>3. AmendedPatch(r, e) \in Patch /\ AmendedPatch(r, e) = [Last(own[r][e]) EXCEPT !.v = @ + 1]
    BY <2>2 DEF AmendedPatch, Patch
  <2>4. QED
    BY <1>1, <1>3, <2>1, <2>2, <2>3 DEF Commit
<1>4. QED
  BY <1>1, <1>2, <1>3 DEF Commit

\* The jobs of the plan, one by one.
LEMMA JobsTyped ==
  ASSUME Typed
  PROVE  \A k \in 1..Len(jobs) : /\ jobs[k] \in JobSet /\ jobs[k].repo \in RepoSet
                                  /\ jobs[k].env \in Envs /\ jobs[k].env \in Branches
                                  /\ jobs[k].pred \in Branches
<1>1. \A k \in 1..Len(jobs) : jobs[k] \in JobSet
  BY DEF Typed
<1>2. \A j \in JobSet : j.repo \in RepoSet /\ j.env \in Envs /\ j.env \in Branches /\ j.pred \in Branches
  BY DEF JobSet, Branches
<1>3. QED
  BY <1>1, <1>2

\* Every step keeps everything well typed.
LEMMA TypedNext == Typed /\ Present /\ [Next]_vars => Typed' /\ Present'
<1> SUFFICES ASSUME Typed, Present, [Next]_vars PROVE Typed' /\ Present'
  OBVIOUS
<1>a. \A s \in Seq(Patch), p \in Patch : Append(s, p) \in Seq(Patch) /\ Append(Front(s), p) \in Seq(Patch)
  BY DEF Front
<1>b. Envs \subseteq Branches /\ Main \in Branches
  BY DEF Branches
<1>1. ASSUME NEW c \in Commands, Start(c) PROVE Typed' /\ Present'
  <2>1. jobs' = Jobs(c) /\ ~Refused(c) /\ cmd' = c /\ UNCHANGED <<tip, reflog, tree, rebasing, edits, pulls, own>>
    BY <1>1 DEF Start, repos
  <2>2. ASSUME NEW k \in 1..Len(Jobs(c))
        PROVE  /\ Jobs(c)[k] \in JobSet
               /\ Has(Jobs(c)[k].repo, Jobs(c)[k].env) /\ Has(Jobs(c)[k].repo, Jobs(c)[k].pred)
    <3>1. PICK i \in Links(c) : \E r \in Participating(c, i) :
                 Jobs(c)[k] = Job(c, i, r) /\ Job(c, i, r) \in JobSet
      BY <2>1, PlanParts
    <3>2. PICK r \in Participating(c, i) : Jobs(c)[k] = Job(c, i, r) /\ Job(c, i, r) \in JobSet
      BY <3>1
    <3>3. Has(r, Env(c, i)) /\ Has(r, Predecessor(c, i))
      BY ParticipatingParts
    <3>4. QED
      BY <3>2, <3>3 DEF Job
  <2>3. Jobs(c) \in Seq(JobSet)
    <3>1. \A S, s : s \in Seq(S) /\ (\A k \in 1..Len(s) : s[k] \in JobSet) => s \in Seq(JobSet)
      OBVIOUS
    <3>2. QED
      BY <2>2, <3>1, JobsArePlanned
  <2>4. QED
    BY <2>1, <2>2, <2>3 DEF Typed, Present, Has
<1>2. ASSUME jobs # <<>>, UNCHANGED <<edits, pulls, own>>,
             Skip(Head(jobs)) \/ Rebased(Head(jobs)) \/ Conflict(Head(jobs)) \/ Fail
      PROVE  Typed' /\ Present'
  <2> DEFINE j == Head(jobs)
  <2>1. /\ j.repo \in RepoSet /\ j.env \in Envs
        /\ Upper(j) \in Commit /\ NewBase(j) \in Commit /\ Replayed(j) \in Commit
    BY <1>2, HeadParts, JobParts
  <2>2. /\ Tail(jobs) \in Seq(JobSet) /\ Len(Tail(jobs)) = Len(jobs) - 1
        /\ \A k \in 1..Len(jobs) - 1 : Tail(jobs)[k] = jobs[k + 1] /\ k + 1 \in 1..Len(jobs)
        /\ Has(j.repo, j.env)
    BY <1>2, HeadParts
  <2> HIDE DEF j
  <2>3. CASE Skip(j)
    BY <1>2, <2>2, <2>3 DEF Skip, Typed, Present, Has, repos
  <2>4. CASE Rebased(j)
    <3>1. Replay(NewBase(j), Replayed(j)) \in Commit
      BY <2>1, ReplayType
    <3>2. /\ Point(j.repo, j.env, Replay(NewBase(j), Replayed(j))) /\ jobs' = Tail(jobs)
          /\ tree' = [tree EXCEPT ![j.repo][j.env] = "clean"] /\ UNCHANGED <<rebasing, cmd>>
      BY <2>4 DEF Rebased, CheckOut
    <3>3. /\ tip' \in [RepoSet -> [Branches -> Commit \union {None}]]
          /\ reflog' \in [RepoSet -> [Branches -> SUBSET Commit]]
          /\ \A q \in RepoSet, d \in Branches : tip[q][d] # None => tip'[q][d] # None
      BY <1>b, <2>1, <3>1, <3>2, PointParts
    <3>4. Typed'
      BY <1>2, <2>2, <3>2, <3>3 DEF Typed
    <3>5. Present'
      <4>1. \A k \in 1..Len(jobs) : /\ jobs[k].repo \in RepoSet /\ jobs[k].env \in Branches /\ jobs[k].pred \in Branches
                                     /\ tip[jobs[k].repo][jobs[k].env] # None /\ tip[jobs[k].repo][jobs[k].pred] # None
        BY JobsTyped DEF Present, Has
      <4>2. \A k \in 1..Len(jobs) - 1 : /\ tip'[Tail(jobs)[k].repo][Tail(jobs)[k].env] # None
                                         /\ tip'[Tail(jobs)[k].repo][Tail(jobs)[k].pred] # None
        BY <2>2, <3>3, <4>1
      <4>3. (\A r \in RepoSet : Has(r, Main))' /\ (\A r \in RepoSet, e \in Envs : rebasing[r][e] # None => Has(r, e))'
        BY <1>b, <3>2, <3>3 DEF Present, Has
      <4>4. (\A k \in 1..Len(jobs) : Has(jobs[k].repo, jobs[k].env) /\ Has(jobs[k].repo, jobs[k].pred))'
        BY <2>2, <3>2, <4>2 DEF Has
      <4>5. QED
        BY <4>3, <4>4 DEF Present
    <3>6. QED
      BY <3>4, <3>5
  <2>5. CASE Conflict(j)
    <3>1. PICK k \in 1..Len(Replayed(j)) : rebasing' = [rebasing EXCEPT ![j.repo][j.env] = StopAt(j, k)]
      BY <2>5 DEF Conflict, StopAt
    <3>2. StopAt(j, k) \in Stop
      BY <1>2, StopAtType DEF j
    <3>3. /\ jobs' = <<>> /\ tree' = [tree EXCEPT ![j.repo][j.env] = "clean"]
          /\ UNCHANGED <<tip, reflog, cmd>>
      BY <2>5 DEF Conflict, CheckOut
    <3>4. Typed'
      BY <1>2, <2>1, <3>1, <3>2, <3>3 DEF Typed
    <3>5. Present'
      BY <2>1, <2>2, <3>1, <3>3 DEF Present, Has, Typed
    <3>6. QED
      BY <3>4, <3>5
  <2>6. CASE Fail
    BY <1>2, <2>6 DEF Fail, Typed, Present, Has, repos
  <2>7. QED
    BY <1>2, <2>3, <2>4, <2>5, <2>6 DEF j
<1>3. ASSUME NEW r \in RepoSet, NEW e \in Envs,
             Edit(r, e) \/ Switch(r, e) \/ CommitEdit(r, e) \/ Amend(r, e)
             \/ ContinueToEnd(r, e) \/ ContinueToNext(r, e) \/ Abort(r, e)
      PROVE  Typed' /\ Present'
  <2>k. \A k \in 1..Len(jobs) : jobs[k].repo \in RepoSet /\ jobs[k].env \in Branches /\ jobs[k].pred \in Branches
    BY JobsTyped
  <2>1. CASE Edit(r, e)
    BY <2>1 DEF Edit, Typed, Present, Has, run
  <2>2. CASE Switch(r, e)
    <3>1. PICK t \in {"parked", "clean"} : tree' = [tree EXCEPT ![r][e] = t]
      BY <2>2 DEF Switch
    <3>2. UNCHANGED <<tip, reflog, rebasing, jobs, cmd, edits, pulls, own>>
      BY <2>2 DEF Switch, run
    <3>3. QED
      BY <3>1, <3>2 DEF Typed, Present, Has
  <2>3. ASSUME NEW c \in Commit, NEW p \in Patch, UserMoves(r, e, c),
               own' = [own EXCEPT ![r][e] = Append(@, p)] \/ own' = [own EXCEPT ![r][e] = Append(Front(@), p)]
        PROVE  Typed' /\ Present'
    <3>1. /\ Point(r, e, c) /\ tree' = [tree EXCEPT ![r][e] = "clean"] /\ edits' = edits + 1
          /\ cmd' = None /\ UNCHANGED <<rebasing, jobs, pulls>>
      BY <2>3 DEF UserMoves, Disturb
    <3>2. /\ tip' \in [RepoSet -> [Branches -> Commit \union {None}]]
          /\ reflog' \in [RepoSet -> [Branches -> SUBSET Commit]]
          /\ \A q \in RepoSet, d \in Branches : tip[q][d] # None => tip'[q][d] # None
      BY <1>b, <3>1, PointParts
    <3>3. own' \in [RepoSet -> [Branches -> Commit]]
      <4>1. own[r][e] \in Seq(Patch)
        BY <1>b DEF Typed, Commit
      <4>2. Append(own[r][e], p) \in Commit /\ Append(Front(own[r][e]), p) \in Commit
        BY <1>a, <4>1 DEF Commit
      <4>3. CASE own' = [own EXCEPT ![r][e] = Append(@, p)]
        BY <4>2, <4>3 DEF Typed
      <4>4. CASE own' = [own EXCEPT ![r][e] = Append(Front(@), p)]
        BY <4>2, <4>4 DEF Typed
      <4>5. QED
        BY <2>3, <4>3, <4>4
    <3>4. Typed'
      <4>1. tree' \in [RepoSet -> [Envs -> {"clean", "dirty", "parked"}]] /\ edits' \in Nat
        BY <3>1 DEF Typed
      <4>2. QED
        BY <3>1, <3>2, <3>3, <4>1 DEF Typed
    <3>5. Present'
      BY <1>b, <2>k, <3>1, <3>2 DEF Present, Has
    <3>6. QED
      BY <3>4, <3>5
  <2>t. Has(r, e) => tip[r][e] \in Seq(Patch)
    BY <1>b DEF Has, Typed, Commit
  <2>4. CASE CommitEdit(r, e)
    <3>1. UserMoves(r, e, Append(tip[r][e], CommittedPatch(r, e)))
          /\ own' = [own EXCEPT ![r][e] = Append(@, CommittedPatch(r, e))]
      BY <2>4 DEF CommitEdit, CommittedPatch
    <3>2. CommittedPatch(r, e) \in Patch /\ Append(tip[r][e], CommittedPatch(r, e)) \in Commit
      BY <1>a, <2>4, <2>t, UserPatches DEF CommitEdit, AtHand, Commit
    <3>3. QED
      BY <2>3, <3>1, <3>2
  <2>5. CASE Amend(r, e)
    <3>0. own[r][e] # <<>> /\ AtHand(r, e)
      BY <2>5 DEF Amend
    <3>1. AmendedPatch(r, e) \in Patch /\ AmendedPatch(r, e) = [Last(own[r][e]) EXCEPT !.v = @ + 1]
      BY <3>0, UserPatches
    <3>2. UserMoves(r, e, Append(Front(tip[r][e]), AmendedPatch(r, e)))
          /\ own' = [own EXCEPT ![r][e] = Append(Front(@), AmendedPatch(r, e))]
      BY <2>5, <3>1 DEF Amend
    <3>3. Append(Front(tip[r][e]), AmendedPatch(r, e)) \in Commit
      BY <1>a, <2>t, <3>0, <3>1 DEF AtHand, Commit
    <3>4. QED
      BY <2>3, <3>1, <3>2, <3>3
  <2>6. CASE ContinueToEnd(r, e)
    <3>1. Replay(rebasing[r][e].onto, rebasing[r][e].todo) \in Commit
      BY <2>6, StopParts DEF ContinueToEnd
    <3>2. /\ Point(r, e, Replay(rebasing[r][e].onto, rebasing[r][e].todo))
          /\ rebasing' = [rebasing EXCEPT ![r][e] = None]
          /\ cmd' \in {cmd, None} /\ UNCHANGED <<tree, jobs, edits, pulls, own>>
      BY <2>6 DEF ContinueToEnd, Disturb
    <3>3. /\ tip' \in [RepoSet -> [Branches -> Commit \union {None}]]
          /\ reflog' \in [RepoSet -> [Branches -> SUBSET Commit]]
          /\ \A q \in RepoSet, d \in Branches : tip[q][d] # None => tip'[q][d] # None
      BY <1>b, <3>1, <3>2, PointParts
    <3>4. Typed'
      BY <3>2, <3>3 DEF Typed
    <3>5. \A q \in RepoSet, d \in Envs : rebasing'[q][d] # None => rebasing[q][d] # None
      BY <3>2 DEF Typed
    <3>6. Present'
      BY <1>b, <2>k, <3>2, <3>3, <3>5 DEF Present, Has
    <3>7. QED
      BY <3>4, <3>6
  <2>7. CASE ContinueToNext(r, e)
    <3> DEFINE w == rebasing[r][e]
    <3>1. w.onto \in Commit /\ w.todo \in Commit /\ Len(w.todo) > 1
      BY <2>7, StopParts DEF ContinueToNext
    <3>2. <<Head(w.todo)>> \in Commit /\ Tail(w.todo) \in Commit
      BY <3>1 DEF Commit
    <3>3. [onto |-> Replay(w.onto, <<Head(w.todo)>>), todo |-> Tail(w.todo)] \in Stop
      BY <3>1, <3>2, ReplayType DEF Stop
    <3>4. /\ rebasing' = [rebasing EXCEPT ![r][e] = [onto |-> Replay(w.onto, <<Head(w.todo)>>), todo |-> Tail(w.todo)]]
          /\ rebasing[r][e] # None
          /\ UNCHANGED <<tip, reflog, cmd, done, tree, jobs, edits, pulls, own>>
      BY <2>7 DEF ContinueToNext
    <3> HIDE DEF w
    <3>5. Typed'
      BY <3>3, <3>4 DEF Typed
    <3>6. Present'
      BY <3>4 DEF Present, Has, Typed
    <3>7. QED
      BY <3>5, <3>6
  <2>8. CASE Abort(r, e)
    BY <2>8 DEF Abort, Typed, Present, Has, run
  <2>9. QED
    BY <1>3, <2>1, <2>2, <2>4, <2>5, <2>6, <2>7, <2>8
<1>4. ASSUME NEW r \in RepoSet, PullMain(r) PROVE Typed' /\ Present'
  <2> DEFINE p == [by |-> Main, n |-> pulls + 2, v |-> 0]
  <2>1. p \in Patch
    BY <1>b DEF Patch, Typed
  <2>2. tip[r][Main] \in Seq(Patch)
    BY <1>b DEF Present, Has, Typed, Commit
  <2>3. Append(tip[r][Main], p) \in Commit
    BY <1>a, <2>1, <2>2 DEF Commit
  <2>4. /\ Point(r, Main, Append(tip[r][Main], p)) /\ pulls' = pulls + 1 /\ cmd' = None
        /\ UNCHANGED <<tree, rebasing, jobs, edits, own>>
    BY <1>4 DEF PullMain, Disturb
  <2> HIDE DEF p
  <2>5. /\ tip' \in [RepoSet -> [Branches -> Commit \union {None}]]
        /\ reflog' \in [RepoSet -> [Branches -> SUBSET Commit]]
        /\ \A q \in RepoSet, d \in Branches : tip[q][d] # None => tip'[q][d] # None
    BY <1>b, <2>3, <2>4, PointParts
  <2>6. \A k \in 1..Len(jobs) : jobs[k].repo \in RepoSet /\ jobs[k].env \in Branches /\ jobs[k].pred \in Branches
    BY JobsTyped
  <2>7. Typed'
    BY <2>4, <2>5 DEF Typed
  <2>8. Present'
    BY <1>b, <2>4, <2>5, <2>6 DEF Present, Has
  <2>9. QED
    BY <2>7, <2>8
<1>5. CASE UNCHANGED vars
  BY <1>5 DEF vars, repos, run, Typed, Present, Has
<1>6. QED
  BY <1>1, <1>2, <1>3, <1>4, <1>5, NextCases

\* Branches, reflogs, rebases in progress, plans and histories keep their types
\* in every reachable state, and nobody rebases a branch that is not there.
THEOREM RestackTypeCorrect == Spec => [](Typed /\ Present)
<1>1. Init => Typed /\ Present
  BY TypedInit
<1>2. Typed /\ Present /\ [Next]_vars => Typed' /\ Present'
  BY TypedNext
<1>3. QED
  BY <1>1, <1>2, PTL DEF Spec

-----------------------------------------------------------------------------
(***************************************************************************)
(* What a user committed in an env.                                        *)
(***************************************************************************)

\* The commands are given in the stack's order: there is one order of the
\* branches, in which the env that others start on comes first, that every link
\* of every command that is not refused outright goes up.
InOrder(rank) ==
  /\ \A e \in Envs : rank[Main] < rank[e]
  /\ \A c \in Commands : ~RepeatedElement(c) =>
       /\ \A i \in Links(c) : rank[Predecessor(c, i)] < rank[Env(c, i)]
       /\ c.cut # None => rank[c.cut] < rank[Env(c, Len(c.chain))]

\* The orders in which env `under` comes before the others.
OrderAbove(under) ==
  { rank \in [Branches -> Nat] : InOrder(rank) /\ \A e \in Envs \ {under} : rank[under] < rank[e] }

\* The hypothesis of the theorems below on the commands: there is such an order,
\* whichever env the others start on. A chain typed backwards, which may
\* collapse into one branch, is a limit that the restack page declares (restack.md, 113).
CommandsInOrder == \A under \in Bottoms : OrderAbove(under) # {}

\* A commit that has nothing of what comes after branch b.
UpTo(rank, b, c) == \A p \in Range(c) : rank[p.by] <= rank[b]

\* The user's commits are numbered in their order, and the branch and a rebase
\* of it have them in that order; a branch has nothing of those after it, and a
\* boundary nothing of its env.
Numbered == \A r \in RepoSet, e \in Envs : \A k \in 1..Len(own[r][e]) :
              own[r][e][k].by = e /\ own[r][e][k].n = k

\* A branch has its env's commits, as last amended, in their order.
TipsCarryOwn == \A r \in RepoSet, e \in Envs : Has(r, e) => Only(tip[r][e], By(e)) = own[r][e]

\* So has a rebase that git stopped in, between what it replayed and what it has to.
StopsCarryOwn == \A r \in RepoSet, e \in Envs : rebasing[r][e] # None =>
  Only(rebasing[r][e].onto, By(e)) \o Only(rebasing[r][e].todo, By(e)) = own[r][e]

\* A branch has never had anything of those after it,
BranchesUpward(rank) ==
  \A r \in RepoSet, b \in Branches :
    /\ Has(r, b) => UpTo(rank, b, tip[r][b])
    /\ \A c \in reflog[r][b] : UpTo(rank, b, c)

\* nor has a rebase of it,
StopsUpward(rank) ==
  \A r \in RepoSet, e \in Envs : rebasing[r][e] # None =>
    UpTo(rank, e, rebasing[r][e].onto) /\ UpTo(rank, e, rebasing[r][e].todo)

\* and a planned boundary has nothing of the env it is the boundary of.
JobsUpward(rank) ==
  \A k \in 1..Len(jobs) : LET j == jobs[k] IN
    /\ rank[j.pred] < rank[j.env]
    /\ \A p \in Range(j.boundary) : rank[p.by] < rank[j.env]

\* The invariant of the user's commits.
OwnInv(rank) ==
  /\ Numbered /\ TipsCarryOwn /\ StopsCarryOwn
  /\ BranchesUpward(rank) /\ StopsUpward(rank) /\ JobsUpward(rank)

\* The members of a sequence put together from others.
LEMMA RangeAppend ==
  \A T : \A x \in T, s \in Seq(T) : Range(Append(s, x)) = Range(s) \union {x}
<1> SUFFICES ASSUME NEW T, NEW x \in T, NEW s \in Seq(T)
             PROVE  Range(Append(s, x)) = Range(s) \union {x}
  OBVIOUS
<1>1. Append(s, x) \in Seq(T) /\ Len(Append(s, x)) = Len(s) + 1 /\ Append(s, x)[Len(s) + 1] = x
      /\ \A i \in 1..Len(s) : Append(s, x)[i] = s[i]
  BY AppendParts
<1>2. DOMAIN Append(s, x) = 1..Len(s) + 1 /\ DOMAIN s = 1..Len(s)
  BY <1>1
<1>3. \A i \in 1..Len(s) + 1 : i \in 1..Len(s) \/ i = Len(s) + 1
  OBVIOUS
<1>4. Len(s) + 1 \in 1..Len(s) + 1 /\ \A i \in 1..Len(s) : i \in 1..Len(s) + 1
  OBVIOUS
<1>5. ASSUME NEW y PROVE y \in Range(Append(s, x)) <=> y \in Range(s) \union {x}
  BY <1>1, <1>2, <1>3, <1>4 DEF Range
<1>6. QED
  BY <1>5

\* The members of two sequences in a row are those of both.
LEMMA RangeConcat ==
  \A T : \A s, u \in Seq(T) : Range(s \o u) = Range(s) \union Range(u)
<1> SUFFICES ASSUME NEW T, NEW s \in Seq(T), NEW u \in Seq(T)
             PROVE  Range(s \o u) = Range(s) \union Range(u)
  OBVIOUS
<1>1. DOMAIN (s \o u) = 1..Len(s) + Len(u) /\ DOMAIN s = 1..Len(s) /\ DOMAIN u = 1..Len(u)
  OBVIOUS
<1>2. \A i \in 1..Len(s) : (s \o u)[i] = s[i] /\ i \in 1..Len(s) + Len(u)
  OBVIOUS
<1>3. \A i \in 1..Len(u) : (s \o u)[Len(s) + i] = u[i] /\ Len(s) + i \in 1..Len(s) + Len(u)
  OBVIOUS
<1>4. \A i \in 1..Len(s) + Len(u) : i \in 1..Len(s) \/ \E k \in 1..Len(u) : i = Len(s) + k
  <2> SUFFICES ASSUME NEW i \in 1..Len(s) + Len(u), i \notin 1..Len(s)
               PROVE  \E k \in 1..Len(u) : i = Len(s) + k
    OBVIOUS
  <2>1. i - Len(s) \in 1..Len(u) /\ i = Len(s) + (i - Len(s))
    OBVIOUS
  <2>2. QED
    BY <2>1
<1> DEFINE w == s \o u
<1> HIDE DEF w
<1>5. /\ DOMAIN w = 1..Len(s) + Len(u)
      /\ \A i \in 1..Len(s) : w[i] = s[i] /\ i \in 1..Len(s) + Len(u)
      /\ \A i \in 1..Len(u) : w[Len(s) + i] = u[i] /\ Len(s) + i \in 1..Len(s) + Len(u)
  BY <1>1, <1>2, <1>3 DEF w
<1>6. Range(w) \subseteq Range(s) \union Range(u)
  <2> SUFFICES ASSUME NEW i \in 1..Len(s) + Len(u) PROVE w[i] \in Range(s) \union Range(u)
    BY <1>5 DEF Range
  <2>1. CASE i \in 1..Len(s)
    BY <1>1, <1>5, <2>1 DEF Range
  <2>2. ASSUME NEW k \in 1..Len(u), i = Len(s) + k PROVE w[i] \in Range(u)
    BY <1>1, <1>5, <2>2 DEF Range
  <2>3. QED
    BY <1>4, <2>1, <2>2
<1>7. Range(s) \subseteq Range(w) /\ Range(u) \subseteq Range(w)
  BY <1>1, <1>5 DEF Range
<1>8. QED
  BY <1>6, <1>7 DEF w

\* A part of a sequence has only members of the whole.
LEMMA RangeSubSeq ==
  \A T : \A s \in Seq(T), m, n \in Nat \ {0} : n <= Len(s) => Range(SubSeq(s, m, n)) \subseteq Range(s)
<1> SUFFICES ASSUME NEW T, NEW s \in Seq(T), NEW m \in Nat \ {0}, NEW n \in Nat, n <= Len(s)
             PROVE  Range(SubSeq(s, m, n)) \subseteq Range(s)
  OBVIOUS
<1>1. \A i \in DOMAIN SubSeq(s, m, n) : SubSeq(s, m, n)[i] = s[m + i - 1] /\ m + i - 1 \in DOMAIN s
  OBVIOUS
<1>2. QED
  BY <1>1 DEF Range

\* Two sequences with the same members at the same places.
LEMMA SameSequence ==
  \A T : \A s, u \in Seq(T) :
    Len(s) = Len(u) /\ (\A i \in 1..Len(s) : s[i] = u[i]) => s = u
OBVIOUS

\* A sequence is its first part and the rest.
LEMMA SplitAt ==
  \A T : \A s \in Seq(T) : \A n \in 0..Len(s) :
    /\ SubSeq(s, 1, n) \in Seq(T) /\ SubSeq(s, n + 1, Len(s)) \in Seq(T)
    /\ s = SubSeq(s, 1, n) \o SubSeq(s, n + 1, Len(s))
<1> SUFFICES ASSUME NEW T, NEW s \in Seq(T), NEW n \in 0..Len(s)
             PROVE  /\ SubSeq(s, 1, n) \in Seq(T) /\ SubSeq(s, n + 1, Len(s)) \in Seq(T)
                    /\ s = SubSeq(s, 1, n) \o SubSeq(s, n + 1, Len(s))
  OBVIOUS
<1> DEFINE a == SubSeq(s, 1, n)
           b == SubSeq(s, n + 1, Len(s))
<1>1. a \in Seq(T) /\ Len(a) = n /\ \A i \in 1..n : a[i] = s[i]
  OBVIOUS
<1>2. b \in Seq(T) /\ Len(b) = Len(s) - n /\ \A i \in 1..Len(s) - n : b[i] = s[n + i]
  OBVIOUS
<1> HIDE DEF a, b
<1>3. Len(a \o b) = Len(s) /\ a \o b \in Seq(T)
  BY <1>1, <1>2
<1>4. ASSUME NEW i \in 1..Len(s) PROVE (a \o b)[i] = s[i]
  <2>1. CASE i <= n
    BY <1>1, <1>2, <2>1
  <2>2. CASE ~ (i <= n)
    <3>1. (a \o b)[i] = b[i - n] /\ i - n \in 1..Len(s) - n
      BY <1>1, <1>2, <2>2
    <3>2. QED
      BY <1>2, <3>1
  <2>3. QED
    BY <2>1, <2>2
<1>5. s = a \o b
  BY <1>3, <1>4, SameSequence
<1>6. QED
  BY <1>1, <1>2, <1>5 DEF a, b

\* A rebase adds nothing that was not in the base or the branch.
LEMMA ReplayRange ==
  ASSUME NEW base \in Commit, NEW patches \in Commit
  PROVE  Range(Replay(base, patches)) = Range(base) \union Range(patches)
<1> DEFINE kept == Only(patches, Patch \ Range(base))
<1>1. kept \in Seq(Patch \cap (Patch \ Range(base)))
  BY OnlyType DEF Commit
<1>2. kept \in Seq(Patch)
  BY <1>1
<1>3. Range(kept) = Range(patches) \cap (Patch \ Range(base))
  BY OnlyRange DEF Commit
<1>4. Range(patches) \subseteq Patch
  BY DEF Range, Commit
<1> HIDE DEF kept
<1>5. Range(base \o kept) = Range(base) \union Range(kept)
  BY <1>2, RangeConcat DEF Commit
<1>6. Replay(base, patches) = base \o kept
  BY DEF Replay, kept
<1>7. QED
  BY <1>3, <1>4, <1>5, <1>6

\* It carries the commits of an env that the base did not have.
LEMMA ReplayOnly ==
  ASSUME NEW base \in Commit, NEW patches \in Commit, NEW S \in SUBSET Patch,
         Range(patches) \cap Range(base) \cap S = {}
  PROVE  Only(Replay(base, patches), S) = Only(base, S) \o Only(patches, S)
<1> DEFINE W == Patch \ Range(base)
           kept == Only(patches, W)
<1>1. kept \in Seq(Patch)
  <2>1. kept \in Seq(Patch \cap W)
    BY OnlyType DEF Commit
  <2>2. QED
    BY <2>1
<1>2. Only(kept, S) = Only(patches, W \cap S)
  BY OnlyOnly DEF Commit
<1>3. \A i \in 1..Len(patches) : patches[i] \in Range(patches)
  BY DEF Range, Commit
<1>4. \A i \in 1..Len(patches) : patches[i] \in W \cap S <=> patches[i] \in S
  BY <1>3
<1> HIDE DEF W
<1>5. Only(patches, W \cap S) = Only(patches, S)
  BY <1>4, OnlySame DEF Commit
<1> HIDE DEF kept
<1>6. Only(base \o kept, S) = Only(base, S) \o Only(kept, S)
  BY <1>1, OnlyConcat DEF Commit
<1>7. Replay(base, patches) = base \o kept
  BY DEF Replay, kept, W
<1>8. QED
  BY <1>2, <1>5, <1>6, <1>7

\* A commit has the patches of its ancestors.
LEMMA AncestorRange ==
  ASSUME NEW c \in Commit, NEW d \in Commit, IsAncestor(c, d)
  PROVE  Range(c) \subseteq Range(d)
<1>1. c = SubSeq(c, 1, Len(c)) /\ Len(c) <= Len(d) /\ SubSeq(c, 1, Len(c)) = SubSeq(d, 1, Len(c))
  BY DEF IsAncestor, IsPrefix, Commit
<1>2. c = SubSeq(d, 1, Len(c))
  BY <1>1
<1>3. \A i \in 1..Len(c) : c[i] = d[i] /\ i \in 1..Len(d)
  BY <1>1, <1>2 DEF Commit
<1>4. QED
  BY <1>3 DEF Range, Commit

\* The patches of the first commits.
LEMMA FirstRanges ==
  ASSUME NEW under \in Envs, NEW e \in Envs
  PROVE  /\ Range(Root) = {First(Main)}
         /\ Range(Below(under)) = {First(Main), First(under)}
         /\ Range(Append(Below(under), First(e))) = {First(Main), First(under), First(e)}
<1>1. \A b \in Branches : First(b) \in Patch
  BY DEF First, Patch
<1>2. Main \in Branches /\ Envs \subseteq Branches
  BY DEF Branches
<1>3. Root = <<First(Main)>>
  BY DEF Root, First
<1>4. Range(Root) = {First(Main)} /\ Root \in Seq(Patch)
  BY <1>1, <1>2, <1>3 DEF Range
<1>5. Range(Below(under)) = {First(Main), First(under)}
  BY <1>1, <1>2, <1>4, RangeAppend DEF Below
<1>6. Below(under) \in Seq(Patch)
  BY FirstCommits DEF Commit
<1>7. Range(Append(Below(under), First(e))) = Range(Below(under)) \union {First(e)}
  BY <1>1, <1>2, <1>6, RangeAppend
<1>8. QED
  BY <1>4, <1>5, <1>7

\* What of them an env's user committed.
LEMMA FirstOwn ==
  ASSUME NEW under \in Envs, NEW e \in Envs
  PROVE  /\ Only(Root, By(e)) = <<>>
         /\ Only(Below(under), By(e)) = IF e = under THEN <<First(e)>> ELSE <<>>
         /\ e # under => Only(Append(Below(under), First(e)), By(e)) = <<First(e)>>
<1>1. First(Main) \in Patch /\ First(under) \in Patch /\ First(e) \in Patch
  BY DEF First, Patch, Branches
<1>2. First(Main) \notin By(e) /\ First(e) \in By(e) /\ (First(under) \in By(e) <=> e = under)
  BY RestackAssumption DEF First, By
<1>3. Root = Append(<<>>, First(Main)) /\ Root \in Seq(Patch) /\ <<>> \in Seq(Patch)
  BY <1>1 DEF Root, First
<1>4. Only(Root, By(e)) = <<>>
  <2>1. Root \in Seq(Patch) /\ Len(Root) = 1 /\ Root[1] = First(Main)
    BY FirstCommits DEF Commit, Root, First
  <2>2. \A i \in 1..Len(Root) : Root[i] \notin By(e)
    BY <1>2, <2>1
  <2>3. QED
    BY <2>1, <2>2, OnlyNone
<1>5. Append(<<>>, First(e)) = <<First(e)>>
  OBVIOUS
<1>6. Only(Below(under), By(e)) = IF e = under THEN <<First(e)>> ELSE <<>>
  <2>1. /\ First(under) \in By(e) => Only(Append(Root, First(under)), By(e)) = Append(Only(Root, By(e)), First(under))
        /\ First(under) \notin By(e) => Only(Append(Root, First(under)), By(e)) = Only(Root, By(e))
    BY <1>1, <1>3, OnlyStep, ZenonT(40)
  <2>2. QED
    BY <1>2, <1>4, <1>5, <2>1 DEF Below
<1>7. Below(under) \in Seq(Patch)
  BY FirstCommits DEF Commit
<1>8. e # under => Only(Append(Below(under), First(e)), By(e)) = <<First(e)>>
  <2>1. First(e) \in By(e) => Only(Append(Below(under), First(e)), By(e)) = Append(Only(Below(under), By(e)), First(e))
    BY <1>1, <1>7, OnlyStep
  <2>2. QED
    BY <1>2, <1>5, <1>6, <2>1
<1>9. QED
  BY <1>4, <1>6, <1>8

\* Initially the branches carry what is recorded as made in them.
LEMMA OwnInit ==
  ASSUME CommandsInOrder, Init
  PROVE  \E rank \in [Branches -> Nat] : InOrder(rank) /\ OwnInv(rank)
<1>1. PICK under \in Bottoms : under \in Envs /\ InitialTips(under)
  BY InitialParts
<1>2. PICK rank \in OrderAbove(under) : TRUE
  BY <1>1 DEF CommandsInOrder
<1>3. rank \in [Branches -> Nat] /\ InOrder(rank) /\ \A e \in Envs \ {under} : rank[under] < rank[e]
  BY <1>2 DEF OrderAbove
<1>4. Typed /\ Present
  BY TypedInit
<1>5. /\ \A r \in RepoSet, e \in Envs :
           own[r][e] = IF Has(r, e) THEN Only(tip[r][e], By(e)) ELSE <<>>
      /\ \A r \in RepoSet, e \in Envs : rebasing[r][e] = None
      /\ jobs = <<>>
  <2>1. Envs \subseteq Branches
    BY DEF Branches
  <2>2. QED
    BY <2>1 DEF Init
<1>6. ASSUME NEW r \in RepoSet, NEW e \in Envs, Has(r, e)
      PROVE  \/ tip[r][e] = Root
             \/ tip[r][e] = Below(under)
             \/ e # under /\ tip[r][e] = Append(Below(under), First(e))
  BY <1>1, <1>6 DEF InitialTips, Has
<1>7. Numbered
  <2> SUFFICES ASSUME NEW r \in RepoSet, NEW e \in Envs, NEW k \in 1..Len(own[r][e])
               PROVE  own[r][e][k].by = e /\ own[r][e][k].n = k
    BY DEF Numbered
  <2>1. own[r][e] \in {<<>>, <<First(e)>>}
    <3>1. /\ Only(Root, By(e)) = <<>>
          /\ Only(Below(under), By(e)) \in {<<>>, <<First(e)>>}
          /\ e # under => Only(Append(Below(under), First(e)), By(e)) = <<First(e)>>
      BY <1>1, FirstOwn
    <3>2. QED
      BY <1>5, <1>6, <3>1
  <2>2. own[r][e] = <<First(e)>> /\ k = 1
    <3>1. Len(<<First(e)>>) = 1 /\ Len(<<>>) = 0 /\ 1..0 = {}
      OBVIOUS
    <3>2. CASE own[r][e] = <<>>
      <4>1. k \in 1..0
        BY <3>1, <3>2
      <4>2. QED
        BY <3>1, <4>1
    <3>3. CASE own[r][e] = <<First(e)>>
      <4>1. k \in 1..1
        BY <3>1, <3>3
      <4>2. QED
        BY <3>3, <4>1
    <3>4. QED
      BY <2>1, <3>2, <3>3
  <2>3. QED
    BY <2>2 DEF First
<1>8. TipsCarryOwn
  BY <1>5 DEF TipsCarryOwn
<1>9. BranchesUpward(rank)
  <2> SUFFICES ASSUME NEW r \in RepoSet, NEW b \in Branches
               PROVE  /\ Has(r, b) => UpTo(rank, b, tip[r][b])
                      /\ \A c \in reflog[r][b] : UpTo(rank, b, c)
    BY DEF BranchesUpward
  <2>1. \A p \in {First(Main), First(under), First(b)} : p.by \in {Main, under, b}
    BY DEF First
  <2>2. Has(r, b) => UpTo(rank, b, tip[r][b])
    <3>1. CASE b = Main
      <4>1. Range(tip[r][b]) = {First(Main)}
        BY <1>1, <3>1, FirstRanges DEF InitialTips
      <4>2. QED
        BY <1>3, <3>1, <4>1 DEF UpTo, First
    <3>2. CASE b = under
      <4>1. Has(r, b) => Range(tip[r][b]) \subseteq {First(Main), First(under)}
        BY <1>1, <3>2, FirstRanges DEF InitialTips, Has
      <4>2. rank[Main] <= rank[b] /\ rank[under] <= rank[b]
        BY <1>1, <1>3, <3>2 DEF InOrder, Branches
      <4>3. QED
        BY <2>1, <3>2, <4>1, <4>2 DEF UpTo, First
    <3>3. CASE b \in Envs \ {under}
      <4>1. Has(r, b) => Range(tip[r][b]) \subseteq {First(Main), First(under), First(b)}
        BY <1>1, <1>6, <3>3, FirstRanges
      <4>2. rank[Main] <= rank[b] /\ rank[under] <= rank[b] /\ rank[b] <= rank[b]
        BY <1>1, <1>3, <3>3 DEF InOrder, Branches
      <4>3. QED
        BY <4>1, <4>2 DEF UpTo, First
    <3>4. QED
      BY <3>1, <3>2, <3>3 DEF Branches
  <2>3. ASSUME NEW c \in reflog[r][b] PROVE UpTo(rank, b, c)
    <3>1. Has(r, b) /\ IsAncestor(c, tip[r][b])
      BY <1>1 DEF InitialTips
    <3>2. c \in Commit /\ tip[r][b] \in Commit
      BY <1>4, <3>1 DEF Typed, Has
    <3>3. QED
      BY <2>2, <3>1, <3>2, AncestorRange DEF UpTo
  <2>4. QED
    BY <2>2, <2>3
<1>10. StopsCarryOwn /\ StopsUpward(rank) /\ JobsUpward(rank)
  BY <1>5 DEF StopsCarryOwn, StopsUpward, JobsUpward
<1>11. QED
  BY <1>3, <1>7, <1>8, <1>9, <1>10 DEF OwnInv

\* A commit of what comes before an env has none of the env's commits.
LEMMA NoneOfOwn ==
  ASSUME NEW rank \in [Branches -> Nat], NEW e \in Envs, NEW c \in Commit,
         \A p \in Range(c) : rank[p.by] < rank[e]
  PROVE  Range(c) \cap By(e) = {} /\ Only(c, By(e)) = <<>>
<1>1. e \in Branches /\ rank[e] \in Nat
  BY DEF Branches
<1>2. \A p \in Range(c) : p \notin By(e)
  BY <1>1 DEF By
<1>3. \A i \in 1..Len(c) : c[i] \in Range(c)
  BY DEF Range, Commit
<1>4. Only(c, By(e)) = <<>>
  BY <1>2, <1>3, OnlyNone DEF Commit
<1>5. QED
  BY <1>2, <1>4

\* The patches of a commit: their places, and their branches.
LEMMA CommitRange ==
  \A c \in Commit :
    /\ \A i \in 1..Len(c) : c[i] \in Range(c)
    /\ \A p \in Range(c) : \E i \in 1..Len(c) : p = c[i]
    /\ \A p \in Range(c) : p \in Patch /\ p.by \in Branches
<1> SUFFICES ASSUME NEW c \in Commit
             PROVE  /\ \A i \in 1..Len(c) : c[i] \in Range(c)
                    /\ \A p \in Range(c) : \E i \in 1..Len(c) : p = c[i]
                    /\ \A p \in Range(c) : p \in Patch /\ p.by \in Branches
  OBVIOUS
<1>1. DOMAIN c = 1..Len(c) /\ \A i \in 1..Len(c) : c[i] \in Patch
  BY DEF Commit
<1>2. \A p \in Patch : p.by \in Branches
  BY DEF Patch
<1>3. QED
  BY <1>1, <1>2 DEF Range

\* Two commits' patches, one after the other.
LEMMA CommitConcat ==
  \A s, u \in Commit :
    /\ s \o u \in Commit
    /\ Range(s \o u) = Range(s) \union Range(u)
    /\ \A S : Only(s \o u, S) = Only(s, S) \o Only(u, S)
<1> SUFFICES ASSUME NEW s \in Commit, NEW u \in Commit
             PROVE  /\ s \o u \in Commit
                    /\ Range(s \o u) = Range(s) \union Range(u)
                    /\ \A S : Only(s \o u, S) = Only(s, S) \o Only(u, S)
  OBVIOUS
<1>1. s \in Seq(Patch) /\ u \in Seq(Patch)
  BY DEF Commit
<1>2. s \o u \in Seq(Patch)
  BY <1>1
<1>3. Range(s \o u) = Range(s) \union Range(u)
  BY <1>1, RangeConcat
<1>4. \A S : Only(s \o u, S) = Only(s, S) \o Only(u, S)
  BY <1>1, OnlyConcat
<1>5. QED
  BY <1>2, <1>3, <1>4 DEF Commit

\* A commit's patches that are in a set.
LEMMA CommitOnly ==
  \A s \in Commit : \A S : Only(s, S) \in Commit /\ Range(Only(s, S)) = Range(s) \cap S
<1> SUFFICES ASSUME NEW s \in Commit, NEW S
             PROVE  Only(s, S) \in Commit /\ Range(Only(s, S)) = Range(s) \cap S
  OBVIOUS
<1>1. s \in Seq(Patch)
  BY DEF Commit
<1>2. Only(s, S) \in Seq(Patch \cap S)
  BY <1>1, OnlyType
<1>3. Range(Only(s, S)) = Range(s) \cap S
  BY <1>1, OnlyRange
<1>4. QED
  BY <1>2, <1>3 DEF Commit

\* A commit cut in two.
LEMMA CommitSplit ==
  \A s \in Commit : \A n \in 0..Len(s) :
    /\ SubSeq(s, 1, n) \in Commit /\ SubSeq(s, n + 1, Len(s)) \in Commit
    /\ s = SubSeq(s, 1, n) \o SubSeq(s, n + 1, Len(s))
    /\ Len(SubSeq(s, 1, n)) = n /\ \A i \in 1..n : SubSeq(s, 1, n)[i] = s[i]
    /\ Len(SubSeq(s, n + 1, Len(s))) = Len(s) - n
    /\ \A i \in 1..Len(s) - n : SubSeq(s, n + 1, Len(s))[i] = s[n + i]
<1> SUFFICES ASSUME NEW s \in Commit, NEW n \in 0..Len(s)
             PROVE  /\ SubSeq(s, 1, n) \in Commit /\ SubSeq(s, n + 1, Len(s)) \in Commit
                    /\ s = SubSeq(s, 1, n) \o SubSeq(s, n + 1, Len(s))
                    /\ Len(SubSeq(s, 1, n)) = n /\ \A i \in 1..n : SubSeq(s, 1, n)[i] = s[i]
                    /\ Len(SubSeq(s, n + 1, Len(s))) = Len(s) - n
                    /\ \A i \in 1..Len(s) - n : SubSeq(s, n + 1, Len(s))[i] = s[n + i]
  OBVIOUS
<1>1. s \in Seq(Patch)
  BY DEF Commit
<1>2. /\ SubSeq(s, 1, n) \in Seq(Patch) /\ SubSeq(s, n + 1, Len(s)) \in Seq(Patch)
      /\ s = SubSeq(s, 1, n) \o SubSeq(s, n + 1, Len(s))
  BY <1>1, SplitAt
<1>3. Len(SubSeq(s, 1, n)) = n /\ \A i \in 1..n : SubSeq(s, 1, n)[i] = s[i]
  BY <1>1
<1>4. /\ Len(SubSeq(s, n + 1, Len(s))) = Len(s) - n
      /\ \A i \in 1..Len(s) - n : SubSeq(s, n + 1, Len(s))[i] = s[n + i]
  BY <1>1
<1>5. QED
  BY <1>2, <1>3, <1>4 DEF Commit

\* A commit's last patch and what is before it.
LEMMA FrontLast ==
  \A s \in Commit : s # <<>> =>
    Front(s) \in Commit /\ Last(s) \in Patch /\ s = Append(Front(s), Last(s))
<1> SUFFICES ASSUME NEW s \in Seq(Patch), s # <<>>
             PROVE  Front(s) \in Seq(Patch) /\ Last(s) \in Patch /\ s = Append(Front(s), Last(s))
  BY DEF Commit
<1>1. Len(s) \in Nat \ {0}
  OBVIOUS
<1>2. Front(s) \in Seq(Patch) /\ Len(Front(s)) = Len(s) - 1 /\ \A i \in 1..Len(s) - 1 : Front(s)[i] = s[i]
  BY <1>1 DEF Front
<1>3. Last(s) \in Patch /\ Last(s) = s[Len(s)]
  BY <1>1 DEF Last
<1>4. \A u \in Seq(Patch), x \in Patch :
        Len(u) = Len(s) - 1 /\ x = s[Len(s)] /\ (\A i \in 1..Len(s) - 1 : u[i] = s[i]) => s = Append(u, x)
  BY <1>1
<1>5. s = Append(Front(s), Last(s))
  BY <1>2, <1>3, <1>4
<1>6. QED
  BY <1>2, <1>3, <1>5

\* A commit cut before one of its patches.
LEMMA CommitCut ==
  \A s \in Commit : \A k \in 1..Len(s) :
    /\ SubSeq(s, 1, k - 1) \in Commit /\ SubSeq(s, k, Len(s)) \in Commit
    /\ s = SubSeq(s, 1, k - 1) \o SubSeq(s, k, Len(s))
<1> SUFFICES ASSUME NEW s \in Commit, NEW k \in 1..Len(s)
             PROVE  /\ SubSeq(s, 1, k - 1) \in Commit /\ SubSeq(s, k, Len(s)) \in Commit
                    /\ s = SubSeq(s, 1, k - 1) \o SubSeq(s, k, Len(s))
  OBVIOUS
<1>1. Len(s) \in Nat
  BY DEF Commit
<1>2. PICK n \in 0..Len(s) : n = k - 1 /\ n + 1 = k
  BY <1>1
<1>3. /\ SubSeq(s, 1, n) \in Commit /\ SubSeq(s, n + 1, Len(s)) \in Commit
      /\ s = SubSeq(s, 1, n) \o SubSeq(s, n + 1, Len(s))
  BY CommitSplit
<1>4. QED
  BY <1>2, <1>3

\* How far two commits agree.
LEMMA CommitCommon ==
  \A c, d \in Commit : \E n \in 0..Len(c) :
    /\ n \in 0..Len(d) /\ Common(c, d) = SubSeq(c, 1, n) /\ Common(c, d) \in Commit
    /\ Len(Common(c, d)) = n
    /\ \A i \in 1..n : c[i] = d[i]
    /\ n < Len(c) => n = Len(d) \/ c[n + 1] # d[n + 1]
<1> SUFFICES ASSUME NEW c \in Commit, NEW d \in Commit
             PROVE  \E n \in 0..Len(c) :
                      /\ n \in 0..Len(d) /\ Common(c, d) = SubSeq(c, 1, n) /\ Common(c, d) \in Commit
                      /\ Len(Common(c, d)) = n
                      /\ \A i \in 1..n : c[i] = d[i]
                      /\ n < Len(c) => n = Len(d) \/ c[n + 1] # d[n + 1]
  OBVIOUS
<1>1. c \in Seq(Patch) /\ d \in Seq(Patch)
  BY DEF Commit
<1>2. PICK n \in 0..Len(c) :
        /\ n <= Len(d)
        /\ Common(c, d) = SubSeq(c, 1, n)
        /\ \A i \in 1..n : c[i] = d[i]
        /\ n < Len(c) => n = Len(d) \/ c[n + 1] # d[n + 1]
  BY <1>1, CommonPrefix
<1>3. n \in 0..Len(d)
  BY <1>1, <1>2
<1>4. Common(c, d) \in Commit /\ Len(Common(c, d)) = n
  BY <1>2, CommitSplit, ZenonT(40)
<1>5. QED
  BY <1>2, <1>3, <1>4

\* A rebase goes no further up than the base and the branch.
LEMMA ReplayUpTo ==
  ASSUME NEW rank, NEW b, NEW base \in Commit, NEW patches \in Commit,
         UpTo(rank, b, base), UpTo(rank, b, patches)
  PROVE  UpTo(rank, b, Replay(base, patches))
BY ReplayRange DEF UpTo

\* A branch that is moved upward stays so.
LEMMA MoveUpward ==
  ASSUME Typed, NEW rank \in [Branches -> Nat], BranchesUpward(rank),
         NEW r \in RepoSet, NEW b \in Branches, NEW c \in Commit,
         Point(r, b, c), UpTo(rank, b, c)
  PROVE  BranchesUpward(rank)'
<1>1. /\ tip'[r][b] = c /\ reflog'[r][b] = reflog[r][b] \union {c}
      /\ \A q \in RepoSet, d \in Branches :
           q # r \/ d # b => tip'[q][d] = tip[q][d] /\ reflog'[q][d] = reflog[q][d]
  BY PointParts
<1>2. ASSUME NEW q \in RepoSet, NEW d \in Branches
      PROVE  /\ tip'[q][d] # None => UpTo(rank, d, tip'[q][d])
             /\ \A x \in reflog'[q][d] : UpTo(rank, d, x)
  <2>1. /\ tip[q][d] # None => UpTo(rank, d, tip[q][d])
        /\ \A x \in reflog[q][d] : UpTo(rank, d, x)
    BY DEF BranchesUpward, Has
  <2>2. CASE q # r \/ d # b
    BY <1>1, <2>1, <2>2
  <2>3. CASE q = r /\ d = b
    BY <1>1, <2>1, <2>3
  <2>4. QED
    BY <2>2, <2>3
<1>3. QED
  BY <1>2 DEF BranchesUpward, Has, UpTo

\* What is past a boundary, and what is not.
LEMMA PastBoundary ==
  \A b, up \in Commit : \E low, rest \in Commit :
    /\ rest = SubSeq(up, Len(Common(b, up)) + 1, Len(up))
    /\ up = low \o rest /\ Range(low) \subseteq Range(b)
<1> SUFFICES ASSUME NEW b \in Commit, NEW up \in Commit
             PROVE  \E low, rest \in Commit :
                      /\ rest = SubSeq(up, Len(Common(b, up)) + 1, Len(up))
                      /\ up = low \o rest /\ Range(low) \subseteq Range(b)
  OBVIOUS
<1>1. PICK n \in 0..Len(b) : n \in 0..Len(up) /\ Len(Common(b, up)) = n /\ \A i \in 1..n : b[i] = up[i]
  BY CommitCommon
<1>2. /\ SubSeq(up, 1, n) \in Commit /\ SubSeq(up, n + 1, Len(up)) \in Commit
      /\ up = SubSeq(up, 1, n) \o SubSeq(up, n + 1, Len(up))
      /\ Len(SubSeq(up, 1, n)) = n /\ \A i \in 1..n : SubSeq(up, 1, n)[i] = up[i]
  BY <1>1, CommitSplit
<1>3. PICK low \in Commit : low = SubSeq(up, 1, n)
  BY <1>2
<1>4. PICK rest \in Commit : rest = SubSeq(up, n + 1, Len(up))
  BY <1>2
<1>5. \A i \in 1..Len(low) : i \in 1..Len(b) /\ low[i] = b[i]
  <2>1. Len(low) = n /\ \A i \in 1..n : low[i] = up[i]
    BY <1>2, <1>3
  <2>2. Len(b) \in Nat /\ \A i \in 1..n : i \in 1..Len(b) /\ b[i] = up[i]
    BY <1>1 DEF Commit
  <2>3. QED
    BY <2>1, <2>2
<1>6. Range(low) \subseteq Range(b)
  BY <1>5, CommitRange
<1>7. QED
  BY <1>1, <1>2, <1>3, <1>4, <1>6

\* What a rebase replays of the env's own commits: all of them.
LEMMA ReplayedOwn ==
  ASSUME Typed, Present, TipsCarryOwn, NEW rank \in [Branches -> Nat],
         NEW j \in JobSet, Has(j.repo, j.env), Has(j.repo, j.pred),
         \A p \in Range(j.boundary) : rank[p.by] < rank[j.env]
  PROVE  /\ Only(Replayed(j), By(j.env)) = own[j.repo][j.env]
         /\ Range(Replayed(j)) \subseteq Range(Upper(j))
<1>1. /\ j.env \in Envs /\ j.repo \in RepoSet /\ j.boundary \in Commit
      /\ Upper(j) \in Commit /\ Replayed(j) \in Commit
  BY JobParts
<1>2. PICK low, rest \in Commit :
        /\ rest = SubSeq(Upper(j), Len(Common(j.boundary, Upper(j))) + 1, Len(Upper(j)))
        /\ Upper(j) = low \o rest /\ Range(low) \subseteq Range(j.boundary)
  BY <1>1, PastBoundary
<1>3. Replayed(j) = rest
  BY <1>2 DEF Replayed
<1>4. Only(low, By(j.env)) = <<>>
  BY <1>1, <1>2, NoneOfOwn
<1>5. Only(Upper(j), By(j.env)) = own[j.repo][j.env]
  BY <1>1 DEF TipsCarryOwn, Upper
<1>6. /\ Only(low \o rest, By(j.env)) = Only(low, By(j.env)) \o Only(rest, By(j.env))
      /\ Range(low \o rest) = Range(low) \union Range(rest)
  BY CommitConcat
<1>7. Only(rest, By(j.env)) \in Seq(Patch)
  BY CommitOnly DEF Commit
<1>8. Only(rest, By(j.env)) = own[j.repo][j.env]
  <2>1. <<>> \o Only(rest, By(j.env)) = Only(rest, By(j.env))
    BY <1>7
  <2>2. QED
    BY <1>2, <1>4, <1>5, <1>6, <2>1
<1>9. QED
  BY <1>2, <1>3, <1>6, <1>8

\* Where a rebase stopped, its env's commits are numbered on, so none of them is
\* both onto and to do.
LEMMA StopsApart ==
  ASSUME Typed, Numbered, StopsCarryOwn, NEW r \in RepoSet, NEW e \in Envs, rebasing[r][e] # None
  PROVE  Range(rebasing[r][e].todo) \cap Range(rebasing[r][e].onto) \cap By(e) = {}
<1> DEFINE a == Only(rebasing[r][e].onto, By(e))
           b == Only(rebasing[r][e].todo, By(e))
<1>1. rebasing[r][e].onto \in Commit /\ rebasing[r][e].todo \in Commit
  BY StopParts
<1>2. a \in Seq(Patch) /\ b \in Seq(Patch)
  <2>1. a \in Seq(Patch \cap By(e)) /\ b \in Seq(Patch \cap By(e))
    BY <1>1, OnlyType DEF Commit
  <2>2. QED
    BY <2>1
<1>3. Range(a) = Range(rebasing[r][e].onto) \cap By(e) /\ Range(b) = Range(rebasing[r][e].todo) \cap By(e)
  BY <1>1, OnlyRange DEF Commit
<1>4. a \o b = own[r][e]
  BY DEF StopsCarryOwn
<1> HIDE DEF a, b
<1>5. ASSUME NEW i \in 1..Len(a), NEW k \in 1..Len(b) PROVE a[i] # b[k]
  <2>1. /\ (a \o b)[i] = a[i] /\ (a \o b)[Len(a) + k] = b[k]
        /\ i \in 1..Len(a \o b) /\ Len(a) + k \in 1..Len(a \o b) /\ i # Len(a) + k
    BY <1>2
  <2>2. \A l \in 1..Len(a \o b) : (a \o b)[l].n = l
    BY <1>4 DEF Numbered
  <2>3. QED
    BY <2>1, <2>2
<1>6. Range(a) \cap Range(b) = {}
  BY <1>2, <1>5 DEF Range
<1>7. QED
  BY <1>3, <1>6

\* Nothing is lost when no branch moves and rebases and plans are only cut short.
LEMMA OwnStays ==
  ASSUME Typed, NEW rank \in [Branches -> Nat], OwnInv(rank),
         UNCHANGED <<tip, reflog, own>>,
         \A r \in RepoSet, e \in Envs : rebasing'[r][e] \in {rebasing[r][e], None},
         \A k \in 1..Len(jobs') : \E l \in 1..Len(jobs) : jobs'[k] = jobs[l]
  PROVE  OwnInv(rank)'
<1>0. \A r \in RepoSet, e \in Envs : rebasing'[r][e] # None =>
        rebasing[r][e] # None /\ rebasing'[r][e] = rebasing[r][e]
  OBVIOUS
<1>1. Numbered' /\ TipsCarryOwn' /\ BranchesUpward(rank)'
  <2>1. Numbered' /\ TipsCarryOwn'
    BY DEF OwnInv, Numbered, TipsCarryOwn, Has
  <2>2. BranchesUpward(rank)'
    BY DEF OwnInv, BranchesUpward, Has, UpTo
  <2>3. QED
    BY <2>1, <2>2
<1>2. StopsCarryOwn'
  <2> SUFFICES ASSUME NEW r \in RepoSet, NEW e \in Envs, rebasing'[r][e] # None
               PROVE  Only(rebasing'[r][e].onto, By(e)) \o Only(rebasing'[r][e].todo, By(e)) = own'[r][e]
    BY DEF StopsCarryOwn
  <2>1. rebasing[r][e] # None /\ rebasing'[r][e] = rebasing[r][e] /\ own' = own
    BY <1>0
  <2>2. Only(rebasing[r][e].onto, By(e)) \o Only(rebasing[r][e].todo, By(e)) = own[r][e]
    BY <2>1 DEF OwnInv, StopsCarryOwn
  <2>3. QED
    BY <2>1, <2>2
<1>3. StopsUpward(rank)'
  <2> SUFFICES ASSUME NEW r \in RepoSet, NEW e \in Envs, rebasing'[r][e] # None
               PROVE  UpTo(rank, e, rebasing'[r][e].onto) /\ UpTo(rank, e, rebasing'[r][e].todo)
    BY DEF StopsUpward
  <2>1. rebasing[r][e] # None /\ rebasing'[r][e] = rebasing[r][e]
    BY <1>0
  <2>2. UpTo(rank, e, rebasing[r][e].onto) /\ UpTo(rank, e, rebasing[r][e].todo)
    BY <2>1 DEF OwnInv, StopsUpward
  <2>3. QED
    BY <2>1, <2>2
<1>4. JobsUpward(rank)'
  BY DEF OwnInv, JobsUpward
<1>5. QED
  BY <1>1, <1>2, <1>3, <1>4 DEF OwnInv

\* The plan of a command goes up the stack, and freezes boundaries below.
LEMMA OwnStart ==
  ASSUME Typed, NEW rank \in [Branches -> Nat], InOrder(rank), OwnInv(rank),
         NEW c \in Commands, Start(c)
  PROVE  OwnInv(rank)'
<1>1. jobs' = Jobs(c) /\ ~Refused(c) /\ UNCHANGED <<tip, reflog, rebasing, own>>
  BY DEF Start, repos
<1>2. ~RepeatedElement(c)
  BY <1>1 DEF Refused
<1>3. ASSUME NEW k \in 1..Len(Jobs(c))
      PROVE  /\ rank[Jobs(c)[k].pred] < rank[Jobs(c)[k].env]
             /\ \A p \in Range(Jobs(c)[k].boundary) : rank[p.by] < rank[Jobs(c)[k].env]
  <2>1. PICK i \in Links(c) : \E r \in Participating(c, i) :
          Jobs(c)[k] = Job(c, i, r) /\ Boundary(c, i, r) # None
    BY <1>1, PlanParts
  <2>2. PICK r \in Participating(c, i) : Jobs(c)[k] = Job(c, i, r) /\ Boundary(c, i, r) # None
    BY <2>1
  <2>3. /\ Jobs(c)[k].pred = Predecessor(c, i) /\ Jobs(c)[k].env = Env(c, i)
        /\ Jobs(c)[k].boundary = Boundary(c, i, r)
    BY <2>2 DEF Job
  <2>4. /\ rank[Predecessor(c, i)] < rank[Env(c, i)]
        /\ c.cut # None => rank[c.cut] < rank[Env(c, Len(c.chain))]
    BY <1>2 DEF InOrder
  <2>5. r \in RepoSet /\ Env(c, i) \in Branches /\ Predecessor(c, i) \in Branches
    BY ParticipatingParts, CommandParts DEF Branches
  <2>6. Boundary(c, i, r) \in Commit
    BY <2>2, BoundaryParts
  <2>7. \A p \in Range(Boundary(c, i, r)) : p.by \in Branches
    BY <2>6, CommitRange
  <2>8. CASE ~AtCut(c, i)
    <3>1. Boundary(c, i, r) \in reflog[r][Predecessor(c, i)]
      BY <2>2, <2>8, BoundaryParts
    <3>2. UpTo(rank, Predecessor(c, i), Boundary(c, i, r))
      BY <2>5, <3>1 DEF OwnInv, BranchesUpward
    <3>3. \A p \in Range(Boundary(c, i, r)) : rank[p.by] < rank[Env(c, i)]
      BY <2>4, <2>5, <2>7, <3>2 DEF UpTo
    <3>4. QED
      BY <2>3, <2>4, <3>3
  <2>9. CASE AtCut(c, i)
    <3>1. /\ c.cut \in Branches /\ Has(r, c.cut) /\ Boundary(c, i, r) = tip[r][c.cut]
          /\ i = Len(c.chain) /\ c.cut # None
      BY <2>2, <2>9, BoundaryParts DEF AtCut
    <3>2. UpTo(rank, c.cut, Boundary(c, i, r))
      BY <2>5, <3>1 DEF OwnInv, BranchesUpward
    <3>3. \A p \in Range(Boundary(c, i, r)) : rank[p.by] < rank[Env(c, i)]
      BY <2>4, <2>5, <2>7, <3>1, <3>2 DEF UpTo
    <3>4. QED
      BY <2>3, <2>4, <3>3
  <2>10. QED
    BY <2>8, <2>9
<1>4. JobsUpward(rank)'
  BY <1>1, <1>3 DEF JobsUpward
<1>5. Numbered' /\ TipsCarryOwn' /\ BranchesUpward(rank)'
  BY <1>1 DEF OwnInv, Numbered, TipsCarryOwn, BranchesUpward, Has
<1>6. StopsCarryOwn' /\ StopsUpward(rank)'
  BY <1>1 DEF OwnInv, StopsCarryOwn, StopsUpward
<1>7. QED
  BY <1>4, <1>5, <1>6 DEF OwnInv

\* What a job rebases, and onto what.
LEMMA JobOwn ==
  ASSUME Typed, Present, NEW rank \in [Branches -> Nat], OwnInv(rank), jobs # <<>>
  PROVE  LET j == Head(jobs) IN
         /\ j.repo \in RepoSet /\ j.env \in Envs /\ j.env \in Branches
         /\ NewBase(j) \in Commit /\ Replayed(j) \in Commit
         /\ Range(NewBase(j)) \cap By(j.env) = {} /\ Only(NewBase(j), By(j.env)) = <<>>
         /\ Only(Replayed(j), By(j.env)) = own[j.repo][j.env]
         /\ UpTo(rank, j.env, NewBase(j)) /\ UpTo(rank, j.env, Replayed(j))
<1> SUFFICES ASSUME NEW j, j = Head(jobs)
             PROVE  /\ j.repo \in RepoSet /\ j.env \in Envs /\ j.env \in Branches
                    /\ NewBase(j) \in Commit /\ Replayed(j) \in Commit
                    /\ Range(NewBase(j)) \cap By(j.env) = {} /\ Only(NewBase(j), By(j.env)) = <<>>
                    /\ Only(Replayed(j), By(j.env)) = own[j.repo][j.env]
                    /\ UpTo(rank, j.env, NewBase(j)) /\ UpTo(rank, j.env, Replayed(j))
  OBVIOUS
<1>1. /\ j \in JobSet /\ j = jobs[1] /\ 1 \in 1..Len(jobs)
      /\ Has(j.repo, j.env) /\ Has(j.repo, j.pred)
  BY HeadParts
<1>2. /\ j.repo \in RepoSet /\ j.env \in Envs /\ j.env \in Branches /\ j.pred \in Branches
      /\ Upper(j) \in Commit /\ NewBase(j) \in Commit /\ Replayed(j) \in Commit
  BY <1>1, JobParts
<1>3. /\ rank[j.pred] < rank[j.env]
      /\ \A p \in Range(j.boundary) : rank[p.by] < rank[j.env]
  BY <1>1 DEF OwnInv, JobsUpward
<1>4. UpTo(rank, j.pred, NewBase(j)) /\ UpTo(rank, j.env, Upper(j))
  BY <1>1, <1>2 DEF OwnInv, BranchesUpward, NewBase, Upper
<1>5. \A p \in Range(NewBase(j)) : p.by \in Branches
  BY <1>2, CommitRange
<1>6. \A p \in Range(NewBase(j)) : rank[p.by] < rank[j.env]
  BY <1>2, <1>3, <1>4, <1>5 DEF UpTo
<1>7. Range(NewBase(j)) \cap By(j.env) = {} /\ Only(NewBase(j), By(j.env)) = <<>>
  BY <1>2, <1>6, NoneOfOwn
<1>8. /\ Only(Replayed(j), By(j.env)) = own[j.repo][j.env]
      /\ Range(Replayed(j)) \subseteq Range(Upper(j))
  BY <1>1, <1>3, ReplayedOwn DEF OwnInv
<1>9. UpTo(rank, j.env, NewBase(j))
  BY <1>2, <1>5, <1>6 DEF UpTo
<1>10. UpTo(rank, j.env, Replayed(j))
  BY <1>4, <1>8 DEF UpTo
<1>11. QED
  BY <1>2, <1>7, <1>8, <1>9, <1>10

\* The branch of a worktree moves to a commit that carries what is recorded.
LEMMA OwnMove ==
  ASSUME Typed, NEW rank \in [Branches -> Nat], OwnInv(rank),
         NEW r \in RepoSet, NEW e \in Envs, NEW c \in Commit,
         Point(r, e, c), UpTo(rank, e, c),
         Only(c, By(e)) = own'[r][e],
         own' \in [RepoSet -> [Branches -> Commit]],
         \A q \in RepoSet, d \in Envs : q # r \/ d # e => own'[q][d] = own[q][d],
         \A k \in 1..Len(own'[r][e]) : own'[r][e][k].by = e /\ own'[r][e][k].n = k,
         rebasing' = rebasing \/ rebasing' = [rebasing EXCEPT ![r][e] = None],
         rebasing'[r][e] # None => own'[r][e] = own[r][e],
         \A k \in 1..Len(jobs') : \E l \in 1..Len(jobs) : jobs'[k] = jobs[l]
  PROVE  OwnInv(rank)'
<1>1. e \in Branches
  BY DEF Branches
<1>2. BranchesUpward(rank)'
  BY <1>1, MoveUpward DEF OwnInv
<1>3. \A q \in RepoSet, d \in Branches : q # r \/ d # e => tip'[q][d] = tip[q][d]
  BY <1>1, PointParts
<1>4. tip'[r][e] = c
  BY <1>1, PointParts
<1>5. Numbered'
  <2> SUFFICES ASSUME NEW q \in RepoSet, NEW d \in Envs, NEW k \in 1..Len(own'[q][d])
               PROVE  own'[q][d][k].by = d /\ own'[q][d][k].n = k
    BY DEF Numbered
  <2>1. CASE q = r /\ d = e
    BY <2>1
  <2>2. CASE q # r \/ d # e
    BY <2>2 DEF OwnInv, Numbered
  <2>3. QED
    BY <2>1, <2>2
<1>6. TipsCarryOwn'
  <2> SUFFICES ASSUME NEW q \in RepoSet, NEW d \in Envs, tip'[q][d] # None
               PROVE  Only(tip'[q][d], By(d)) = own'[q][d]
    BY DEF TipsCarryOwn, Has
  <2>1. CASE q = r /\ d = e
    BY <1>4, <2>1
  <2>2. CASE q # r \/ d # e
    <3>1. tip'[q][d] = tip[q][d] /\ own'[q][d] = own[q][d]
      BY <1>3, <2>2 DEF Branches
    <3>2. QED
      BY <3>1 DEF OwnInv, TipsCarryOwn, Has
  <2>3. QED
    BY <2>1, <2>2
<1>7. ASSUME NEW q \in RepoSet, NEW d \in Envs, rebasing'[q][d] # None
      PROVE  rebasing'[q][d] = rebasing[q][d] /\ own'[q][d] = own[q][d]
  <2>1. rebasing \in [RepoSet -> [Envs -> Stop \union {None}]]
    BY DEF Typed
  <2>2. rebasing'[q][d] = rebasing[q][d]
    BY <1>7, <2>1
  <2>3. QED
    BY <1>7, <2>2
<1>8. StopsCarryOwn' /\ StopsUpward(rank)'
  <2>1. ASSUME NEW q \in RepoSet, NEW d \in Envs, rebasing'[q][d] # None
        PROVE  /\ Only(rebasing'[q][d].onto, By(d)) \o Only(rebasing'[q][d].todo, By(d)) = own'[q][d]
               /\ UpTo(rank, d, rebasing'[q][d].onto) /\ UpTo(rank, d, rebasing'[q][d].todo)
    <3>1. rebasing'[q][d] = rebasing[q][d] /\ own'[q][d] = own[q][d] /\ rebasing[q][d] # None
      BY <1>7, <2>1
    <3>2. /\ Only(rebasing[q][d].onto, By(d)) \o Only(rebasing[q][d].todo, By(d)) = own[q][d]
          /\ UpTo(rank, d, rebasing[q][d].onto) /\ UpTo(rank, d, rebasing[q][d].todo)
      BY <3>1 DEF OwnInv, StopsCarryOwn, StopsUpward
    <3>3. QED
      BY <3>1, <3>2
  <2>2. QED
    BY <2>1 DEF StopsCarryOwn, StopsUpward, UpTo
<1>9. JobsUpward(rank)'
  BY DEF OwnInv, JobsUpward
<1>10. QED
  BY <1>2, <1>5, <1>6, <1>8, <1>9 DEF OwnInv

\* A job that goes through carries the env's own commits onto the new base.
LEMMA OwnRebased ==
  ASSUME Typed, Present, NEW rank \in [Branches -> Nat], OwnInv(rank), jobs # <<>>,
         UNCHANGED own, Rebased(Head(jobs))
  PROVE  OwnInv(rank)'
<1> SUFFICES ASSUME NEW j, j = Head(jobs) PROVE OwnInv(rank)'
  OBVIOUS
<1>1. /\ j.repo \in RepoSet /\ j.env \in Envs /\ j.env \in Branches
      /\ NewBase(j) \in Commit /\ Replayed(j) \in Commit
      /\ Range(NewBase(j)) \cap By(j.env) = {} /\ Only(NewBase(j), By(j.env)) = <<>>
      /\ Only(Replayed(j), By(j.env)) = own[j.repo][j.env]
      /\ UpTo(rank, j.env, NewBase(j)) /\ UpTo(rank, j.env, Replayed(j))
  BY JobOwn
<1>2. PICK c \in Commit : c = Replay(NewBase(j), Replayed(j))
  BY <1>1, ReplayType
<1>3. /\ Point(j.repo, j.env, c) /\ jobs' = Tail(jobs) /\ UNCHANGED <<rebasing, own>>
  BY <1>2 DEF Rebased
<1>4. UpTo(rank, j.env, c)
  BY <1>1, <1>2, ReplayUpTo
<1>5. Only(c, By(j.env)) = own'[j.repo][j.env]
  <2>1. By(j.env) \subseteq Patch
    BY <1>1 DEF By, Patch
  <2>2. Only(c, By(j.env)) = Only(NewBase(j), By(j.env)) \o Only(Replayed(j), By(j.env))
    BY <1>1, <1>2, <2>1, ReplayOnly, SMTT(30)
  <2>3. own[j.repo][j.env] \in Seq(Patch)
    BY <1>1 DEF Typed, Commit
  <2>4. <<>> \o own[j.repo][j.env] = own[j.repo][j.env]
    BY <2>3
  <2>5. QED
    BY <1>1, <1>3, <2>2, <2>4
<1>6. \A k \in 1..Len(jobs') : \E l \in 1..Len(jobs) : jobs'[k] = jobs[l]
  BY <1>3, HeadParts
<1>7. /\ own' \in [RepoSet -> [Branches -> Commit]]
      /\ \A k \in 1..Len(own'[j.repo][j.env]) : own'[j.repo][j.env][k].by = j.env /\ own'[j.repo][j.env][k].n = k
  <2>1. /\ own \in [RepoSet -> [Branches -> Commit]]
        /\ \A k \in 1..Len(own[j.repo][j.env]) : own[j.repo][j.env][k].by = j.env /\ own[j.repo][j.env][k].n = k
    BY <1>1 DEF Typed, OwnInv, Numbered
  <2>2. own' = own
    BY <1>3
  <2>3. QED
    BY <2>1, <2>2
<1>8. QED
  BY <1>1, <1>3, <1>4, <1>5, <1>6, <1>7, OwnMove

\* A rebase that stops carries them between what is onto and what is to do.
LEMMA OwnStop ==
  ASSUME Typed, NEW rank \in [Branches -> Nat], OwnInv(rank),
         NEW r \in RepoSet, NEW e \in Envs, NEW onto \in Commit, NEW todo \in Commit,
         UNCHANGED <<tip, reflog, own>>,
         rebasing' = [rebasing EXCEPT ![r][e] = [onto |-> onto, todo |-> todo]],
         Only(onto, By(e)) \o Only(todo, By(e)) = own[r][e],
         UpTo(rank, e, onto), UpTo(rank, e, todo),
         jobs' \in {jobs, <<>>}
  PROVE  OwnInv(rank)'
<1>1. Numbered' /\ TipsCarryOwn' /\ BranchesUpward(rank)'
  BY DEF OwnInv, Numbered, TipsCarryOwn, BranchesUpward, Has
<1>2. ASSUME NEW q \in RepoSet, NEW d \in Envs, rebasing'[q][d] # None
      PROVE  /\ Only(rebasing'[q][d].onto, By(d)) \o Only(rebasing'[q][d].todo, By(d)) = own'[q][d]
             /\ UpTo(rank, d, rebasing'[q][d].onto) /\ UpTo(rank, d, rebasing'[q][d].todo)
  <2>1. rebasing \in [RepoSet -> [Envs -> Stop \union {None}]]
    BY DEF Typed
  <2>2. CASE q = r /\ d = e
    <3>1. rebasing'[q][d] = [onto |-> onto, todo |-> todo]
      BY <2>1, <2>2
    <3>2. rebasing'[q][d].onto = onto /\ rebasing'[q][d].todo = todo
      BY <3>1
    <3>3. QED
      BY <2>2, <3>2
  <2>3. CASE q # r \/ d # e
    <3>1. rebasing'[q][d] = rebasing[q][d]
      BY <2>1, <2>3
    <3>2. rebasing[q][d] # None
      BY <1>2, <3>1
    <3>3. /\ Only(rebasing[q][d].onto, By(d)) \o Only(rebasing[q][d].todo, By(d)) = own[q][d]
          /\ UpTo(rank, d, rebasing[q][d].onto) /\ UpTo(rank, d, rebasing[q][d].todo)
      BY <3>2 DEF OwnInv, StopsCarryOwn, StopsUpward
    <3>4. QED
      BY <3>1, <3>3
  <2>4. QED
    BY <2>2, <2>3
<1>3. StopsCarryOwn' /\ StopsUpward(rank)'
  BY <1>2 DEF StopsCarryOwn, StopsUpward, UpTo
<1>4. JobsUpward(rank)'
  <2>1. CASE jobs' = jobs
    BY <2>1 DEF OwnInv, JobsUpward
  <2>2. CASE jobs' = <<>>
    BY <2>2 DEF JobsUpward
  <2>3. QED
    BY <2>1, <2>2
<1>5. QED
  BY <1>1, <1>3, <1>4 DEF OwnInv

\* Parts of a commit go up no further than it.
LEMMA PartsUpTo ==
  ASSUME NEW rank, NEW b, NEW s \in Commit, NEW u \in Commit, UpTo(rank, b, s \o u)
  PROVE  UpTo(rank, b, s) /\ UpTo(rank, b, u)
BY CommitConcat DEF UpTo

\* A conflict loses none of them.
LEMMA OwnConflict ==
  ASSUME Typed, Present, NEW rank \in [Branches -> Nat], OwnInv(rank), jobs # <<>>,
         UNCHANGED own, Conflict(Head(jobs))
  PROVE  OwnInv(rank)'
<1> SUFFICES ASSUME NEW j, j = Head(jobs) PROVE OwnInv(rank)'
  OBVIOUS
<1>1. /\ j.repo \in RepoSet /\ j.env \in Envs /\ j.env \in Branches
      /\ NewBase(j) \in Commit /\ Replayed(j) \in Commit
      /\ Range(NewBase(j)) \cap By(j.env) = {} /\ Only(NewBase(j), By(j.env)) = <<>>
      /\ Only(Replayed(j), By(j.env)) = own[j.repo][j.env]
      /\ UpTo(rank, j.env, NewBase(j)) /\ UpTo(rank, j.env, Replayed(j))
  BY JobOwn
<1>2. PICK k \in 1..Len(Replayed(j)) : rebasing' = [rebasing EXCEPT ![j.repo][j.env] = StopAt(j, k)]
  BY DEF Conflict, StopAt
<1>3. UNCHANGED <<tip, reflog, own>> /\ jobs' = <<>>
  BY DEF Conflict
<1>5. /\ SubSeq(Replayed(j), 1, k - 1) \in Commit /\ SubSeq(Replayed(j), k, Len(Replayed(j))) \in Commit
      /\ Replayed(j) = SubSeq(Replayed(j), 1, k - 1) \o SubSeq(Replayed(j), k, Len(Replayed(j)))
  BY <1>1, CommitCut
<1>6. PICK a \in Commit : a = SubSeq(Replayed(j), 1, k - 1)
  BY <1>5
<1>7. PICK b \in Commit : b = SubSeq(Replayed(j), k, Len(Replayed(j)))
  BY <1>5
<1>8. Replayed(j) = a \o b
  BY <1>5, <1>6, <1>7
<1>9. UpTo(rank, j.env, a) /\ UpTo(rank, j.env, b)
  BY <1>1, <1>8, PartsUpTo
<1>10. PICK onto \in Commit : onto = Replay(NewBase(j), a)
  BY <1>1, ReplayType
<1>11. UpTo(rank, j.env, onto)
  BY <1>1, <1>9, <1>10, ReplayUpTo
<1>12. Only(onto, By(j.env)) = Only(a, By(j.env))
  <2>1. By(j.env) \subseteq Patch
    BY <1>1 DEF By, Patch
  <2>2. Range(a) \cap Range(NewBase(j)) \cap By(j.env) = {}
    BY <1>1
  <2>3. Only(onto, By(j.env)) = Only(NewBase(j), By(j.env)) \o Only(a, By(j.env))
    BY <1>1, <1>10, <2>1, <2>2, ReplayOnly, SMTT(30)
  <2>4. Only(a, By(j.env)) \in Seq(Patch)
    BY CommitOnly DEF Commit
  <2>5. <<>> \o Only(a, By(j.env)) = Only(a, By(j.env))
    BY <2>4
  <2>6. QED
    BY <1>1, <2>3, <2>5
<1>13. Only(onto, By(j.env)) \o Only(b, By(j.env)) = own[j.repo][j.env]
  <2>1. Only(a \o b, By(j.env)) = Only(a, By(j.env)) \o Only(b, By(j.env))
    BY CommitConcat
  <2>2. QED
    BY <1>1, <1>8, <1>12, <2>1
<1>14. StopAt(j, k) = [onto |-> onto, todo |-> b]
  BY <1>6, <1>7, <1>10 DEF StopAt
<1>15. QED
  BY <1>1, <1>2, <1>3, <1>9, <1>11, <1>13, <1>14, OwnStop

\* Finishing a rebase puts them back together.
LEMMA OwnContinueToEnd ==
  ASSUME Typed, NEW rank \in [Branches -> Nat], OwnInv(rank),
         NEW r \in RepoSet, NEW e \in Envs, ContinueToEnd(r, e)
  PROVE  OwnInv(rank)'
<1>1. PICK onto, todo \in Commit : onto = rebasing[r][e].onto /\ todo = rebasing[r][e].todo
  BY StopParts DEF ContinueToEnd
<1>2. rebasing[r][e] # None
  BY DEF ContinueToEnd
<1>3. PICK c \in Commit : c = Replay(onto, todo)
  BY ReplayType
<1>4. /\ Point(r, e, c) /\ rebasing' = [rebasing EXCEPT ![r][e] = None]
      /\ UNCHANGED <<jobs, own>>
  BY <1>1, <1>3 DEF ContinueToEnd
<1>5. UpTo(rank, e, c)
  <2>1. UpTo(rank, e, onto) /\ UpTo(rank, e, todo)
    BY <1>1, <1>2 DEF OwnInv, StopsUpward
  <2>2. QED
    BY <1>3, <2>1, ReplayUpTo
<1>6. Only(c, By(e)) = own'[r][e]
  <2>1. By(e) \subseteq Patch
    BY DEF By, Patch, Branches
  <2>2. Range(todo) \cap Range(onto) \cap By(e) = {}
    BY <1>1, <1>2, StopsApart DEF OwnInv
  <2>3. Only(c, By(e)) = Only(onto, By(e)) \o Only(todo, By(e))
    BY <1>3, <2>1, <2>2, ReplayOnly
  <2>4. Only(onto, By(e)) \o Only(todo, By(e)) = own[r][e]
    BY <1>1, <1>2 DEF OwnInv, StopsCarryOwn
  <2>5. QED
    BY <1>4, <2>3, <2>4
<1>7. own' \in [RepoSet -> [Branches -> Commit]]
  BY <1>4 DEF Typed
<1>8. \A k \in 1..Len(own'[r][e]) : own'[r][e][k].by = e /\ own'[r][e][k].n = k
  BY <1>4 DEF OwnInv, Numbered
<1>9. QED
  BY <1>4, <1>5, <1>6, <1>7, <1>8, OwnMove

\* A rebase that goes on and stops again has done one patch more.
LEMMA OwnContinueToNext ==
  ASSUME Typed, NEW rank \in [Branches -> Nat], OwnInv(rank),
         NEW r \in RepoSet, NEW e \in Envs, ContinueToNext(r, e)
  PROVE  OwnInv(rank)'
<1>1. PICK onto, todo \in Commit : onto = rebasing[r][e].onto /\ todo = rebasing[r][e].todo
  BY StopParts DEF ContinueToNext
<1>2. rebasing[r][e] # None /\ Len(todo) > 1
  BY <1>1 DEF ContinueToNext
<1>3. /\ <<Head(todo)>> \in Commit /\ Tail(todo) \in Commit
      /\ todo = <<Head(todo)>> \o Tail(todo)
  BY <1>2 DEF Commit
<1>4. PICK one \in Commit : one = <<Head(todo)>>
  BY <1>3
<1>5. PICK rest \in Commit : rest = Tail(todo)
  BY <1>3
<1>6. todo = one \o rest
  BY <1>3, <1>4, <1>5
<1>7. PICK c \in Commit : c = Replay(onto, one)
  BY ReplayType
<1>8. /\ rebasing' = [rebasing EXCEPT ![r][e] = [onto |-> c, todo |-> rest]]
      /\ UNCHANGED <<tip, reflog, own, jobs>>
  BY <1>1, <1>4, <1>5, <1>7 DEF ContinueToNext
<1>9. UpTo(rank, e, c) /\ UpTo(rank, e, rest)
  <2>1. UpTo(rank, e, onto) /\ UpTo(rank, e, todo)
    BY <1>1, <1>2 DEF OwnInv, StopsUpward
  <2>2. UpTo(rank, e, one) /\ UpTo(rank, e, rest)
    BY <1>6, <2>1, PartsUpTo
  <2>3. QED
    BY <1>7, <2>1, <2>2, ReplayUpTo
<1>10. Only(c, By(e)) \o Only(rest, By(e)) = own[r][e]
  <2>1. By(e) \subseteq Patch
    BY DEF By, Patch, Branches
  <2>2. Range(todo) \cap Range(onto) \cap By(e) = {}
    BY <1>1, <1>2, StopsApart DEF OwnInv
  <2>3. Range(todo) = Range(one) \union Range(rest) /\ Only(todo, By(e)) = Only(one, By(e)) \o Only(rest, By(e))
    BY <1>6, CommitConcat
  <2>4. Range(one) \cap Range(onto) \cap By(e) = {}
    BY <2>2, <2>3
  <2>5. Only(c, By(e)) = Only(onto, By(e)) \o Only(one, By(e))
    BY <1>7, <2>1, <2>4, ReplayOnly
  <2>6. Only(onto, By(e)) \o Only(todo, By(e)) = own[r][e]
    BY <1>1, <1>2 DEF OwnInv, StopsCarryOwn
  <2>7. \A x, y, z \in Seq(Patch) : (x \o y) \o z = x \o (y \o z)
    OBVIOUS
  <2>8. /\ Only(onto, By(e)) \in Seq(Patch) /\ Only(one, By(e)) \in Seq(Patch)
        /\ Only(rest, By(e)) \in Seq(Patch)
    BY CommitOnly DEF Commit
  <2>9. (Only(onto, By(e)) \o Only(one, By(e))) \o Only(rest, By(e))
          = Only(onto, By(e)) \o (Only(one, By(e)) \o Only(rest, By(e)))
    BY <2>7, <2>8
  <2>10. QED
    BY <2>3, <2>5, <2>6, <2>9
<1>11. QED
  BY <1>8, <1>9, <1>10, OwnStop

\* A commit of the user's comes after the others.
LEMMA OwnCommitEdit ==
  ASSUME Typed, NEW rank \in [Branches -> Nat], OwnInv(rank),
         NEW r \in RepoSet, NEW e \in Envs, CommitEdit(r, e)
  PROVE  OwnInv(rank)'
<1>0. e \in Branches
  BY DEF Branches
<1>1. PICK p \in Patch : p = CommittedPatch(r, e)
  BY UserPatches
<1>2. /\ Point(r, e, Append(tip[r][e], p)) /\ UNCHANGED <<rebasing, jobs>>
      /\ own' = [own EXCEPT ![r][e] = Append(@, p)]
      /\ Has(r, e) /\ rebasing[r][e] = None
  BY <1>1 DEF CommitEdit, UserMoves, AtHand, CommittedPatch
<1>3. PICK t \in Commit : t = tip[r][e]
  BY <1>0, <1>2 DEF Has, Typed
<1>4. PICK o \in Commit : o = own[r][e]
  BY <1>0 DEF Typed
<1>5. p \in By(e) /\ p.by = e /\ p.n = Len(o) + 1
  BY <1>1, <1>4 DEF CommittedPatch, By, Commit
<1>6. Append(t, p) \in Commit /\ Range(Append(t, p)) = Range(t) \union {p}
  BY AppendParts, RangeAppend DEF Commit
<1>7. UpTo(rank, e, Append(t, p))
  <2>1. UpTo(rank, e, t)
    BY <1>0, <1>2, <1>3 DEF OwnInv, BranchesUpward
  <2>2. rank[p.by] <= rank[e]
    BY <1>0, <1>5
  <2>3. QED
    BY <1>6, <2>1, <2>2 DEF UpTo
<1>8. own'[r][e] = Append(o, p) /\ \A q \in RepoSet, d \in Envs : q # r \/ d # e => own'[q][d] = own[q][d]
  BY <1>0, <1>2, <1>4 DEF Typed
<1>9. Only(Append(t, p), By(e)) = own'[r][e]
  <2>1. Only(t, By(e)) = o
    BY <1>2, <1>3, <1>4 DEF OwnInv, TipsCarryOwn
  <2>2. Only(Append(t, p), By(e)) = Append(Only(t, By(e)), p)
    BY <1>5, OnlyStep DEF Commit
  <2>3. QED
    BY <1>8, <2>1, <2>2
<1>10. /\ Append(o, p) \in Commit /\ Len(Append(o, p)) = Len(o) + 1 /\ Len(o) \in Nat
       /\ Append(o, p)[Len(o) + 1] = p
       /\ \A k \in 1..Len(o) : Append(o, p)[k] = o[k]
  BY AppendParts DEF Commit
<1>11. own' \in [RepoSet -> [Branches -> Commit]]
  BY <1>2, <1>4, <1>10 DEF Typed
<1>12. \A k \in 1..Len(own'[r][e]) : own'[r][e][k].by = e /\ own'[r][e][k].n = k
  <2>1. \A k \in 1..Len(o) : o[k].by = e /\ o[k].n = k
    BY <1>4 DEF OwnInv, Numbered
  <2>2. \A k \in 1..Len(o) + 1 : k \in 1..Len(o) \/ k = Len(o) + 1
    BY <1>10
  <2>3. QED
    BY <1>5, <1>8, <1>10, <2>1, <2>2
<1>13. rebasing'[r][e] = None /\ \A k \in 1..Len(jobs') : \E l \in 1..Len(jobs) : jobs'[k] = jobs[l]
  BY <1>2
<1>14. PICK c \in Commit : c = Append(t, p)
  BY <1>6
<1>15. Point(r, e, c) /\ UpTo(rank, e, c) /\ Only(c, By(e)) = own'[r][e]
  BY <1>2, <1>3, <1>7, <1>9, <1>14
<1>16. rebasing' = rebasing
  BY <1>2
<1>17. QED
  BY <1>8, <1>11, <1>12, <1>13, <1>15, <1>16, OwnMove

\* A commit amended takes the place of the last one.
LEMMA OwnAmend ==
  ASSUME Typed, NEW rank \in [Branches -> Nat], OwnInv(rank),
         NEW r \in RepoSet, NEW e \in Envs, Amend(r, e)
  PROVE  OwnInv(rank)'
<1>0. e \in Branches
  BY DEF Branches
<1>1. own[r][e] # <<>> /\ Has(r, e) /\ rebasing[r][e] = None /\ Last(tip[r][e]) = Last(own[r][e])
  BY DEF Amend, AtHand
<1>2. PICK p \in Patch : p = AmendedPatch(r, e) /\ p = [Last(own[r][e]) EXCEPT !.v = @ + 1]
  BY <1>1, UserPatches
<1>3. /\ Point(r, e, Append(Front(tip[r][e]), p)) /\ UNCHANGED <<rebasing, jobs>>
      /\ own' = [own EXCEPT ![r][e] = Append(Front(@), p)]
  BY <1>2 DEF Amend, UserMoves
<1>4. PICK t \in Commit : t = tip[r][e]
  BY <1>0, <1>1 DEF Has, Typed
<1>5. PICK o \in Commit : o = own[r][e]
  BY <1>0 DEF Typed
<1>6. Only(t, By(e)) = o
  BY <1>1, <1>4, <1>5 DEF OwnInv, TipsCarryOwn
<1>7. t # <<>> /\ o # <<>>
  BY <1>1, <1>5, <1>6, OnlyEmpty
<1>8. PICK ft \in Commit, last \in Patch : ft = Front(t) /\ last = Last(t) /\ t = Append(ft, last)
  BY <1>7, FrontLast
<1>9. PICK fo \in Commit : fo = Front(o) /\ o = Append(fo, last)
  <2>1. last = Last(o)
    BY <1>1, <1>4, <1>5, <1>8
  <2>2. QED
    BY <1>7, <2>1, FrontLast
<1>10. /\ Len(o) = Len(fo) + 1 /\ o[Len(o)] = last /\ Len(fo) \in Nat
       /\ \A k \in 1..Len(fo) : o[k] = fo[k]
  BY <1>9, SMTT(30) DEF Commit
<1>11. \A k \in 1..Len(o) : o[k].by = e /\ o[k].n = k
  BY <1>5 DEF OwnInv, Numbered
<1>12. last.by = e /\ last.n = Len(fo) + 1 /\ last \in By(e)
  BY <1>10, <1>11 DEF By, Patch
<1>13. p.by = e /\ p.n = Len(fo) + 1 /\ p \in By(e)
  <2>1. last = Last(own[r][e])
    BY <1>1, <1>4, <1>8
  <2>2. p.by = e /\ p.n = Len(fo) + 1
    BY <1>2, <1>12, <2>1 DEF AmendedPatch
  <2>3. QED
    BY <2>2 DEF By, Patch
<1>14. Only(ft, By(e)) = fo
  <2>1. Only(Append(ft, last), By(e)) = Append(Only(ft, By(e)), last)
    BY <1>12, OnlyStep DEF Commit
  <2>2. Append(Only(ft, By(e)), last) = Append(fo, last)
    BY <1>6, <1>8, <1>9, <2>1
  <2>3. Only(ft, By(e)) \in Seq(Patch) /\ fo \in Seq(Patch)
    BY CommitOnly DEF Commit
  <2>4. QED
    BY <2>2, <2>3
<1>15. Only(Append(ft, p), By(e)) = Append(fo, p)
  BY <1>13, <1>14, OnlyStep DEF Commit
<1>16. Append(ft, p) \in Commit /\ Range(Append(ft, p)) = Range(ft) \union {p} /\ Range(t) = Range(ft) \union {last}
  BY <1>8, AppendParts, RangeAppend DEF Commit
<1>17. UpTo(rank, e, Append(ft, p))
  <2>1. UpTo(rank, e, t)
    BY <1>0, <1>1, <1>4 DEF OwnInv, BranchesUpward
  <2>2. rank[p.by] <= rank[e]
    BY <1>0, <1>13
  <2>3. QED
    BY <1>16, <2>1, <2>2 DEF UpTo
<1>18. own'[r][e] = Append(fo, p) /\ \A q \in RepoSet, d \in Envs : q # r \/ d # e => own'[q][d] = own[q][d]
  BY <1>0, <1>3, <1>5, <1>9 DEF Typed
<1>19. /\ Append(fo, p) \in Commit /\ Len(Append(fo, p)) = Len(fo) + 1
       /\ Append(fo, p)[Len(fo) + 1] = p
       /\ \A k \in 1..Len(fo) : Append(fo, p)[k] = fo[k]
  BY AppendParts DEF Commit
<1>20. own' \in [RepoSet -> [Branches -> Commit]]
  BY <1>3, <1>5, <1>9, <1>19 DEF Typed
<1>21. \A k \in 1..Len(own'[r][e]) : own'[r][e][k].by = e /\ own'[r][e][k].n = k
  <2>1. \A k \in 1..Len(fo) : fo[k].by = e /\ fo[k].n = k
    BY <1>10, <1>11
  <2>2. \A k \in 1..Len(fo) + 1 : k \in 1..Len(fo) \/ k = Len(fo) + 1
    BY <1>10
  <2>3. QED
    BY <1>13, <1>18, <1>19, <2>1, <2>2
<1>22. rebasing'[r][e] = None /\ \A k \in 1..Len(jobs') : \E l \in 1..Len(jobs) : jobs'[k] = jobs[l]
  BY <1>1, <1>3
<1>23. PICK c \in Commit : c = Append(ft, p)
  BY <1>16
<1>24. Point(r, e, c) /\ UpTo(rank, e, c) /\ Only(c, By(e)) = own'[r][e]
  BY <1>3, <1>4, <1>8, <1>15, <1>17, <1>18, <1>23
<1>25. rebasing' = rebasing
  BY <1>3
<1>26. QED
  BY <1>18, <1>20, <1>21, <1>22, <1>24, <1>25, OwnMove

\* A commit that arrives on Main.
LEMMA OwnPull ==
  ASSUME Typed, Present, NEW rank \in [Branches -> Nat], OwnInv(rank), NEW r \in RepoSet, PullMain(r)
  PROVE  OwnInv(rank)'
<1>0. Main \in Branches /\ \A e \in Envs : e # Main /\ e \in Branches
  BY RestackAssumption DEF Branches
<1>1. PICK p \in Patch : p = [by |-> Main, n |-> pulls + 2, v |-> 0]
  <2>1. pulls + 2 \in Nat
    BY DEF Typed
  <2>2. [by |-> Main, n |-> pulls + 2, v |-> 0] \in Patch
    BY <1>0, <2>1 DEF Patch
  <2>3. QED
    BY <2>2
<1>2. Point(r, Main, Append(tip[r][Main], p)) /\ UNCHANGED <<rebasing, jobs, own>>
  BY <1>1 DEF PullMain
<1>3. PICK t \in Commit : t = tip[r][Main]
  BY <1>0 DEF Present, Has, Typed
<1>4. Append(t, p) \in Commit /\ Range(Append(t, p)) = Range(t) \union {p}
  BY AppendParts, RangeAppend DEF Commit
<1>5. UpTo(rank, Main, Append(t, p))
  <2>1. UpTo(rank, Main, t)
    BY <1>0, <1>3 DEF OwnInv, BranchesUpward, Present
  <2>2. rank[p.by] <= rank[Main]
    BY <1>0, <1>1
  <2>3. QED
    BY <1>4, <2>1, <2>2 DEF UpTo
<1>6. BranchesUpward(rank)'
  BY <1>0, <1>2, <1>3, <1>4, <1>5, MoveUpward DEF OwnInv
<1>7. \A q \in RepoSet, d \in Envs : tip'[q][d] = tip[q][d]
  BY <1>0, <1>2, <1>3, <1>4, PointParts
<1>8. Numbered' /\ StopsCarryOwn' /\ StopsUpward(rank)' /\ JobsUpward(rank)'
  BY <1>2 DEF OwnInv, Numbered, StopsCarryOwn, StopsUpward, JobsUpward
<1>9. TipsCarryOwn'
  <2>1. \A q \in RepoSet, d \in Envs : tip'[q][d] # None => Only(tip'[q][d], By(d)) = own'[q][d]
    BY <1>2, <1>7 DEF OwnInv, TipsCarryOwn, Has
  <2>2. QED
    BY <2>1 DEF TipsCarryOwn, Has
<1>10. QED
  BY <1>6, <1>8, <1>9 DEF OwnInv

\* Every step keeps the env's own commits where they are recorded.
LEMMA OwnNext ==
  ASSUME Typed, Present, NEW rank \in [Branches -> Nat], InOrder(rank), OwnInv(rank), [Next]_vars
  PROVE  OwnInv(rank)'
<1>1. ASSUME NEW c \in Commands, Start(c) PROVE OwnInv(rank)'
  BY <1>1, OwnStart
<1>2. ASSUME jobs # <<>>, UNCHANGED <<edits, pulls, own>>,
             Skip(Head(jobs)) \/ Rebased(Head(jobs)) \/ Conflict(Head(jobs)) \/ Fail
      PROVE  OwnInv(rank)'
  <2>1. CASE Skip(Head(jobs))
    <3>1. UNCHANGED <<tip, reflog, rebasing, own>> /\ jobs' = Tail(jobs)
      BY <1>2, <2>1 DEF Skip, repos
    <3>2. \A k \in 1..Len(jobs') : \E l \in 1..Len(jobs) : jobs'[k] = jobs[l]
      BY <1>2, <3>1, HeadParts
    <3>3. QED
      BY <3>1, <3>2, OwnStays
  <2>2. CASE Rebased(Head(jobs))
    BY <1>2, <2>2, OwnRebased
  <2>3. CASE Conflict(Head(jobs))
    BY <1>2, <2>3, OwnConflict
  <2>4. CASE Fail
    <3>1. UNCHANGED <<tip, reflog, rebasing, own>> /\ jobs' = <<>>
      BY <1>2, <2>4 DEF Fail, repos
    <3>2. QED
      BY <3>1, OwnStays
  <2>5. QED
    BY <1>2, <2>1, <2>2, <2>3, <2>4
<1>3. ASSUME NEW r \in RepoSet, NEW e \in Envs,
             Edit(r, e) \/ Switch(r, e) \/ CommitEdit(r, e) \/ Amend(r, e)
             \/ ContinueToEnd(r, e) \/ ContinueToNext(r, e) \/ Abort(r, e)
      PROVE  OwnInv(rank)'
  <2>1. CASE Edit(r, e) \/ Switch(r, e)
    <3>1. UNCHANGED <<tip, reflog, rebasing, own, jobs>>
      BY <2>1 DEF Edit, Switch, run
    <3>2. QED
      BY <3>1, OwnStays
  <2>2. CASE Abort(r, e)
    <3>1. /\ UNCHANGED <<tip, reflog, own, jobs>>
          /\ rebasing' = [rebasing EXCEPT ![r][e] = None]
      BY <2>2 DEF Abort, run
    <3>2. \A q \in RepoSet, d \in Envs : rebasing'[q][d] \in {rebasing[q][d], None}
      BY <3>1 DEF Typed
    <3>3. QED
      BY <3>1, <3>2, OwnStays
  <2>3. QED
    BY <1>3, <2>1, <2>2, OwnCommitEdit, OwnAmend, OwnContinueToEnd, OwnContinueToNext
<1>4. ASSUME NEW r \in RepoSet, PullMain(r) PROVE OwnInv(rank)'
  BY <1>4, OwnPull
<1>5. CASE UNCHANGED vars
  BY <1>5, OwnStays DEF vars, repos, run
<1>6. QED
  BY <1>1, <1>2, <1>3, <1>4, <1>5, NextCases

\* What is recorded is what OwnCommitsKept asks for.
LEMMA OwnKept ==
  ASSUME Typed, TipsCarryOwn
  PROVE  OwnCommitsKept
<1> SUFFICES ASSUME NEW r \in RepoSet, NEW e \in Envs, Has(r, e)
             PROVE  Only(tip[r][e], Range(own[r][e])) = own[r][e]
  BY DEF OwnCommitsKept
<1>1. PICK t \in Commit : t = tip[r][e]
  BY DEF Typed, Has, Branches
<1>2. Only(t, By(e)) = own[r][e]
  BY <1>1 DEF TipsCarryOwn
<1>3. Range(own[r][e]) = Range(t) \cap By(e)
  BY <1>2, CommitOnly
<1>4. \A i \in 1..Len(t) : t[i] \in Range(own[r][e]) <=> t[i] \in By(e)
  BY <1>3, CommitRange
<1>5. Only(t, Range(own[r][e])) = Only(t, By(e))
  <2>1. t \in Seq(Patch)
    BY DEF Commit
  <2>2. QED
    BY <1>4, <2>1, OnlySame
<1>6. QED
  BY <1>1, <1>2, <1>5

\* When the stack has an order that the commands follow, no user's commit is ever
\* lost, doubled, moved or brought back in an older version, whatever restacks,
\* conflicts, aborts, kills and edits come after one another.
THEOREM RestackOwnCommitsKept == ASSUME CommandsInOrder PROVE Spec => []OwnCommitsKept
<1> DEFINE IInv == /\ Typed /\ Present
                   /\ \E rank \in [Branches -> Nat] : InOrder(rank) /\ OwnInv(rank)
<1>1. Init => IInv
  BY TypedInit, OwnInit
<1>2. IInv /\ [Next]_vars => IInv'
  <2> SUFFICES ASSUME Typed, Present, [Next]_vars,
                      NEW rank \in [Branches -> Nat], InOrder(rank), OwnInv(rank)
               PROVE  IInv'
    OBVIOUS
  <2>1. Typed' /\ Present'
    BY TypedNext
  <2>2. OwnInv(rank)'
    BY OwnNext
  <2>3. QED
    BY <2>1, <2>2 DEF InOrder, RepeatedElement, Links, Predecessor, Env
<1>3. IInv => OwnCommitsKept
  BY OwnKept DEF OwnInv
<1>4. QED
  BY <1>1, <1>2, <1>3, PTL DEF Spec

\* An ancestor, patch by patch.
LEMMA AncestorParts ==
  \A c, d \in Commit :
    IsAncestor(c, d) <=> Len(c) <= Len(d) /\ \A i \in 1..Len(c) : c[i] = d[i]
<1> SUFFICES ASSUME NEW c \in Commit, NEW d \in Commit
             PROVE  IsAncestor(c, d) <=> Len(c) <= Len(d) /\ \A i \in 1..Len(c) : c[i] = d[i]
  OBVIOUS
<1>1. SubSeq(c, 1, Len(c)) = c /\ Len(c) \in 0..Len(c)
  BY DEF Commit
<1>2. ASSUME Len(c) <= Len(d)
      PROVE  c = SubSeq(d, 1, Len(c)) <=> \A i \in 1..Len(c) : c[i] = d[i]
  <2>1. PICK n \in 0..Len(d) : n = Len(c)
    BY <1>2 DEF Commit
  <2>2. PICK b \in Commit : b = SubSeq(d, 1, n) /\ Len(b) = n /\ \A i \in 1..n : b[i] = d[i]
    BY CommitSplit
  <2>3. (\A i \in 1..Len(c) : c[i] = b[i]) => c = b
    BY <2>1, <2>2, SameSequence DEF Commit
  <2>4. QED
    BY <2>1, <2>2, <2>3
<1>3. QED
  BY <1>1, <1>2 DEF IsAncestor, IsPrefix

\* "Is an ancestor of" is an order, and a commit's ancestors are in a line.
LEMMA AncestorOrder ==
  \A b, c, d \in Commit :
    /\ IsAncestor(c, c)
    /\ IsAncestor(b, c) /\ IsAncestor(c, d) => IsAncestor(b, d)
    /\ IsAncestor(b, d) /\ IsAncestor(c, d) => IsAncestor(b, c) \/ IsAncestor(c, b)
    /\ IsAncestor(b, c) /\ IsAncestor(c, b) => b = c
<1> SUFFICES ASSUME NEW b \in Commit, NEW c \in Commit, NEW d \in Commit
             PROVE  /\ IsAncestor(c, c)
                    /\ IsAncestor(b, c) /\ IsAncestor(c, d) => IsAncestor(b, d)
                    /\ IsAncestor(b, d) /\ IsAncestor(c, d) => IsAncestor(b, c) \/ IsAncestor(c, b)
                    /\ IsAncestor(b, c) /\ IsAncestor(c, b) => b = c
  OBVIOUS
<1>1. Len(b) \in Nat /\ Len(c) \in Nat /\ Len(d) \in Nat
  BY DEF Commit
<1>2. IsAncestor(c, c)
  BY <1>1, AncestorParts
<1>3. IsAncestor(b, c) /\ IsAncestor(c, d) => IsAncestor(b, d)
  BY <1>1, AncestorParts
<1>4. IsAncestor(b, d) /\ IsAncestor(c, d) => IsAncestor(b, c) \/ IsAncestor(c, b)
  BY <1>1, AncestorParts
<1>5. IsAncestor(b, c) /\ IsAncestor(c, b) => b = c
  BY <1>1, AncestorParts, SameSequence DEF Commit
<1>6. QED
  BY <1>2, <1>3, <1>4, <1>5

\* What two commits have in common is an ancestor of both, and the whole of one
\* that is the other's ancestor.
LEMMA CommonAncestor ==
  \A c, d \in Commit :
    /\ Common(c, d) \in Commit
    /\ IsAncestor(Common(c, d), c) /\ IsAncestor(Common(c, d), d)
    /\ IsAncestor(c, d) => Common(c, d) = c
<1> SUFFICES ASSUME NEW c \in Commit, NEW d \in Commit
             PROVE  /\ Common(c, d) \in Commit
                    /\ IsAncestor(Common(c, d), c) /\ IsAncestor(Common(c, d), d)
                    /\ IsAncestor(c, d) => Common(c, d) = c
  OBVIOUS
<1>1. PICK n \in 0..Len(c) :
        /\ n \in 0..Len(d) /\ Common(c, d) = SubSeq(c, 1, n) /\ Common(c, d) \in Commit
        /\ Len(Common(c, d)) = n
        /\ \A i \in 1..n : c[i] = d[i]
        /\ n < Len(c) => n = Len(d) \/ c[n + 1] # d[n + 1]
  BY CommitCommon
<1>2. \A i \in 1..n : SubSeq(c, 1, n)[i] = c[i]
  BY CommitSplit
<1>3. PICK m \in Commit : m = Common(c, d)
  BY <1>1
<1>4. Len(m) = n /\ (\A i \in 1..n : m[i] = c[i]) /\ Len(c) \in Nat /\ Len(d) \in Nat
  BY <1>1, <1>2, <1>3 DEF Commit
<1>5. IsAncestor(m, c) /\ IsAncestor(m, d)
  BY <1>1, <1>4, AncestorParts
<1>6. ASSUME IsAncestor(c, d) PROVE m = c
  <2>1. Len(c) <= Len(d) /\ \A i \in 1..Len(c) : c[i] = d[i]
    BY <1>6, AncestorParts
  <2>2. n = Len(c)
    BY <1>1, <1>4, <2>1
  <2>3. QED
    BY <1>4, <2>2, SameSequence DEF Commit
<1>7. QED
  BY <1>3, <1>5, <1>6

\* No patch is in s twice.
Injective(s) == \A i, k \in 1..Len(s) : s[i] = s[k] => i = k

\* The parts of a rebased branch.
LEMMA ReplayParts ==
  \A b, s \in Commit :
    /\ Replay(b, s) \in Commit
    /\ Len(b) \in Nat /\ Len(Replay(b, s)) \in Nat
    /\ IsAncestor(b, Replay(b, s))
    /\ \A i \in Len(b) + 1 .. Len(Replay(b, s)) : Replay(b, s)[i] \in Range(s) \ Range(b)
<1> SUFFICES ASSUME NEW b \in Commit, NEW s \in Commit
             PROVE  /\ Replay(b, s) \in Commit
                    /\ Len(b) \in Nat /\ Len(Replay(b, s)) \in Nat
                    /\ IsAncestor(b, Replay(b, s))
                    /\ \A i \in Len(b) + 1 .. Len(Replay(b, s)) : Replay(b, s)[i] \in Range(s) \ Range(b)
  OBVIOUS
<1>1. PICK k \in Commit : k = Only(s, Patch \ Range(b)) /\ Range(k) = Range(s) \cap (Patch \ Range(b))
  BY CommitOnly
<1>2. PICK x \in Commit : x = Replay(b, s)
  BY ReplayType
<1>3. x = b \o k
  BY <1>1, <1>2 DEF Replay
<1>4. Len(b) \in Nat /\ Len(x) = Len(b) + Len(k) /\ Len(k) \in Nat
      /\ (\A i \in 1..Len(b) : x[i] = b[i])
      /\ \A i \in Len(b) + 1 .. Len(x) : x[i] = k[i - Len(b)] /\ i - Len(b) \in 1..Len(k)
  BY <1>3 DEF Commit
<1>5. \A i \in 1..Len(k) : k[i] \in Range(s) \ Range(b)
  BY <1>1, CommitRange
<1>6. IsAncestor(b, x)
  BY <1>4, AncestorParts
<1>7. QED
  BY <1>2, <1>4, <1>5, <1>6

\* A rebase repeats no patch: git drops those that the new base has.
LEMMA ReplayInjective ==
  ASSUME NEW b \in Commit, NEW s \in Commit, Injective(b), Injective(s)
  PROVE  Injective(Replay(b, s))
<1>1. PICK k \in Commit : k = Only(s, Patch \ Range(b)) /\ Range(k) = Range(s) \cap (Patch \ Range(b))
  BY CommitOnly
<1>2. Injective(k)
  <2>1. \A i, l \in 1..Len(Only(s, Patch \ Range(b))) :
          Only(s, Patch \ Range(b))[i] = Only(s, Patch \ Range(b))[l] => i = l
    BY OnlyInjective DEF Injective, Commit
  <2>2. QED
    BY <1>1, <2>1 DEF Injective
<1>3. PICK x \in Commit : x = Replay(b, s)
  BY ReplayType
<1>4. x = b \o k
  BY <1>1, <1>3 DEF Replay
<1>5. Len(b) \in Nat /\ Len(x) = Len(b) + Len(k) /\ Len(k) \in Nat
      /\ (\A i \in 1..Len(b) : x[i] = b[i])
      /\ \A i \in Len(b) + 1 .. Len(x) : x[i] = k[i - Len(b)] /\ i - Len(b) \in 1..Len(k)
  BY <1>4 DEF Commit
<1>6. (\A i \in 1..Len(k) : k[i] \notin Range(b)) /\ \A i \in 1..Len(b) : b[i] \in Range(b)
  BY <1>1, CommitRange
<1>7. Injective(x)
  <2> SUFFICES ASSUME NEW i \in 1..Len(x), NEW l \in 1..Len(x), x[i] = x[l]
               PROVE  i = l
    BY DEF Injective
  <2>1. CASE i <= Len(b) /\ l <= Len(b)
    BY <1>5, <2>1 DEF Injective
  <2>2. CASE i <= Len(b) /\ l > Len(b)
    BY <1>5, <1>6, <2>2
  <2>3. CASE i > Len(b) /\ l <= Len(b)
    BY <1>5, <1>6, <2>3
  <2>4. CASE i > Len(b) /\ l > Len(b)
    <3>1. x[i] = k[i - Len(b)] /\ x[l] = k[l - Len(b)] /\ i - Len(b) \in 1..Len(k) /\ l - Len(b) \in 1..Len(k)
      BY <1>5, <2>4
    <3>2. i - Len(b) = l - Len(b)
      BY <1>2, <3>1 DEF Injective
    <3>3. QED
      BY <1>5, <3>2
  <2>5. QED
    BY <1>5, <2>1, <2>2, <2>3, <2>4
<1>8. QED
  BY <1>3, <1>7

\* A rebase that stops and goes on ends where it would have without stopping.
LEMMA ReplaySplit ==
  ASSUME NEW b \in Commit, NEW s \in Commit, NEW u \in Commit,
         Range(s) \cap Range(u) = {}
  PROVE  Replay(Replay(b, s), u) = Replay(b, s \o u)
<1> DEFINE W == Patch \ Range(b)
           V == Patch \ Range(Replay(b, s))
<1>1. PICK x \in Commit : x = Replay(b, s)
  BY ReplayType
<1>2. Range(x) = Range(b) \union Range(s)
  BY <1>1, ReplayRange
<1>3. \A i \in 1..Len(u) : u[i] \in V <=> u[i] \in W
  BY <1>1, <1>2, CommitRange
<1> HIDE DEF W, V
<1>4. Only(u, V) = Only(u, W)
  BY <1>3, OnlySame DEF Commit
<1>5. PICK k, l \in Commit : k = Only(s, W) /\ l = Only(u, W)
  BY CommitOnly
<1>6. Only(s \o u, W) = k \o l
  <2>1. Only(s \o u, W) = Only(s, W) \o Only(u, W)
    BY CommitConcat
  <2>2. QED
    BY <1>5, <2>1
<1>7. Replay(b, s \o u) = b \o (k \o l)
  BY <1>6 DEF Replay, W
<1>8. x = b \o k
  BY <1>1, <1>5 DEF Replay, W
<1>9. Replay(x, u) = x \o l
  BY <1>1, <1>4, <1>5 DEF Replay, V
<1>10. (b \o k) \o l = b \o (k \o l)
  BY DEF Commit
<1>11. QED
  BY <1>1, <1>7, <1>8, <1>9, <1>10

\* The members of sequences put one after the other: all of them are there, and
\* in their order.
Placed(ss, f) ==
  /\ \A a \in 1..Len(ss) : \A b \in 1..Len(ss[a]) : \E k \in 1..Len(f) : f[k] = ss[a][b]
  /\ \A k \in 1..Len(f) : \E a \in 1..Len(ss) : \E b \in 1..Len(ss[a]) : f[k] = ss[a][b]
  /\ \A k, l \in 1..Len(f) : k < l =>
       \E a, m \in 1..Len(ss) : \E b \in 1..Len(ss[a]), n \in 1..Len(ss[m]) :
         f[k] = ss[a][b] /\ f[l] = ss[m][n] /\ (a < m \/ (a = m /\ b < n))

\* Two sequences in a row are one.
LEMMA ConcatType == \A T : \A s, u \in Seq(T) : s \o u \in Seq(T)
OBVIOUS

\* One more sequence keeps the places of the others.
LEMMA PlacedAppend ==
  ASSUME NEW T, NEW ss \in Seq(Seq(T)), NEW x \in Seq(T), NEW f \in Seq(T), Placed(ss, f)
  PROVE  Placed(Append(ss, x), f \o x)
<1>1. PICK tt \in Seq(Seq(T)) : tt = Append(ss, x)
  BY AppendParts
<1>2. Len(tt) = Len(ss) + 1 /\ Len(ss) \in Nat /\ tt[Len(ss) + 1] = x
      /\ \A a \in 1..Len(ss) : tt[a] = ss[a] /\ a \in 1..Len(tt)
  BY <1>1, AppendParts
<1>3. PICK g \in Seq(T) : g = f \o x
  BY ConcatType
<1>4. Len(g) = Len(f) + Len(x) /\ Len(f) \in Nat /\ Len(x) \in Nat
      /\ (\A k \in 1..Len(f) : g[k] = f[k] /\ k \in 1..Len(g))
      /\ \A b \in 1..Len(x) : g[Len(f) + b] = x[b] /\ Len(f) + b \in 1..Len(g)
  BY <1>3
<1>5. \A k \in 1..Len(g) : k > Len(f) => k - Len(f) \in 1..Len(x) /\ g[k] = x[k - Len(f)]
  <2> SUFFICES ASSUME NEW k \in 1..Len(g), k > Len(f)
               PROVE  k - Len(f) \in 1..Len(x) /\ g[k] = x[k - Len(f)]
    OBVIOUS
  <2>1. k - Len(f) \in 1..Len(x) /\ Len(f) + (k - Len(f)) = k
    BY <1>4
  <2>2. QED
    BY <1>4, <2>1
<1>6. ASSUME NEW a \in 1..Len(tt), NEW b \in 1..Len(tt[a])
      PROVE  \E k \in 1..Len(g) : g[k] = tt[a][b]
  <2>1. CASE a \in 1..Len(ss)
    <3>1. b \in 1..Len(ss[a]) /\ tt[a][b] = ss[a][b]
      BY <1>2, <2>1
    <3>2. PICK k \in 1..Len(f) : f[k] = ss[a][b]
      BY <2>1, <3>1 DEF Placed
    <3>3. QED
      BY <1>4, <3>1, <3>2
  <2>2. CASE a = Len(ss) + 1
    BY <1>2, <1>4, <2>2
  <2>3. QED
    BY <1>2, <2>1, <2>2
<1>7. ASSUME NEW k \in 1..Len(g)
      PROVE  \E a \in 1..Len(tt) : \E b \in 1..Len(tt[a]) : g[k] = tt[a][b]
  <2>1. CASE k \in 1..Len(f)
    <3>1. PICK a \in 1..Len(ss) : \E b \in 1..Len(ss[a]) : f[k] = ss[a][b]
      BY <2>1 DEF Placed
    <3>2. PICK b \in 1..Len(ss[a]) : f[k] = ss[a][b]
      BY <3>1
    <3>3. QED
      BY <1>2, <1>4, <2>1, <3>2, SMTT(30)
  <2>2. CASE k > Len(f)
    <3>1. Len(ss) + 1 \in 1..Len(tt) /\ k - Len(f) \in 1..Len(tt[Len(ss) + 1])
      BY <1>2, <1>5, <2>2
    <3>2. g[k] = tt[Len(ss) + 1][k - Len(f)]
      BY <1>2, <1>5, <2>2
    <3>3. QED
      BY <3>1, <3>2
  <2>3. QED
    BY <1>4, <2>1, <2>2
<1>8. ASSUME NEW k \in 1..Len(g), NEW l \in 1..Len(g), k < l
      PROVE  \E a, m \in 1..Len(tt) : \E b \in 1..Len(tt[a]), n \in 1..Len(tt[m]) :
               g[k] = tt[a][b] /\ g[l] = tt[m][n] /\ (a < m \/ (a = m /\ b < n))
  <2>1. CASE l \in 1..Len(f)
    <3>1. k \in 1..Len(f) /\ g[k] = f[k] /\ g[l] = f[l]
      BY <1>4, <1>8, <2>1
    <3>2. PICK a, m \in 1..Len(ss) : \E b \in 1..Len(ss[a]), n \in 1..Len(ss[m]) :
               f[k] = ss[a][b] /\ f[l] = ss[m][n] /\ (a < m \/ (a = m /\ b < n))
      BY <1>8, <2>1, <3>1, ZenonT(40) DEF Placed
    <3>3. PICK b \in 1..Len(ss[a]), n \in 1..Len(ss[m]) :
               f[k] = ss[a][b] /\ f[l] = ss[m][n] /\ (a < m \/ (a = m /\ b < n))
      BY <3>2
    <3>4. tt[a] = ss[a] /\ tt[m] = ss[m] /\ a \in 1..Len(tt) /\ m \in 1..Len(tt)
      BY <1>2
    <3>5. b \in 1..Len(tt[a]) /\ n \in 1..Len(tt[m]) /\ g[k] = tt[a][b] /\ g[l] = tt[m][n]
      BY <3>1, <3>3, <3>4
    <3>6. QED
      BY <3>3, <3>4, <3>5
  <2>2. CASE l > Len(f) /\ k \in 1..Len(f)
    <3>1. PICK a \in 1..Len(ss) : \E b \in 1..Len(ss[a]) : f[k] = ss[a][b]
      BY <2>2 DEF Placed
    <3>2. PICK b \in 1..Len(ss[a]) : f[k] = ss[a][b]
      BY <3>1
    <3> DEFINE m == Len(ss) + 1
               n == l - Len(f)
    <3>3. a \in 1..Len(tt) /\ tt[a] = ss[a] /\ m \in 1..Len(tt) /\ tt[m] = x /\ a < m
      BY <1>2, SMTT(30)
    <3>4. n \in 1..Len(x) /\ g[l] = x[n] /\ g[k] = f[k]
      BY <1>4, <1>5, <2>2
    <3> HIDE DEF m, n
    <3>5. b \in 1..Len(tt[a]) /\ n \in 1..Len(tt[m]) /\ g[k] = tt[a][b] /\ g[l] = tt[m][n]
      BY <3>2, <3>3, <3>4
    <3>6. QED
      BY <3>3, <3>5
  <2>3. CASE l > Len(f) /\ k > Len(f)
    <3> DEFINE m == Len(ss) + 1
               b == k - Len(f)
               n == l - Len(f)
    <3>3. m \in 1..Len(tt) /\ tt[m] = x
      BY <1>2
    <3>4. b \in 1..Len(x) /\ g[k] = x[b] /\ n \in 1..Len(x) /\ g[l] = x[n] /\ b < n
      BY <1>4, <1>5, <1>8, <2>3
    <3> HIDE DEF m, n, b
    <3>5. b \in 1..Len(tt[m]) /\ n \in 1..Len(tt[m]) /\ g[k] = tt[m][b] /\ g[l] = tt[m][n]
      BY <3>3, <3>4
    <3>6. QED
      BY <3>3, <3>4, <3>5
  <2>4. QED
    BY <1>4, <1>8, <2>1, <2>2, <2>3
<1>9. Placed(tt, g)
  BY <1>6, <1>7, <1>8 DEF Placed
<1>10. QED
  BY <1>1, <1>3, <1>9

\* FlattenSeq puts every sequence somewhere, in their order.
LEMMA FlattenPlaced ==
  ASSUME NEW T, NEW ss \in Seq(Seq(T))
  PROVE  Placed(ss, FlattenSeq(ss))
<1> DEFINE P == { tt \in Seq(Seq(T)) : Placed(tt, FlattenSeq(tt)) }
<1>1. <<>> \in P
  <2>1. Placed(<<>>, <<>>)
    BY DEF Placed
  <2>2. QED
    BY <2>1, FlattenEmpty
<1>2. ASSUME NEW tt \in Seq(Seq(T)), NEW x \in Seq(T), tt \in P PROVE Append(tt, x) \in P
  <2>1. PICK f \in Seq(T) : f = FlattenSeq(tt)
    BY FlattenType
  <2>2. Placed(tt, f)
    BY <1>2, <2>1
  <2>3. FlattenSeq(Append(tt, x)) = f \o x
    BY <2>1, FlattenAppend
  <2>4. Placed(Append(tt, x), f \o x)
    BY <2>2, PlacedAppend
  <2>5. Append(tt, x) \in Seq(Seq(T))
    OBVIOUS
  <2>6. QED
    BY <2>3, <2>4, <2>5
<1> HIDE DEF P
<1>3. Seq(Seq(T)) \subseteq P
  BY <1>1, <1>2, SeqInduction
<1>4. QED
  BY <1>3 DEF P

\* A sequence with a repetition has fewer members than places.
LEMMA RepeatedMember ==
  ASSUME NEW T, NEW s \in Seq(T), NEW i \in 1..Len(s), NEW k \in 1..Len(s), i # k, s[i] = s[k]
  PROVE  Cardinality(Range(s)) < Len(s)
<1> DEFINE S == (1..Len(s)) \ {k}
           f == [l \in S |-> s[l]]
<1>1. Len(s) \in Nat /\ Len(s) > 0
  OBVIOUS
<1>2. IsFiniteSet(1..Len(s)) /\ Cardinality(1..Len(s)) = Len(s)
  <2>1. 1 \in Int /\ Len(s) \in Int
    BY <1>1
  <2>2. IsFiniteSet(1..Len(s)) /\ Cardinality(1..Len(s)) = IF 1 > Len(s) THEN 0 ELSE Len(s) - 1 + 1
    BY <2>1, FS_Interval
  <2>3. QED
    BY <1>1, <2>2
<1>3. IsFiniteSet(S) /\ Cardinality(S) = Len(s) - 1
  BY <1>2, FS_RemoveElement
<1>4. Range(s) = { s[l] : l \in 1..Len(s) }
  BY DEF Range
<1>5. f \in Surjection(S, Range(s))
  <2>1. f \in [S -> Range(s)]
    BY <1>4
  <2>2. \A t \in Range(s) : \E l \in S : f[l] = t
    BY <1>4
  <2>3. QED
    BY <2>1, <2>2 DEF Surjection
<1> HIDE DEF S, f
<1>6. Cardinality(Range(s)) <= Cardinality(S) /\ IsFiniteSet(Range(s))
  BY <1>3, <1>5, FS_Surjection
<1>7. Cardinality(Range(s)) \in Nat
  BY <1>6, FS_CardinalityType
<1>8. QED
  BY <1>1, <1>3, <1>6, <1>7

\* A command that is not refused names every env once.
Apart(c) ==
  /\ \A i, k \in Links(c) : Env(c, i) = Env(c, k) => i = k
  /\ \A i \in Links(c) : Env(c, i) # c.base /\ Env(c, i) # c.cut /\ c.cut # c.base

\* What the planner's first refusal leaves: every element of the chain named once.
LEMMA NamedOnce ==
  ASSUME NEW c \in Commands, ~RepeatedElement(c)
  PROVE  Apart(c)
<1>1. c.chain \in Seq(Envs) /\ c.base \in Branches /\ Links(c) = 1..Len(c.chain)
  BY RestackAssumption, CommandParts
<1>2. PICK s \in Seq(Branches) : s = Append(c.chain, c.base)
  <2>1. c.chain \in Seq(Branches)
    BY <1>1 DEF Branches
  <2>2. QED
    BY <1>1, <2>1, AppendParts
<1>3. Len(s) = Len(c.chain) + 1 /\ s[Len(s)] = c.base /\ Len(c.chain) \in Nat
      /\ \A i \in 1..Len(c.chain) : s[i] = c.chain[i] /\ i \in 1..Len(s)
  BY <1>1, <1>2
<1>4. ~(Cardinality(Range(s)) < Len(s)) /\ c.cut \notin Range(s)
  BY <1>2, <1>3 DEF RepeatedElement
<1>5. \A i, k \in 1..Len(s) : s[i] = s[k] => i = k
  BY <1>4, RepeatedMember
<1>6. \A i \in 1..Len(s) : s[i] # c.cut
  BY <1>4 DEF Range
<1>7. \A i, k \in Links(c) : Env(c, i) = Env(c, k) => i = k
  BY <1>1, <1>3, <1>5 DEF Env
<1>8. \A i \in Links(c) : Env(c, i) # c.base
  <2> SUFFICES ASSUME NEW i \in 1..Len(c.chain) PROVE c.chain[i] # c.base
    BY <1>1 DEF Env
  <2>1. Len(s) \in 1..Len(s) /\ i # Len(s)
    BY <1>3
  <2>2. QED
    BY <1>3, <1>5, <2>1
<1>9. \A i \in Links(c) : Env(c, i) # c.cut
  BY <1>1, <1>3, <1>6 DEF Env
<1>10. c.cut # c.base
  <2>1. Len(s) \in 1..Len(s)
    BY <1>3
  <2>2. QED
    BY <1>3, <1>6, <2>1
<1>11. QED
  BY <1>7, <1>8, <1>9, <1>10 DEF Apart

\* A job of link i.
OfLink(c, i, j) ==
  j.env = Env(c, i) /\ j.pred = Predecessor(c, i) /\ j.cut = AtCut(c, i)

\* A list of jobs of the links of c: base-ward links first, each repository of a
\* link once.
Baseward(c, q) ==
  /\ \A k \in 1..Len(q) : \E i \in Links(c) : OfLink(c, i, q[k])
  /\ \A k, l \in 1..Len(q) : k < l =>
       \A i, m \in Links(c) : OfLink(c, i, q[k]) /\ OfLink(c, m, q[l]) =>
         m <= i /\ (m = i => q[k].repo # q[l].repo)

\* The rebase of env e in repository r is among the jobs.
Waits(q, r, e) == \E k \in 1..Len(q) : q[k].repo = r /\ q[k].env = e

\* The jobs of a link: one of each repository that takes part.
LEMMA LinkJobsParts ==
  ASSUME NEW c \in Commands, NEW i \in Links(c)
  PROVE  /\ LinkJobs(c, i) \in Seq(Planned(c))
         /\ \A b \in 1..Len(LinkJobs(c, i)) : \E r \in Participating(c, i) : LinkJobs(c, i)[b] = Job(c, i, r)
         /\ \A b, d \in 1..Len(LinkJobs(c, i)) :
              LinkJobs(c, i)[b].repo = LinkJobs(c, i)[d].repo => b = d
         /\ \A r \in Participating(c, i) :
              \E b \in 1..Len(LinkJobs(c, i)) : LinkJobs(c, i)[b] = Job(c, i, r)
<1> DEFINE P == Participating(c, i)
<1>1. Repos \in Seq(RepoSet) /\ \A a, d \in 1..Len(Repos) : Repos[a] = Repos[d] => a = d
  BY RestackAssumption DEF RepoSet
<1> HIDE DEF P
<1>2. PICK in \in Seq(RepoSet \cap P) : in = Only(Repos, P)
  BY <1>1, OnlyType
<1>3. Range(in) = Range(Repos) \cap P
  BY <1>1, <1>2, OnlyRange
<1>4. \A a, d \in 1..Len(in) : in[a] = in[d] => a = d
  <2>1. \A a, d \in 1..Len(Only(Repos, P)) : Only(Repos, P)[a] = Only(Repos, P)[d] => a = d
    BY <1>1, OnlyInjective
  <2>2. QED
    BY <1>2, <2>1
<1>5. Len(in) \in Nat /\ \A b \in 1..Len(in) : in[b] \in P
  BY <1>2
<1>6. \A b \in 1..Len(in) : Job(c, i, in[b]) \in Planned(c)
  BY <1>5 DEF Planned, P
<1>7. PICK js \in Seq(Planned(c)) : js = [b \in 1..Len(in) |-> Job(c, i, in[b])]
  <2>1. [b \in 1..Len(in) |-> Job(c, i, in[b])] \in Seq(Planned(c))
    BY <1>5, <1>6
  <2>2. QED
    BY <2>1
<1>8. Len(js) = Len(in) /\ \A b \in 1..Len(in) : js[b] = Job(c, i, in[b])
  BY <1>5, <1>7
<1>9. js = LinkJobs(c, i)
  BY <1>2, <1>7 DEF LinkJobs, P
<1>10. \A b \in 1..Len(js) : \E r \in P : js[b] = Job(c, i, r)
  BY <1>5, <1>8
<1>11. \A b, d \in 1..Len(js) : js[b].repo = js[d].repo => b = d
  <2>1. \A r : Job(c, i, r).repo = r
    BY DEF Job
  <2>2. \A b \in 1..Len(in) : js[b].repo = in[b]
    BY <1>8, <2>1
  <2>3. QED
    BY <1>4, <1>8, <2>2
<1>12. \A r \in P : \E b \in 1..Len(js) : js[b] = Job(c, i, r)
  <2> SUFFICES ASSUME NEW r \in P PROVE \E b \in 1..Len(js) : js[b] = Job(c, i, r)
    OBVIOUS
  <2>1. r \in Range(Repos)
    BY DEF P, Participating, RepoSet
  <2>2. PICK b \in 1..Len(in) : in[b] = r
    BY <1>3, <2>1 DEF Range
  <2>3. QED
    BY <1>8, <2>2
<1>13. QED
  BY <1>9, <1>10, <1>11, <1>12 DEF P

\* The plan of a command is in that order, and leaves no repository out.
LEMMA PlanOrder ==
  ASSUME NEW c \in Commands, Apart(c)
  PROVE  /\ Baseward(c, Jobs(c))
         /\ \A i \in Links(c) : \A r \in Participating(c, i) : Waits(Jobs(c), r, Env(c, i))
<1> DEFINE n == Len(c.chain)
           parts == [a \in 1..n |-> LinkJobs(c, n + 1 - a)]
<1>1. n \in Nat \ {0} /\ Links(c) = 1..n
  BY CommandParts
<1>2. Jobs(c) = FlattenSeq(parts)
  BY DEF Jobs
<1> HIDE DEF n
<1>3. \A a \in 1..n : n + 1 - a \in Links(c)
  BY <1>1
<1>4. \A a \in 1..n : LinkJobs(c, n + 1 - a) \in Seq(Planned(c))
  BY <1>3, LinkJobsParts
<1>5. parts \in Seq(Seq(Planned(c))) /\ Len(parts) = n
  BY <1>1, <1>4
<1>6. PICK ss \in Seq(Seq(Planned(c))) : ss = parts
  BY <1>5
<1>7. Len(ss) = n /\ \A a \in 1..n : ss[a] = LinkJobs(c, n + 1 - a)
  BY <1>5, <1>6
<1>8. PICK q : q = Jobs(c)
  OBVIOUS
<1>9. Placed(ss, q)
  BY <1>2, <1>6, <1>8, FlattenPlaced
<1> HIDE DEF parts
<1>10. ASSUME NEW a \in 1..n, NEW b \in 1..Len(ss[a])
       PROVE  n + 1 - a \in Links(c) /\ OfLink(c, n + 1 - a, ss[a][b])
  <2>1. PICK i \in Links(c) : i = n + 1 - a
    BY <1>3
  <2>2. PICK r \in Participating(c, i) : ss[a][b] = Job(c, i, r)
    <3>1. ss[a] = LinkJobs(c, i)
      BY <1>7, <2>1
    <3>2. \A d \in 1..Len(LinkJobs(c, i)) : \E r \in Participating(c, i) : LinkJobs(c, i)[d] = Job(c, i, r)
      BY LinkJobsParts
    <3>3. QED
      BY <3>1, <3>2
  <2>3. OfLink(c, i, ss[a][b])
    BY <2>2 DEF OfLink, Job
  <2>4. QED
    BY <2>1, <2>3
<1>11. \A j : \A i, m \in Links(c) : OfLink(c, i, j) /\ OfLink(c, m, j) => i = m
  BY DEF OfLink, Apart
<1>12. ASSUME NEW k \in 1..Len(q) PROVE \E i \in Links(c) : OfLink(c, i, q[k])
  <2>1. PICK a \in 1..n : \E b \in 1..Len(ss[a]) : q[k] = ss[a][b]
    BY <1>7, <1>9 DEF Placed
  <2>2. QED
    BY <1>10, <2>1
<1>13. ASSUME NEW k \in 1..Len(q), NEW l \in 1..Len(q), k < l,
              NEW i \in Links(c), NEW m \in Links(c), OfLink(c, i, q[k]), OfLink(c, m, q[l])
       PROVE  m <= i /\ (m = i => q[k].repo # q[l].repo)
  <2>1. PICK a, d \in 1..n : \E b \in 1..Len(ss[a]), e \in 1..Len(ss[d]) :
          q[k] = ss[a][b] /\ q[l] = ss[d][e] /\ (a < d \/ (a = d /\ b < e))
    <3>1. \A x, y \in 1..Len(q) : x < y =>
            \E a, d \in 1..Len(ss) : \E b \in 1..Len(ss[a]), e \in 1..Len(ss[d]) :
              q[x] = ss[a][b] /\ q[y] = ss[d][e] /\ (a < d \/ (a = d /\ b < e))
      BY <1>9 DEF Placed
    <3>2. \E a, d \in 1..Len(ss) : \E b \in 1..Len(ss[a]), e \in 1..Len(ss[d]) :
              q[k] = ss[a][b] /\ q[l] = ss[d][e] /\ (a < d \/ (a = d /\ b < e))
      BY <1>13, <3>1
    <3>3. QED
      BY <1>7, <3>2
  <2>2. PICK b \in 1..Len(ss[a]), e \in 1..Len(ss[d]) :
          q[k] = ss[a][b] /\ q[l] = ss[d][e] /\ (a < d \/ (a = d /\ b < e))
    BY <2>1
  <2>3. i = n + 1 - a /\ m = n + 1 - d
    BY <1>10, <1>11, <1>13, <2>2
  <2>4. m <= i
    BY <1>1, <2>2, <2>3
  <2>5. ASSUME m = i, q[k].repo = q[l].repo PROVE FALSE
    <3>1. a = d /\ b < e
      BY <1>1, <2>2, <2>3, <2>5
    <3>2. b \in 1..Len(LinkJobs(c, i)) /\ e \in 1..Len(LinkJobs(c, i))
          /\ q[k] = LinkJobs(c, i)[b] /\ q[l] = LinkJobs(c, i)[e]
      BY <1>7, <2>2, <2>3, <3>1
    <3>3. b = e
      BY <2>5, <3>2, LinkJobsParts
    <3>4. QED
      BY <3>1, <3>2, <3>3
  <2>6. QED
    BY <2>4, <2>5
<1>14. ASSUME NEW i \in Links(c), NEW r \in Participating(c, i)
       PROVE  Waits(q, r, Env(c, i))
  <2>1. PICK b \in 1..Len(LinkJobs(c, i)) : LinkJobs(c, i)[b] = Job(c, i, r)
    BY LinkJobsParts
  <2>2. PICK a \in 1..n : n + 1 - a = i
    <3>1. n + 1 - i \in 1..n /\ n + 1 - (n + 1 - i) = i
      BY <1>1
    <3>2. QED
      BY <3>1
  <2>3. ss[a] = LinkJobs(c, i) /\ a \in 1..Len(ss)
    BY <1>7, <2>2
  <2>4. PICK k \in 1..Len(q) : q[k] = ss[a][b]
    BY <1>9, <2>1, <2>3 DEF Placed
  <2>5. q[k] = Job(c, i, r)
    BY <2>1, <2>3, <2>4
  <2>6. QED
    BY <2>5 DEF Waits, Job
<1>15. Baseward(c, q)
  BY <1>12, <1>13 DEF Baseward
<1>16. QED
  BY <1>8, <1>14, <1>15

\* git's fork point is an ancestor of the branch, and the latest that its
\* predecessor pointed to.
LEMMA ForkPointParts ==
  ASSUME Typed, NEW r \in RepoSet, NEW pred \in Branches, NEW env \in Branches,
         Has(r, env), ForkPoint(r, pred, env) # None
  PROVE  /\ ForkPoint(r, pred, env) \in Commit
         /\ IsAncestor(ForkPoint(r, pred, env), tip[r][env])
         /\ \A x \in reflog[r][pred] : IsAncestor(x, tip[r][env]) => IsAncestor(x, ForkPoint(r, pred, env))
<1> DEFINE up == tip[r][env]
           log == reflog[r][pred]
           shared == { Common(c, up) : c \in log }
<1>1. up \in Commit /\ log \in SUBSET Commit
  BY DEF Typed, Has
<1>2. PICK best : best = CHOOSE c \in shared : \A d \in shared : Len(d) <= Len(c)
  OBVIOUS
<1>3. ForkPoint(r, pred, env) = best /\ best \in log
  BY <1>2 DEF ForkPoint
<1> HIDE DEF up, log
<1>4. \A c \in log : Common(c, up) \in Commit /\ IsAncestor(Common(c, up), up)
  BY <1>1, CommonAncestor
<1>5. \A c \in shared : c \in Commit /\ IsAncestor(c, up) /\ Len(c) \in Nat /\ Len(c) <= Len(up)
  BY <1>1, <1>4, AncestorParts DEF Commit
<1>6. \E c \in shared : \A d \in shared : Len(d) <= Len(c)
  <2> DEFINE D == { Len(up) - Len(c) : c \in shared }
  <2>1. Len(up) \in Nat /\ shared # {}
    BY <1>1, <1>3 DEF Commit
  <2>2. \A c \in shared : Len(up) - Len(c) \in Nat
    BY <1>5, <2>1
  <2>3. D \in SUBSET Nat /\ D # {}
    BY <2>1, <2>2
  <2>4. PICK x \in D : \A y \in D : x <= y
    BY <2>3, LeastNat
  <2>5. PICK c \in shared : x = Len(up) - Len(c)
    OBVIOUS
  <2> HIDE DEF shared
  <2>6. \A d \in shared : Len(up) - Len(d) \in D
    OBVIOUS
  <2> HIDE DEF D
  <2>7. \A d \in shared : Len(up) - Len(c) <= Len(up) - Len(d)
    BY <2>4, <2>5, <2>6
  <2>8. \A d \in shared : Len(d) <= Len(c)
    BY <1>5, <2>1, <2>7
  <2>9. QED
    BY <2>5, <2>8
<1>7. best \in shared /\ \A d \in shared : Len(d) <= Len(best)
  BY <1>2, <1>6
<1>8. ASSUME NEW x \in log, IsAncestor(x, up) PROVE IsAncestor(x, best)
  <2>1. x \in Commit /\ Common(x, up) = x
    BY <1>1, <1>8, CommonAncestor
  <2>2. x \in shared
    BY <2>1
  <2> HIDE DEF shared
  <2>3. Len(x) <= Len(best) /\ best \in Commit /\ IsAncestor(best, up)
    BY <1>5, <1>7, <2>2
  <2>4. Len(x) \in Nat /\ Len(best) \in Nat
    BY <2>1, <2>3 DEF Commit
  <2>5. QED
    BY <1>1, <1>8, <2>1, <2>3, <2>4, AncestorParts
<1> HIDE DEF shared
<1>9. QED
  BY <1>3, <1>5, <1>7, <1>8 DEF up, log

-----------------------------------------------------------------------------
(***************************************************************************)
(* No patch is repeated.                                                   *)
(***************************************************************************)

\* No patch is on a branch twice, or in one of the two lists of a rebase that git
\* stopped in; a patch that will be pulled is nowhere yet.
Unrepeated ==
  /\ \A r \in RepoSet, b \in Branches : Has(r, b) => Injective(tip[r][b])
  /\ \A r \in RepoSet, e \in Envs : rebasing[r][e] # None =>
       Injective(rebasing[r][e].onto) /\ Injective(rebasing[r][e].todo)
  /\ \A r \in RepoSet : \A p \in Range(tip[r][Main]) : p.n <= pulls + 1

\* The two parts of a commit without repetitions have none, and nothing in common.
LEMMA InjectiveParts ==
  \A s \in Commit : Injective(s) => \A n \in 0..Len(s) :
    /\ Injective(SubSeq(s, 1, n)) /\ Injective(SubSeq(s, n + 1, Len(s)))
    /\ Range(SubSeq(s, 1, n)) \cap Range(SubSeq(s, n + 1, Len(s))) = {}
<1> SUFFICES ASSUME NEW s \in Commit, Injective(s), NEW n \in 0..Len(s)
             PROVE  /\ Injective(SubSeq(s, 1, n)) /\ Injective(SubSeq(s, n + 1, Len(s)))
                    /\ Range(SubSeq(s, 1, n)) \cap Range(SubSeq(s, n + 1, Len(s))) = {}
  OBVIOUS
<1>1. PICK a, b \in Commit :
        /\ a = SubSeq(s, 1, n) /\ b = SubSeq(s, n + 1, Len(s))
        /\ Len(a) = n /\ Len(b) = Len(s) - n
        /\ \A i \in 1..n : a[i] = s[i]
        /\ \A i \in 1..Len(s) - n : b[i] = s[n + i]
  BY CommitSplit
<1>2. Len(s) \in Nat
  BY DEF Commit
<1>3. Injective(a)
  BY <1>1, <1>2 DEF Injective
<1>4. Injective(b)
  <2> SUFFICES ASSUME NEW i \in 1..Len(b), NEW k \in 1..Len(b), b[i] = b[k]
               PROVE  i = k
    BY DEF Injective
  <2>1. n + i \in 1..Len(s) /\ n + k \in 1..Len(s) /\ s[n + i] = s[n + k]
    BY <1>1, <1>2
  <2>2. n + i = n + k
    BY <2>1 DEF Injective
  <2>3. QED
    BY <1>1, <1>2, <2>2
<1>5. ASSUME NEW p \in Range(a), p \in Range(b) PROVE FALSE
  <2>1. PICK i \in 1..Len(a) : p = a[i]
    BY CommitRange
  <2>2. PICK k \in 1..Len(b) : p = b[k]
    BY <1>5, CommitRange
  <2>3. i \in 1..Len(s) /\ n + k \in 1..Len(s) /\ s[i] = s[n + k] /\ i < n + k
    BY <1>1, <1>2, <2>1, <2>2
  <2>4. QED
    BY <1>2, <2>3 DEF Injective
<1>6. QED
  BY <1>1, <1>3, <1>4, <1>5

\* A new patch repeats none.
LEMMA InjectiveAppend ==
  \A s \in Commit, p \in Patch : Injective(s) /\ p \notin Range(s) =>
    Append(s, p) \in Commit /\ Injective(Append(s, p)) /\ Range(Append(s, p)) = Range(s) \union {p}
<1> SUFFICES ASSUME NEW s \in Commit, NEW p \in Patch, Injective(s), p \notin Range(s)
             PROVE  Append(s, p) \in Commit /\ Injective(Append(s, p))
                    /\ Range(Append(s, p)) = Range(s) \union {p}
  OBVIOUS
<1>1. PICK x \in Commit : x = Append(s, p) /\ Len(x) = Len(s) + 1 /\ x[Len(s) + 1] = p
                          /\ \A i \in 1..Len(s) : x[i] = s[i]
  <2>1. s \in Seq(Patch)
    BY DEF Commit
  <2>2. /\ Append(s, p) \in Seq(Patch) /\ Len(Append(s, p)) = Len(s) + 1
        /\ Append(s, p)[Len(s) + 1] = p
        /\ \A i \in 1..Len(s) : Append(s, p)[i] = s[i]
    BY <2>1, AppendParts
  <2>3. QED
    BY <2>2 DEF Commit
<1>2. Len(s) \in Nat /\ \A i \in 1..Len(s) : s[i] # p
  BY CommitRange DEF Commit
<1>3. Injective(x)
  BY <1>1, <1>2 DEF Injective
<1>4. QED
  BY <1>1, <1>3, RangeAppend DEF Commit

\* A branch moves.
LEMMA UnrepeatedMove ==
  ASSUME Typed, Present, Unrepeated, NEW r \in RepoSet, NEW b \in Branches, NEW c \in Commit,
         Point(r, b, c), Injective(c), pulls' \in Nat, pulls <= pulls',
         b = Main => \A p \in Range(c) : p.n <= pulls' + 1,
         \A q \in RepoSet, e \in Envs : rebasing'[q][e] \in {rebasing[q][e], None}
  PROVE  Unrepeated'
<1>1. ASSUME NEW q \in RepoSet, NEW d \in Branches, tip'[q][d] # None
      PROVE  Injective(tip'[q][d])
  <2>1. CASE q = r /\ d = b
    BY <2>1, PointParts
  <2>2. CASE q # r \/ d # b
    BY <1>1, <2>2, PointParts DEF Unrepeated, Has
  <2>3. QED
    BY <2>1, <2>2
<1>2. ASSUME NEW q \in RepoSet, NEW e \in Envs, rebasing'[q][e] # None
      PROVE  Injective(rebasing'[q][e].onto) /\ Injective(rebasing'[q][e].todo)
  <2>1. rebasing'[q][e] = rebasing[q][e] /\ rebasing[q][e] # None
    BY <1>2
  <2>2. QED
    BY <2>1 DEF Unrepeated
<1>3. ASSUME NEW q \in RepoSet, NEW p \in Range(tip'[q][Main])
      PROVE  p.n <= pulls' + 1
  <2>1. CASE q = r /\ Main = b
    BY <2>1, PointParts
  <2>2. CASE q # r \/ Main # b
    <3>1. tip'[q][Main] = tip[q][Main] /\ Main \in Branches
      BY <2>2, PointParts DEF Branches
    <3>2. p.n <= pulls + 1
      BY <3>1 DEF Unrepeated
    <3>3. p \in Patch
      <4>1. tip[q][Main] \in Commit
        BY <3>1 DEF Typed, Present, Has
      <4>2. QED
        BY <3>1, <4>1, CommitRange
    <3>4. p.n \in Nat
      BY <3>3 DEF Patch
    <3>5. QED
      BY <3>2, <3>4 DEF Typed
  <2>3. QED
    BY <2>1, <2>2
<1>4. QED
  BY <1>1, <1>2, <1>3 DEF Unrepeated, Has

\* What a rebase replays is a part of the branch, without repetitions.
LEMMA ReplayedParts ==
  ASSUME Typed, Present, Unrepeated, NEW j \in JobSet, Has(j.repo, j.env), Has(j.repo, j.pred)
  PROVE  /\ Replayed(j) \in Commit /\ Injective(Replayed(j))
         /\ Injective(Upper(j)) /\ Injective(NewBase(j))
         /\ NewBase(j) \in Commit /\ Upper(j) \in Commit
         /\ Replay(NewBase(j), Replayed(j)) \in Commit
         /\ Injective(Replay(NewBase(j), Replayed(j)))
         /\ \E low \in Commit : low = Common(j.boundary, Upper(j)) /\ IsAncestor(low, Upper(j))
              /\ Replayed(j) = SubSeq(Upper(j), Len(low) + 1, Len(Upper(j)))
              /\ Len(low) \in 0..Len(Upper(j))
<1>1. /\ j.repo \in RepoSet /\ j.env \in Branches /\ j.pred \in Branches /\ j.boundary \in Commit
      /\ Upper(j) \in Commit /\ NewBase(j) \in Commit /\ Replayed(j) \in Commit
  BY JobParts
<1>2. Injective(Upper(j)) /\ Injective(NewBase(j))
  BY <1>1 DEF Unrepeated, Upper, NewBase
<1>3. PICK low \in Commit : low = Common(j.boundary, Upper(j)) /\ IsAncestor(low, Upper(j))
  BY <1>1, CommonAncestor
<1>4. Len(low) \in 0..Len(Upper(j))
  BY <1>1, <1>3, AncestorParts DEF Commit
<1>5. Replayed(j) = SubSeq(Upper(j), Len(low) + 1, Len(Upper(j)))
  BY <1>3 DEF Replayed
<1>6. Injective(Replayed(j))
  BY <1>1, <1>2, <1>4, <1>5, InjectiveParts
<1>7. Replay(NewBase(j), Replayed(j)) \in Commit /\ Injective(Replay(NewBase(j), Replayed(j)))
  BY <1>1, <1>2, <1>6, ReplayInjective, ReplayType
<1>8. QED
  BY <1>1, <1>2, <1>3, <1>4, <1>5, <1>6, <1>7

\* Where a rebase stops, and that going on from there ends where it was to end.
LEMMA StopAtParts ==
  ASSUME Typed, Present, Unrepeated, NEW j \in JobSet, Has(j.repo, j.env), Has(j.repo, j.pred),
         NEW k \in 1..Len(Replayed(j))
  PROVE  /\ StopAt(j, k).onto \in Commit /\ StopAt(j, k).todo \in Commit
         /\ Injective(StopAt(j, k).onto) /\ Injective(StopAt(j, k).todo)
         /\ Replay(StopAt(j, k).onto, StopAt(j, k).todo) = Replay(NewBase(j), Replayed(j))
<1>1. PICK p, b \in Commit : p = Replayed(j) /\ b = NewBase(j) /\ Injective(p) /\ Injective(b)
  BY ReplayedParts
<1>2. PICK n \in 0..Len(p) : n = k - 1 /\ n + 1 = k
  <2>1. k \in 1..Len(p) /\ Len(p) \in Nat
    BY <1>1 DEF Commit
  <2>2. QED
    BY <2>1
<1>3. PICK s, u \in Commit : s = SubSeq(p, 1, n) /\ u = SubSeq(p, n + 1, Len(p)) /\ p = s \o u
  <2>1. /\ SubSeq(p, 1, n) \in Commit /\ SubSeq(p, n + 1, Len(p)) \in Commit
        /\ p = SubSeq(p, 1, n) \o SubSeq(p, n + 1, Len(p))
    BY CommitSplit
  <2>2. QED
    BY <2>1
<1>4. Injective(s) /\ Injective(u) /\ Range(s) \cap Range(u) = {}
  BY <1>1, <1>3, InjectiveParts
<1>5. StopAt(j, k).onto = Replay(b, s) /\ StopAt(j, k).todo = u
  BY <1>1, <1>2, <1>3 DEF StopAt
<1>6. Replay(b, s) \in Commit /\ Injective(Replay(b, s))
  BY <1>1, <1>4, ReplayInjective, ReplayType
<1>7. Replay(Replay(b, s), u) = Replay(b, s \o u)
  BY <1>4, ReplaySplit
<1>8. QED
  BY <1>1, <1>3, <1>4, <1>5, <1>6, <1>7

\* At the start no branch repeats a patch.
LEMMA UnrepeatedInit == Init => Unrepeated
<1> SUFFICES ASSUME Init PROVE Unrepeated
  OBVIOUS
<1>1. PICK under \in Bottoms : under \in Envs /\ InitialTips(under)
  BY InitialParts
<1>2. \A b \in Branches : First(b) \in Patch /\ First(b).by = b /\ First(b).n = 1
  BY DEF First, Patch
<1>3. Main \in Branches /\ under \in Branches /\ Envs \subseteq Branches /\ Main \notin Envs
  BY <1>1, RestackAssumption DEF Branches
<1>4. Root \in Commit /\ Range(Root) = {First(Main)} /\ Injective(Root)
  <2>1. Root \in Commit /\ Len(Root) = 1
    BY <1>1, FirstCommits
  <2>2. QED
    BY <1>1, <2>1, FirstRanges DEF Injective
<1>5. /\ Below(under) \in Commit /\ Injective(Below(under))
      /\ Range(Below(under)) = {First(Main), First(under)}
  <2>1. First(under) \notin Range(Root)
    BY <1>1, <1>2, <1>3, <1>4
  <2>2. QED
    BY <1>1, <1>2, <1>3, <1>4, <2>1, InjectiveAppend, FirstRanges DEF Below
<1>6. \A e \in Envs \ {under} : Injective(Append(Below(under), First(e)))
  <2> SUFFICES ASSUME NEW e \in Envs \ {under} PROVE Injective(Append(Below(under), First(e)))
    OBVIOUS
  <2>1. First(e) \in Patch /\ First(e) \notin Range(Below(under))
    BY <1>1, <1>2, <1>3, <1>5
  <2>2. QED
    BY <1>5, <2>1, InjectiveAppend
<1>7. ASSUME NEW r \in RepoSet, NEW b \in Branches, Has(r, b)
      PROVE  Injective(tip[r][b])
  <2>1. CASE b \in {Main, under}
    BY <1>1, <1>4, <1>5, <1>7, <2>1 DEF InitialTips, Has
  <2>2. CASE b \in Envs \ {under}
    <3>1. tip[r][b] \in {Root, Below(under), Append(Below(under), First(b))}
      BY <1>1, <1>7, <2>2 DEF InitialTips, Has
    <3>2. Injective(Append(Below(under), First(b)))
      BY <1>6, <2>2
    <3>3. QED
      BY <1>4, <1>5, <3>1, <3>2
  <2>3. QED
    BY <2>1, <2>2 DEF Branches
<1>8. \A r \in RepoSet, e \in Envs : rebasing[r][e] = None
  BY DEF Init
<1>9. \A r \in RepoSet : \A p \in Range(tip[r][Main]) : p.n <= pulls + 1
  <2>1. pulls = 0
    BY DEF Init
  <2>2. \A r \in RepoSet : tip[r][Main] = Root
    BY <1>1 DEF InitialTips
  <2>3. \A p \in Range(Root) : p.n = 1
    BY <1>2, <1>3, <1>4
  <2>4. QED
    BY <2>1, <2>2, <2>3
<1>10. QED
  BY <1>7, <1>8, <1>9 DEF Unrepeated

\* The env's own patches on its branch are those its user made.
LEMMA OwnPatches ==
  ASSUME Typed, NEW rank, OwnInv(rank), NEW r \in RepoSet, NEW e \in Envs, Has(r, e),
         NEW p \in Range(tip[r][e]), p.by = e
  PROVE  \E k \in 1..Len(own[r][e]) : p = own[r][e][k] /\ p.n = k
<1>0. e \in Branches
  BY DEF Branches
<1>1. PICK t, o \in Commit : t = tip[r][e] /\ o = own[r][e]
  BY <1>0 DEF Typed, Has
<1>2. Only(t, By(e)) = o
  BY <1>1 DEF OwnInv, TipsCarryOwn
<1>3. p \in Patch
  BY <1>1, CommitRange
<1>4. p \in By(e)
  BY <1>3 DEF Patch, By
<1>5. p \in Range(o)
  BY <1>1, <1>2, <1>4, CommitOnly
<1>6. PICK k \in 1..Len(o) : p = o[k]
  BY <1>5, CommitRange
<1>7. o[k].n = k
  BY <1>1, <1>6 DEF OwnInv, Numbered
<1>8. QED
  BY <1>1, <1>6, <1>7

\* A commit's number is past those of the env's own, so it is new to the branch.
LEMMA UnrepeatedCommitEdit ==
  ASSUME Typed, Present, Unrepeated, NEW rank, OwnInv(rank),
         NEW r \in RepoSet, NEW e \in Envs, CommitEdit(r, e)
  PROVE  Unrepeated'
<1>0. e \in Branches /\ e # Main
  BY RestackAssumption DEF Branches
<1>1. PICK p \in Patch : p = CommittedPatch(r, e)
  BY UserPatches
<1>2. /\ Point(r, e, Append(tip[r][e], p)) /\ UNCHANGED <<rebasing, pulls>>
      /\ Has(r, e)
  BY <1>1 DEF CommitEdit, UserMoves, AtHand, CommittedPatch
<1>3. PICK t \in Commit : t = tip[r][e] /\ Injective(t)
  BY <1>0, <1>2 DEF Has, Typed, Unrepeated
<1>4. p \notin Range(t)
  <2>1. own[r][e] \in Commit /\ Len(own[r][e]) \in Nat
    BY UserPatches DEF Commit
  <2>2. p.by = e /\ p.n = Len(own[r][e]) + 1
    BY <1>1 DEF CommittedPatch
  <2>3. QED
    BY <1>2, <1>3, <2>1, <2>2, OwnPatches
<1>5. PICK c \in Commit : c = Append(t, p) /\ Injective(c)
  BY <1>3, <1>4, InjectiveAppend
<1>6. Point(r, e, c) /\ pulls' \in Nat /\ pulls <= pulls'
  BY <1>2, <1>3, <1>5 DEF Typed
<1>7. \A q \in RepoSet, d \in Envs : rebasing'[q][d] \in {rebasing[q][d], None}
  BY <1>2
<1>8. QED
  BY <1>0, <1>5, <1>6, <1>7, UnrepeatedMove

\* An amended commit is new: its env's branch has only the last version of each.
LEMMA UnrepeatedAmend ==
  ASSUME Typed, Present, Unrepeated, NEW rank, OwnInv(rank),
         NEW r \in RepoSet, NEW e \in Envs, Amend(r, e)
  PROVE  Unrepeated'
<1>0. e \in Branches /\ e # Main
  BY RestackAssumption DEF Branches
<1>1. own[r][e] # <<>> /\ Has(r, e) /\ Last(tip[r][e]) = Last(own[r][e])
  BY DEF Amend, AtHand
<1>2. PICK p \in Patch : p = AmendedPatch(r, e) /\ p = [Last(own[r][e]) EXCEPT !.v = @ + 1]
  BY <1>1, UserPatches
<1>3. Point(r, e, Append(Front(tip[r][e]), p)) /\ UNCHANGED <<rebasing, pulls>>
  BY <1>2 DEF Amend, UserMoves
<1>4. PICK t \in Commit : t = tip[r][e] /\ Injective(t)
  BY <1>0, <1>1 DEF Has, Typed, Unrepeated
<1>5. PICK o \in Commit : o = own[r][e]
  BY <1>0 DEF Typed
<1>6. t # <<>>
  BY <1>1, <1>4, <1>5, OnlyEmpty DEF OwnInv, TipsCarryOwn
<1>7. PICK ft \in Commit, last \in Patch : ft = Front(t) /\ last = Last(t) /\ t = Append(ft, last)
  BY <1>6, FrontLast
<1>8. PICK n \in 0..Len(t) : ft = SubSeq(t, 1, n)
  <2>1. Len(t) = Len(ft) + 1 /\ Len(ft) \in Nat /\ \A i \in 1..Len(ft) : t[i] = ft[i]
    <3>1. ft \in Seq(Patch)
      BY DEF Commit
    <3>2. /\ Len(Append(ft, last)) = Len(ft) + 1
          /\ \A i \in 1..Len(ft) : Append(ft, last)[i] = ft[i]
      BY <3>1, AppendParts
    <3>3. QED
      BY <1>7, <3>1, <3>2
  <2>2. Len(ft) \in 0..Len(t)
    BY <2>1
  <2>3. PICK s \in Commit : s = SubSeq(t, 1, Len(ft)) /\ Len(s) = Len(ft) /\ \A i \in 1..Len(ft) : s[i] = t[i]
    BY <2>2, CommitSplit
  <2>4. s = ft
    BY <2>1, <2>3, SameSequence DEF Commit
  <2>5. QED
    BY <2>2, <2>3, <2>4
<1>9. Injective(ft)
  BY <1>4, <1>8, InjectiveParts
<1>10. Range(ft) \subseteq Range(t)
  BY <1>7, RangeAppend DEF Commit
<1>11. last = o[Len(o)] /\ Len(o) \in 1..Len(o) /\ last.by = e /\ last.n = Len(o)
  <2>1. o # <<>> /\ Len(o) \in Nat
    BY <1>1, <1>5 DEF Commit
  <2>2. Len(o) \in 1..Len(o)
    BY <2>1 DEF Commit
  <2>3. last = o[Len(o)]
    BY <1>1, <1>4, <1>5, <1>7 DEF Last
  <2>4. o[Len(o)].by = e /\ o[Len(o)].n = Len(o)
    BY <1>5, <2>2 DEF OwnInv, Numbered
  <2>5. QED
    BY <2>2, <2>3, <2>4
<1>12. p.by = e /\ p.n = Len(o) /\ p.v = last.v + 1 /\ last.v \in Nat
  <2>1. last = Last(own[r][e])
    BY <1>1, <1>4, <1>7
  <2>2. QED
    BY <1>2, <1>7, <1>11, <2>1 DEF AmendedPatch, Patch
<1>13. p \notin Range(t)
  <2> SUFFICES ASSUME p \in Range(t) PROVE FALSE
    OBVIOUS
  <2>1. p = o[Len(o)]
    BY <1>1, <1>4, <1>5, <1>12, OwnPatches
  <2>2. QED
    BY <1>11, <1>12, <2>1
<1>14. PICK c \in Commit : c = Append(ft, p) /\ Injective(c)
  BY <1>9, <1>10, <1>13, InjectiveAppend
<1>15. Point(r, e, c) /\ pulls' \in Nat /\ pulls <= pulls'
  <2>1. Point(r, e, c)
    BY <1>3, <1>4, <1>7, <1>14
  <2>2. pulls' = pulls /\ pulls \in Nat
    BY <1>3 DEF Typed
  <2>3. QED
    BY <2>1, <2>2
<1>16. \A q \in RepoSet, d \in Envs : rebasing'[q][d] \in {rebasing[q][d], None}
  BY <1>3
<1>17. QED
  BY <1>0, <1>14, <1>15, <1>16, UnrepeatedMove

\* A pulled commit is numbered past those of Main.
LEMMA UnrepeatedPull ==
  ASSUME Typed, Present, Unrepeated, NEW r \in RepoSet, PullMain(r)
  PROVE  Unrepeated'
<1>1. pulls \in Nat /\ pulls' = pulls + 1 /\ rebasing' = rebasing /\ Main \in Branches
  BY DEF PullMain, Typed, Branches
<1>2. PICK p \in Patch : p = [by |-> Main, n |-> pulls + 2, v |-> 0] /\ p.n = pulls + 2
  <2>1. pulls + 2 \in Nat /\ 0 \in Nat
    BY <1>1
  <2>2. [by |-> Main, n |-> pulls + 2, v |-> 0] \in Patch
    BY <1>1, <2>1 DEF Patch
  <2>3. QED
    BY <2>2
<1>3. PICK t \in Commit : t = tip[r][Main] /\ Injective(t) /\ \A q \in Range(t) : q.n <= pulls + 1
  BY <1>1 DEF Typed, Present, Has, Unrepeated
<1>4. p \notin Range(t)
  BY <1>1, <1>2, <1>3
<1>5. PICK c \in Commit : c = Append(t, p) /\ Injective(c) /\ Range(c) = Range(t) \union {p}
  BY <1>3, <1>4, InjectiveAppend
<1>6. Point(r, Main, c)
  BY <1>2, <1>3, <1>5 DEF PullMain
<1>7. \A q \in Range(c) : q.n <= pulls' + 1
  <2>1. \A q \in Range(t) : q.n \in Nat
    BY CommitRange DEF Patch
  <2>2. QED
    BY <1>1, <1>2, <1>3, <1>5, <2>1
<1>8. pulls' \in Nat /\ pulls <= pulls' /\ \A q \in RepoSet, d \in Envs : rebasing'[q][d] \in {rebasing[q][d], None}
  BY <1>1
<1>9. QED
  BY <1>1, <1>5, <1>6, <1>7, <1>8, UnrepeatedMove

\* No branch moves, and a rebase stops without repetitions.
LEMMA UnrepeatedStop ==
  ASSUME Typed, Unrepeated, UNCHANGED <<tip, pulls>>,
         NEW r \in RepoSet, NEW e \in Envs, NEW w \in Stop, Injective(w.onto), Injective(w.todo),
         rebasing' = [rebasing EXCEPT ![r][e] = w]
  PROVE  Unrepeated'
<1>1. ASSUME NEW q \in RepoSet, NEW d \in Envs, rebasing'[q][d] # None
      PROVE  Injective(rebasing'[q][d].onto) /\ Injective(rebasing'[q][d].todo)
  <2>1. CASE q = r /\ d = e
    <3>1. rebasing'[q][d] = w
      BY <2>1 DEF Typed
    <3>2. QED
      BY <3>1
  <2>2. CASE q # r \/ d # e
    <3>1. rebasing'[q][d] = rebasing[q][d]
      BY <2>2 DEF Typed
    <3>2. QED
      BY <1>1, <3>1 DEF Unrepeated
  <2>3. QED
    BY <2>1, <2>2
<1>2. QED
  BY <1>1 DEF Unrepeated, Has

\* A step that moves no branch and stops in no rebase repeats nothing.
LEMMA UnrepeatedStays ==
  ASSUME Unrepeated, UNCHANGED <<tip, pulls>>,
         \A r \in RepoSet, e \in Envs : rebasing'[r][e] \in {rebasing[r][e], None}
  PROVE  Unrepeated'
<1>1. ASSUME NEW q \in RepoSet, NEW d \in Envs, rebasing'[q][d] # None
      PROVE  Injective(rebasing'[q][d].onto) /\ Injective(rebasing'[q][d].todo)
  <2>1. rebasing'[q][d] = rebasing[q][d]
    BY <1>1
  <2>2. QED
    BY <1>1, <2>1 DEF Unrepeated
<1>2. QED
  BY <1>1 DEF Unrepeated, Has

\* The step that takes the next patch of a rebase keeps where it is to end.
LEMMA NextPatch ==
  ASSUME NEW onto \in Commit, NEW todo \in Commit, Injective(onto), Injective(todo), Len(todo) > 1
  PROVE  LET w == [onto |-> Replay(onto, <<Head(todo)>>), todo |-> Tail(todo)] IN
         /\ w \in Stop /\ Injective(w.onto) /\ Injective(w.todo)
         /\ Replay(w.onto, w.todo) = Replay(onto, todo)
<1>1. Len(todo) \in Nat
  BY DEF Commit
<1>2. PICK s, u \in Commit : s = SubSeq(todo, 1, 1) /\ u = SubSeq(todo, 2, Len(todo)) /\ todo = s \o u
                             /\ Len(s) = 1 /\ s[1] = todo[1]
  <2>1. PICK n \in 0..Len(todo) : n = 1 /\ n + 1 = 2 /\ 1 \in 1..n
    BY <1>1
  <2>2. /\ SubSeq(todo, 1, 1) \in Commit /\ SubSeq(todo, 2, Len(todo)) \in Commit
        /\ todo = SubSeq(todo, 1, 1) \o SubSeq(todo, 2, Len(todo))
        /\ Len(SubSeq(todo, 1, 1)) = 1 /\ SubSeq(todo, 1, 1)[1] = todo[1]
    <3>1. /\ SubSeq(todo, 1, n) \in Commit /\ SubSeq(todo, n + 1, Len(todo)) \in Commit
          /\ todo = SubSeq(todo, 1, n) \o SubSeq(todo, n + 1, Len(todo))
          /\ Len(SubSeq(todo, 1, n)) = n /\ \A i \in 1..n : SubSeq(todo, 1, n)[i] = todo[i]
      BY CommitSplit
    <3>2. QED
      BY <2>1, <3>1
  <2>3. QED
    BY <2>2
<1>3. Injective(s) /\ Injective(u) /\ Range(s) \cap Range(u) = {}
  <2>1. 1 \in 0..Len(todo) /\ 1 + 1 = 2
    BY <1>1
  <2>2. QED
    BY <1>2, <2>1, InjectiveParts
<1>4. <<Head(todo)>> = s /\ Tail(todo) = u
  <2>1. Head(todo) = todo[1] /\ Tail(todo) = SubSeq(todo, 2, Len(todo))
    BY DEF Commit
  <2>2. <<todo[1]>> = s
    BY <1>2 DEF Commit
  <2>3. QED
    BY <1>2, <2>1, <2>2
<1>5. PICK o \in Commit : o = Replay(onto, s) /\ Injective(o)
  BY <1>3, ReplayType, ReplayInjective
<1>6. Replay(o, u) = Replay(onto, s \o u)
  BY <1>3, <1>5, ReplaySplit
<1>7. Replay(o, u) = Replay(onto, todo)
  BY <1>2, <1>6
<1>8. [onto |-> o, todo |-> u] \in Stop
  BY DEF Stop
<1>9. QED
  BY <1>3, <1>4, <1>5, <1>7, <1>8

\* No step repeats a patch.
LEMMA UnrepeatedNext ==
  ASSUME Typed, Present, Unrepeated, NEW rank, OwnInv(rank), [Next]_vars
  PROVE  Unrepeated'
<1>0. Envs \subseteq Branches /\ Main \notin Envs
  BY RestackAssumption DEF Branches
<1>1. ASSUME UNCHANGED <<tip, pulls>>,
             \A r \in RepoSet, e \in Envs : rebasing'[r][e] \in {rebasing[r][e], None}
      PROVE  Unrepeated'
  BY <1>1, UnrepeatedStays
<1>2. ASSUME UNCHANGED <<repos, pulls>> PROVE Unrepeated'
  BY <1>1, <1>2 DEF repos
<1>3. ASSUME NEW c \in Commands, Start(c) PROVE Unrepeated'
  BY <1>2, <1>3 DEF Start
<1>4. ASSUME jobs # <<>>, UNCHANGED <<edits, pulls, own>>, Skip(Head(jobs)) \/ Fail PROVE Unrepeated'
  BY <1>2, <1>4 DEF Skip, Fail
<1>5. ASSUME jobs # <<>>, UNCHANGED <<edits, pulls, own>>, Rebased(Head(jobs)) PROVE Unrepeated'
  <2>1. PICK j \in JobSet : j = Head(jobs) /\ Has(j.repo, j.env) /\ Has(j.repo, j.pred)
    BY <1>5, HeadParts
  <2>2. j.repo \in RepoSet /\ j.env \in Envs /\ j.env \in Branches
    BY <1>0 DEF JobSet
  <2>3. PICK c \in Commit : c = Replay(NewBase(j), Replayed(j)) /\ Injective(c)
    BY <2>1, ReplayedParts
  <2>4. Point(j.repo, j.env, c) /\ rebasing' = rebasing
    BY <1>5, <2>1, <2>3 DEF Rebased
  <2>5. pulls' \in Nat /\ pulls <= pulls' /\ \A q \in RepoSet, d \in Envs : rebasing'[q][d] \in {rebasing[q][d], None}
    BY <1>5, <2>4 DEF Typed
  <2>6. QED
    BY <1>0, <2>2, <2>3, <2>4, <2>5, UnrepeatedMove
<1>6. ASSUME jobs # <<>>, UNCHANGED <<edits, pulls, own>>, Conflict(Head(jobs)) PROVE Unrepeated'
  <2>1. PICK j \in JobSet : j = Head(jobs) /\ Has(j.repo, j.env) /\ Has(j.repo, j.pred)
    BY <1>6, HeadParts
  <2>2. j.repo \in RepoSet /\ j.env \in Envs
    BY DEF JobSet
  <2>3. PICK k \in 1..Len(Replayed(j)) : rebasing' = [rebasing EXCEPT ![j.repo][j.env] = StopAt(j, k)]
    BY <1>6, <2>1 DEF Conflict, StopAt
  <2>4. StopAt(j, k) \in Stop
    BY <1>6, <2>1, <2>3, StopAtType
  <2>5. Injective(StopAt(j, k).onto) /\ Injective(StopAt(j, k).todo)
    BY <2>1, <2>3, StopAtParts
  <2>6. UNCHANGED <<tip, pulls>>
    BY <1>6 DEF Conflict
  <2>7. QED
    BY <2>2, <2>3, <2>4, <2>5, <2>6, UnrepeatedStop
<1>7. ASSUME NEW r \in RepoSet, NEW e \in Envs, Edit(r, e) \/ Switch(r, e) PROVE Unrepeated'
  BY <1>1, <1>7 DEF Edit, Switch
<1>8. ASSUME NEW r \in RepoSet, NEW e \in Envs, CommitEdit(r, e) PROVE Unrepeated'
  BY <1>8, UnrepeatedCommitEdit
<1>9. ASSUME NEW r \in RepoSet, NEW e \in Envs, Amend(r, e) PROVE Unrepeated'
  BY <1>9, UnrepeatedAmend
<1>10. ASSUME NEW r \in RepoSet, NEW e \in Envs, ContinueToEnd(r, e) PROVE Unrepeated'
  <2>1. rebasing[r][e] # None /\ pulls' = pulls /\ rebasing' = [rebasing EXCEPT ![r][e] = None]
    BY <1>10 DEF ContinueToEnd
  <2>2. rebasing[r][e].onto \in Commit /\ rebasing[r][e].todo \in Commit
    BY <2>1, StopParts
  <2>3. Injective(rebasing[r][e].onto) /\ Injective(rebasing[r][e].todo)
    BY <2>1 DEF Unrepeated
  <2>4. PICK c \in Commit : c = Replay(rebasing[r][e].onto, rebasing[r][e].todo) /\ Injective(c)
    BY <2>2, <2>3, ReplayType, ReplayInjective
  <2>5. Point(r, e, c)
    BY <1>10, <2>4 DEF ContinueToEnd
  <2>6. \A q \in RepoSet, d \in Envs : rebasing'[q][d] \in {rebasing[q][d], None}
    BY <2>1 DEF Typed
  <2>7. pulls' \in Nat /\ pulls <= pulls'
    BY <2>1 DEF Typed
  <2>8. QED
    BY <1>0, <2>4, <2>5, <2>6, <2>7, UnrepeatedMove
<1>11. ASSUME NEW r \in RepoSet, NEW e \in Envs, ContinueToNext(r, e) PROVE Unrepeated'
  <2>1. rebasing[r][e] # None /\ UNCHANGED <<tip, pulls>> /\ Len(rebasing[r][e].todo) > 1
    BY <1>11 DEF ContinueToNext
  <2>2. PICK onto, todo \in Commit : onto = rebasing[r][e].onto /\ todo = rebasing[r][e].todo
    BY <2>1, StopParts
  <2>3. Injective(onto) /\ Injective(todo) /\ Len(todo) > 1
    BY <2>1, <2>2 DEF Unrepeated
  <2>4. PICK w \in Stop : /\ w = [onto |-> Replay(onto, <<Head(todo)>>), todo |-> Tail(todo)]
                          /\ Injective(w.onto) /\ Injective(w.todo)
    BY <2>3, NextPatch
  <2>5. rebasing' = [rebasing EXCEPT ![r][e] = w]
    BY <1>11, <2>2, <2>4 DEF ContinueToNext
  <2>6. QED
    BY <2>1, <2>4, <2>5, UnrepeatedStop
<1>12. ASSUME NEW r \in RepoSet, NEW e \in Envs, Abort(r, e) PROVE Unrepeated'
  <2>1. \A q \in RepoSet, d \in Envs : rebasing'[q][d] \in {rebasing[q][d], None}
    BY <1>12 DEF Abort, Typed
  <2>2. QED
    BY <1>1, <1>12, <2>1 DEF Abort
<1>13. ASSUME NEW r \in RepoSet, PullMain(r) PROVE Unrepeated'
  BY <1>13, UnrepeatedPull
<1>14. CASE UNCHANGED vars
  BY <1>2, <1>14 DEF vars
<1>15. QED
  BY <1>3, <1>4, <1>5, <1>6, <1>7, <1>8, <1>9, <1>10, <1>11, <1>12, <1>13, <1>14, NextCases

-----------------------------------------------------------------------------
(***************************************************************************)
(* The plan, while it runs.                                                *)
(***************************************************************************)

\* The boundary is still what the plan took it for.
Bounded(c, j) ==
  /\ ~j.cut =>
       /\ IsAncestor(j.boundary, Upper(j))
       /\ \A x \in reflog[j.repo][j.pred] : IsAncestor(x, Upper(j)) =>
            IsAncestor(x, j.boundary) \/ (x = NewBase(j) /\ ~Waits(jobs, j.repo, j.pred))
  /\ j.cut =>
       /\ c.cut \in Branches /\ Has(j.repo, c.cut) /\ j.boundary = tip[j.repo][c.cut]
       /\ IsAncestor(j.boundary, Upper(j)) \/ IsAncestor(NewBase(j), Upper(j))

\* No two jobs rebase the same branch.
OneEach(q) ==
  \A k, l \in 1..Len(q) : k < l => q[k].repo # q[l].repo \/ q[k].env # q[l].env

\* No two jobs of the running plan rebase the same branch.
JobsApart == OneEach(jobs)

\* Until a branch moves under it, the plan is what the planner froze: in the chain's
\* order from the base, each boundary still its link's.
PlanHolds ==
  cmd # None =>
    /\ Apart(cmd) /\ Baseward(cmd, jobs)
    /\ \A k \in 1..Len(jobs) : Bounded(cmd, jobs[k])

\* What holds of a list of jobs holds of the rest of it.
LEMMA RestOfJobs ==
  ASSUME NEW T, NEW q \in Seq(T), q # <<>>
  PROVE  /\ Tail(q) \in Seq(T) /\ Len(Tail(q)) = Len(q) - 1 /\ 1 \in 1..Len(q)
         /\ \A k \in 1..Len(Tail(q)) : Tail(q)[k] = q[k + 1] /\ k + 1 \in 1..Len(q) /\ 1 < k + 1
         /\ Head(q) = q[1]
         /\ \A r, e : Waits(Tail(q), r, e) => Waits(q, r, e)
         /\ \A r, e : Waits(q, r, e) => Waits(Tail(q), r, e) \/ (q[1].repo = r /\ q[1].env = e)
         /\ OneEach(q) => OneEach(Tail(q)) /\ ~Waits(Tail(q), q[1].repo, q[1].env)
         /\ \A c : Baseward(c, q) => Baseward(c, Tail(q))
<1>1. PICK t \in Seq(T) : t = Tail(q) /\ Len(t) = Len(q) - 1
  <2>1. Tail(q) \in Seq(T) /\ Len(Tail(q)) = Len(q) - 1
    OBVIOUS
  <2>2. QED
    BY <2>1
<1>2. /\ Len(q) \in Nat /\ 1 \in 1..Len(q) /\ Head(q) = q[1]
      /\ \A k \in 1..Len(t) : t[k] = q[k + 1] /\ k + 1 \in 1..Len(q) /\ 1 < k + 1
  BY <1>1
<1>3. \A k, l \in 1..Len(t) : k < l => k + 1 < l + 1
  BY <1>1, <1>2
<1>4. \A r, e : Waits(t, r, e) => Waits(q, r, e)
  BY <1>2 DEF Waits
<1>5. ASSUME NEW r, NEW e, Waits(q, r, e) PROVE Waits(t, r, e) \/ (q[1].repo = r /\ q[1].env = e)
  <2>1. PICK k \in 1..Len(q) : q[k].repo = r /\ q[k].env = e
    BY <1>5 DEF Waits
  <2>2. CASE k = 1
    BY <2>1, <2>2
  <2>3. CASE k # 1
    <3>1. k - 1 \in 1..Len(t) /\ (k - 1) + 1 = k
      BY <1>1, <1>2, <2>3
    <3>2. t[k - 1] = q[k]
      BY <1>2, <3>1
    <3>3. QED
      BY <2>1, <3>1, <3>2 DEF Waits
  <2>4. QED
    BY <2>2, <2>3
<1>6. ASSUME OneEach(q) PROVE OneEach(t) /\ ~Waits(t, q[1].repo, q[1].env)
  <2>1. OneEach(t)
    <3> SUFFICES ASSUME NEW k \in 1..Len(t), NEW l \in 1..Len(t), k < l
                 PROVE  t[k].repo # t[l].repo \/ t[k].env # t[l].env
      BY DEF OneEach
    <3>1. t[k] = q[k + 1] /\ t[l] = q[l + 1] /\ k + 1 \in 1..Len(q) /\ l + 1 \in 1..Len(q) /\ k + 1 < l + 1
      BY <1>2, <1>3
    <3>2. QED
      BY <1>6, <3>1 DEF OneEach
  <2>2. \A k \in 1..Len(t) : t[k].repo # q[1].repo \/ t[k].env # q[1].env
    BY <1>2, <1>6 DEF OneEach
  <2>3. QED
    BY <2>1, <2>2 DEF Waits
<1>7. ASSUME NEW c, Baseward(c, q) PROVE Baseward(c, t)
  <2>1. ASSUME NEW k \in 1..Len(t) PROVE \E i \in Links(c) : OfLink(c, i, t[k])
    BY <1>2, <1>7 DEF Baseward
  <2>2. ASSUME NEW k \in 1..Len(t), NEW l \in 1..Len(t), k < l,
               NEW i \in Links(c), NEW m \in Links(c), OfLink(c, i, t[k]), OfLink(c, m, t[l])
        PROVE  m <= i /\ (m = i => t[k].repo # t[l].repo)
    <3>1. t[k] = q[k + 1] /\ t[l] = q[l + 1] /\ k + 1 \in 1..Len(q) /\ l + 1 \in 1..Len(q) /\ k + 1 < l + 1
      BY <1>2, <1>3, <2>2
    <3>2. OfLink(c, i, q[k + 1]) /\ OfLink(c, m, q[l + 1])
      BY <2>2, <3>1
    <3>3. m <= i /\ (m = i => q[k + 1].repo # q[l + 1].repo)
      BY <1>7, <3>1, <3>2 DEF Baseward
    <3>4. QED
      BY <3>1, <3>3
  <2>3. QED
    BY <2>1, <2>2 DEF Baseward
<1>8. QED
  BY <1>1, <1>2, <1>4, <1>5, <1>6, <1>7

\* An empty plan is in order.
LEMMA NoJobs ==
  OneEach(<<>>) /\ (\A c : Baseward(c, <<>>)) /\ \A r, e : ~Waits(<<>>, r, e)
<1>1. 1..Len(<<>>) = {}
  OBVIOUS
<1>2. QED
  BY <1>1 DEF OneEach, Baseward, Waits

\* A step that keeps the branches, the plan and what is finished.
Quiet ==
  /\ UNCHANGED <<tip, reflog, jobs, cmd, done>>
  /\ \A r \in RepoSet, e \in Envs : rebasing'[r][e] \in {rebasing[r][e], None}

\* A step of the user's, or of a leftover rebase, that the last command does not
\* survive.
Moved ==
  /\ cmd' = None /\ done' = {} /\ UNCHANGED jobs
  /\ \E r \in RepoSet, b \in Branches : \E c \in Commit : Has(r, b) /\ Point(r, b, c)

\* The last command's own rebase is continued to its end.
CompletedByHand(r, e) ==
  /\ rebasing[r][e] # None /\ jobs = <<>> /\ Rebases(cmd, r, e)
  /\ Point(r, e, Replay(rebasing[r][e].onto, rebasing[r][e].todo))
  /\ rebasing' = [rebasing EXCEPT ![r][e] = None]
  /\ done' = done \union {<<r, e>>}
  /\ UNCHANGED <<cmd, jobs>>

\* What a step means to the plan.
LEMMA StepKinds ==
  ASSUME Typed, Present, [Next]_vars
  PROVE  \/ \E c \in Commands : Start(c)
         \/ jobs # <<>> /\ (Skip(Head(jobs)) \/ Rebased(Head(jobs)) \/ Conflict(Head(jobs)) \/ Fail)
         \/ Quiet \/ Moved
         \/ \E r \in RepoSet, e \in Envs : CompletedByHand(r, e) \/ ContinueToNext(r, e)
<1>0. Envs \subseteq Branches /\ Main \in Branches
  BY DEF Branches
<1>1. ASSUME NEW r \in RepoSet, NEW e \in Envs, Edit(r, e) \/ Switch(r, e) \/ Abort(r, e) PROVE Quiet
  <2>1. UNCHANGED <<tip, reflog, jobs, cmd, done>>
    BY <1>1 DEF Edit, Switch, Abort, run
  <2>2. rebasing' = rebasing \/ rebasing' = [rebasing EXCEPT ![r][e] = None]
    BY <1>1 DEF Edit, Switch, Abort
  <2>3. \A q \in RepoSet, d \in Envs : rebasing'[q][d] \in {rebasing[q][d], None}
    <3>1. rebasing \in [RepoSet -> [Envs -> Stop \union {None}]]
      BY DEF Typed
    <3>2. QED
      BY <2>2, <3>1
  <2>4. QED
    BY <2>1, <2>3 DEF Quiet
<1>2. ASSUME UNCHANGED vars PROVE Quiet
  BY <1>2 DEF Quiet, vars, repos, run
<1>3. ASSUME NEW r \in RepoSet, NEW e \in Envs, CommitEdit(r, e) PROVE Moved
  <2>1. PICK p \in Patch : p = CommittedPatch(r, e)
    BY UserPatches
  <2>2. Point(r, e, Append(tip[r][e], p)) /\ UNCHANGED jobs /\ Disturb /\ Has(r, e)
    BY <1>3, <2>1 DEF CommitEdit, UserMoves, AtHand, CommittedPatch
  <2>3. PICK t \in Commit : t = tip[r][e]
    BY <1>0, <2>2 DEF Has, Typed
  <2>4. Append(t, p) \in Commit
    BY AppendParts DEF Commit
  <2>5. QED
    BY <1>0, <2>2, <2>3, <2>4 DEF Moved, Disturb
<1>4. ASSUME NEW r \in RepoSet, NEW e \in Envs, Amend(r, e) PROVE Moved
  <2>1. own[r][e] # <<>> /\ Has(r, e) /\ tree[r][e] = "dirty"
    BY <1>4 DEF Amend, AtHand
  <2>2. PICK p \in Patch : p = [Last(own[r][e]) EXCEPT !.v = @ + 1]
    BY <2>1, UserPatches
  <2>3. Point(r, e, Append(Front(tip[r][e]), p)) /\ UNCHANGED jobs /\ Disturb
    BY <1>4, <2>2 DEF Amend, UserMoves
  <2>4. PICK t \in Commit : t = tip[r][e]
    BY <1>0, <2>1 DEF Has, Typed
  <2>5. Append(Front(t), p) \in Commit
    <3>1. Len(t) \in Nat /\ t \in Seq(Patch)
      BY DEF Commit
    <3>2. Front(t) \in Seq(Patch)
      BY <3>1 DEF Front
    <3>3. QED
      BY <3>2, AppendParts DEF Commit
  <2>6. QED
    BY <1>0, <2>1, <2>3, <2>4, <2>5 DEF Moved, Disturb
<1>5. ASSUME NEW r \in RepoSet, PullMain(r) PROVE Moved
  <2>1. PICK p \in Patch : p = [by |-> Main, n |-> pulls + 2, v |-> 0]
    <3>1. pulls + 2 \in Nat
      BY DEF Typed
    <3>2. [by |-> Main, n |-> pulls + 2, v |-> 0] \in Patch
      BY <1>0, <3>1 DEF Patch
    <3>3. QED
      BY <3>2
  <2>2. Has(r, Main) /\ Point(r, Main, Append(tip[r][Main], p)) /\ UNCHANGED jobs /\ Disturb
    BY <1>5, <2>1 DEF PullMain, Present
  <2>3. PICK t \in Commit : t = tip[r][Main]
    BY <1>0, <2>2 DEF Has, Typed
  <2>4. Append(t, p) \in Commit
    BY AppendParts DEF Commit
  <2>5. QED
    BY <1>0, <2>2, <2>3, <2>4 DEF Moved, Disturb
<1>6. ASSUME NEW r \in RepoSet, NEW e \in Envs, ContinueToEnd(r, e) PROVE Moved \/ CompletedByHand(r, e)
  <2>1. /\ rebasing[r][e] # None /\ UNCHANGED jobs
        /\ Point(r, e, Replay(rebasing[r][e].onto, rebasing[r][e].todo))
        /\ rebasing' = [rebasing EXCEPT ![r][e] = None]
    BY <1>6 DEF ContinueToEnd
  <2>2. PICK c \in Commit : c = Replay(rebasing[r][e].onto, rebasing[r][e].todo)
    BY <2>1, StopParts
  <2>3. Has(r, e)
    BY <2>1 DEF Present
  <2>4. CASE jobs = <<>> /\ Rebases(cmd, r, e)
    BY <1>6, <2>1, <2>4 DEF ContinueToEnd, CompletedByHand
  <2>5. CASE ~(jobs = <<>> /\ Rebases(cmd, r, e))
    <3>1. Disturb
      BY <1>6, <2>5 DEF ContinueToEnd
    <3>2. QED
      BY <1>0, <2>1, <2>2, <2>3, <3>1 DEF Disturb, Moved
  <2>6. QED
    BY <2>4, <2>5
<1>7. QED
  BY <1>1, <1>2, <1>3, <1>4, <1>5, <1>6, NextCases

\* A branch that moves is there before and after.
LEMMA BranchMoves ==
  ASSUME Typed, NEW r \in RepoSet, NEW b \in Branches, NEW c \in Commit, Has(r, b), Point(r, b, c)
  PROVE  \A q \in RepoSet, d \in Branches : tip'[q][d] # None <=> tip[q][d] # None
<1>1. c # None
  BY RestackAssumption
<1>2. QED
  BY <1>1, PointParts DEF Has

\* A rebase at hand, and where it takes the branch.
LEMMA HeadMoves ==
  ASSUME Typed, Present, jobs # <<>>, Rebased(Head(jobs))
  PROVE  LET j == Head(jobs) IN
         /\ j \in JobSet /\ j.repo \in RepoSet /\ j.env \in Envs /\ j.env \in Branches /\ j.pred \in Branches
         /\ Has(j.repo, j.env) /\ Has(j.repo, j.pred)
         /\ \E c \in Commit : c = Replay(NewBase(j), Replayed(j)) /\ Point(j.repo, j.env, c)
<1>1. PICK j \in JobSet : j = Head(jobs) /\ Has(j.repo, j.env) /\ Has(j.repo, j.pred)
  BY HeadParts
<1>2. j.repo \in RepoSet /\ j.env \in Envs /\ j.env \in Branches /\ j.pred \in Branches
      /\ NewBase(j) \in Commit /\ Replayed(j) \in Commit
  BY <1>1, JobParts
<1>3. PICK c \in Commit : c = Replay(NewBase(j), Replayed(j))
  BY <1>2, ReplayType
<1>4. Point(j.repo, j.env, c)
  BY <1>1, <1>3 DEF Rebased
<1>5. QED
  BY <1>1, <1>2, <1>3, <1>4

\* The branches that are there stay there, and no others come.
LEMMA BranchesStay ==
  ASSUME Typed, Present, [Next]_vars
  PROVE  \A r \in RepoSet, b \in Branches : tip'[r][b] # None <=> tip[r][b] # None
<1>0. Envs \subseteq Branches
  BY DEF Branches
<1>1. ASSUME NEW c \in Commands, Start(c) PROVE UNCHANGED tip
  BY <1>1 DEF Start, repos
<1>2. ASSUME Skip(Head(jobs)) \/ Conflict(Head(jobs)) \/ Fail PROVE UNCHANGED tip
  BY <1>2 DEF Skip, Conflict, Fail, repos
<1>3. ASSUME jobs # <<>>, Rebased(Head(jobs))
      PROVE  \A r \in RepoSet, b \in Branches : tip'[r][b] # None <=> tip[r][b] # None
  BY <1>3, HeadMoves, BranchMoves
<1>4. ASSUME Moved
      PROVE  \A r \in RepoSet, b \in Branches : tip'[r][b] # None <=> tip[r][b] # None
  BY <1>4, BranchMoves DEF Moved
<1>5. ASSUME NEW r \in RepoSet, NEW e \in Envs, CompletedByHand(r, e)
      PROVE  \A q \in RepoSet, b \in Branches : tip'[q][b] # None <=> tip[q][b] # None
  <2>1. rebasing[r][e] # None /\ Has(r, e)
    BY <1>5 DEF CompletedByHand, Present
  <2>2. PICK c \in Commit : c = Replay(rebasing[r][e].onto, rebasing[r][e].todo)
    BY <2>1, StopParts
  <2>3. Point(r, e, c)
    BY <1>5, <2>2 DEF CompletedByHand
  <2>4. QED
    BY <1>0, <2>1, <2>3, BranchMoves
<1>6. ASSUME NEW r \in RepoSet, NEW e \in Envs, ContinueToNext(r, e) PROVE UNCHANGED tip
  BY <1>6 DEF ContinueToNext
<1>7. QED
  BY <1>1, <1>2, <1>3, <1>4, <1>5, <1>6, StepKinds DEF Quiet

\* Base-ward links first: no branch is rebased twice.
LEMMA BasewardApart ==
  ASSUME NEW c, Apart(c), NEW q, Baseward(c, q)
  PROVE  OneEach(q)
<1> SUFFICES ASSUME NEW k \in 1..Len(q), NEW l \in 1..Len(q), k < l, q[k].repo = q[l].repo, q[k].env = q[l].env
             PROVE  FALSE
  BY DEF OneEach
<1>1. PICK i \in Links(c) : OfLink(c, i, q[k])
  BY DEF Baseward
<1>2. PICK m \in Links(c) : OfLink(c, m, q[l])
  BY DEF Baseward
<1>3. i = m
  BY <1>1, <1>2 DEF OfLink, Apart
<1>4. QED
  BY <1>1, <1>2, <1>3 DEF Baseward

\* A plan that is not refused froze its boundaries right.
LEMMA PlanBounded ==
  ASSUME Typed, NEW c \in Commands, ~Refused(c), NEW k \in 1..Len(Jobs(c)),
         UNCHANGED <<tip, reflog>>, NEW w, w = Jobs(c)[k]
  PROVE  Bounded(c, w)'
<1>1. PICK i \in Links(c) : \E r \in Participating(c, i) :
           /\ Jobs(c)[k] = Job(c, i, r) /\ Job(c, i, r) \in JobSet
           /\ Boundary(c, i, r) # None /\ rebasing[r][Env(c, i)] = None
  BY PlanParts
<1>2. PICK r \in Participating(c, i) :
           /\ Jobs(c)[k] = Job(c, i, r) /\ Job(c, i, r) \in JobSet
           /\ Boundary(c, i, r) # None
  BY <1>1
<1>3. PICK j \in JobSet : j = Job(c, i, r)
  BY <1>2
<1>4. /\ j.env = Env(c, i) /\ j.pred = Predecessor(c, i) /\ j.repo = r
      /\ j.boundary = Boundary(c, i, r) /\ j.cut = AtCut(c, i)
  BY <1>3 DEF Job
<1>5. /\ r \in RepoSet /\ Has(r, j.env) /\ Has(r, j.pred) /\ j.env \in Branches /\ j.pred \in Branches
  BY <1>4, ParticipatingParts DEF JobSet, Branches
<1>6. ASSUME ~j.cut
      PROVE  /\ IsAncestor(j.boundary, Upper(j))
             /\ \A x \in reflog[j.repo][j.pred] : IsAncestor(x, Upper(j)) => IsAncestor(x, j.boundary)
  <2>1. j.boundary = ForkPoint(r, j.pred, j.env)
    BY <1>2, <1>4, <1>6, BoundaryParts
  <2>2. ForkPoint(r, j.pred, j.env) # None
    BY <1>2, <1>4, <2>1
  <2>3. QED
    BY <1>4, <1>5, <2>1, <2>2, ForkPointParts DEF Upper
<1>7. ASSUME j.cut
      PROVE  /\ c.cut \in Branches /\ Has(r, c.cut) /\ j.boundary = tip[r][c.cut]
             /\ IsAncestor(j.boundary, Upper(j)) \/ IsAncestor(NewBase(j), Upper(j))
  <2>1. /\ c.cut \in Branches /\ Has(r, c.cut)
        /\ Boundary(c, i, r) = tip[r][c.cut]
        /\ CutApplies(r, c.cut, Env(c, i)) \/ CutAlreadyDone(r, c.base, Env(c, i))
    BY <1>2, <1>4, <1>7, BoundaryParts
  <2>2. Predecessor(c, i) = c.base
    <3>1. Len(c.chain) \in Nat
      BY CommandParts
    <3>2. i = Len(c.chain)
      BY <1>4, <1>7 DEF AtCut
    <3>3. QED
      BY <3>1, <3>2 DEF Predecessor
  <2>3. QED
    BY <1>4, <2>1, <2>2 DEF CutApplies, CutAlreadyDone, Upper, NewBase
<1>8. Upper(j)' = Upper(j) /\ NewBase(j)' = NewBase(j) /\ reflog' = reflog /\ tip' = tip
  BY DEF Upper, NewBase
<1>9. Bounded(c, j)'
  BY <1>4, <1>6, <1>7, <1>8 DEF Bounded, Has
<1>10. j = w
  BY <1>2, <1>3
<1>11. QED
  BY <1>9, <1>10

\* A plan that is not refused is in order and its boundaries are current.
LEMMA PlanStart ==
  ASSUME Typed, NEW c \in Commands, Start(c)
  PROVE  JobsApart' /\ PlanHolds'
<1>1. ~Refused(c) /\ cmd' = c /\ jobs' = Jobs(c) /\ UNCHANGED <<tip, reflog>>
  BY DEF Start, repos
<1>2. Apart(c)
  BY <1>1, NamedOnce DEF Refused
<1>3. PICK q : q = Jobs(c)
  OBVIOUS
<1>4. Baseward(c, q) /\ OneEach(q)
  BY <1>2, <1>3, PlanOrder, BasewardApart
<1>5. jobs' = q /\ cmd' = c
  BY <1>1, <1>3
<1>6. ASSUME NEW k \in 1..Len(q) PROVE Bounded(c, q[k])'
  <2>1. PICK w : w = Jobs(c)[k] /\ w = q[k]
    BY <1>3
  <2>2. Bounded(c, w)'
    BY <1>1, <1>3, <2>1, PlanBounded
  <2>3. QED
    BY <2>1, <2>2
<1>7. PlanHolds'
  BY <1>2, <1>4, <1>5, <1>6 DEF PlanHolds
<1>8. QED
  BY <1>4, <1>5, <1>7 DEF JobsApart

\* A job that is left over is bounded still, after one that moved no branch.
LEMMA BoundedStays ==
  ASSUME NEW c, NEW w, Bounded(c, w), UNCHANGED <<tip, reflog>>,
         \A r, e : Waits(jobs', r, e) => Waits(jobs, r, e)
  PROVE  Bounded(c, w)'
<1>1. Upper(w)' = Upper(w) /\ NewBase(w)' = NewBase(w)
  BY DEF Upper, NewBase
<1>2. QED
  BY <1>1 DEF Bounded, Has

\* Nor does the rebase of another branch take it out of its bounds.
LEMMA BoundedMove ==
  ASSUME Typed, Present, NEW c \in Commands, NEW w \in JobSet, Bounded(c, w),
         Has(w.repo, w.env), Has(w.repo, w.pred),
         NEW r \in RepoSet, NEW e \in Envs, NEW x \in Commit, Point(r, e, x),
         w.repo # r \/ w.env # e, w.cut => w.repo # r \/ (w.pred # e /\ c.cut # e),
         Waits(jobs, r, e), ~Waits(jobs', r, e),
         \A q, d : Waits(jobs', q, d) => Waits(jobs, q, d)
  PROVE  Bounded(c, w)'
<1>0. e \in Branches /\ w.repo \in RepoSet /\ w.env \in Branches /\ w.pred \in Branches
  BY DEF JobSet, Branches
<1>1. Upper(w)' = Upper(w)
  BY <1>0, PointParts DEF Upper
<1>2. ASSUME w.cut
      PROVE  /\ c.cut \in Branches /\ tip'[w.repo][c.cut] # None /\ w.boundary = tip'[w.repo][c.cut]
             /\ IsAncestor(w.boundary, Upper(w)') \/ IsAncestor(NewBase(w)', Upper(w)')
  <2>1. c.cut \in Branches /\ tip[w.repo][c.cut] # None /\ w.boundary = tip[w.repo][c.cut]
    BY <1>2 DEF Bounded, Has
  <2>2. tip'[w.repo][c.cut] = tip[w.repo][c.cut] /\ tip'[w.repo][w.pred] = tip[w.repo][w.pred]
    BY <1>0, <1>2, <2>1, PointParts
  <2>3. NewBase(w)' = NewBase(w)
    BY <2>2 DEF NewBase
  <2>4. QED
    BY <1>1, <1>2, <2>1, <2>2, <2>3 DEF Bounded
<1>3. ASSUME ~w.cut, NEW y \in reflog'[w.repo][w.pred], IsAncestor(y, Upper(w)')
      PROVE  IsAncestor(y, w.boundary) \/ (y = NewBase(w)' /\ ~Waits(jobs', w.repo, w.pred))
  <2>1. CASE w.repo = r /\ w.pred = e
    <3>1. reflog'[w.repo][w.pred] = reflog[w.repo][w.pred] \union {x} /\ NewBase(w)' = x
      BY <1>0, <2>1, PointParts DEF NewBase
    <3>2. CASE y = x
      BY <2>1, <3>1, <3>2
    <3>3. CASE y \in reflog[w.repo][w.pred]
      BY <1>1, <1>3, <2>1, <3>3 DEF Bounded
    <3>4. QED
      BY <1>3, <3>1, <3>2, <3>3
  <2>2. CASE w.repo # r \/ w.pred # e
    <3>1. reflog'[w.repo][w.pred] = reflog[w.repo][w.pred] /\ NewBase(w)' = NewBase(w)
      BY <1>0, <2>2, PointParts DEF NewBase
    <3>2. QED
      BY <1>1, <1>3, <3>1 DEF Bounded
  <2>3. QED
    BY <2>1, <2>2
<1>4. ~w.cut => IsAncestor(w.boundary, Upper(w)')
  BY <1>1 DEF Bounded
<1>5. QED
  BY <1>2, <1>3, <1>4 DEF Bounded, Has

\* The plan holds after every step.
LEMMA PlanNext ==
  ASSUME Typed, Present, JobsApart, PlanHolds, [Next]_vars
  PROVE  JobsApart' /\ PlanHolds'
<1>1. ASSUME NEW c \in Commands, Start(c) PROVE JobsApart' /\ PlanHolds'
  BY <1>1, PlanStart
<1>2. ASSUME jobs # <<>>, Skip(Head(jobs)) \/ Rebased(Head(jobs)) PROVE JobsApart' /\ PlanHolds'
  <2>1. jobs' = Tail(jobs) /\ cmd' = cmd
    BY <1>2 DEF Skip, Rebased
  <2>2. jobs \in Seq(JobSet)
    BY DEF Typed
  <2>3. PICK t : t = Tail(jobs)
    OBVIOUS
  <2>4. PICK j \in JobSet : j = Head(jobs) /\ j = jobs[1] /\ 1 \in 1..Len(jobs)
    BY <1>2, HeadParts
  <2>5. /\ t \in Seq(JobSet) /\ OneEach(t) /\ ~Waits(t, j.repo, j.env)
        /\ \A k \in 1..Len(t) : t[k] = jobs[k + 1] /\ k + 1 \in 1..Len(jobs) /\ 1 < k + 1
        /\ \A r, e : Waits(t, r, e) => Waits(jobs, r, e)
        /\ \A c : Baseward(c, jobs) => Baseward(c, t)
    BY <1>2, <2>2, <2>3, <2>4, RestOfJobs DEF JobsApart
  <2>6. jobs' = t
    BY <2>1, <2>3
  <2>7. ASSUME cmd # None, NEW k \in 1..Len(t) PROVE Bounded(cmd, t[k])'
    <3>1. PICK c \in Commands : c = cmd
      BY <2>7 DEF Typed
    <3>2. PICK w \in JobSet : w = t[k] /\ w = jobs[k + 1] /\ k + 1 \in 1..Len(jobs) /\ 1 < k + 1
      BY <2>5
    <3>3. Bounded(c, w) /\ Apart(c) /\ Baseward(c, jobs)
      BY <2>7, <3>1, <3>2 DEF PlanHolds
    <3>4. \A r, e : Waits(jobs', r, e) => Waits(jobs, r, e)
      BY <2>5, <2>6
    <3>5. Bounded(c, w)'
      <4>1. CASE Skip(Head(jobs))
        <5>1. UNCHANGED <<tip, reflog>>
          BY <4>1 DEF Skip, repos
        <5>2. QED
          BY <3>3, <3>4, <5>1, BoundedStays
      <4>2. CASE Rebased(Head(jobs))
        <5>1. /\ j.repo \in RepoSet /\ j.env \in Envs
              /\ \E x \in Commit : Point(j.repo, j.env, x)
          BY <1>2, <2>4, <4>2, HeadMoves
        <5>2. PICK x \in Commit : Point(j.repo, j.env, x)
          BY <5>1
        <5>3. w.repo # j.repo \/ w.env # j.env
          BY <2>4, <3>2 DEF JobsApart, OneEach
        <5>4. Waits(jobs, j.repo, j.env) /\ ~Waits(jobs', j.repo, j.env)
          BY <2>4, <2>5, <2>6 DEF Waits
        <5>5. Has(w.repo, w.env) /\ Has(w.repo, w.pred)
          BY <3>2 DEF Present
        <5>6. w.cut => w.repo # j.repo \/ (w.pred # j.env /\ c.cut # j.env)
          <6>1. PICK i \in Links(c) : OfLink(c, i, j)
            BY <2>4, <3>3 DEF Baseward
          <6>2. PICK m \in Links(c) : OfLink(c, m, w)
            BY <3>2, <3>3 DEF Baseward
          <6>3. Len(c.chain) \in Nat
            BY CommandParts
          <6>4. w.cut => w.pred = c.base
            <7>1. w.cut => m = Len(c.chain)
              BY <6>2 DEF OfLink, AtCut
            <7>2. w.pred = Predecessor(c, m)
              BY <6>2 DEF OfLink
            <7>3. QED
              BY <6>3, <7>1, <7>2 DEF Predecessor
          <6>5. QED
            BY <3>3, <6>1, <6>4 DEF OfLink, Apart
        <5>7. QED
          BY <3>3, <3>4, <5>1, <5>2, <5>3, <5>4, <5>5, <5>6, BoundedMove
      <4>3. QED
        BY <1>2, <4>1, <4>2
    <3>6. cmd' = c
      BY <2>1, <3>1
    <3>7. QED
      BY <2>1, <3>1, <3>2, <3>5
  <2>8. PlanHolds'
    BY <2>1, <2>5, <2>6, <2>7 DEF PlanHolds
  <2>9. QED
    BY <2>5, <2>6, <2>8 DEF JobsApart
<1>3. ASSUME jobs' = <<>>, UNCHANGED cmd PROVE JobsApart' /\ PlanHolds'
  <2>1. Len(<<>>) = 0 /\ 1..0 = {}
    OBVIOUS
  <2>2. QED
    BY <1>3, <2>1, NoJobs DEF JobsApart, PlanHolds
<1>4. ASSUME Conflict(Head(jobs)) \/ Fail PROVE jobs' = <<>> /\ UNCHANGED cmd
  BY <1>4 DEF Conflict, Fail
<1>5. ASSUME NEW r \in RepoSet, NEW e \in Envs, CompletedByHand(r, e) PROVE jobs' = <<>> /\ UNCHANGED cmd
  BY <1>5 DEF CompletedByHand
<1>6. ASSUME Moved PROVE JobsApart' /\ PlanHolds'
  BY <1>6 DEF Moved, JobsApart, PlanHolds
<1>7. ASSUME UNCHANGED <<tip, reflog, jobs, cmd>> PROVE JobsApart' /\ PlanHolds'
  <2>1. ASSUME cmd # None, NEW k \in 1..Len(jobs) PROVE Bounded(cmd, jobs[k])'
    <3>1. PICK c, w : c = cmd /\ w = jobs[k]
      OBVIOUS
    <3>2. Bounded(c, w)'
      BY <1>7, <2>1, <3>1, BoundedStays DEF PlanHolds
    <3>3. QED
      BY <1>7, <3>1, <3>2
  <2>2. QED
    BY <1>7, <2>1 DEF JobsApart, PlanHolds
<1>8. ASSUME Quiet PROVE UNCHANGED <<tip, reflog, jobs, cmd>>
  BY <1>8 DEF Quiet
<1>9. ASSUME NEW r \in RepoSet, NEW e \in Envs, ContinueToNext(r, e) PROVE UNCHANGED <<tip, reflog, jobs, cmd>>
  BY <1>9 DEF ContinueToNext
<1>10. QED
  BY <1>1, <1>2, <1>3, <1>4, <1>5, <1>6, <1>7, <1>8, <1>9, StepKinds

\* What an env has of its own user's commits and of Main's is as it now is.
LEMMA OwnNotSuperseded ==
  ASSUME Typed, NEW rank, OwnInv(rank), NEW r \in RepoSet, NEW e \in Envs, Has(r, e),
         NEW p \in Range(tip[r][e]), p.by \in {e, Main}
  PROVE  ~Superseded(r, p)
<1> SUFFICES ASSUME Superseded(r, p) PROVE FALSE
  OBVIOUS
<1>1. p.by \in Envs /\ \E q \in Range(own[r][p.by]) : q.n = p.n /\ q.v > p.v
  BY DEF Superseded
<1>2. p.by = e
  BY <1>1, RestackAssumption
<1>3. PICK o \in Commit : o = own[r][e]
  BY DEF Typed, Branches
<1>4. PICK q \in Range(o) : q.n = p.n /\ q.v > p.v
  BY <1>1, <1>2, <1>3
<1>5. PICK k \in 1..Len(o) : p = o[k] /\ p.n = k
  BY <1>2, <1>3, OwnPatches
<1>6. PICK l \in 1..Len(o) : q = o[l]
  BY CommitRange
<1>7. q.n = l
  BY <1>3, <1>6 DEF OwnInv, Numbered
<1>8. q = p
  BY <1>4, <1>5, <1>6, <1>7
<1>9. p.v \in Nat
  BY <1>5, CommitRange DEF Patch
<1>10. QED
  BY <1>4, <1>8, <1>9

\* A finished repository stands on its predecessor as it then is.
LEMMA EndsOnPredecessor ==
  ASSUME Typed, Present, jobs # <<>>, NEW j, j = Head(jobs), Skip(j) \/ Rebased(j)
  PROVE  /\ IsAncestor(NewBase(j), tip'[j.repo][j.env])
         /\ j \in JobSet /\ j.repo \in RepoSet /\ j.env \in Envs /\ j.env \in Branches
         /\ Has(j.repo, j.env) /\ Has(j.repo, j.pred)
         /\ Upper(j) \in Commit /\ NewBase(j) \in Commit /\ Replayed(j) \in Commit /\ j.boundary \in Commit
         /\ reflog[j.repo][j.pred] \subseteq Commit
         /\ UpToDate(j) => tip'[j.repo][j.env] = Upper(j)
         /\ ~UpToDate(j) => tip'[j.repo][j.env] = Replay(NewBase(j), Replayed(j))
<1>1. j \in JobSet /\ Has(j.repo, j.env) /\ Has(j.repo, j.pred)
  BY HeadParts
<1>2. /\ j.repo \in RepoSet /\ j.env \in Envs /\ j.env \in Branches /\ j.pred \in Branches
      /\ Upper(j) \in Commit /\ NewBase(j) \in Commit /\ Replayed(j) \in Commit /\ j.boundary \in Commit
  BY <1>1, JobParts
<1>3. reflog[j.repo][j.pred] \subseteq Commit
  BY <1>2 DEF Typed
<1>4. ASSUME Skip(j)
      PROVE  UpToDate(j) /\ IsAncestor(NewBase(j), Upper(j)) /\ tip'[j.repo][j.env] = Upper(j)
  BY <1>4 DEF Skip, UpToDate, repos, Upper
<1>5. ASSUME Rebased(j)
      PROVE  /\ ~UpToDate(j) /\ tip'[j.repo][j.env] = Replay(NewBase(j), Replayed(j))
             /\ IsAncestor(NewBase(j), Replay(NewBase(j), Replayed(j)))
  <2>1. ~UpToDate(j) /\ Point(j.repo, j.env, Replay(NewBase(j), Replayed(j)))
    BY <1>5 DEF Rebased
  <2>2. tip' = [tip EXCEPT ![j.repo][j.env] = Replay(NewBase(j), Replayed(j))]
    BY <2>1 DEF Point
  <2>3. tip'[j.repo][j.env] = Replay(NewBase(j), Replayed(j))
    BY <1>2, <2>2 DEF Typed
  <2>4. QED
    BY <1>2, <2>1, <2>3, ReplayParts
<1>6. QED
  BY <1>1, <1>2, <1>3, <1>4, <1>5

\* And nothing that a user rewrote comes back with it.
LEMMA StaysCurrent ==
  ASSUME Typed, Present, NEW rank, OwnInv(rank), PlanHolds,
         jobs # <<>>, NEW j, j = Head(jobs), Skip(j) \/ Rebased(j),
         StoodOnPredecessor(j), ~j.cut, cmd # None, Current(j.repo, NewBase(j))
  PROVE  Current(j.repo, tip'[j.repo][j.env])
<1>1. /\ j \in JobSet /\ j.repo \in RepoSet /\ j.env \in Envs /\ j.env \in Branches
      /\ Has(j.repo, j.env) /\ Has(j.repo, j.pred)
      /\ reflog[j.repo][j.pred] \subseteq Commit
      /\ Replayed(j) \in Commit /\ j.boundary \in Commit
      /\ UpToDate(j) => tip'[j.repo][j.env] = Upper(j)
      /\ ~UpToDate(j) => tip'[j.repo][j.env] = Replay(NewBase(j), Replayed(j))
  BY EndsOnPredecessor
<1>2. PICK up, base \in Commit : up = Upper(j) /\ base = NewBase(j)
  BY EndsOnPredecessor
<1>3. PICK c \in Commit :
        /\ c \in reflog[j.repo][j.pred] /\ IsAncestor(c, up)
        /\ c = base \/ ~IsAncestor(base, c)
        /\ \A i \in Len(c) + 1 .. Len(up) : up[i].by \in {j.env, Main}
  BY <1>1, <1>2 DEF StoodOnPredecessor
<1>4. Len(c) \in Nat /\ Len(up) \in Nat /\ Len(base) \in Nat
  BY DEF Commit
<1>5. ASSUME NEW i \in 1..Len(up), i > Len(c) PROVE ~Superseded(j.repo, up[i])
  <2>1. i \in Len(c) + 1 .. Len(up)
    BY <1>4, <1>5
  <2>2. up[i] \in Range(up) /\ up = tip[j.repo][j.env]
    BY <1>2, CommitRange DEF Upper
  <2>3. up[i].by \in {j.env, Main}
    BY <1>3, <2>1
  <2>4. PICK p \in Range(tip[j.repo][j.env]) : p = up[i] /\ p.by \in {j.env, Main}
    BY <2>2, <2>3
  <2>5. QED
    BY <1>1, <2>4, OwnNotSuperseded
<1>6. \A p \in Range(base) : ~Superseded(j.repo, p)
  BY <1>2 DEF Current
<1>7. UpToDate(j) <=> IsAncestor(base, up)
  BY <1>2 DEF UpToDate
<1>8. CASE UpToDate(j)
  <2>1. IsAncestor(base, up)
    BY <1>7, <1>8
  <2>2. IsAncestor(c, base)
    BY <1>3, <2>1, AncestorOrder
  <2>3. Len(c) <= Len(base) /\ \A i \in 1..Len(base) : up[i] = base[i]
    BY <2>1, <2>2, AncestorParts
  <2>4. ASSUME NEW p \in Range(up) PROVE ~Superseded(j.repo, p)
    <3>1. PICK i \in 1..Len(up) : p = up[i]
      BY CommitRange
    <3>2. CASE i <= Len(base)
      <4>1. i \in 1..Len(base) /\ p = base[i]
        BY <1>4, <2>3, <3>1, <3>2
      <4>2. p \in Range(base)
        BY <4>1, CommitRange
      <4>3. QED
        BY <1>6, <4>2
    <3>3. CASE i > Len(base)
      BY <1>4, <1>5, <2>3, <3>1, <3>3
    <3>4. QED
      BY <1>4, <3>2, <3>3
  <2>5. QED
    BY <1>1, <1>2, <1>8, <2>4 DEF Current
<1>9. CASE ~UpToDate(j)
  <2>1. Bounded(cmd, j)
    BY HeadParts DEF PlanHolds
  <2>2. IsAncestor(j.boundary, up) /\ (IsAncestor(c, j.boundary) \/ c = base)
    BY <1>2, <1>3, <2>1 DEF Bounded
  <2>3. c # base
    BY <1>3, <1>7, <1>9
  <2>4. IsAncestor(c, j.boundary) /\ Common(j.boundary, up) = j.boundary
    BY <1>1, <2>2, <2>3, CommonAncestor
  <2>5. PICK n \in 0..Len(up) : n = Len(j.boundary) /\ Len(c) <= n
    <3>1. Len(j.boundary) \in Nat /\ Len(j.boundary) <= Len(up) /\ Len(c) <= Len(j.boundary)
      BY <1>1, <2>2, <2>4, AncestorParts DEF Commit
    <3>2. QED
      BY <1>4, <3>1
  <2>6. PICK s \in Commit : s = SubSeq(up, n + 1, Len(up)) /\ Len(s) = Len(up) - n
                            /\ \A i \in 1..Len(up) - n : s[i] = up[n + i]
    <3>1. /\ SubSeq(up, n + 1, Len(up)) \in Commit
          /\ Len(SubSeq(up, n + 1, Len(up))) = Len(up) - n
          /\ \A i \in 1..Len(up) - n : SubSeq(up, n + 1, Len(up))[i] = up[n + i]
      BY CommitSplit
    <3>2. QED
      BY <3>1
  <2>7. s = Replayed(j)
    BY <1>2, <2>4, <2>5, <2>6 DEF Replayed
  <2>8. ASSUME NEW p \in Range(s) PROVE ~Superseded(j.repo, p)
    <3>1. PICK i \in 1..Len(s) : p = s[i]
      BY CommitRange
    <3>2. n + i \in 1..Len(up) /\ n + i > Len(c) /\ p = up[n + i]
      <4>1. Len(s) = Len(up) - n /\ i \in 1..Len(up) - n
        BY <2>6, <3>1
      <4>2. p = up[n + i]
        BY <2>6, <3>1, <4>1
      <4>3. n \in Nat /\ i \in Nat /\ n + i \in 1..Len(up) /\ n + i > Len(c)
        BY <1>4, <2>5, <4>1
      <4>4. QED
        BY <4>2, <4>3
    <3>3. QED
      BY <1>5, <3>2
  <2>9. PICK x \in Commit : x = Replay(base, s) /\ Range(x) = Range(base) \union Range(s)
    BY ReplayType, ReplayRange
  <2>10. x = tip'[j.repo][j.env]
    BY <1>1, <1>2, <1>9, <2>7, <2>9
  <2>11. QED
    BY <1>6, <2>8, <2>9, <2>10 DEF Current
<1>10. QED
  BY <1>8, <1>9

\* Restack's invariant, of whatever branches there are.
RestackInv ==
  /\ Typed /\ Present /\ Unrepeated /\ JobsApart /\ PlanHolds
  /\ \E rank \in [Branches -> Nat] : InOrder(rank) /\ OwnInv(rank)

\* It is an invariant.
LEMMA RestackInvHolds == ASSUME CommandsInOrder PROVE Spec => []RestackInv
<1>1. Init => RestackInv
  <2> SUFFICES ASSUME Init PROVE RestackInv
    OBVIOUS
  <2>1. cmd = None /\ jobs = <<>>
    BY DEF Init
  <2>2. JobsApart /\ PlanHolds
    BY <2>1, NoJobs DEF JobsApart, PlanHolds
  <2>3. QED
    BY <2>2, TypedInit, OwnInit, UnrepeatedInit DEF RestackInv
<1>2. RestackInv /\ [Next]_vars => RestackInv'
  <2> SUFFICES ASSUME RestackInv, [Next]_vars,
                      NEW rank \in [Branches -> Nat], InOrder(rank), OwnInv(rank)
               PROVE  RestackInv'
    BY DEF RestackInv
  <2>1. Typed' /\ Present'
    BY TypedNext DEF RestackInv
  <2>2. OwnInv(rank)'
    BY OwnNext DEF RestackInv
  <2>3. Unrepeated'
    BY UnrepeatedNext DEF RestackInv
  <2>4. JobsApart' /\ PlanHolds'
    BY PlanNext DEF RestackInv
  <2>5. InOrder(rank)'
    BY DEF InOrder, RepeatedElement, Links, Predecessor, Env
  <2>6. QED
    BY <2>1, <2>2, <2>3, <2>4, <2>5 DEF RestackInv
<1>3. QED
  BY <1>1, <1>2, PTL DEF Spec

\* "Only the env's own commits replay".
THEOREM RestackStandsOnPredecessor == ASSUME CommandsInOrder PROVE Spec => StandsOnPredecessor
<1>1. ASSUME RestackInv, jobs # <<>>, NEW j, j = Head(jobs), Skip(j) \/ Rebased(j)
      PROVE  /\ IsAncestor(NewBase(j), tip'[j.repo][j.env])
             /\ StoodOnPredecessor(j) /\ ~j.cut /\ cmd # None /\ Current(j.repo, NewBase(j))
                  => Current(j.repo, tip'[j.repo][j.env])
  <2>1. PICK rank : OwnInv(rank)
    BY <1>1 DEF RestackInv
  <2>2. IsAncestor(NewBase(j), tip'[j.repo][j.env])
    BY <1>1, EndsOnPredecessor DEF RestackInv
  <2>3. StoodOnPredecessor(j) /\ ~j.cut /\ cmd # None /\ Current(j.repo, NewBase(j))
          => Current(j.repo, tip'[j.repo][j.env])
    BY <1>1, <2>1, StaysCurrent DEF RestackInv
  <2>4. QED
    BY <2>2, <2>3
<1>2. RestackInv /\ [Next]_vars =>
        [jobs # <<>> =>
           LET j == Head(jobs) IN
           Skip(j) \/ Rebased(j) =>
             /\ IsAncestor(NewBase(j), tip'[j.repo][j.env])
             /\ StoodOnPredecessor(j) /\ ~j.cut /\ cmd # None /\ Current(j.repo, NewBase(j))
                  => Current(j.repo, tip'[j.repo][j.env])]_vars
  BY <1>1
<1>3. Spec => []RestackInv
  BY RestackInvHolds
<1>4. QED
  BY <1>2, <1>3, PTL DEF Spec, StandsOnPredecessor

-----------------------------------------------------------------------------
(***************************************************************************)
(* What a finished link leaves.                                            *)
(***************************************************************************)

\* Commit x would do for the env of link i.
Fits(c, i, r, x) ==
  /\ IsAncestor(tip[r][Predecessor(c, i)], x)
  /\ AtCut(c, i) /\ Has(r, c.cut) /\ IsAncestor(tip[r][c.cut], x)
       => IsAncestor(tip[r][c.cut], tip[r][c.base])

\* Where a rebase that git stopped in ends.
StopsAt(r, e) == Replay(rebasing[r][e].onto, rebasing[r][e].todo)

\* Link i is finished in repository r.
Done(r, c, i) == <<r, Env(c, i)>> \in done

\* So is the link below it, where there is one.
LowerDone(c, i, r) == i + 1 \in Links(c) /\ r \in Participating(c, i + 1) => Done(r, c, i + 1)

\* What a link finished fits, and so does what its rebase would end as; either
\* has the link below finished.
LinkHolds(c, i, r) ==
  /\ Done(r, c, i) => Fits(c, i, r, tip[r][Env(c, i)]) /\ LowerDone(c, i, r)
  /\ jobs # <<>> => Done(r, c, i) \/ Waits(jobs, r, Env(c, i))
  /\ rebasing[r][Env(c, i)] # None =>
       /\ jobs = <<>> /\ Fits(c, i, r, StopsAt(r, Env(c, i))) /\ LowerDone(c, i, r)
       /\ Done(r, c, i) => StopsAt(r, Env(c, i)) = tip[r][Env(c, i)]

\* What the last command finished, while no branch moves otherwise.
DoneHolds ==
  /\ cmd = None => \A k \in 1..Len(jobs) : <<jobs[k].repo, jobs[k].env>> \notin done
  /\ cmd # None => \A i \in Links(cmd) : \A r \in Participating(cmd, i) : LinkHolds(cmd, i, r)

\* A sequence that starts alike goes on alike.
LEMMA SameRest ==
  \A d, s, u \in Commit : d \o s = d \o u => s = u
<1> SUFFICES ASSUME NEW d \in Commit, NEW s \in Commit, NEW u \in Commit, d \o s = d \o u
             PROVE  s = u
  OBVIOUS
<1>1. Len(d) \in Nat /\ Len(s) \in Nat /\ Len(u) \in Nat
  BY DEF Commit
<1>2. /\ Len(d \o s) = Len(d) + Len(s) /\ Len(d \o u) = Len(d) + Len(u)
      /\ \A i \in 1..Len(s) : (d \o s)[Len(d) + i] = s[i]
      /\ \A i \in 1..Len(u) : (d \o u)[Len(d) + i] = u[i]
  BY DEF Commit
<1>3. PICK x : x = d \o s /\ x = d \o u
  OBVIOUS
<1>4. Len(s) = Len(u)
  BY <1>1, <1>2, <1>3
<1>5. \A i \in 1..Len(s) : s[i] = u[i]
  <2> SUFFICES ASSUME NEW i \in 1..Len(s) PROVE s[i] = u[i]
    OBVIOUS
  <2>1. x[Len(d) + i] = s[i]
    BY <1>2, <1>3
  <2>2. x[Len(d) + i] = u[i]
    BY <1>2, <1>3, <1>4
  <2>3. QED
    BY <2>1, <2>2
<1>6. QED
  BY <1>4, <1>5, SameSequence DEF Commit

\* A prefix is the first part.
LEMMA AncestorSplit ==
  \A c, d \in Commit : IsAncestor(c, d) =>
    \E rest \in Commit : rest = SubSeq(d, Len(c) + 1, Len(d)) /\ d = c \o rest
<1> SUFFICES ASSUME NEW c \in Commit, NEW d \in Commit, IsAncestor(c, d)
             PROVE  \E rest \in Commit : rest = SubSeq(d, Len(c) + 1, Len(d)) /\ d = c \o rest
  OBVIOUS
<1>1. Len(c) <= Len(d) /\ (\A i \in 1..Len(c) : c[i] = d[i]) /\ Len(c) \in Nat /\ Len(d) \in Nat
  BY AncestorParts DEF Commit
<1>2. PICK n \in 0..Len(d) : n = Len(c)
  BY <1>1
<1>3. /\ SubSeq(d, 1, n) \in Commit /\ SubSeq(d, n + 1, Len(d)) \in Commit
      /\ d = SubSeq(d, 1, n) \o SubSeq(d, n + 1, Len(d))
      /\ Len(SubSeq(d, 1, n)) = n /\ \A i \in 1..n : SubSeq(d, 1, n)[i] = d[i]
  BY CommitSplit
<1>4. PICK a, b \in Commit : /\ a = SubSeq(d, 1, n) /\ b = SubSeq(d, n + 1, Len(d)) /\ d = a \o b
                             /\ Len(a) = n /\ \A i \in 1..n : a[i] = d[i]
  BY <1>3
<1>5. a = c
  BY <1>1, <1>2, <1>4, SameSequence, ZenonT(40) DEF Commit
<1>6. QED
  BY <1>2, <1>4, <1>5

\* A rebase onto what the branch stands on already, from below that, changes
\* nothing.
LEMMA ReplayAgain ==
  ASSUME NEW d \in Commit, NEW b \in Commit, NEW up \in Commit, NEW s \in Commit,
         IsAncestor(d, b), IsAncestor(b, up), Injective(up),
         s = SubSeq(up, Len(d) + 1, Len(up))
  PROVE  Replay(b, s) = up
<1>1. PICK m \in Commit : b = d \o m
  BY AncestorSplit
<1>2. PICK z \in Commit : z = SubSeq(up, Len(b) + 1, Len(up)) /\ up = b \o z
  BY AncestorSplit
<1>3. IsAncestor(d, up)
  BY AncestorOrder
<1>4. up = d \o s
  BY <1>3, AncestorSplit
<1>5. m \o z \in Commit /\ (d \o m) \o z = d \o (m \o z)
  BY SMTT(30) DEF Commit
<1>6. s = m \o z
  <2>1. d \o s = d \o (m \o z)
    BY <1>1, <1>2, <1>4, <1>5
  <2>2. QED
    BY <1>5, <2>1, SameRest
<1> DEFINE W == Patch \ Range(b)
<1>7. Only(m, W) = <<>>
  <2>1. Range(m) \subseteq Range(b)
    BY <1>1, CommitConcat
  <2>2. \A i \in 1..Len(m) : m[i] \notin W
    BY <2>1, CommitRange
  <2> HIDE DEF W
  <2>3. QED
    BY <2>2, OnlyNone DEF Commit
<1>8. Only(z, W) = z
  <2>1. PICK n \in 0..Len(up) : n = Len(b)
    BY AncestorParts DEF Commit
  <2>2. Range(SubSeq(up, 1, n)) \cap Range(SubSeq(up, n + 1, Len(up))) = {}
    BY InjectiveParts
  <2>3. SubSeq(up, 1, n) = b
    <3>1. /\ SubSeq(up, 1, n) \in Commit
          /\ Len(SubSeq(up, 1, n)) = n /\ \A i \in 1..n : SubSeq(up, 1, n)[i] = up[i]
      BY CommitSplit
    <3>2. PICK a \in Commit : a = SubSeq(up, 1, n) /\ Len(a) = n /\ \A i \in 1..n : a[i] = up[i]
      BY <3>1
    <3>3. \A i \in 1..n : b[i] = up[i]
      BY <2>1, AncestorParts
    <3>4. a = b
      BY <2>1, <3>2, <3>3, SameSequence DEF Commit
    <3>5. QED
      BY <3>2, <3>4
  <2>4. Range(b) \cap Range(z) = {}
    BY <1>2, <2>1, <2>2, <2>3
  <2>5. \A i \in 1..Len(z) : z[i] \in W
    BY <2>4, CommitRange
  <2> HIDE DEF W
  <2>6. QED
    BY <2>5, OnlyAll DEF Commit
<1>9. Only(s, W) = z
  <2> HIDE DEF W
  <2>1. Only(m \o z, W) = Only(m, W) \o Only(z, W)
    BY CommitConcat
  <2>2. <<>> \o z = z
    BY DEF Commit
  <2>3. QED
    BY <1>6, <1>7, <1>8, <2>1, <2>2
<1>10. QED
  BY <1>2, <1>9 DEF Replay

\* A rebase that has the old boundary below its end has it from the new base.
LEMMA ReplayPastCut ==
  ASSUME NEW d \in Commit, NEW b \in Commit, NEW up \in Commit, NEW s \in Commit,
         IsAncestor(d, up), Injective(up),
         s = SubSeq(up, Len(d) + 1, Len(up)),
         IsAncestor(d, Replay(b, s))
  PROVE  IsAncestor(d, b)
<1>1. PICK x \in Commit : x = Replay(b, s)
  BY ReplayType
<1>2. IsAncestor(b, x) /\ \A i \in Len(b) + 1 .. Len(x) : x[i] \in Range(s) \ Range(b)
  BY <1>1, ReplayParts
<1>3. Len(b) \in Nat /\ Len(x) \in Nat /\ Len(d) \in Nat /\ Len(up) \in Nat
  BY DEF Commit
<1>4. Len(d) <= Len(x) /\ (\A i \in 1..Len(d) : d[i] = x[i]) /\ Len(b) <= Len(x) /\ \A i \in 1..Len(b) : b[i] = x[i]
  BY <1>1, <1>2, AncestorParts
<1>5. Len(d) <= Len(up) /\ \A i \in 1..Len(d) : d[i] = up[i]
  BY AncestorParts
<1>6. CASE Len(d) <= Len(b)
  BY <1>3, <1>4, <1>6, AncestorParts
<1>7. CASE Len(d) > Len(b)
  <2>1. PICK k \in 1..Len(d) : k = Len(b) + 1 /\ k \in Len(b) + 1 .. Len(x) /\ k \in 1..Len(up)
    <3>1. Len(d) <= Len(x) /\ Len(d) <= Len(up)
      BY <1>4, <1>5
    <3>2. Len(b) + 1 \in 1..Len(d) /\ Len(b) + 1 \in Len(b) + 1 .. Len(x) /\ Len(b) + 1 \in 1..Len(up)
      BY <1>3, <1>7, <3>1
    <3>3. QED
      BY <3>2
  <2>2. up[k] \in Range(s)
    BY <1>2, <1>4, <1>5, <2>1
  <2>3. PICK i \in 1..Len(s) : up[k] = s[i]
    BY <2>2, CommitRange
  <2>4. PICK n \in 0..Len(up) : n = Len(d)
    BY <1>3, <1>5
  <2>5. Len(SubSeq(up, n + 1, Len(up))) = Len(up) - n
        /\ \A l \in 1..Len(up) - n : SubSeq(up, n + 1, Len(up))[l] = up[n + l]
    BY CommitSplit
  <2>6. i \in 1..Len(up) - n /\ s[i] = up[n + i]
    BY <2>3, <2>4, <2>5
  <2>7. n + i \in 1..Len(up) /\ up[k] = up[n + i] /\ k <= n /\ i > 0
    BY <1>3, <2>1, <2>3, <2>4, <2>6
  <2>8. k = n + i
    BY <2>1, <2>7 DEF Injective
  <2>9. QED
    BY <1>3, <2>4, <2>7, <2>8
<1>8. QED
  BY <1>3, <1>6, <1>7

\* What a rebase of the plan makes of a branch fits its link, and it leaves
\* alone what does.
LEMMA EndFits ==
  ASSUME Typed, Present, Unrepeated, NEW c \in Commands, NEW i \in Links(c), NEW j \in JobSet,
         Has(j.repo, j.env), Has(j.repo, j.pred), OfLink(c, i, j), Bounded(c, j), ~UpToDate(j),
         NEW x, x = Replay(NewBase(j), Replayed(j))
  PROVE  /\ Fits(c, i, j.repo, x)
         /\ Fits(c, i, j.repo, Upper(j)) => x = Upper(j)
<1>1. PICK up, b, s, d \in Commit :
        /\ up = Upper(j) /\ b = NewBase(j) /\ s = Replayed(j) /\ d = j.boundary /\ Injective(up)
  BY ReplayedParts DEF JobSet
<1>2. s = SubSeq(up, Len(Common(d, up)) + 1, Len(up))
  BY <1>1 DEF Replayed
<1>3. tip[j.repo][Predecessor(c, i)] = b
  BY <1>1 DEF OfLink, NewBase
<1>4. IsAncestor(b, x)
  BY <1>1, ReplayParts
<1>5. ASSUME AtCut(c, i)
      PROVE  j.cut /\ Predecessor(c, i) = c.base /\ tip[j.repo][c.base] = b
             /\ Has(j.repo, c.cut) /\ tip[j.repo][c.cut] = d /\ IsAncestor(d, up)
             /\ s = SubSeq(up, Len(d) + 1, Len(up))
  <2>1. j.cut
    BY <1>5 DEF OfLink
  <2>2. Len(c.chain) \in Nat /\ i = Len(c.chain)
    BY <1>5, CommandParts DEF AtCut
  <2>3. Predecessor(c, i) = c.base
    BY <2>2 DEF Predecessor
  <2>4. Has(j.repo, c.cut) /\ tip[j.repo][c.cut] = d /\ (IsAncestor(d, up) \/ IsAncestor(b, up))
    BY <1>1, <2>1 DEF Bounded
  <2>5. IsAncestor(d, up)
    BY <1>1, <2>4 DEF UpToDate
  <2>6. Common(d, up) = d
    BY <2>5, CommonAncestor
  <2>7. QED
    BY <1>2, <1>3, <2>1, <2>3, <2>4, <2>5, <2>6
<1>6. ASSUME AtCut(c, i), IsAncestor(tip[j.repo][c.cut], x)
      PROVE  IsAncestor(tip[j.repo][c.cut], tip[j.repo][c.base])
  <2>1. IsAncestor(d, up) /\ s = SubSeq(up, Len(d) + 1, Len(up)) /\ IsAncestor(d, Replay(b, s))
    BY <1>1, <1>5, <1>6
  <2>2. IsAncestor(d, b)
    BY <1>1, <2>1, ReplayPastCut
  <2>3. QED
    BY <1>5, <1>6, <2>2
<1>7. Fits(c, i, j.repo, x)
  BY <1>3, <1>4, <1>6 DEF Fits
<1>8. ASSUME Fits(c, i, j.repo, up) PROVE x = up
  <2>1. IsAncestor(b, up)
    BY <1>3, <1>8 DEF Fits
  <2>2. j.cut
    BY <1>1, <2>1 DEF UpToDate
  <2>3. AtCut(c, i)
    BY <2>2 DEF OfLink
  <2>4. IsAncestor(d, b) /\ s = SubSeq(up, Len(d) + 1, Len(up))
    BY <1>5, <1>8, <2>3 DEF Fits
  <2>5. Replay(b, s) = up
    BY <1>1, <2>1, <2>4, ReplayAgain
  <2>6. QED
    BY <1>1, <2>5
<1>9. QED
  BY <1>1, <1>7, <1>8

\* So does a branch that needs no rebase.
LEMMA UpToDateFits ==
  ASSUME NEW c \in Commands, NEW i \in Links(c), NEW j, OfLink(c, i, j), Bounded(c, j), UpToDate(j)
  PROVE  Fits(c, i, j.repo, Upper(j))
<1>1. IsAncestor(tip[j.repo][Predecessor(c, i)], Upper(j))
  BY DEF UpToDate, OfLink, NewBase
<1>2. ASSUME AtCut(c, i) PROVE ~IsAncestor(tip[j.repo][c.cut], Upper(j))
  BY <1>2 DEF UpToDate, OfLink, Bounded
<1>3. QED
  BY <1>1, <1>2 DEF Fits

\* A link fits as it did when the branch of another one moves that is not the
\* one below it.
LEMMA FitsStays ==
  ASSUME NEW c \in Commands, Apart(c), NEW i \in Links(c), NEW m \in Links(c),
         NEW r \in RepoSet, NEW q \in RepoSet,
         \A p \in RepoSet, d \in Branches : p # r \/ d # Env(c, m) => tip'[p][d] = tip[p][d],
         q = r /\ i + 1 = m => tip'[r][Env(c, m)] = tip[r][Env(c, m)],
         NEW x, Fits(c, i, q, x)
  PROVE  Fits(c, i, q, x)'
<1>1. Links(c) = 1..Len(c.chain) /\ Len(c.chain) \in Nat /\ c.base \in Branches
      /\ c.cut \in Branches \union {None} /\ Predecessor(c, i) \in Branches
  BY CommandParts
<1>2. tip'[q][Predecessor(c, i)] = tip[q][Predecessor(c, i)]
  <2>1. CASE i < Len(c.chain)
    <3>1. PICK k \in Links(c) : k = i + 1
      BY <1>1, <2>1
    <3>2. Predecessor(c, i) = Env(c, k)
      BY <2>1, <3>1 DEF Predecessor, Env
    <3>3. k # m => Env(c, k) # Env(c, m)
      BY DEF Apart
    <3>4. QED
      BY <1>1, <3>1, <3>2, <3>3
  <2>2. CASE ~(i < Len(c.chain))
    <3>1. Predecessor(c, i) = c.base /\ c.base # Env(c, m)
      BY <2>2 DEF Predecessor, Apart
    <3>2. QED
      BY <1>1, <3>1
  <2>3. QED
    BY <2>1, <2>2
<1>3. ASSUME AtCut(c, i)
      PROVE  tip'[q][c.cut] = tip[q][c.cut] /\ tip'[q][c.base] = tip[q][c.base]
  <2>1. c.cut \in Branches /\ c.cut # Env(c, m) /\ c.base # Env(c, m)
    BY <1>1, <1>3 DEF AtCut, Apart
  <2>2. QED
    BY <1>1, <2>1
<1>4. QED
  BY <1>2, <1>3 DEF Fits, Has, AtCut

\* The link of the job at hand, and that nothing below it is left to do.
LEMMA HeadLink ==
  ASSUME Typed, Present, jobs # <<>>, NEW c \in Commands, c = cmd, PlanHolds, DoneHolds,
         NEW j, j = Head(jobs)
  PROVE  \E m \in Links(c) :
           /\ OfLink(c, m, j) /\ j.repo \in Participating(c, m) /\ j.repo \in RepoSet
           /\ j.env = Env(c, m) /\ LowerDone(c, m, j.repo)
<1>1. j \in JobSet /\ j = jobs[1] /\ 1 \in 1..Len(jobs) /\ Has(j.repo, j.env) /\ Has(j.repo, j.pred)
  BY HeadParts
<1>2. c # None /\ Apart(c) /\ Baseward(c, jobs)
  BY RestackAssumption DEF PlanHolds
<1>3. PICK m \in Links(c) : OfLink(c, m, j)
  BY <1>1, <1>2 DEF Baseward
<1>4. j.repo \in RepoSet /\ j.env = Env(c, m) /\ j.pred = Predecessor(c, m)
  BY <1>1, <1>3 DEF OfLink, JobSet
<1>5. j.repo \in Participating(c, m)
  BY <1>1, <1>4 DEF Participating
<1>6. ASSUME m + 1 \in Links(c), j.repo \in Participating(c, m + 1) PROVE Done(j.repo, c, m + 1)
  <2>1. LinkHolds(c, m + 1, j.repo)
    BY <1>2, <1>6 DEF DoneHolds
  <2>2. ASSUME Waits(jobs, j.repo, Env(c, m + 1)) PROVE FALSE
    <3>1. PICK k \in 1..Len(jobs) : jobs[k].repo = j.repo /\ jobs[k].env = Env(c, m + 1)
      BY <2>2 DEF Waits
    <3>2. m \in Nat /\ m + 1 # m
      BY CommandParts
    <3>3. k # 1
      BY <1>1, <1>2, <1>4, <1>6, <3>1, <3>2 DEF Apart
    <3>4. PICK n \in Links(c) : OfLink(c, n, jobs[k])
      BY <1>2 DEF Baseward
    <3>5. n = m + 1
      BY <1>2, <1>6, <3>1, <3>4 DEF OfLink, Apart
    <3>6. 1 < k /\ OfLink(c, m, jobs[1])
      BY <1>1, <1>3, <3>3
    <3>7. n <= m
      BY <1>1, <1>2, <3>4, <3>6 DEF Baseward
    <3>8. QED
      BY <3>2, <3>5, <3>7
  <2>3. QED
    BY <2>1, <2>2 DEF LinkHolds
<1>7. QED
  BY <1>3, <1>4, <1>5, <1>6 DEF LowerDone

\* A link is finished: its branch has moved, or not, to a commit that fits, and
\* that it was at if it was finished before.
LEMMA DoneMove ==
  ASSUME Typed, Present, NEW c \in Commands, c = cmd, cmd' = cmd, Apart(c), DoneHolds,
         NEW m \in Links(c), NEW r \in Participating(c, m), r \in RepoSet, NEW x,
         \A q \in RepoSet, d \in Branches : tip'[q][d] # None <=> tip[q][d] # None,
         \A q \in RepoSet, d \in Branches : q # r \/ d # Env(c, m) => tip'[q][d] = tip[q][d],
         tip'[r][Env(c, m)] = x,
         Fits(c, m, r, x), LowerDone(c, m, r), Done(r, c, m) => x = tip[r][Env(c, m)],
         done' = done \union {<<r, Env(c, m)>>},
         \A q, e : Waits(jobs, q, e) => Waits(jobs', q, e) \/ (q = r /\ e = Env(c, m)),
         jobs' # <<>> => jobs # <<>>,
         \A q \in RepoSet, e \in Envs : rebasing'[q][e] \in {rebasing[q][e], None},
         jobs = <<>> => jobs' = <<>> /\ rebasing'[r][Env(c, m)] = None
  PROVE  DoneHolds'
<1>0. c # None
  BY RestackAssumption
<1>1. \A i \in Links(c) : Participating(c, i)' = Participating(c, i)
  <2> SUFFICES ASSUME NEW i \in Links(c) PROVE Participating(c, i)' = Participating(c, i)
    OBVIOUS
  <2>1. Env(c, i) \in Branches /\ Predecessor(c, i) \in Branches
    BY CommandParts DEF Branches
  <2>2. QED
    BY <2>1 DEF Participating, Has
<1>2. ASSUME NEW i \in Links(c), NEW q \in Participating(c, i)
      PROVE  LinkHolds(c, i, q)'
  <2>1. LinkHolds(c, i, q) /\ q \in RepoSet /\ Env(c, i) \in Envs /\ Env(c, i) \in Branches
    BY <1>0, CommandParts, ParticipatingParts DEF DoneHolds, Branches
  <2>2. Links(c) = 1..Len(c.chain) /\ Len(c.chain) \in Nat
    BY CommandParts
  <2>3. LowerDone(c, i, q) => LowerDone(c, i, q)'
    BY <1>1 DEF LowerDone, Done
  <2>4. ASSUME LowerDone(c, i, q), q = r, i + 1 = m PROVE x = tip[r][Env(c, m)]
    BY <2>4 DEF LowerDone
  <2>5. ASSUME NEW y, Fits(c, i, q, y), LowerDone(c, i, q) PROVE Fits(c, i, q, y)'
    BY <2>1, <2>4, <2>5, FitsStays
  <2>6. Done(q, c, i)' => Done(q, c, i) \/ (q = r /\ i = m)
    BY DEF Done, Apart
  <2>7. ASSUME Done(q, c, i)'
        PROVE  Fits(c, i, q, tip[q][Env(c, i)])' /\ LowerDone(c, i, q)'
    <3>1. CASE q = r /\ i = m
      <4>1. PICK y : y = x
        OBVIOUS
      <4>2. Fits(c, i, q, y)' /\ LowerDone(c, i, q)'
        BY <2>3, <2>5, <3>1, <4>1
      <4>3. QED
        BY <3>1, <4>1, <4>2
    <3>2. CASE ~(q = r /\ i = m)
      <4>1. Done(q, c, i)
        BY <2>6, <2>7, <3>2
      <4>2. tip'[q][Env(c, i)] = tip[q][Env(c, i)]
        BY <2>1, <3>2 DEF Apart
      <4>3. PICK y : y = tip[q][Env(c, i)]
        OBVIOUS
      <4>4. Fits(c, i, q, y) /\ LowerDone(c, i, q)
        BY <2>1, <4>1, <4>3 DEF LinkHolds
      <4>5. Fits(c, i, q, y)' /\ LowerDone(c, i, q)'
        BY <2>3, <2>5, <4>4
      <4>6. QED
        BY <4>2, <4>3, <4>5
    <3>3. QED
      BY <3>1, <3>2
  <2>8. jobs' # <<>> => Done(q, c, i)' \/ Waits(jobs', q, Env(c, i))
    BY <2>1 DEF LinkHolds, Done
  <2>9. ASSUME rebasing'[q][Env(c, i)] # None
        PROVE  /\ jobs' = <<>> /\ Fits(c, i, q, StopsAt(q, Env(c, i)))' /\ LowerDone(c, i, q)'
               /\ Done(q, c, i)' => StopsAt(q, Env(c, i))' = tip'[q][Env(c, i)]
    <3>1. rebasing'[q][Env(c, i)] = rebasing[q][Env(c, i)] /\ rebasing[q][Env(c, i)] # None
      BY <2>1, <2>9
    <3>2. PICK end : end = StopsAt(q, Env(c, i))
      OBVIOUS
    <3>3. StopsAt(q, Env(c, i))' = end
      BY <3>1, <3>2 DEF StopsAt
    <3>4. /\ jobs = <<>> /\ Fits(c, i, q, end) /\ LowerDone(c, i, q)
          /\ Done(q, c, i) => end = tip[q][Env(c, i)]
      BY <2>1, <3>1, <3>2 DEF LinkHolds
    <3>5. ~(q = r /\ i = m)
      BY <2>9, <3>4
    <3>6. tip'[q][Env(c, i)] = tip[q][Env(c, i)]
      BY <2>1, <3>5 DEF Apart
    <3>7. Fits(c, i, q, end)' /\ LowerDone(c, i, q)'
      BY <2>3, <2>5, <3>4
    <3>8. Done(q, c, i)' => end = tip'[q][Env(c, i)]
      BY <2>6, <3>4, <3>5, <3>6
    <3>9. QED
      BY <3>3, <3>4, <3>7, <3>8
  <2>10. QED
    BY <2>7, <2>8, <2>9 DEF LinkHolds
<1>3. QED
  BY <1>0, <1>1, <1>2 DEF DoneHolds

\* No branch moves and no link is finished; at most a rebase stops, where it
\* ends in a commit that fits.
LEMMA DoneStays ==
  ASSUME Typed, NEW c \in Commands, c = cmd, UNCHANGED <<tip, done, cmd>>, DoneHolds,
         jobs' \in {jobs, <<>>},
         \A i \in Links(c) : \A q \in Participating(c, i) : rebasing'[q][Env(c, i)] # None =>
           \/ rebasing'[q][Env(c, i)] = rebasing[q][Env(c, i)]
           \/ /\ jobs' = <<>> /\ LowerDone(c, i, q)
              /\ \E x : /\ StopsAt(q, Env(c, i))' = x /\ Fits(c, i, q, x)
                        /\ Done(q, c, i) => x = tip[q][Env(c, i)]
  PROVE  DoneHolds'
<1>0. c # None
  BY RestackAssumption
<1>1. \A i \in Links(c) : Participating(c, i)' = Participating(c, i)
  BY DEF Participating, Has
<1>2. ASSUME NEW i \in Links(c), NEW q \in Participating(c, i)
      PROVE  LinkHolds(c, i, q)'
  <2>1. LinkHolds(c, i, q)
    BY <1>0 DEF DoneHolds
  <2>2. LowerDone(c, i, q)' <=> LowerDone(c, i, q)
    BY <1>1 DEF LowerDone, Done
  <2>3. ASSUME NEW y PROVE Fits(c, i, q, y)' <=> Fits(c, i, q, y)
    BY DEF Fits, Has
  <2>4. Done(q, c, i)' <=> Done(q, c, i)
    BY DEF Done
  <2>5. Done(q, c, i)' => Fits(c, i, q, tip[q][Env(c, i)])' /\ LowerDone(c, i, q)'
    <3>1. PICK y : y = tip[q][Env(c, i)]
      OBVIOUS
    <3>2. Done(q, c, i) => Fits(c, i, q, y) /\ LowerDone(c, i, q)
      BY <2>1, <3>1 DEF LinkHolds
    <3>3. Done(q, c, i)' => Fits(c, i, q, y)' /\ LowerDone(c, i, q)'
      BY <2>2, <2>3, <2>4, <3>2
    <3>4. tip'[q][Env(c, i)] = y
      BY <3>1
    <3>5. QED
      BY <3>3, <3>4
  <2>6. jobs' # <<>> => Done(q, c, i)' \/ Waits(jobs', q, Env(c, i))
    BY <2>1, <2>4 DEF LinkHolds
  <2>7. ASSUME rebasing'[q][Env(c, i)] # None
        PROVE  /\ jobs' = <<>> /\ Fits(c, i, q, StopsAt(q, Env(c, i)))' /\ LowerDone(c, i, q)'
               /\ Done(q, c, i)' => StopsAt(q, Env(c, i))' = tip'[q][Env(c, i)]
    <3>1. CASE rebasing'[q][Env(c, i)] = rebasing[q][Env(c, i)]
      <4>1. PICK end : end = StopsAt(q, Env(c, i))
        OBVIOUS
      <4>2. StopsAt(q, Env(c, i))' = end
        BY <3>1, <4>1 DEF StopsAt
      <4>3. /\ jobs = <<>> /\ Fits(c, i, q, end) /\ LowerDone(c, i, q)
            /\ Done(q, c, i) => end = tip[q][Env(c, i)]
        BY <2>1, <2>7, <3>1, <4>1 DEF LinkHolds
      <4>4. Fits(c, i, q, end)' /\ jobs' = <<>>
        BY <2>3, <4>3
      <4>5. QED
        BY <2>2, <2>4, <4>2, <4>3, <4>4
    <3>2. CASE rebasing'[q][Env(c, i)] # rebasing[q][Env(c, i)]
      <4>1. PICK x : /\ jobs' = <<>> /\ LowerDone(c, i, q)
                     /\ StopsAt(q, Env(c, i))' = x /\ Fits(c, i, q, x)
                     /\ Done(q, c, i) => x = tip[q][Env(c, i)]
        BY <2>7, <3>2
      <4>2. Fits(c, i, q, x)'
        BY <2>3, <4>1
      <4>3. QED
        BY <2>2, <2>4, <4>1, <4>2
    <3>3. QED
      BY <3>1, <3>2
  <2>8. QED
    BY <2>5, <2>6, <2>7 DEF LinkHolds
<1>3. QED
  BY <1>0, <1>1, <1>2 DEF DoneHolds

\* The command runs again, or another one starts.
LEMMA DoneStart ==
  ASSUME Typed, NEW c \in Commands, Start(c), DoneHolds
  PROVE  DoneHolds'
<1>1. /\ ~Refused(c) /\ cmd' = c /\ jobs' = Jobs(c) /\ UNCHANGED <<tip, rebasing>>
      /\ done' = IF c = cmd THEN done ELSE {}
  BY DEF Start, repos
<1>2. c # None /\ Apart(c)
  BY <1>1, RestackAssumption, NamedOnce DEF Refused
<1>3. \A i \in Links(c) : Participating(c, i)' = Participating(c, i)
  BY <1>1 DEF Participating, Has
<1>4. PICK js : js = Jobs(c)
  OBVIOUS
<1>5. \A i \in Links(c) : \A q \in Participating(c, i) : Waits(js, q, Env(c, i))
  BY <1>2, <1>4, PlanOrder
<1>6. ASSUME NEW i \in Links(c), NEW q \in Participating(c, i)
      PROVE  LinkHolds(c, i, q)'
  <2>1. rebasing'[q][Env(c, i)] = None
    BY <1>1 DEF Refused, UnsafeWorktree
  <2>2. Waits(jobs', q, Env(c, i))
    BY <1>1, <1>4, <1>5
  <2>3. CASE c = cmd
    <3>1. LinkHolds(c, i, q) /\ done' = done
      BY <1>1, <1>2, <2>3 DEF DoneHolds
    <3>2. LowerDone(c, i, q)' <=> LowerDone(c, i, q)
      BY <1>3, <3>1 DEF LowerDone, Done
    <3>3. PICK y : y = tip[q][Env(c, i)]
      OBVIOUS
    <3>4. Fits(c, i, q, y)' <=> Fits(c, i, q, y)
      BY <1>1 DEF Fits, Has
    <3>5. Done(q, c, i)' => Fits(c, i, q, y)' /\ LowerDone(c, i, q)'
      BY <3>1, <3>2, <3>3, <3>4 DEF LinkHolds, Done
    <3>6. tip'[q][Env(c, i)] = y
      BY <1>1, <3>3
    <3>7. QED
      BY <2>1, <2>2, <3>5, <3>6 DEF LinkHolds
  <2>4. CASE c # cmd
    <3>1. ~Done(q, c, i)'
      BY <1>1, <2>4 DEF Done
    <3>2. QED
      BY <2>1, <2>2, <3>1 DEF LinkHolds
  <2>5. QED
    BY <2>3, <2>4
<1>7. QED
  BY <1>1, <1>2, <1>3, <1>6 DEF DoneHolds

\* The job at hand is finished.
LEMMA DoneHead ==
  ASSUME Typed, Present, Unrepeated, JobsApart, PlanHolds, DoneHolds, [Next]_vars,
         jobs # <<>>, Skip(Head(jobs)) \/ Rebased(Head(jobs))
  PROVE  DoneHolds'
<1>1. PICK j \in JobSet : /\ j = Head(jobs) /\ j = jobs[1] /\ 1 \in 1..Len(jobs)
                          /\ Has(j.repo, j.env) /\ Has(j.repo, j.pred)
  BY HeadParts
<1>2. jobs' = Tail(jobs) /\ cmd' = cmd /\ done' = done \union {<<j.repo, j.env>>} /\ UNCHANGED rebasing
  BY <1>1 DEF Skip, Rebased, Finished, repos
<1>3. jobs \in Seq(JobSet)
  BY DEF Typed
<1>4. PICK t : t = Tail(jobs)
  OBVIOUS
<1>5. /\ \A k \in 1..Len(t) : t[k] = jobs[k + 1] /\ k + 1 \in 1..Len(jobs) /\ 1 < k + 1
      /\ \A r, e : Waits(jobs, r, e) => Waits(t, r, e) \/ (j.repo = r /\ j.env = e)
      /\ jobs' = t
  BY <1>1, <1>2, <1>3, <1>4, RestOfJobs
<1>6. CASE cmd = None
  <2>1. ASSUME NEW k \in 1..Len(t) PROVE <<t[k].repo, t[k].env>> \notin done'
    <3>1. t[k] = jobs[k + 1] /\ k + 1 \in 1..Len(jobs) /\ 1 < k + 1
      BY <1>5
    <3>2. jobs[k + 1].repo # j.repo \/ jobs[k + 1].env # j.env
      BY <1>1, <3>1 DEF JobsApart, OneEach
    <3>3. <<jobs[k + 1].repo, jobs[k + 1].env>> \notin done
      BY <1>6, <3>1 DEF DoneHolds
    <3>4. QED
      BY <1>2, <3>1, <3>2, <3>3
  <2>2. QED
    BY <1>2, <1>5, <1>6, <2>1 DEF DoneHolds
<1>7. CASE cmd # None
  <2>1. PICK c \in Commands : c = cmd
    BY <1>7 DEF Typed
  <2>2. PICK m \in Links(c) :
           /\ OfLink(c, m, j) /\ j.repo \in Participating(c, m) /\ j.repo \in RepoSet
           /\ j.env = Env(c, m) /\ LowerDone(c, m, j.repo)
    BY <1>1, <2>1, HeadLink
  <2>3. Apart(c) /\ Bounded(c, j) /\ LinkHolds(c, m, j.repo)
    BY <1>1, <1>7, <2>1, <2>2 DEF PlanHolds, DoneHolds
  <2>4. /\ UpToDate(j) => tip'[j.repo][j.env] = Upper(j)
        /\ ~UpToDate(j) => tip'[j.repo][j.env] = Replay(NewBase(j), Replayed(j))
    BY <1>1, EndsOnPredecessor
  <2>5. PICK x : x = tip'[j.repo][j.env]
    OBVIOUS
  <2>6. Fits(c, m, j.repo, x) /\ (Fits(c, m, j.repo, Upper(j)) => x = Upper(j))
    BY <1>1, <2>2, <2>3, <2>4, <2>5, EndFits, UpToDateFits
  <2>7. Upper(j) = tip[j.repo][Env(c, m)]
    BY <2>2 DEF Upper
  <2>8. Done(j.repo, c, m) => x = tip[j.repo][Env(c, m)]
    BY <2>3, <2>6, <2>7 DEF LinkHolds
  <2>9. \A q \in RepoSet, d \in Branches : q # j.repo \/ d # Env(c, m) => tip'[q][d] = tip[q][d]
    <3>1. CASE Skip(Head(jobs))
      BY <3>1 DEF Skip, repos
    <3>2. CASE Rebased(Head(jobs))
      <4>1. PICK y \in Commit : Point(j.repo, j.env, y)
        BY <1>1, <3>2, HeadMoves
      <4>2. j.env \in Branches
        BY DEF JobSet, Branches
      <4>3. QED
        BY <2>2, <4>1, <4>2, PointParts
    <3>3. QED
      BY <3>1, <3>2
  <2>10. \A q \in RepoSet, d \in Branches : tip'[q][d] # None <=> tip[q][d] # None
    BY BranchesStay
  <2>11. \A q, e : Waits(jobs, q, e) => Waits(jobs', q, e) \/ (q = j.repo /\ e = Env(c, m))
    BY <1>5, <2>2
  <2>12. \A q \in RepoSet, e \in Envs : rebasing'[q][e] \in {rebasing[q][e], None}
    BY <1>2
  <2>13. done' = done \union {<<j.repo, Env(c, m)>>} /\ cmd' = cmd /\ tip'[j.repo][Env(c, m)] = x
    BY <1>2, <2>2, <2>5
  <2>14. PICK r \in Participating(c, m) : r = j.repo /\ r \in RepoSet
    BY <2>2
  <2>15. QED
    BY <2>1, <2>2, <2>3, <2>6, <2>8, <2>9, <2>10, <2>11, <2>12, <2>13, <2>14, DoneMove
<1>8. QED
  BY <1>6, <1>7

\* git stops in the job at hand.
LEMMA DoneConflict ==
  ASSUME Typed, Present, Unrepeated, PlanHolds, DoneHolds, jobs # <<>>, Conflict(Head(jobs)),
         NEW c \in Commands, c = cmd
  PROVE  DoneHolds'
<1>1. PICK j \in JobSet : j = Head(jobs) /\ j = jobs[1] /\ 1 \in 1..Len(jobs)
                          /\ Has(j.repo, j.env) /\ Has(j.repo, j.pred)
  BY HeadParts
<1>2. PICK m \in Links(c) :
         /\ OfLink(c, m, j) /\ j.repo \in Participating(c, m) /\ j.repo \in RepoSet
         /\ j.env = Env(c, m) /\ LowerDone(c, m, j.repo)
  BY <1>1, HeadLink
<1>3. c # None /\ Apart(c) /\ Bounded(c, j) /\ LinkHolds(c, m, j.repo)
  BY <1>1, <1>2, RestackAssumption DEF PlanHolds, DoneHolds
<1>4. ~UpToDate(j) /\ jobs' = <<>> /\ UNCHANGED <<tip, done, cmd>>
  BY <1>1 DEF Conflict
<1>5. PICK k \in 1..Len(Replayed(j)) : rebasing' = [rebasing EXCEPT ![j.repo][j.env] = StopAt(j, k)]
  BY <1>1 DEF Conflict, StopAt
<1>6. PICK w, x : w = StopAt(j, k) /\ x = Replay(NewBase(j), Replayed(j))
  OBVIOUS
<1>7. Replay(w.onto, w.todo) = x
  BY <1>1, <1>6, StopAtParts
<1>8. Fits(c, m, j.repo, x) /\ (Fits(c, m, j.repo, Upper(j)) => x = Upper(j))
  BY <1>1, <1>2, <1>3, <1>4, <1>6, EndFits
<1>9. Done(j.repo, c, m) => x = tip[j.repo][Env(c, m)]
  BY <1>2, <1>3, <1>8 DEF LinkHolds, Upper
<1>10. rebasing \in [RepoSet -> [Envs -> Stop \union {None}]]
  BY DEF Typed
<1>11. ASSUME NEW i \in Links(c), NEW q \in Participating(c, i), rebasing'[q][Env(c, i)] # None
       PROVE  \/ rebasing'[q][Env(c, i)] = rebasing[q][Env(c, i)]
              \/ /\ jobs' = <<>> /\ LowerDone(c, i, q)
                 /\ \E y : /\ StopsAt(q, Env(c, i))' = y /\ Fits(c, i, q, y)
                           /\ Done(q, c, i) => y = tip[q][Env(c, i)]
  <2>1. q \in RepoSet /\ Env(c, i) \in Envs /\ j.env \in Envs
    BY <1>2, RestackAssumption DEF Participating, Env, Links, JobSet
  <2>2. CASE q = j.repo /\ i = m
    <3>1. rebasing'[q][Env(c, i)] = w
      BY <1>2, <1>5, <1>6, <1>10, <2>1, <2>2
    <3>2. StopsAt(q, Env(c, i))' = x
      BY <1>7, <3>1 DEF StopsAt
    <3>3. QED
      BY <1>2, <1>4, <1>8, <1>9, <2>2, <3>2
  <2>3. CASE q # j.repo \/ i # m
    <3>1. q # j.repo \/ Env(c, i) # j.env
      BY <1>2, <1>3, <2>3 DEF Apart
    <3>2. QED
      BY <1>5, <1>10, <2>1, <3>1
  <2>4. QED
    BY <2>2, <2>3
<1>12. jobs' \in {jobs, <<>>}
  BY <1>4
<1>13. QED
  BY <1>4, <1>11, <1>12, DoneStays

\* A rebase of the last command's, continued by hand, stops again.
LEMMA DoneStopsAgain ==
  ASSUME Typed, Unrepeated, DoneHolds, NEW c \in Commands, c = cmd,
         NEW r \in RepoSet, NEW e \in Envs, ContinueToNext(r, e)
  PROVE  DoneHolds'
<1>1. rebasing[r][e] # None /\ Len(rebasing[r][e].todo) > 1 /\ UNCHANGED <<tip, done, cmd, jobs>>
  BY DEF ContinueToNext
<1>2. PICK onto, todo \in Commit :
        onto = rebasing[r][e].onto /\ todo = rebasing[r][e].todo /\ Injective(onto) /\ Injective(todo)
  BY <1>1, StopParts DEF Unrepeated
<1>3. PICK w : w = [onto |-> Replay(onto, <<Head(todo)>>), todo |-> Tail(todo)]
  OBVIOUS
<1>4. Replay(w.onto, w.todo) = Replay(onto, todo)
  BY <1>1, <1>2, <1>3, NextPatch
<1>5. rebasing' = [rebasing EXCEPT ![r][e] = w]
  BY <1>2, <1>3 DEF ContinueToNext
<1>6. rebasing \in [RepoSet -> [Envs -> Stop \union {None}]]
  BY DEF Typed
<1>7. rebasing'[r][e] = w
  BY <1>5, <1>6
<1>8. PICK x : x = StopsAt(r, e)
  OBVIOUS
<1>9. StopsAt(r, e)' = x
  BY <1>2, <1>4, <1>7, <1>8 DEF StopsAt
<1>10. ASSUME NEW i \in Links(c), NEW q \in Participating(c, i), rebasing'[q][Env(c, i)] # None
       PROVE  \/ rebasing'[q][Env(c, i)] = rebasing[q][Env(c, i)]
              \/ /\ jobs' = <<>> /\ LowerDone(c, i, q)
                 /\ \E y : /\ StopsAt(q, Env(c, i))' = y /\ Fits(c, i, q, y)
                           /\ Done(q, c, i) => y = tip[q][Env(c, i)]
  <2>1. q \in RepoSet /\ Env(c, i) \in Envs
    BY RestackAssumption DEF Participating, Env, Links
  <2>2. CASE q = r /\ Env(c, i) = e
    <3>1. c # None
      BY RestackAssumption
    <3>2. LinkHolds(c, i, q)
      BY <3>1 DEF DoneHolds
    <3>3. /\ jobs = <<>> /\ Fits(c, i, q, x) /\ LowerDone(c, i, q)
          /\ Done(q, c, i) => x = tip[q][Env(c, i)]
      BY <1>1, <1>8, <2>2, <3>2 DEF LinkHolds
    <3>4. QED
      BY <1>1, <1>9, <2>2, <3>3
  <2>3. CASE q # r \/ Env(c, i) # e
    BY <1>5, <1>6, <2>1, <2>3
  <2>4. QED
    BY <2>2, <2>3
<1>11. QED
  BY <1>1, <1>10, DoneStays

\* It ends, and its link is finished.
LEMMA DoneCompleted ==
  ASSUME Typed, Present, PlanHolds, DoneHolds, [Next]_vars,
         NEW r \in RepoSet, NEW e \in Envs, CompletedByHand(r, e)
  PROVE  DoneHolds'
<1>1. /\ rebasing[r][e] # None /\ jobs = <<>> /\ cmd # None /\ UNCHANGED <<cmd, jobs>>
      /\ done' = done \union {<<r, e>>} /\ rebasing' = [rebasing EXCEPT ![r][e] = None]
      /\ Point(r, e, StopsAt(r, e))
  BY DEF CompletedByHand, Rebases, StopsAt
<1>2. PICK c \in Commands : c = cmd
  BY <1>1 DEF Typed
<1>3. PICK m \in Links(c) : Env(c, m) = e /\ r \in Participating(c, m)
  BY <1>2 DEF CompletedByHand, Rebases
<1>4. PICK x \in Commit : x = StopsAt(r, e)
  BY <1>1, StopParts DEF StopsAt
<1>5. Apart(c) /\ LinkHolds(c, m, r)
  BY <1>1, <1>2, <1>3 DEF PlanHolds, DoneHolds
<1>6. Fits(c, m, r, x) /\ LowerDone(c, m, r) /\ (Done(r, c, m) => x = tip[r][Env(c, m)])
  BY <1>1, <1>3, <1>4, <1>5 DEF LinkHolds
<1>7. e \in Branches /\ Point(r, e, x)
  BY <1>1, <1>4 DEF Branches
<1>8. /\ tip'[r][Env(c, m)] = x
      /\ \A q \in RepoSet, d \in Branches : q # r \/ d # Env(c, m) => tip'[q][d] = tip[q][d]
  BY <1>3, <1>7, PointParts
<1>9. \A q \in RepoSet, d \in Branches : tip'[q][d] # None <=> tip[q][d] # None
  BY BranchesStay
<1>10. /\ \A q \in RepoSet, d \in Envs : rebasing'[q][d] \in {rebasing[q][d], None}
       /\ rebasing'[r][Env(c, m)] = None
  <2>1. rebasing \in [RepoSet -> [Envs -> Stop \union {None}]]
    BY DEF Typed
  <2>2. QED
    BY <1>1, <1>3, <2>1
<1>11. \A q, d : Waits(jobs, q, d) => Waits(jobs', q, d) \/ (q = r /\ d = Env(c, m))
  BY <1>1
<1>12. done' = done \union {<<r, Env(c, m)>>} /\ cmd' = cmd /\ jobs' = jobs
  BY <1>1, <1>3
<1>13. QED
  BY <1>2, <1>3, <1>5, <1>6, <1>8, <1>9, <1>10, <1>11, <1>12, DoneMove

\* It is an invariant.
LEMMA DoneNext ==
  ASSUME Typed, Present, Unrepeated, JobsApart, PlanHolds, DoneHolds, [Next]_vars
  PROVE  DoneHolds'
<1>1. CASE \E c \in Commands : Start(c)
  BY <1>1, DoneStart
<1>2. CASE jobs # <<>> /\ (Skip(Head(jobs)) \/ Rebased(Head(jobs)))
  BY <1>2, DoneHead
<1>3. ASSUME cmd' = None, jobs' \in {jobs, <<>>}, done' \in {done, {}}, cmd = None \/ done' = {}
      PROVE  DoneHolds'
  <2>1. \A k \in 1..Len(jobs') : <<jobs'[k].repo, jobs'[k].env>> \notin done'
    <3>1. CASE done' = {}
      BY <3>1
    <3>2. CASE jobs' = <<>>
      <4>1. 1..Len(<<>>) = {}
        OBVIOUS
      <4>2. QED
        BY <3>2, <4>1
    <3>3. CASE cmd = None /\ jobs' = jobs /\ done' = done
      BY <3>3 DEF DoneHolds
    <3>4. QED
      BY <1>3, <3>1, <3>2, <3>3
  <2>2. QED
    BY <1>3, <2>1 DEF DoneHolds
<1>4. ASSUME jobs' \in {jobs, <<>>}, UNCHANGED <<tip, done, cmd>>,
             \A r \in RepoSet, e \in Envs : rebasing'[r][e] \in {rebasing[r][e], None}
      PROVE  DoneHolds'
  <2>1. CASE cmd = None
    BY <1>3, <1>4, <2>1
  <2>2. CASE cmd # None
    <3>1. PICK c \in Commands : c = cmd
      BY <2>2 DEF Typed
    <3>2. ASSUME NEW i \in Links(c), NEW q \in Participating(c, i), rebasing'[q][Env(c, i)] # None
          PROVE  rebasing'[q][Env(c, i)] = rebasing[q][Env(c, i)]
      <4>1. q \in RepoSet /\ Env(c, i) \in Envs
        BY RestackAssumption DEF Participating, Env, Links
      <4>2. QED
        BY <1>4, <3>2, <4>1
    <3>3. QED
      BY <1>4, <3>1, <3>2, DoneStays
  <2>3. QED
    BY <2>1, <2>2
<1>5. CASE jobs # <<>> /\ Conflict(Head(jobs))
  <2>1. jobs' = <<>> /\ UNCHANGED <<cmd, done>>
    BY <1>5 DEF Conflict
  <2>2. CASE cmd = None
    BY <1>3, <2>1, <2>2
  <2>3. CASE cmd # None
    <3>1. PICK c \in Commands : c = cmd
      BY <2>3 DEF Typed
    <3>2. QED
      BY <1>5, <3>1, DoneConflict
  <2>4. QED
    BY <2>2, <2>3
<1>6. CASE jobs # <<>> /\ Fail
  BY <1>4, <1>6 DEF Fail, repos
<1>7. CASE Quiet
  BY <1>4, <1>7 DEF Quiet
<1>8. CASE Moved
  BY <1>3, <1>8 DEF Moved
<1>9. ASSUME NEW r \in RepoSet, NEW e \in Envs, ContinueToNext(r, e) PROVE DoneHolds'
  <2>1. UNCHANGED <<jobs, cmd, done>>
    BY <1>9 DEF ContinueToNext
  <2>2. CASE cmd = None
    BY <1>3, <2>1, <2>2
  <2>3. CASE cmd # None
    <3>1. PICK c \in Commands : c = cmd
      BY <2>3 DEF Typed
    <3>2. QED
      BY <1>9, <3>1, DoneStopsAgain
  <2>4. QED
    BY <2>2, <2>3
<1>10. ASSUME NEW r \in RepoSet, NEW e \in Envs, CompletedByHand(r, e) PROVE DoneHolds'
  BY <1>10, DoneCompleted
<1>11. QED
  BY <1>1, <1>2, <1>5, <1>6, <1>7, <1>8, <1>9, <1>10, StepKinds

\* A completed link reads as up to date on a re-run, or is a cut link whose cut is in its
\* base's history, and then replaying it changes nothing.
THEOREM RestackResumeSkipsCompleted == ASSUME CommandsInOrder PROVE Spec => []ResumeSkipsCompleted
<1>1. Init => DoneHolds
  <2> SUFFICES ASSUME Init PROVE DoneHolds
    OBVIOUS
  <2>1. cmd = None /\ done = {}
    BY DEF Init
  <2>2. QED
    BY <2>1 DEF DoneHolds
<1>2. RestackInv /\ DoneHolds /\ [Next]_vars => DoneHolds'
  BY DoneNext DEF RestackInv
<1>3. RestackInv /\ DoneHolds => ResumeSkipsCompleted
  <2> SUFFICES ASSUME RestackInv, DoneHolds, jobs # <<>>, NEW j, j = Head(jobs),
                      <<j.repo, j.env>> \in done, ~UpToDate(j)
               PROVE  /\ j.cut /\ IsAncestor(j.boundary, NewBase(j))
                      /\ Replay(NewBase(j), Replayed(j)) = Upper(j)
    BY DEF ResumeSkipsCompleted, Completed
  <2>1. Typed /\ Present /\ PlanHolds /\ Unrepeated
    BY DEF RestackInv
  <2>2. j = jobs[1] /\ 1 \in 1..Len(jobs) /\ j \in JobSet /\ Has(j.repo, j.env) /\ Has(j.repo, j.pred)
    BY <2>1, HeadParts
  <2>3. cmd # None
    BY <2>2 DEF DoneHolds
  <2>4. PICK c \in Commands : c = cmd
    BY <2>1, <2>3 DEF Typed
  <2>5. PICK m \in Links(c) :
           /\ OfLink(c, m, j) /\ j.repo \in Participating(c, m) /\ j.repo \in RepoSet
           /\ j.env = Env(c, m) /\ LowerDone(c, m, j.repo)
    BY <2>1, <2>4, HeadLink
  <2>6. LinkHolds(c, m, j.repo) /\ Done(j.repo, c, m)
    BY <2>3, <2>4, <2>5 DEF DoneHolds, Done
  <2>7. Fits(c, m, j.repo, Upper(j))
    BY <2>5, <2>6 DEF LinkHolds, Upper
  <2>8. IsAncestor(NewBase(j), Upper(j))
    BY <2>5, <2>7 DEF Fits, OfLink, NewBase
  <2>9. j.cut /\ IsAncestor(j.boundary, Upper(j))
    BY <2>8 DEF UpToDate
  <2>10. AtCut(c, m) /\ Has(j.repo, c.cut) /\ j.boundary = tip[j.repo][c.cut]
    <3>1. Bounded(c, j)
      BY <2>1, <2>2, <2>3, <2>4 DEF PlanHolds
    <3>2. QED
      BY <2>5, <2>9, <3>1 DEF Bounded, OfLink
  <2>11. NewBase(j) = tip[j.repo][c.base]
    BY <2>5, <2>10 DEF NewBase, OfLink, Predecessor, AtCut
  <2>12. IsAncestor(j.boundary, NewBase(j))
    BY <2>7, <2>9, <2>10, <2>11 DEF Fits
  <2>13. Replay(NewBase(j), Replayed(j)) = Upper(j)
    <3>1. Bounded(c, j)
      BY <2>1, <2>2, <2>3, <2>4 DEF PlanHolds
    <3>2. QED
      BY <2>1, <2>2, <2>5, <2>7, <3>1, EndFits
  <2>14. QED
    BY <2>9, <2>12, <2>13
<1>4. Spec => []RestackInv
  BY RestackInvHolds
<1>5. QED
  BY <1>1, <1>2, <1>3, <1>4, PTL DEF Spec
=============================================================================

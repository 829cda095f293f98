---------------------------- MODULE NestingProof -----------------------------
(***************************************************************************)
(* The proofs that a chain of nested calls never runs twice in one         *)
(* workspace before its last process, and that the slices delegated since  *)
(* the last edit are apart, for any roots, any files in them and any edit  *)
(* made while the calls run.                                               *)
(***************************************************************************)
EXTENDS Nesting, TLAPS, WellFoundedInduction

\* What a call carries: the workspace that started the command, and those of
\* the calls before it; each of them but the last was let start another one.
Chained(calls, base) ==
  /\ calls \in Seq({calls[i] : i \in DOMAIN calls})
  /\ \A i \in 1..Len(calls) :
        /\ {"at", "chain", "todo"} \subseteq DOMAIN calls[i]
        /\ calls[i].chain = {base} \union {calls[j].at : j \in 1..(i - 1)}
  /\ \A i \in 1..(Len(calls) - 1) : calls[i].at \notin calls[i].chain

LanesChained ==
  \A x \in DOMAIN lanes :
    /\ {"step", "calls", "seen", "values"} \subseteq DOMAIN lanes[x]
    /\ Chained(lanes[x].calls, command.at)
    /\ lanes[x].step = "verify" => lanes[x].calls # <<>>

\* A call that looks for its own workspace in its chain extends it.
LEMMA ChainGrows ==
  ASSUME NEW calls, NEW base, Chained(calls, base), calls # <<>>, NEW c,
         {"at", "chain", "todo"} \subseteq DOMAIN c,
         calls[Len(calls)].at \notin calls[Len(calls)].chain,
         c.chain = calls[Len(calls)].chain \union {calls[Len(calls)].at}
  PROVE  Chained(Append(calls, c), base) /\ Append(calls, c) # <<>>
<1> DEFINE S == {calls[i] : i \in DOMAIN calls} \union {c}
           more == Append(calls, c)
<1>1. calls \in Seq(S) /\ c \in S /\ Len(calls) \in Nat /\ Len(calls) > 0
  BY DEF Chained
<1> HIDE DEF S
<1>2. /\ more \in Seq(S) /\ Len(more) = Len(calls) + 1 /\ DOMAIN more = 1..(Len(calls) + 1)
      /\ more[Len(calls) + 1] = c
      /\ \A i \in 1..Len(calls) : more[i] = calls[i]
  BY <1>1
<1> HIDE DEF more
<1>3. more \in Seq({more[i] : i \in DOMAIN more})
  BY <1>2
<1>4. /\ \A i \in 1..Len(calls) : {"at", "chain", "todo"} \subseteq DOMAIN calls[i]
      /\ \A i \in 1..Len(calls) : calls[i].chain = {base} \union {calls[j].at : j \in 1..(i - 1)}
      /\ \A i \in 1..(Len(calls) - 1) : calls[i].at \notin calls[i].chain
  BY DEF Chained
<1>5. \A i \in 1..Len(more) :
        /\ {"at", "chain", "todo"} \subseteq DOMAIN more[i]
        /\ more[i].chain = {base} \union {more[j].at : j \in 1..(i - 1)}
  <2>1. TAKE i \in 1..Len(more)
  <2>2. \A j \in 1..(i - 1) : more[j] = calls[j]
    BY <1>1, <1>2
  <2>3. CASE i \in 1..Len(calls)
    BY <1>2, <1>4, <2>2, <2>3
  <2>4. CASE i = Len(calls) + 1
    <3>1. more[i] = c /\ c.chain = {base} \union {calls[j].at : j \in 1..Len(calls)}
      BY <1>1, <1>2, <1>4, <2>4
    <3>2. {more[j].at : j \in 1..(i - 1)} = {calls[j].at : j \in 1..Len(calls)}
      BY <1>1, <1>2, <2>4
    <3>3. QED
      BY <3>1, <3>2
  <2>5. QED
    BY <1>1, <1>2, <2>3, <2>4
<1>6. \A i \in 1..(Len(more) - 1) : more[i].at \notin more[i].chain
  BY <1>1, <1>2, <1>4
<1>7. more # <<>>
  BY <1>1, <1>2
<1>8. QED
  BY <1>3, <1>5, <1>6, <1>7 DEF Chained, more

\* What a call still has to read is no part of its chain.
LEMMA ChainOfReader ==
  ASSUME NEW calls, NEW base, Chained(calls, base), NEW todo
  PROVE  /\ Chained([calls EXCEPT ![Len(calls)].todo = todo], base)
         /\ Len([calls EXCEPT ![Len(calls)].todo = todo]) = Len(calls)
         /\ \A i \in 1..Len(calls) :
              /\ [calls EXCEPT ![Len(calls)].todo = todo][i].at = calls[i].at
              /\ [calls EXCEPT ![Len(calls)].todo = todo][i].chain = calls[i].chain
<1> DEFINE rest == [calls EXCEPT ![Len(calls)].todo = todo]
<1>1. /\ Len(calls) \in Nat /\ DOMAIN calls = 1..Len(calls)
      /\ \A i \in 1..Len(calls) : {"at", "chain", "todo"} \subseteq DOMAIN calls[i]
      /\ \A i \in 1..Len(calls) : calls[i].chain = {base} \union {calls[j].at : j \in 1..(i - 1)}
      /\ \A i \in 1..(Len(calls) - 1) : calls[i].at \notin calls[i].chain
  BY DEF Chained
<1>2. /\ rest = [i \in 1..Len(calls) |-> IF i = Len(calls) THEN [calls[i] EXCEPT !.todo = todo] ELSE calls[i]]
  BY <1>1
<1> HIDE DEF rest
<1>3. \A i \in 1..Len(calls) :
        /\ DOMAIN rest[i] = DOMAIN calls[i]
        /\ rest[i].at = calls[i].at /\ rest[i].chain = calls[i].chain
  BY <1>1, <1>2
<1>4. rest \in Seq({rest[i] : i \in DOMAIN rest}) /\ Len(rest) = Len(calls)
  BY <1>1, <1>2
<1>5. \A i \in 1..Len(calls) : {rest[j].at : j \in 1..(i - 1)} = {calls[j].at : j \in 1..(i - 1)}
  BY <1>1, <1>3
<1>6. Chained(rest, base)
  <2>1. \A i \in 1..Len(rest) :
          /\ {"at", "chain", "todo"} \subseteq DOMAIN rest[i]
          /\ rest[i].chain = {base} \union {rest[j].at : j \in 1..(i - 1)}
    BY <1>1, <1>3, <1>4, <1>5
  <2>2. \A i \in 1..(Len(rest) - 1) : rest[i].at \notin rest[i].chain
    BY <1>1, <1>3, <1>4
  <2>3. QED
    BY <1>4, <2>1, <2>2 DEF Chained
<1>7. QED
  BY <1>3, <1>4, <1>6 DEF rest

\* A call that ends leaves the chain it was started in.
LEMMA ChainShrinks ==
  ASSUME NEW calls, NEW base, Chained(calls, base)
  PROVE  /\ Chained(SubSeq(calls, 1, Len(calls) - 1), base)
         /\ Len(calls) > 1 => SubSeq(calls, 1, Len(calls) - 1) # <<>>
<1> DEFINE less == SubSeq(calls, 1, Len(calls) - 1)
           S == {calls[i] : i \in DOMAIN calls}
<1>1. calls \in Seq(S) /\ Len(calls) \in Nat
  BY DEF Chained
<1> HIDE DEF S
<1>2. /\ less \in Seq(S)
      /\ Len(less) = IF Len(calls) = 0 THEN 0 ELSE Len(calls) - 1
      /\ \A i \in 1..Len(less) : less[i] = calls[i]
  BY <1>1
<1> HIDE DEF less
<1>3. less \in Seq({less[i] : i \in DOMAIN less})
  BY <1>2
<1>4. /\ \A i \in 1..Len(calls) : {"at", "chain", "todo"} \subseteq DOMAIN calls[i]
      /\ \A i \in 1..Len(calls) : calls[i].chain = {base} \union {calls[j].at : j \in 1..(i - 1)}
      /\ \A i \in 1..(Len(calls) - 1) : calls[i].at \notin calls[i].chain
  BY DEF Chained
<1>5. \A i \in 1..Len(less) : {less[j].at : j \in 1..(i - 1)} = {calls[j].at : j \in 1..(i - 1)}
  BY <1>1, <1>2, SMTT(30)
<1>6. Chained(less, base)
  <2>1. \A i \in 1..Len(less) :
          /\ {"at", "chain", "todo"} \subseteq DOMAIN less[i]
          /\ less[i].chain = {base} \union {less[j].at : j \in 1..(i - 1)}
    <3>1. TAKE i \in 1..Len(less)
    <3>2. i \in 1..Len(calls) /\ less[i] = calls[i]
      BY <1>1, <1>2
    <3>3. QED
      BY <1>4, <1>5, <3>2
  <2>2. \A i \in 1..(Len(less) - 1) : less[i].at \notin less[i].chain
    BY <1>1, <1>2, <1>4
  <2>3. QED
    BY <1>3, <2>1, <2>2 DEF Chained
<1>7. Len(calls) > 1 => less # <<>>
  BY <1>1, <1>2
<1>8. QED
  BY <1>6, <1>7 DEF less

-----------------------------------------------------------------------------

\* A step of one worktree leaves the calls of the others.
LEMMA OneLane ==
  ASSUME LanesChained, UNCHANGED command, NEW x \in DOMAIN lanes, NEW l,
         lanes' = [lanes EXCEPT ![x] = l],
         {"step", "calls", "seen", "values"} \subseteq DOMAIN l,
         Chained(l.calls, command.at), l.step = "verify" => l.calls # <<>>
  PROVE  LanesChained'
<1>1. /\ DOMAIN lanes' = DOMAIN lanes
      /\ \A y \in DOMAIN lanes : lanes'[y] = IF y = x THEN l ELSE lanes[y]
  OBVIOUS
<1>2. QED
  BY <1>1 DEF LanesChained

\* A worktree that is not being verified goes on with the calls it has.
LEMMA StepOnly ==
  ASSUME LanesChained, UNCHANGED command, NEW x \in DOMAIN lanes, NEW step, step # "verify", Goto(x, step)
  PROVE  LanesChained'
<1> DEFINE l == [lanes[x] EXCEPT !.step = step]
<1>1. lanes' = [lanes EXCEPT ![x] = l]
  BY DEF Goto
<1>2. /\ {"step", "calls", "seen", "values"} \subseteq DOMAIN l
      /\ l.calls = lanes[x].calls /\ l.step = step
  BY DEF LanesChained
<1> HIDE DEF l
<1>3. QED
  BY <1>1, <1>2, OneLane DEF LanesChained

\* Every action keeps the chains: only a preflight that passed lengthens one.
LEMMA ChainedNext == LanesChained /\ [Next]_vars => LanesChained'
<1> SUFFICES ASSUME LanesChained, [Next]_vars
             PROVE  LanesChained'
  OBVIOUS
<1>1. CASE InitCommand
  <2>1. PICK xs : lanes' = [x \in xs |-> Lane]
    BY <1>1 DEF InitCommand
  <2>2. Chained(<<>>, command'.at)
    BY DEF Chained
  <2>3. QED
    BY <2>1, <2>2 DEF LanesChained, Lane
<1>2. CASE InitEnds
  BY <1>2 DEF InitEnds, LanesChained, Empty
<1>3. CASE Edit
  BY <1>3 DEF Edit, LanesChained
<1>4. CASE UNCHANGED vars
  BY <1>4 DEF vars, LanesChained
<1>5. ASSUME NEW x \in DOMAIN lanes, Worktree(x)
      PROVE  LanesChained'
  BY <1>5, StepOnly DEF Worktree, Fail
<1>6. ASSUME NEW x \in DOMAIN lanes, Check(x)
      PROVE  LanesChained'
  <2>1. CASE Preflight(Caller, x)
    <3> DEFINE c == StatusCall(Caller, x)
               l == [lanes[x] EXCEPT !.step = "verify", !.calls = <<c>>]
    <3>1. lanes' = [lanes EXCEPT ![x] = l] /\ UNCHANGED command
      BY <1>6, <2>1 DEF Check
    <3>2. {"at", "chain", "todo"} \subseteq DOMAIN c /\ c.chain = {command.at}
      BY DEF StatusCall, ChildChain, Caller
    <3> HIDE DEF c
    <3>3. Chained(<<c>>, command.at) /\ <<c>> # <<>>
      BY <3>2 DEF Chained
    <3>4. {"step", "calls", "seen", "values"} \subseteq DOMAIN l /\ l.calls = <<c>>
      BY DEF LanesChained
    <3> HIDE DEF l
    <3>5. QED
      BY <3>1, <3>3, <3>4, OneLane
  <2>2. CASE ~Preflight(Caller, x)
    BY <1>6, <2>2, StepOnly DEF Check, Fail
  <2>3. QED
    BY <2>1, <2>2
<1>7. ASSUME NEW x \in DOMAIN lanes, ReadNested(x)
      PROVE  LanesChained'
  <2> DEFINE calls == lanes[x].calls
             last == calls[Len(calls)]
  <2>1. Chained(calls, command.at) /\ calls # <<>> /\ {"step", "calls", "seen", "values"} \subseteq DOMAIN lanes[x]
    BY <1>7 DEF ReadNested, LanesChained
  <2>2. PICK r \in last.todo :
          LET rest == [calls EXCEPT ![Len(calls)].todo = @ \ {r}]
          IN  lanes' = [lanes EXCEPT ![x].calls =
                          IF Preflight(last, r) THEN Append(rest, StatusCall(last, r)) ELSE rest]
    BY <1>7 DEF ReadNested
  <2> DEFINE rest == [calls EXCEPT ![Len(calls)].todo = last.todo \ {r}]
             c == StatusCall(last, r)
             more == IF Preflight(last, r) THEN Append(rest, c) ELSE rest
             l == [lanes[x] EXCEPT !.calls = more]
  <2>3. Len(calls) \in Nat /\ Len(calls) > 0
    BY <2>1 DEF Chained
  <2>4. rest = [calls EXCEPT ![Len(calls)].todo = @ \ {r}]
    BY <2>1, <2>3 DEF Chained
  <2>5. lanes' = [lanes EXCEPT ![x] = l] /\ UNCHANGED command
    BY <1>7, <2>2, <2>4 DEF ReadNested
  <2>6. /\ Chained(rest, command.at) /\ Len(rest) = Len(calls)
        /\ rest[Len(rest)].at = last.at /\ rest[Len(rest)].chain = last.chain
    <3>1. Chained(rest, command.at) /\ Len(rest) = Len(calls)
      BY <2>1, ChainOfReader
    <3>2. \A i \in 1..Len(calls) : rest[i].at = calls[i].at /\ rest[i].chain = calls[i].chain
      BY <2>1, ChainOfReader
    <3> HIDE DEF rest
    <3>3. QED
      BY <2>3, <3>1, <3>2
  <2>7. rest # <<>>
    BY <2>3, <2>6
  <2> HIDE DEF rest
  <2>8. CASE Preflight(last, r)
    <3>1. last.at \notin last.chain
      BY <2>8 DEF Preflight
    <3>2. /\ {"at", "chain", "todo"} \subseteq DOMAIN c
          /\ c.chain = last.chain \union {last.at}
      BY DEF StatusCall, ChildChain
    <3> HIDE DEF c, last
    <3>3. Chained(Append(rest, c), command.at) /\ Append(rest, c) # <<>>
      BY <2>6, <2>7, <3>1, <3>2, ChainGrows
    <3>4. l.calls = Append(rest, c) /\ {"step", "calls", "seen", "values"} \subseteq DOMAIN l
      BY <2>1, <2>8
    <3> HIDE DEF l
    <3>5. QED
      BY <2>5, <3>3, <3>4, OneLane
  <2>9. CASE ~Preflight(last, r)
    <3>1. l.calls = rest /\ {"step", "calls", "seen", "values"} \subseteq DOMAIN l
      BY <2>1, <2>9
    <3> HIDE DEF l
    <3>2. QED
      BY <2>5, <2>6, <2>7, <3>1, OneLane
  <2>10. QED
    BY <2>8, <2>9
<1>8. ASSUME NEW x \in DOMAIN lanes, StatusEnds(x)
      PROVE  LanesChained'
  <2> DEFINE calls == lanes[x].calls
             less == SubSeq(calls, 1, Len(calls) - 1)
  <2>1. Chained(calls, command.at) /\ {"step", "calls", "seen", "values"} \subseteq DOMAIN lanes[x]
    BY DEF LanesChained
  <2> DEFINE step == IF Len(calls) > 1 THEN "verify"
                     ELSE IF calls[Len(calls)].loads /\ calls[Len(calls)].at = x THEN "measure" ELSE "failed"
  <2>2. lanes' = [lanes EXCEPT ![x].calls = less, ![x].step = step]
    BY <1>8 DEF StatusEnds
  <2>3. lanes' = [lanes EXCEPT ![x] = [lanes[x] EXCEPT !.calls = less, !.step = step]] /\ UNCHANGED command
    BY <1>8, <2>2 DEF StatusEnds
  <2>4. Chained(less, command.at) /\ (Len(calls) > 1 => less # <<>>)
    BY <2>1, ChainShrinks
  <2> DEFINE l == [lanes[x] EXCEPT !.calls = less, !.step = step]
  <2>5. step = "verify" => Len(calls) > 1
    OBVIOUS
  <2> HIDE DEF less, step
  <2>6. {"step", "calls", "seen", "values"} \subseteq DOMAIN l /\ l.calls = less /\ l.step = step
    BY <2>1
  <2>7. lanes' = [lanes EXCEPT ![x] = l]
    BY <2>3
  <2> HIDE DEF l, calls
  <2>8. QED
    BY <2>3, <2>4, <2>5, <2>6, <2>7, OneLane
<1>9. ASSUME NEW x \in DOMAIN lanes, Measure(x)
      PROVE  LanesChained'
  <2>1. CASE Fail(x)
    BY <1>9, <2>1, StepOnly DEF Measure, Fail
  <2>2. CASE \E values, seen : lanes' = [lanes EXCEPT ![x].step = "write", ![x].values = values, ![x].seen = seen]
    <3>1. PICK values, seen : lanes' = [lanes EXCEPT ![x].step = "write", ![x].values = values, ![x].seen = seen]
      BY <2>2
    <3> DEFINE l == [lanes[x] EXCEPT !.step = "write", !.values = values, !.seen = seen]
    <3>2. lanes' = [lanes EXCEPT ![x] = l] /\ UNCHANGED command
      BY <1>9, <3>1 DEF Measure
    <3>3. /\ {"step", "calls", "seen", "values"} \subseteq DOMAIN l
          /\ l.calls = lanes[x].calls /\ l.step = "write"
      BY DEF LanesChained
    <3> HIDE DEF l
    <3>4. QED
      BY <3>2, <3>3, OneLane DEF LanesChained
  <2>3. QED
    BY <1>9, <2>1, <2>2, ZenonT(40) DEF Measure
<1>10. ASSUME NEW x \in DOMAIN lanes, Write(x)
      PROVE  LanesChained'
  BY <1>10, StepOnly DEF Write, Fail
<1>11. ASSUME NEW x \in DOMAIN lanes, NestedInit(x)
      PROVE  LanesChained'
  BY <1>11, StepOnly DEF NestedInit, Fail
<1>12. QED
  BY <1>1, <1>2, <1>3, <1>4, <1>5, <1>6, <1>7, <1>8, <1>9, <1>10, <1>11 DEF Next, LaneStep

\* A winter that takes the wrong workspace costs one status read: the preflight
\* of a nested call refuses one whose own workspace, or the one asked for, is in
\* the chain it was started with.
THEOREM NestingNoFanOut == Spec => []NoFanOut
<1>1. Init => LanesChained
  BY DEF Init, LanesChained, Empty
<1>2. Spec => []LanesChained
  BY <1>1, ChainedNext, PTL DEF Spec
<1>3. LanesChained => NoFanOut
  <2>1. SUFFICES ASSUME LanesChained, NEW x \in DOMAIN lanes
                 PROVE  LET at == [i \in DOMAIN lanes[x].calls |-> lanes[x].calls[i].at]
                        IN  \A i \in 1..(Len(at) - 1) : at[i] # command.at /\ \A j \in 1..(i - 1) : at[i] # at[j]
    BY DEF NoFanOut
  <2> DEFINE calls == lanes[x].calls
             at == [i \in DOMAIN calls |-> calls[i].at]
  <2>2. Chained(calls, command.at)
    BY <2>1 DEF LanesChained
  <2> HIDE DEF calls
  <2>3. Len(calls) \in Nat /\ DOMAIN calls = 1..Len(calls) /\ Len(at) = Len(calls)
    BY <2>2 DEF Chained
  <2>4. \A i \in 1..(Len(calls) - 1) :
          calls[i].at # command.at /\ \A j \in 1..(i - 1) : calls[i].at # calls[j].at
    <3>1. TAKE i \in 1..(Len(calls) - 1)
    <3>2. i \in 1..Len(calls) /\ i \in Int
      BY <2>3
    <3>3. calls[i].at \notin {command.at} \union {calls[j].at : j \in 1..(i - 1)}
      BY <2>2, <3>2 DEF Chained
    <3>4. QED
      BY <3>3
  <2>5. \A i \in 1..(Len(at) - 1) : at[i] # command.at /\ \A j \in 1..(i - 1) : at[i] # at[j]
    BY <2>3, <2>4
  <2>6. QED
    BY <2>5 DEF calls
<1>4. QED
  BY <1>2, <1>3, PTL

-----------------------------------------------------------------------------
(***************************************************************************)
(* Slices.                                                                 *)
(***************************************************************************)

\* A configuration that says where the slices of its nested workspaces are.
Laid(m) ==
  /\ BasePort(m) \in Int /\ PortsPerEnv(m) \in Int
  /\ LET es == NestedEntries(m) IN es \in Seq({es[i] : i \in DOMAIN es})

\* Under m, the workspace at x with configuration inner keeps to its slice.
Fits(m, x, inner) ==
  /\ Placed(m, RepoOf(x)) # {}
  /\ Has(inner, "base_port") /\ inner.base_port = SliceBase(m, EnvOf(x), RepoOf(x))
  /\ (EnvsPerWorkspace(inner) + 1) * PortsPerEnv(inner) <= SliceSize(m)

\* Both files of a root are there and parse.
Whole(l) == Parsed(l.committed) /\ Parsed(l.local)

LEMMA WholeFiles ==
  ASSUME NEW l, ParsedFiles(l), l.committed # None, Readable(l)
  PROVE  Whole(l)
BY DEF ParsedFiles, Readable, Whole

\* A slice of m that a lane has measured is what it takes to fit, for the files it
\* was measured on.
Measured(m, x, lane) ==
  LET values == lane.values
      inner == lane.seen.inner
  IN  /\ Parsed(values) /\ DOMAIN values \cap Arrays = {}
      /\ Has(values, "base_port") /\ values.base_port = SliceBase(m, EnvOf(x), RepoOf(x))
      /\ Placed(m, RepoOf(x)) # {} /\ Readable(inner)
      /\ Footprint(OrNothing(inner.committed), Over(values, inner.local)) <= SliceSize(m)

\* A lane is a nested worktree that the command's configuration declares.
Declared(x) ==
  LET es == NestedEntries(command.config)
  IN  /\ command.at \in Roots /\ x \in NestedIn(command.at) /\ Laid(command.config)
      /\ \A i \in DOMAIN es : Has(es[i], "envs") => es[i].envs \in Int
      /\ \E i \in DOMAIN es : NameOf(es[i]) = RepoOf(x)

FilesParsed ==
  /\ there \subseteq Roots
  /\ layers = [r \in Roots |-> layers[r]] /\ \A r \in Roots : ParsedFiles(layers[r])

LanesMeasured ==
  \A x \in DOMAIN lanes : Declared(x) /\ (lanes[x].step = "write" => Measured(command.config, x, lanes[x]))

\* A slice that was delegated under the present files fits, as they are now.
FreshFits ==
  \A x \in fresh :
    /\ x \in Roots \ {Top} /\ Whole(layers[x]) /\ Whole(layers[Outer(x)])
    /\ Fits(Effective(layers[Outer(x)]), x, Effective(layers[x]))

\* Every set of naturals has a least member.
LEMMA LeastNat ==
  ASSUME NEW T \in SUBSET Nat, T # {}
  PROVE  \E x \in T : \A y \in T : x <= y
<1> DEFINE R == {p \in Nat \X Nat : p[1] < p[2]}
<1>1. IsWellFoundedOn(R, Nat)
  BY NatLessThanWellFounded DEF OpToRel
<1>2. \A x, y \in Nat : y < x => <<y, x>> \in R
  OBVIOUS
<1> HIDE DEF R
<1>3. PICK x \in T : \A y \in T : ~ (<<y, x>> \in R)
  BY <1>1, WFMin
<1>4. ASSUME NEW y \in T PROVE x <= y
  <2>1. x \in Nat /\ y \in Nat
    OBVIOUS
  <2>2. ~ (y < x)
    BY <1>2, <1>3, <2>1
  <2>3. QED
    BY <2>1, <2>2
<1>5. QED
  BY <1>4

\* The functions MembersAt's definition speaks of, up to a position.
Upto(f, s, I, n) ==
  f = [k \in 0..n |-> IF k = 0 THEN <<>>
                      ELSE IF k \in I THEN Append(f[k - 1], s[k]) ELSE f[k - 1]]

\* What such a function is at a position.
LEMMA UptoAt ==
  ASSUME NEW s, NEW I, NEW n \in Nat, NEW f, Upto(f, s, I, n)
  PROVE  /\ f[0] = <<>>
         /\ \A k \in 1..n : f[k] = IF k \in I THEN Append(f[k - 1], s[k]) ELSE f[k - 1]
<1> DEFINE step(k) == IF k = 0 THEN <<>>
                      ELSE IF k \in I THEN Append(f[k - 1], s[k]) ELSE f[k - 1]
<1>1. f = [k \in 0..n |-> step(k)]
  BY DEF Upto
<1>2. step(0) = <<>> /\ \A k \in 1..n : step(k) = IF k \in I THEN Append(f[k - 1], s[k]) ELSE f[k - 1]
  OBVIOUS
<1> HIDE DEF step
<1>3. \A k \in 0..n : f[k] = step(k)
  BY <1>1
<1>4. 0 \in 0..n /\ \A k \in 1..n : k \in 0..n
  OBVIOUS
<1>5. QED
  BY <1>2, <1>3, <1>4

\* There is one for every position.
LEMMA UptoExists ==
  ASSUME NEW s, NEW I, NEW m \in Nat
  PROVE  \E f : Upto(f, s, I, m)
<1> SUFFICES ASSUME ~ \E f : Upto(f, s, I, m) PROVE FALSE
  OBVIOUS
<1> DEFINE B == { n \in Nat : ~ \E f : Upto(f, s, I, n) }
<1>1. PICK n \in B : \A k \in B : n <= k
  BY LeastNat
<1>2. CASE n = 0
  <2>1. Upto([k \in 0..0 |-> <<>>], s, I, 0)
    BY DEF Upto
  <2>2. QED
    BY <1>1, <1>2, <2>1
<1>3. CASE n # 0
  <2>1. n - 1 \in Nat /\ n - 1 \notin B
    BY <1>1, <1>3
  <2>2. PICK f : Upto(f, s, I, n - 1)
    BY <2>1
  <2> DEFINE g == [k \in 0..n |-> IF k = 0 THEN <<>>
                      ELSE IF k \in I THEN Append(f[k - 1], s[k]) ELSE f[k - 1]]
  <2>3. \A k \in 0..n - 1 : g[k] = f[k]
    <3>1. f[0] = <<>> /\ \A k \in 1..n - 1 : f[k] = IF k \in I THEN Append(f[k - 1], s[k]) ELSE f[k - 1]
      BY <2>1, <2>2, UptoAt
    <3>2. QED
      BY <2>1, <3>1
  <2>4. \A k \in 0..n : k # 0 => k - 1 \in 0..n - 1 /\ g[k - 1] = f[k - 1]
    <3> SUFFICES ASSUME NEW k \in 0..n, k # 0 PROVE k - 1 \in 0..n - 1 /\ g[k - 1] = f[k - 1]
      OBVIOUS
    <3>1. k - 1 \in 0..n - 1
      BY <1>1
    <3> HIDE DEF g
    <3>2. QED
      BY <2>3, <3>1
  <2>5. g = [k \in 0..n |-> IF k = 0 THEN <<>>
                      ELSE IF k \in I THEN Append(g[k - 1], s[k]) ELSE g[k - 1]]
    BY <2>4
  <2>6. Upto(g, s, I, n)
    BY <2>5 DEF Upto
  <2>7. QED
    BY <1>1, <2>6
<1>4. QED
  BY <1>2, <1>3

\* What MembersAt keeps of a sequence is at one of the positions.
LEMMA MembersAtType ==
  ASSUME NEW T, NEW s \in Seq(T), NEW I
  PROVE  MembersAt(s, I) \in Seq({s[i] : i \in I \cap (1..Len(s))})
<1> DEFINE M == {s[i] : i \in I \cap (1..Len(s))}
           f == CHOOSE h : Upto(h, s, I, Len(s))
<1>1. Upto(f, s, I, Len(s)) /\ MembersAt(s, I) = f[Len(s)] /\ Len(s) \in Nat
  <2>1. Len(s) \in Nat
    OBVIOUS
  <2>2. Upto(f, s, I, Len(s))
    BY <2>1, UptoExists
  <2>3. QED
    BY <2>1, <2>2 DEF Upto, MembersAt
<1> HIDE DEF f
<1>2. f[0] = <<>> /\ \A k \in 1..Len(s) : f[k] = IF k \in I THEN Append(f[k - 1], s[k]) ELSE f[k - 1]
  BY <1>1, UptoAt
<1>3. \A k \in 1..Len(s) : k \in I => s[k] \in M
  OBVIOUS
<1> HIDE DEF M
<1>4. f[Len(s)] \in Seq(M)
  <2> SUFFICES ASSUME f[Len(s)] \notin Seq(M) PROVE FALSE
    OBVIOUS
  <2> DEFINE B == {n \in 0..Len(s) : f[n] \notin Seq(M)}
  <2>1. B \in SUBSET Nat /\ B # {}
    BY <1>1
  <2>2. PICK n \in B : \A k \in B : n <= k
    BY <2>1, LeastNat
  <2>3. n # 0
    <3>1. <<>> \in Seq(M)
      OBVIOUS
    <3>2. QED
      BY <1>2, <2>2, <3>1
  <2>4. n \in 1..Len(s) /\ n - 1 \in 0..Len(s) /\ f[n - 1] \in Seq(M)
    BY <1>1, <2>2, <2>3
  <2>5. f[n] \in Seq(M)
    <3>1. f[n] = IF n \in I THEN Append(f[n - 1], s[n]) ELSE f[n - 1]
      BY <1>2, <2>4
    <3>2. CASE n \in I
      <4>1. s[n] \in M
        BY <1>3, <2>4, <3>2
      <4>2. Append(f[n - 1], s[n]) \in Seq(M)
        BY <2>4, <4>1
      <4>3. QED
        BY <3>1, <3>2, <4>2
    <3>3. QED
      BY <2>4, <3>1, <3>2
  <2>6. QED
    BY <2>2, <2>5
<1>5. QED
  BY <1>1, <1>4 DEF M

-----------------------------------------------------------------------------
(* What two files that parse make. *)

\* The keys of a table laid over another.
LEMMA OverKeys ==
  \A f, g : /\ DOMAIN Over(f, g) = DOMAIN f \union DOMAIN g
            /\ \A k \in DOMAIN f : Over(f, g)[k] = f[k]
            /\ \A k \in DOMAIN g \ DOMAIN f : Over(f, g)[k] = g[k]
            /\ Over(f, g) = [k \in DOMAIN Over(f, g) |-> Over(f, g)[k]]
BY DEF Over

\* A number is the overlay's, and the base's where that has none.
LEMMA MergedNumber ==
  ASSUME NEW base, NEW over, Parsed(base), Parsed(over), NEW k \in Numbers
  PROVE  /\ Number(Merged(base, over), k)
         /\ Has(Merged(base, over), k) <=> Has(Over(over, base), k)
         /\ Has(Merged(base, over), k) => Merged(base, over)[k] = Over(over, base)[k]
<1> DEFINE m == Merged(base, over)
<1>1. k \notin Tables /\ k \notin Arrays
  BY DEF Numbers, Tables, Arrays
<1>2. /\ DOMAIN m = DOMAIN base \union DOMAIN over
      /\ k \in DOMAIN m => m[k] = IF k \in DOMAIN over THEN over[k] ELSE base[k]
  BY <1>1 DEF Merged, MergedValue, Has
<1>3. /\ k \in DOMAIN Over(over, base) <=> k \in DOMAIN base \union DOMAIN over
      /\ k \in DOMAIN over => Over(over, base)[k] = over[k]
      /\ k \in DOMAIN base \ DOMAIN over => Over(over, base)[k] = base[k]
  <2>1. /\ DOMAIN Over(over, base) = DOMAIN over \union DOMAIN base
        /\ \A x \in DOMAIN over : Over(over, base)[x] = over[x]
        /\ \A x \in DOMAIN base \ DOMAIN over : Over(over, base)[x] = base[x]
    BY DEF Over
  <2>2. QED
    BY <2>1
<1>4. /\ k \in DOMAIN over => over[k] \in Int \union {Bad}
      /\ k \in DOMAIN base => base[k] \in Int \union {Bad}
  BY DEF Parsed, Number, Has
<1> HIDE DEF m
<1>5. QED
  BY <1>2, <1>3, <1>4 DEF Number, Has, m

\* What the configuration computes of a number is the same of the overlay on the base.
LEMMA MergedPorts ==
  ASSUME NEW base, NEW over, Parsed(base), Parsed(over)
  PROVE  LET m == Merged(base, over)
         IN  /\ BasePort(m) \in Int /\ PortsPerEnv(m) \in Int /\ EnvsPerWorkspace(m) \in Int
             /\ PortsPerEnv(m) = PortsPerEnv(Over(over, base))
             /\ EnvsPerWorkspace(m) = EnvsPerWorkspace(Over(over, base))
<1> DEFINE m == Merged(base, over)
           n == Over(over, base)
<1>1. \A k \in Numbers : Number(m, k) /\ (Has(m, k) <=> Has(n, k)) /\ (Has(m, k) => m[k] = n[k])
  BY MergedNumber
<1> HIDE DEF m, n
<1>2. {"base_port", "ports_per_env", "envs_per_workspace"} \subseteq Numbers
  BY DEF Numbers
<1>3. BasePort(m) \in Int
  BY <1>1, <1>2 DEF Number, BasePort, IntOr, Get
<1>4. PortsPerEnv(m) \in Int /\ PortsPerEnv(m) = PortsPerEnv(n)
  BY <1>1, <1>2 DEF Number, PortsPerEnv, IntOr, Get
<1>5. EnvsPerWorkspace(m) \in Int /\ EnvsPerWorkspace(m) = EnvsPerWorkspace(n)
  BY <1>1, <1>2 DEF Number, EnvsPerWorkspace, IntOr, Get
<1>6. QED
  BY <1>3, <1>4, <1>5 DEF m, n

\* The entries of both files are entries.
LEMMA ListedConcat ==
  ASSUME NEW p, NEW q, Listed(p), Listed(q)
  PROVE  Listed(p \o q)
<1> DEFINE T == {p[i] : i \in DOMAIN p} \union {q[i] : i \in DOMAIN q}
           s == p \o q
<1>1. p \in Seq(T) /\ q \in Seq(T)
  BY DEF Listed
<1>2. /\ \A i \in 1..Len(p) : p[i] # Bad => Number(p[i], "envs")
      /\ \A i \in 1..Len(q) : q[i] # Bad => Number(q[i], "envs")
  BY <1>1 DEF Listed
<1> HIDE DEF T
<1>3. /\ s \in Seq(T) /\ Len(s) = Len(p) + Len(q) /\ Len(p) \in Nat /\ Len(q) \in Nat
      /\ \A i \in 1..Len(p) : s[i] = p[i]
      /\ \A i \in (Len(p) + 1)..(Len(p) + Len(q)) : s[i] = q[i - Len(p)] /\ i - Len(p) \in 1..Len(q)
  BY <1>1
<1> HIDE DEF s
<1>4. s \in Seq({s[i] : i \in DOMAIN s}) /\ DOMAIN s = 1..(Len(p) + Len(q))
  BY <1>3
<1>5. ASSUME NEW i \in DOMAIN s PROVE s[i] # Bad => Number(s[i], "envs")
  <2>1. CASE i \in 1..Len(p)
    BY <1>2, <1>3, <2>1
  <2>2. CASE i \in (Len(p) + 1)..(Len(p) + Len(q))
    BY <1>2, <1>3, <2>2
  <2>3. QED
    BY <1>3, <1>4, <2>1, <2>2
<1>6. QED
  BY <1>4, <1>5 DEF Listed, s

LEMMA MergedListed ==
  ASSUME NEW base, NEW over, Parsed(base), Parsed(over)
  PROVE  Listed(OrNothing(Get(Merged(base, over), "project_repository", Empty)))
<1> DEFINE k == "project_repository"
           m == Merged(base, over)
<1>1. Listed(Empty)
  BY DEF Listed, Empty
<1>2. k \in Arrays /\ k \notin Tables
  BY DEF Arrays, Tables
<1>3. /\ DOMAIN m = DOMAIN base \union DOMAIN over
      /\ k \in DOMAIN m => m[k] = IF Has(over, k) THEN MergedValue(k, Get(base, k, Empty), over[k]) ELSE base[k]
  BY DEF Merged
<1>4. /\ Has(base, k) /\ base[k] # Bad => Listed(base[k])
      /\ Has(over, k) /\ over[k] # Bad => Listed(over[k])
  BY DEF Parsed
<1>5. Listed(OrNothing(Get(base, k, Empty)))
  BY <1>1, <1>4 DEF OrNothing, Get
<1> SUFFICES Listed(OrNothing(Get(m, k, Empty)))
  OBVIOUS
<1> HIDE DEF m
<1>6. CASE ~Has(m, k)
  BY <1>1, <1>6 DEF OrNothing, Get
<1>7. CASE Has(m, k) /\ ~Has(over, k)
  <2>1. m[k] = base[k] /\ Has(base, k)
    BY <1>3, <1>7 DEF Has
  <2>2. QED
    BY <1>5, <1>7, <2>1 DEF Get
<1>8. CASE Has(over, k) /\ over[k] = Bad
  <2>1. m[k] = Bad /\ Has(m, k)
    BY <1>2, <1>3, <1>8 DEF MergedValue, Has
  <2>2. QED
    BY <1>1, <2>1 DEF Get, OrNothing
<1>9. CASE Has(over, k) /\ over[k] # Bad
  <2>1. m[k] = OrNothing(Get(base, k, Empty)) \o over[k] /\ Has(m, k)
    BY <1>2, <1>3, <1>9 DEF MergedValue, Has
  <2>2. Listed(m[k])
    BY <1>4, <1>5, <1>9, <2>1, ListedConcat
  <2>3. QED
    BY <1>1, <2>1, <2>2 DEF Get, OrNothing
<1>10. QED
  BY <1>6, <1>7, <1>8, <1>9

\* A nested entry is one of the entries, and its number of environments is a number.
LEMMA NestedEntriesParts ==
  ASSUME NEW base, NEW over, Parsed(base), Parsed(over)
  PROVE  LET m == Merged(base, over)
             es == Entries(m, "project_repository")
             ns == NestedEntries(m)
         IN  /\ ns \in Seq({ns[i] : i \in DOMAIN ns})
             /\ \A i \in DOMAIN ns : /\ \E j \in DOMAIN es : es[j] = ns[i]
                                     /\ IsNested(ns[i]) /\ Number(ns[i], "envs")
<1> DEFINE m == Merged(base, over)
           all == OrNothing(Get(m, "project_repository", Empty))
           I == {i \in DOMAIN all : all[i] # Bad /\ NameOf(all[i]) # None}
           es == Entries(m, "project_repository")
           J == {i \in DOMAIN es : IsNested(es[i])}
           ns == NestedEntries(m)
<1>1. Listed(all)
  BY MergedListed
<1>2. es = MembersAt(all, I)
  BY DEF Entries
<1>3. ns = MembersAt(es, J)
  BY DEF NestedEntries
<1> HIDE DEF m, all, es, ns
<1>4. es \in Seq({all[i] : i \in I \cap (1..Len(all))})
  BY <1>1, <1>2, MembersAtType DEF Listed
<1>5. \A j \in DOMAIN es : Number(es[j], "envs")
  <2>1. TAKE j \in DOMAIN es
  <2>2. PICK i \in I : es[j] = all[i]
    BY <1>4
  <2>3. QED
    BY <1>1, <2>2 DEF Listed
<1>6. ns \in Seq({es[j] : j \in J \cap (1..Len(es))})
  BY <1>3, <1>4, MembersAtType
<1>7. \A i \in DOMAIN ns : \E j \in J : ns[i] = es[j]
  BY <1>6
<1>8. ns \in Seq({ns[i] : i \in DOMAIN ns})
  <2>1. \A T : \A s \in Seq(T) : s \in Seq({s[i] : i \in DOMAIN s})
    OBVIOUS
  <2>2. QED
    BY <1>6, <2>1
<1>9. QED
  BY <1>5, <1>7, <1>8 DEF m, es, ns

\* A configuration that loads lays out its slices, with numbers of environments.
LEMMA LaidWhole ==
  ASSUME NEW l, Whole(l)
  PROVE  /\ Laid(Effective(l))
         /\ Loads(l) => \A i \in DOMAIN NestedEntries(Effective(l)) :
                          LET e == NestedEntries(Effective(l))[i] IN Has(e, "envs") => e.envs \in Int
<1> DEFINE m == Merged(l.committed, l.local)
           es == Entries(m, "project_repository")
           ns == NestedEntries(m)
<1>1. Parsed(l.committed) /\ Parsed(l.local)
  BY DEF Whole
<1>2. /\ ns \in Seq({ns[i] : i \in DOMAIN ns})
      /\ \A i \in DOMAIN ns : /\ \E j \in DOMAIN es : es[j] = ns[i]
                              /\ IsNested(ns[i]) /\ Number(ns[i], "envs")
  BY <1>1, NestedEntriesParts
<1>3. BasePort(m) \in Int /\ PortsPerEnv(m) \in Int
  BY <1>1, MergedPorts
<1>4. Effective(l) = m
  BY DEF Effective
<1>5. Loads(l) => \A j \in DOMAIN es : ~BadNestedKeys(es[j], "project")
  BY <1>4 DEF Loads, BadRepositories
<1> HIDE DEF m, es, ns
<1>6. ASSUME Loads(l), NEW i \in DOMAIN ns, Has(ns[i], "envs") PROVE ns[i].envs \in Int
  <2>1. PICK j \in DOMAIN es : es[j] = ns[i]
    BY <1>2, <1>6
  <2>2. ~BadNestedKeys(ns[i], "project")
    BY <1>5, <1>6, <2>1
  <2>3. ns[i].envs # Bad
    BY <1>2, <1>6, <2>2 DEF BadNestedKeys
  <2>4. QED
    BY <1>2, <1>6, <2>3 DEF Number
<1>7. QED
  BY <1>1, <1>2, <1>3, <1>4, <1>6 DEF Laid, ns

-----------------------------------------------------------------------------
(* The arithmetic of slices. *)

LEMMA Quotient ==
  \A a \in Int, n \in Nat \ {0} : a \div n \in Int /\ n * (a \div n) <= a
OBVIOUS

LEMMA Monotone ==
  \A a, b \in Int, c \in Nat : a <= b => a * c <= b * c
OBVIOUS

\* A slice lies behind the services' one and within the ports of its environment.
LEMMA SliceWithin ==
  ASSUME NEW ports \in Int, NEW n \in Nat, NEW p \in 1..n, NEW size \in Nat, size = ports \div (n + 1)
  PROVE  size <= p * size /\ p * size + size <= ports
<1>1. (n + 1) * size <= ports
  BY Quotient
<1>2. 1 * size <= p * size /\ (p + 1) * size <= (n + 1) * size
  BY Monotone
<1>3. (p + 1) * size = p * size + size /\ 1 * size = size /\ (n + 1) * size \in Int /\ p * size \in Int
  OBVIOUS
<1>4. QED
  BY <1>1, <1>2, <1>3

\* Two slices at different positions are apart.
LEMMA SlicesApart ==
  ASSUME NEW size \in Nat, NEW p \in Nat, NEW q \in Nat, p < q
  PROVE  p * size + size <= q * size
<1>1. (p + 1) * size <= q * size
  BY Monotone
<1>2. (p + 1) * size = p * size + size
  OBVIOUS
<1>3. QED
  BY <1>1, <1>2

\* Where the configuration places a repository.
LEMMA PositionParts ==
  ASSUME NEW m, Laid(m), NEW repo, Placed(m, repo) # {}
  PROVE  /\ Position(m, repo) \in Placed(m, repo)
         /\ Len(Places(m)) \in Nat /\ Position(m, repo) \in 1..Len(Places(m))
         /\ SliceSize(m) \in Int /\ SliceSize(m) = PortsPerEnv(m) \div (Len(Places(m)) + 1)
<1>1. Len(Places(m)) \in Nat /\ DOMAIN Places(m) = 1..Len(Places(m))
  BY DEF Laid, Places
<1>2. Placed(m, repo) \subseteq 1..Len(Places(m))
  BY <1>1 DEF Placed
<1>3. \E i \in Placed(m, repo) : \A j \in Placed(m, repo) : i <= j
  <2>1. Placed(m, repo) \in SUBSET Nat
    BY <1>1, <1>2
  <2>2. QED
    BY <2>1, LeastNat
<1>4. Position(m, repo) \in Placed(m, repo)
  BY <1>3 DEF Position
<1>5. SliceSize(m) \in Int
  BY <1>1, Quotient DEF SliceSize, Laid
<1>6. QED
  BY <1>1, <1>2, <1>4, <1>5 DEF SliceSize

-----------------------------------------------------------------------------
(* What fits its slice is apart from what fits another. *)

\* The ports of a fresh workspace are in its slice.
LEMMA FreshPorts ==
  ASSUME FilesParsed, FreshFits, NEW x \in fresh
  PROVE  LET m == Effective(layers[Outer(x)])
             base == SliceBase(m, EnvOf(x), RepoOf(x))
         IN  /\ Outer(x) \in Roots /\ Laid(m) /\ Placed(m, RepoOf(x)) # {} /\ base \in Int
             /\ \A port \in Ports(x) : port \in Int /\ base <= port /\ port < base + SliceSize(m)
<1> DEFINE m == Effective(layers[Outer(x)])
           inner == Effective(layers[x])
           base == SliceBase(m, EnvOf(x), RepoOf(x))
           size == (EnvsPerWorkspace(inner) + 1) * PortsPerEnv(inner)
<1>1. /\ x \in Roots \ {Top} /\ Whole(layers[x]) /\ Whole(layers[Outer(x)])
      /\ Fits(m, x, inner)
  BY DEF FreshFits
<1>2. Outer(x) \in Roots /\ Index[EnvOf(x)] \in Nat
  BY <1>1, NestingAssumption
<1>3. Laid(m)
  BY <1>1, LaidWhole
<1>4. EnvsPerWorkspace(inner) \in Int /\ PortsPerEnv(inner) \in Int
  <2>1. Parsed(layers[x].committed) /\ Parsed(layers[x].local)
    BY <1>1 DEF Whole
  <2>2. QED
    BY <2>1, MergedPorts DEF Effective
<1> HIDE DEF m, inner
<1>5. Placed(m, RepoOf(x)) # {} /\ size <= SliceSize(m) /\ Has(inner, "base_port") /\ inner.base_port = base
  BY <1>1 DEF Fits
<1>6. Position(m, RepoOf(x)) \in Nat /\ SliceSize(m) \in Int
  BY <1>3, <1>5, PositionParts
<1>7. base \in Int
  BY <1>2, <1>3, <1>6 DEF SliceBase, PortBase, Laid
<1>8. BasePort(inner) = base
  BY <1>5, <1>7, ConfigAssumption DEF BasePort, Get, IntOr
<1>9. Ports(x) = base..(base + size - 1) /\ size \in Int
  <2>1. size \in Int
    BY <1>4
  <2>2. Ports(x) = base..((base + size) - 1)
    BY <1>8, Zenon DEF Ports, PortBase, inner
  <2> HIDE DEF base, size
  <2>3. QED
    BY <1>7, <2>1, <2>2
<1> HIDE DEF base, size
<1>10. \A port \in Ports(x) : port \in Int /\ base <= port /\ port < base + SliceSize(m)
  BY <1>5, <1>6, <1>7, <1>9
<1>11. QED
  BY <1>2, <1>3, <1>5, <1>7, <1>10 DEF m, base

\* They are in its environment's ports, behind those of its services.
LEMMA FreshBand ==
  ASSUME FilesParsed, FreshFits, NEW x \in fresh, NEW port \in Ports(x)
  PROVE  LET m == Effective(layers[Outer(x)])
             base == PortBase(m, Index[EnvOf(x)])
             p == Position(m, RepoOf(x))
             size == SliceSize(m)
         IN  /\ port \in Int /\ base \in Int /\ size \in Nat \ {0} /\ PortsPerEnv(m) \in Nat
             /\ base + p * size <= port /\ port < base + p * size + size
             /\ base + size <= port /\ port <= base + PortsPerEnv(m) - 1
<1> DEFINE m == Effective(layers[Outer(x)])
           base == PortBase(m, Index[EnvOf(x)])
           p == Position(m, RepoOf(x))
           size == SliceSize(m)
           slice == SliceBase(m, EnvOf(x), RepoOf(x))
<1>1. /\ Outer(x) \in Roots /\ Laid(m) /\ Placed(m, RepoOf(x)) # {} /\ slice \in Int
      /\ port \in Int /\ slice <= port /\ port < slice + size
  BY FreshPorts
<1>2. Index[EnvOf(x)] \in Nat
  BY NestingAssumption DEF FreshFits
<1> HIDE DEF m
<1>3. /\ Len(Places(m)) \in Nat /\ p \in 1..Len(Places(m))
      /\ size \in Int /\ size = PortsPerEnv(m) \div (Len(Places(m)) + 1)
  BY <1>1, PositionParts
<1>4. base \in Int /\ PortsPerEnv(m) \in Int
  BY <1>1, <1>2 DEF Laid, PortBase
<1>5. slice = base + p * size
  BY DEF SliceBase
<1> HIDE DEF slice, base, p, size
<1>6. size \in Nat \ {0}
  BY <1>1, <1>3
<1>7. size <= p * size /\ p * size + size <= PortsPerEnv(m)
  <2>1. size \in Nat
    BY <1>6
  <2>2. QED
    BY <1>3, <1>4, <2>1, SliceWithin
<1>8. p * size \in Int
  BY <1>3
<1>9. /\ base + p * size <= port /\ port < base + p * size + size
      /\ base + size <= port /\ port <= base + PortsPerEnv(m) - 1
  BY <1>1, <1>4, <1>5, <1>6, <1>7, <1>8
<1>10. PortsPerEnv(m) \in Nat
  BY <1>3, <1>4, <1>6, <1>7, <1>8, SMTT(30)
<1>11. QED
  BY <1>1, <1>4, <1>6, <1>9, <1>10 DEF m, base, p, size

\* Where a root is nested.
LEMMA OuterParts ==
  ASSUME NEW x \in Roots \ {Top}
  PROVE  /\ Len(x) \in Nat /\ Len(x) >= 2 /\ Outer(x) \in Roots /\ Len(Outer(x)) = Len(x) - 2
         /\ \A i \in 1..(Len(x) - 2) : Outer(x)[i] = x[i]
<1> DEFINE T == {x[i] : i \in DOMAIN x}
<1>1. x \in Seq(T) /\ Len(x) >= 2 /\ Outer(x) \in Roots
  BY NestingAssumption
<1> HIDE DEF T
<1> DEFINE n == Len(x) - 2
           o == SubSeq(x, 1, n)
<1>2. n \in Nat /\ Len(x) \in Nat
  BY <1>1
<1>3. o \in Seq(T) /\ Len(o) = n /\ \A i \in 1..n : o[i] = x[i]
  <2>1. \A k \in 0..Len(x) : /\ SubSeq(x, 1, k) \in Seq(T) /\ Len(SubSeq(x, 1, k)) = k
                             /\ \A i \in 1..k : SubSeq(x, 1, k)[i] = x[i]
    BY <1>1
  <2>2. n \in 0..Len(x)
    BY <1>2
  <2>3. QED
    BY <2>1, <2>2
<1>4. Outer(x) = o
  BY DEF Outer
<1> HIDE DEF o
<1>5. QED
  BY <1>1, <1>2, <1>3, <1>4

\* A root is known by where it is nested, its environment and its repository.
LEMMA RootParts ==
  ASSUME NEW x \in Roots \ {Top}, NEW y \in Roots \ {Top},
         Outer(x) = Outer(y), EnvOf(x) = EnvOf(y), RepoOf(x) = RepoOf(y)
  PROVE  x = y
<1> DEFINE T == {x[i] : i \in DOMAIN x} \union {y[i] : i \in DOMAIN y}
<1>1. x \in Seq(T) /\ y \in Seq(T) /\ Len(x) >= 2 /\ Len(y) >= 2
  <2>1. x \in Seq({x[i] : i \in DOMAIN x}) /\ y \in Seq({y[i] : i \in DOMAIN y})
    BY NestingAssumption
  <2>2. QED
    BY <2>1, NestingAssumption
<1> HIDE DEF T
<1>2. /\ Len(Outer(x)) = Len(x) - 2 /\ Len(Outer(y)) = Len(y) - 2
      /\ \A i \in 1..(Len(x) - 2) : Outer(x)[i] = x[i]
      /\ \A i \in 1..(Len(y) - 2) : Outer(y)[i] = y[i]
  BY OuterParts
<1>3. Len(x) = Len(y) /\ Len(x) \in Nat
  BY <1>1, <1>2
<1>4. \A i \in 1..Len(x) : x[i] = y[i]
  <2>1. TAKE i \in 1..Len(x)
  <2>2. CASE i \in 1..(Len(x) - 2)
    BY <1>2, <1>3, <2>2
  <2>3. CASE i = Len(x) - 1
    BY <1>3, <2>3 DEF EnvOf
  <2>4. CASE i = Len(x)
    BY <1>3, <2>4 DEF RepoOf
  <2>5. QED
    BY <1>1, <1>3, <2>2, <2>3, <2>4
<1>5. QED
  BY <1>1, <1>3, <1>4

\* Two fresh workspaces nested in one have no port in common.
LEMMA FreshApart ==
  ASSUME FilesParsed, FreshFits, NEW x \in fresh, NEW y \in fresh, x # y, Outer(x) = Outer(y),
         NEW port \in Ports(x), port \in Ports(y)
  PROVE  FALSE
<1> DEFINE m == Effective(layers[Outer(x)])
           ports == PortsPerEnv(m)
           size == SliceSize(m)
           p == Position(m, RepoOf(x))
           q == Position(m, RepoOf(y))
           i == Index[EnvOf(x)]
           j == Index[EnvOf(y)]
           bx == PortBase(m, i)
           by == PortBase(m, j)
<1>1. /\ port \in Int /\ bx \in Int /\ size \in Nat \ {0} /\ ports \in Nat
      /\ bx + p * size <= port /\ port < bx + p * size + size
      /\ bx + size <= port /\ port <= bx + ports - 1
  BY FreshBand
<1>2. /\ by \in Int
      /\ by + q * size <= port /\ port < by + q * size + size
      /\ by + size <= port /\ port <= by + ports - 1
  BY FreshBand
<1>3. /\ Laid(m) /\ Placed(m, RepoOf(x)) # {} /\ Placed(m, RepoOf(y)) # {}
  BY FreshPorts
<1>4. x \in Roots \ {Top} /\ y \in Roots \ {Top}
  BY DEF FreshFits
<1>5. i \in Nat /\ j \in Nat /\ (i = j => EnvOf(x) = EnvOf(y))
  BY <1>4, NestingAssumption
<1> HIDE DEF m
<1>6. /\ p \in Placed(m, RepoOf(x)) /\ q \in Placed(m, RepoOf(y))
      /\ p \in Nat /\ q \in Nat
  BY <1>3, PositionParts
<1>7. bx = BasePort(m) + i * ports /\ by = BasePort(m) + j * ports /\ BasePort(m) \in Int
  BY <1>3 DEF PortBase, Laid
<1> HIDE DEF bx, by, ports, size, i, j, p, q
<1>8. CASE i < j
  <2>1. (i + 1) * ports <= j * ports
    BY <1>1, <1>5, <1>8, Monotone
  <2>2. (i + 1) * ports = i * ports + ports
    BY <1>1, <1>5
  <2>3. i * ports \in Int /\ j * ports \in Int
    BY <1>1, <1>5
  <2>4. QED
    BY <1>1, <1>2, <1>7, <2>1, <2>2, <2>3
<1>9. CASE j < i
  <2>1. (j + 1) * ports <= i * ports
    BY <1>1, <1>5, <1>9, Monotone
  <2>2. (j + 1) * ports = j * ports + ports
    BY <1>1, <1>5
  <2>3. i * ports \in Int /\ j * ports \in Int
    BY <1>1, <1>5
  <2>4. QED
    BY <1>1, <1>2, <1>7, <2>1, <2>2, <2>3
<1>10. CASE i = j
  <2>1. RepoOf(x) # RepoOf(y)
    BY <1>4, <1>5, <1>10, RootParts
  <2>2. p # q
    BY <1>6, <2>1 DEF Placed
  <2>3. bx = by
    BY <1>7, <1>10
  <2>4. p * size + size <= q * size \/ q * size + size <= p * size
    <3>1. size \in Nat /\ (p < q \/ q < p)
      BY <1>1, <1>6, <2>2
    <3>2. QED
      BY <1>6, <3>1, SlicesApart
  <2>5. p * size \in Int /\ q * size \in Int
    BY <1>1, <1>6
  <2>6. QED
    BY <1>1, <1>2, <2>3, <2>4, <2>5
<1>11. QED
  BY <1>5, <1>8, <1>9, <1>10

-----------------------------------------------------------------------------
(* What each step leaves of it. *)

\* Keys that are no arrays, laid over a file that parses.
LEMMA OverParsed ==
  ASSUME NEW v, NEW l, Parsed(v), DOMAIN v \cap Arrays = {}, Parsed(l)
  PROVE  Parsed(Over(v, l))
<1> DEFINE w == Over(v, l)
<1>1. /\ DOMAIN w = DOMAIN v \union DOMAIN l
      /\ \A k \in DOMAIN v : w[k] = v[k]
      /\ \A k \in DOMAIN l \ DOMAIN v : w[k] = l[k]
      /\ w = [k \in DOMAIN w |-> w[k]]
  BY DEF Over
<1> HIDE DEF w
<1>2. \A k \in Numbers : Number(w, k)
  <2>1. TAKE k \in Numbers
  <2>2. Number(v, k) /\ Number(l, k)
    BY DEF Parsed
  <2>3. QED
    BY <1>1, <2>2 DEF Number, Has
<1>3. "project_repository" \notin DOMAIN v
  BY DEF Arrays
<1>4. Has(w, "project_repository") /\ w.project_repository # Bad => Listed(w.project_repository)
  BY <1>1, <1>3 DEF Has, Parsed
<1>5. QED
  BY <1>1, <1>2, <1>4 DEF Parsed, w

LEMMA SlicesInit == Init => FilesParsed /\ LanesMeasured /\ FreshFits
<1> SUFFICES ASSUME Init PROVE FilesParsed /\ LanesMeasured /\ FreshFits
  OBVIOUS
<1>1. PICK o \in Openings : layers = o.layers
  BY DEF Init
<1>2. FilesParsed
  <2>1. layers = [r \in Roots |-> layers[r]] /\ \A r \in Roots : ParsedFiles(layers[r])
    BY <1>1, NestingAssumption
  <2>2. there \subseteq Roots
    BY NestingAssumption DEF Init
  <2>3. QED
    BY <2>1, <2>2 DEF FilesParsed
<1>3. lanes = Empty /\ fresh = {}
  BY DEF Init
<1>4. DOMAIN Empty = {}
  BY DEF Empty
<1>5. QED
  BY <1>2, <1>3, <1>4 DEF LanesMeasured, FreshFits

\* A lane is a root below the command's.
LEMMA LaneRoot ==
  ASSUME LanesMeasured, NEW x \in DOMAIN lanes
  PROVE  /\ command.at \in Roots /\ x \in Roots \ {Top} /\ Outer(x) = command.at
         /\ x # command.at /\ Laid(command.config)
<1>1. /\ command.at \in Roots /\ x \in Roots /\ Len(x) = Len(command.at) + 2
      /\ Outer(x) = command.at /\ Laid(command.config)
  BY DEF LanesMeasured, Declared, NestedIn
<1>2. Len(command.at) \in Nat
  <2>1. Len(Top) = 0
    BY DEF Top
  <2>2. CASE command.at = Top
    BY <2>1, <2>2
  <2>3. CASE command.at # Top
    BY <1>1, <2>3, OuterParts
  <2>4. QED
    BY <2>2, <2>3
<1>3. x # Top
  BY <1>1, <1>2 DEF Top
<1>4. QED
  BY <1>1, <1>2, <1>3

\* A write changes the overlay of one root, to one that parses.
LEMMA WriteParsed ==
  ASSUME FilesParsed, LanesMeasured, NEW x \in DOMAIN lanes, lanes[x].step = "write",
         layers[x].local # Garbled
  PROVE  /\ Parsed(layers[x].local) /\ Parsed(lanes[x].values)
         /\ Parsed(Over(lanes[x].values, layers[x].local))
<1>1. x \in Roots
  BY LaneRoot
<1>2. Parsed(layers[x].local)
  BY <1>1 DEF FilesParsed, ParsedFiles
<1>3. Parsed(lanes[x].values) /\ DOMAIN lanes[x].values \cap Arrays = {}
  BY DEF LanesMeasured, Measured
<1>4. QED
  BY <1>2, <1>3, OverParsed

LEMMA FilesNext == FilesParsed /\ LanesMeasured /\ [Next]_vars => FilesParsed'
<1> SUFFICES ASSUME FilesParsed, LanesMeasured, [Next]_vars PROVE FilesParsed'
  OBVIOUS
<1>1. CASE UNCHANGED <<layers, there>>
  BY <1>1 DEF FilesParsed
<1>2. CASE Edit
  <2>0. PICK root \in there : \E l \in Drafts[root] : layers' = [layers EXCEPT ![root] = l]
    BY <1>2 DEF Edit
  <2>1. PICK l \in Drafts[root] : layers' = [layers EXCEPT ![root] = l]
    BY <2>0
  <2>2. root \in Roots /\ ParsedFiles(l)
    BY <2>1, NestingAssumption DEF FilesParsed
  <2>3. DOMAIN layers = Roots /\ \A r \in Roots : layers'[r] = IF r = root THEN l ELSE layers[r]
    BY <2>1 DEF FilesParsed
  <2>4. layers' = [r \in Roots |-> layers'[r]]
    BY <2>1, <2>3
  <2>5. \A r \in Roots : ParsedFiles(layers'[r])
    BY <2>2, <2>3 DEF FilesParsed
  <2>6. there' \subseteq Roots
    BY <1>2 DEF Edit, FilesParsed
  <2>7. QED
    BY <2>4, <2>5, <2>6 DEF FilesParsed, ParsedFiles
<1>3. ASSUME NEW x \in DOMAIN lanes, Worktree(x) PROVE FilesParsed'
  <2>1. x \in Roots
    BY LaneRoot
  <2>2. QED
    BY <1>3, <2>1 DEF Worktree, FilesParsed
<1>4. ASSUME NEW x \in DOMAIN lanes, Write(x), layers[x].local # Garbled PROVE FilesParsed'
  <2> DEFINE w == Over(lanes[x].values, layers[x].local)
  <2>1. layers' = [layers EXCEPT ![x].local = w] /\ UNCHANGED there
    BY <1>4 DEF Write
  <2>2. Parsed(w) /\ x \in Roots
    BY <1>4, WriteParsed, LaneRoot DEF Write
  <2> HIDE DEF w
  <2>3. ParsedFiles(layers[x])
    BY <2>2 DEF FilesParsed
  <2> DEFINE l == [layers[x] EXCEPT !.local = w]
  <2>4. l = [committed |-> l.committed, local |-> w, astray |-> l.astray] /\ l.committed = layers[x].committed
    BY <2>3 DEF ParsedFiles
  <2>5. ParsedFiles(l)
    <3> HIDE DEF l
    <3>1. l.local = w
      BY <2>4
    <3>2. l = [committed |-> l.committed, local |-> l.local, astray |-> l.astray]
      BY <2>4, <3>1
    <3>3. QED
      BY <2>2, <2>3, <2>4, <3>1, <3>2 DEF ParsedFiles
  <2>6. DOMAIN layers = Roots /\ \A r \in Roots : layers'[r] = IF r = x THEN l ELSE layers[r]
    BY <2>1, <2>2 DEF FilesParsed
  <2>7. layers' = [r \in Roots |-> layers'[r]]
    BY <2>1, <2>6
  <2>8. \A r \in Roots : ParsedFiles(layers'[r])
    <3> HIDE DEF l
    <3>1. QED
      BY <2>5, <2>6 DEF FilesParsed
  <2>9. QED
    BY <2>1, <2>7, <2>8 DEF FilesParsed, ParsedFiles
<1>5. ASSUME NEW x \in DOMAIN lanes, Write(x), layers[x].local = Garbled PROVE FilesParsed'
  BY <1>1, <1>5 DEF Write
<1>6. QED
  BY <1>1, <1>2, <1>3, <1>4, <1>5
  DEF Next, LaneStep, InitCommand, InitEnds, Check, ReadNested, StatusEnds, Measure, NestedInit, vars

\* A lane that goes on, or one that has measured its slice.
LEMMA LaneMoves ==
  ASSUME LanesMeasured, UNCHANGED command, NEW x \in DOMAIN lanes, NEW l,
         lanes' = [lanes EXCEPT ![x] = l],
         l.step = "write" => Measured(command.config, x, l)
  PROVE  LanesMeasured'
<1>1. /\ DOMAIN lanes' = DOMAIN lanes
      /\ \A y \in DOMAIN lanes : lanes'[y] = IF y = x THEN l ELSE lanes[y]
  OBVIOUS
<1>2. \A y \in DOMAIN lanes : Declared(y) /\ Declared(y)'
  BY DEF LanesMeasured, Declared
<1>3. ASSUME NEW y \in DOMAIN lanes, lanes'[y].step = "write"
      PROVE  Measured(command.config, y, lanes'[y])
  BY <1>1, <1>3 DEF LanesMeasured
<1>4. QED
  BY <1>1, <1>2, <1>3 DEF LanesMeasured

\* A lane goes to another step.
LEMMA LaneGoes ==
  ASSUME LanesMeasured, LanesChained, UNCHANGED command, NEW x \in DOMAIN lanes, NEW step,
         step # "write", Goto(x, step)
  PROVE  LanesMeasured'
<1> DEFINE l == [lanes[x] EXCEPT !.step = step]
<1>1. lanes' = [lanes EXCEPT ![x] = l]
  BY DEF Goto
<1>2. l.step = step
  BY DEF LanesChained
<1> HIDE DEF l
<1>3. QED
  BY <1>1, <1>2, LaneMoves

\* What is delegated are a base port and perhaps a number of environments.
LEMMA DelegatedParsed ==
  ASSUME NEW base \in Int, NEW env, NEW repo, NEW e, Has(e, "envs") => e.envs \in Int
  PROVE  LET d == Delegated(base, env, repo, e)
         IN  /\ "base_port" \in DOMAIN d /\ d.base_port = base
             /\ DOMAIN d \cap Arrays = {} /\ \A k \in Numbers : Number(d, k)
<1> DEFINE f == [base_port |-> base, service_prefix |-> <<env, repo>>]
           g == IF Has(e, "envs") THEN [env_aliases |-> Empty, envs_per_workspace |-> e.envs + 1] ELSE Empty
           d == Delegated(base, env, repo, e)
<1>1. /\ DOMAIN d = DOMAIN f \union DOMAIN g
      /\ \A k \in DOMAIN f : d[k] = f[k]
      /\ \A k \in DOMAIN g \ DOMAIN f : d[k] = g[k]
  BY DEF Delegated, Over
<1>2. DOMAIN f = {"base_port", "service_prefix"} /\ f["base_port"] = base
  OBVIOUS
<1>3. DOMAIN g \subseteq {"env_aliases", "envs_per_workspace"}
  BY DEF Empty
<1>4. "envs_per_workspace" \in DOMAIN g => g["envs_per_workspace"] \in Int
  <2>1. CASE Has(e, "envs")
    BY <2>1
  <2>2. CASE ~Has(e, "envs")
    BY <2>2 DEF Empty
  <2>3. QED
    BY <2>1, <2>2
<1> HIDE DEF f, g, d
<1>5. \A k \in Numbers : Number(d, k)
  BY <1>1, <1>2, <1>3, <1>4 DEF Numbers, Number, Has
<1>6. DOMAIN d \cap Arrays = {}
  BY <1>1, <1>2, <1>3 DEF Arrays
<1>7. QED
  BY <1>1, <1>2, <1>5, <1>6 DEF d

\* A measured slice, with what is inherited, is one.
LEMMA MeasureMeasures ==
  ASSUME FilesParsed, LanesMeasured, LanesChained, NEW x \in DOMAIN lanes, Measure(x)
  PROVE  LanesMeasured'
<1> DEFINE m == command.config
           e == EntryOf(m, RepoOf(x))
           base == SliceBase(m, EnvOf(x), RepoOf(x))
           d == Delegated(base, EnvOf(x), RepoOf(x), e)
           h == Inherited(layers[command.at].local, e)
           values == Over(d, h)
<1>1. CASE Fail(x)
  BY <1>1, LaneGoes DEF Measure, Fail
<1>2. CASE ~Fail(x)
  <2>1. /\ lanes[x].step = "measure" /\ UNCHANGED command
        /\ Placed(m, RepoOf(x)) # {}
        /\ Inherits(e) # {} => Readable(layers[command.at])
        /\ Readable(layers[x])
        /\ Footprint(OrNothing(layers[x].committed), Over(values, layers[x].local)) <= SliceSize(m)
        /\ lanes' = [lanes EXCEPT ![x].step = "write", ![x].values = values, ![x].seen = ReadLayers(x)]
    BY <1>2 DEF Measure
  <2>2. /\ command.at \in Roots /\ x \in Roots \ {Top} /\ Outer(x) = command.at /\ Laid(m)
    BY LaneRoot
  <2>3. Has(e, "envs") => e.envs \in Int
    <3> DEFINE es == NestedEntries(m)
    <3>1. /\ \A i \in DOMAIN es : Has(es[i], "envs") => es[i].envs \in Int
          /\ \E i \in DOMAIN es : NameOf(es[i]) = RepoOf(x)
      BY DEF LanesMeasured, Declared
    <3>2. PICK i \in DOMAIN es : e = es[i]
      <4> HIDE DEF es
      <4>1. (CHOOSE i \in DOMAIN es : NameOf(es[i]) = RepoOf(x)) \in DOMAIN es
        BY <3>1
      <4>2. QED
        BY <4>1 DEF EntryOf, es
    <3> HIDE DEF es, e
    <3>3. QED
      BY <3>1, <3>2
  <2>4. base \in Int
    <3>1. Index[EnvOf(x)] \in Nat
      BY <2>2, NestingAssumption
    <3>2. Position(m, RepoOf(x)) \in Nat /\ SliceSize(m) \in Int
      BY <2>1, <2>2, PositionParts
    <3> HIDE DEF m
    <3>3. QED
      BY <2>2, <3>1, <3>2 DEF SliceBase, PortBase, Laid, m
  <2> HIDE DEF e, base
  <2>5. /\ "base_port" \in DOMAIN d /\ d.base_port = base
        /\ DOMAIN d \cap Arrays = {} /\ \A k \in Numbers : Number(d, k)
    BY <2>3, <2>4, DelegatedParsed
  <2>6. \A k \in DOMAIN h : k \notin Arrays /\ (k \in Numbers => h[k] \in Int \union {Bad})
    <3>1. TAKE k \in DOMAIN h
    <3>2. /\ k \in DOMAIN layers[command.at].local /\ k \in Inherits(e) /\ k \notin Arrays
          /\ h[k] = layers[command.at].local[k]
      BY DEF Inherited
    <3>3. Parsed(layers[command.at].local)
      BY <2>1, <2>2, <3>2 DEF Readable, FilesParsed, ParsedFiles
    <3>4. QED
      BY <3>2, <3>3 DEF Parsed, Number, Has
  <2>7. /\ DOMAIN values = DOMAIN d \union DOMAIN h
        /\ \A k \in DOMAIN d : values[k] = d[k]
        /\ \A k \in DOMAIN h \ DOMAIN d : values[k] = h[k]
        /\ values = [k \in DOMAIN values |-> values[k]]
    BY DEF Over
  <2> HIDE DEF values, d, h
  <2>8. Parsed(values) /\ DOMAIN values \cap Arrays = {}
    <3>1. \A k \in Numbers : Number(values, k)
      BY <2>5, <2>6, <2>7 DEF Number, Has
    <3>2. DOMAIN values \cap Arrays = {}
      BY <2>5, <2>6, <2>7
    <3>3. ~Has(values, "project_repository")
      BY <3>2 DEF Arrays, Has
    <3>4. QED
      BY <2>7, <3>1, <3>2, <3>3 DEF Parsed
  <2>9. Has(values, "base_port") /\ values.base_port = base
    BY <2>5, <2>7 DEF Has
  <2> DEFINE l == [lanes[x] EXCEPT !.step = "write", !.values = values, !.seen = ReadLayers(x)]
  <2>10. lanes' = [lanes EXCEPT ![x] = l]
    BY <2>1
  <2>11. l.values = values /\ l.seen.inner = layers[x]
    BY DEF LanesChained, ReadLayers
  <2> HIDE DEF l
  <2>12. Measured(m, x, l)
    BY <2>1, <2>8, <2>9, <2>11 DEF Measured, base
  <2>13. QED
    BY <2>1, <2>10, <2>12, LaneMoves
<1>3. QED
  BY <1>1, <1>2

LEMMA LanesNext == FilesParsed /\ LanesMeasured /\ LanesChained /\ [Next]_vars => LanesMeasured'
<1> SUFFICES ASSUME FilesParsed, LanesMeasured, LanesChained, [Next]_vars PROVE LanesMeasured'
  OBVIOUS
<1>1. CASE UNCHANGED <<command, lanes>>
  BY <1>1 DEF LanesMeasured, Declared, Measured
<1>2. CASE InitCommand
  <2>1. PICK root \in there, env \in Environments :
          LET m == Effective(layers[root])
              xs == {x \in NestedIn(root) :
                       /\ EnvOf(x) = env
                       /\ \E i \in DOMAIN NestedEntries(m) : NameOf(NestedEntries(m)[i]) = RepoOf(x)}
          IN  /\ Loads(layers[root])
              /\ command' = [at |-> root, config |-> m]
              /\ lanes' = [x \in xs |-> Lane]
    BY <1>2 DEF InitCommand
  <2> DEFINE m == Effective(layers[root])
             es == NestedEntries(m)
  <2>2. root \in Roots /\ command'.at = root /\ command'.config = m
    BY <2>1 DEF FilesParsed
  <2>3. Whole(layers[root])
    BY <2>1, <2>2, WholeFiles DEF Loads, FilesParsed
  <2>4. Laid(m) /\ \A i \in DOMAIN es : Has(es[i], "envs") => es[i].envs \in Int
    BY <2>1, <2>3, LaidWhole
  <2>5. /\ \A x \in DOMAIN lanes' : /\ x \in NestedIn(root)
                                    /\ \E i \in DOMAIN es : NameOf(es[i]) = RepoOf(x)
        /\ \A x \in DOMAIN lanes' : lanes'[x].step = "worktree"
    BY <2>1 DEF Lane
  <2> HIDE DEF m
  <2>6. QED
    BY <2>2, <2>4, <2>5 DEF LanesMeasured, Declared
<1>3. CASE InitEnds
  BY <1>3 DEF InitEnds, LanesMeasured, Empty
<1>4. ASSUME NEW x \in DOMAIN lanes, Worktree(x) PROVE LanesMeasured'
  BY <1>4, LaneGoes DEF Worktree, Fail
<1>5. ASSUME NEW x \in DOMAIN lanes, Check(x) PROVE LanesMeasured'
  <2>1. CASE ~Preflight(Caller, x)
    BY <1>5, <2>1, LaneGoes DEF Check, Fail
  <2>2. CASE Preflight(Caller, x)
    <3> DEFINE l == [lanes[x] EXCEPT !.step = "verify", !.calls = <<StatusCall(Caller, x)>>]
    <3>1. lanes' = [lanes EXCEPT ![x] = l] /\ UNCHANGED command
      BY <1>5, <2>2 DEF Check
    <3>2. l.step = "verify"
      BY DEF LanesChained
    <3> HIDE DEF l
    <3>3. QED
      BY <3>1, <3>2, LaneMoves
  <2>3. QED
    BY <2>1, <2>2
<1>6. ASSUME NEW x \in DOMAIN lanes, ReadNested(x) PROVE LanesMeasured'
  <2>1. PICK calls : lanes' = [lanes EXCEPT ![x].calls = calls]
    BY <1>6 DEF ReadNested
  <2> DEFINE l == [lanes[x] EXCEPT !.calls = calls]
  <2>2. lanes' = [lanes EXCEPT ![x] = l] /\ UNCHANGED command
    BY <1>6, <2>1 DEF ReadNested
  <2>3. l.step = "verify"
    BY <1>6 DEF ReadNested, LanesChained
  <2> HIDE DEF l
  <2>4. QED
    BY <2>2, <2>3, LaneMoves
<1>7. ASSUME NEW x \in DOMAIN lanes, StatusEnds(x) PROVE LanesMeasured'
  <2>1. PICK calls, step : /\ lanes' = [lanes EXCEPT ![x].calls = calls, ![x].step = step]
                           /\ step \in {"verify", "measure", "failed"}
    BY <1>7 DEF StatusEnds
  <2> DEFINE l == [lanes[x] EXCEPT !.calls = calls, !.step = step]
  <2>2. lanes' = [lanes EXCEPT ![x] = l] /\ UNCHANGED command
    BY <1>7, <2>1 DEF StatusEnds
  <2>3. l.step # "write"
    BY <2>1 DEF LanesChained
  <2> HIDE DEF l
  <2>4. QED
    BY <2>2, <2>3, LaneMoves
<1>8. ASSUME NEW x \in DOMAIN lanes, Measure(x) PROVE LanesMeasured'
  BY <1>8, MeasureMeasures
<1>9. ASSUME NEW x \in DOMAIN lanes, Write(x) PROVE LanesMeasured'
  BY <1>9, LaneGoes DEF Write, Fail
<1>10. ASSUME NEW x \in DOMAIN lanes, NestedInit(x) PROVE LanesMeasured'
  BY <1>10, LaneGoes DEF NestedInit, Fail
<1>11. CASE Edit
  BY <1>1, <1>11 DEF Edit
<1>12. QED
  BY <1>1, <1>2, <1>3, <1>4, <1>5, <1>6, <1>7, <1>8, <1>9, <1>10, <1>11 DEF Next, LaneStep, vars

\* What was fresh stays fresh while its files and those around it are as they were.
LEMMA FreshStays ==
  ASSUME FreshFits, NEW y \in fresh, layers'[y] = layers[y], layers'[Outer(y)] = layers[Outer(y)]
  PROVE  /\ y \in Roots \ {Top} /\ Whole(layers'[y]) /\ Whole(layers'[Outer(y)])
         /\ Fits(Effective(layers'[Outer(y)]), y, Effective(layers'[y]))
BY DEF FreshFits

\* A slice that is written while nothing has changed since it was measured fits.
LEMMA WrittenFits ==
  ASSUME FilesParsed, LanesMeasured, NEW x \in DOMAIN lanes, Write(x),
         layers[x].local # Garbled, UpToDate(x)
  PROVE  /\ x \in Roots \ {Top} /\ Whole(layers'[x]) /\ Whole(layers'[Outer(x)])
         /\ Fits(Effective(layers'[Outer(x)]), x, Effective(layers'[x]))
<1> DEFINE m == command.config
           values == lanes[x].values
           w == Over(values, layers[x].local)
           c == layers[x].committed
           inner == Merged(c, w)
<1>1. /\ x \in Roots \ {Top} /\ Outer(x) = command.at /\ x # command.at /\ command.at \in Roots
  BY LaneRoot
<1>2. lanes[x].step = "write" /\ layers' = [layers EXCEPT ![x].local = w]
  BY DEF Write
<1>3. /\ layers'[command.at] = layers[command.at]
      /\ layers'[x].committed = c /\ layers'[x].local = w
  <2> HIDE DEF w
  <2>1. DOMAIN layers = Roots /\ "local" \in DOMAIN layers[x] /\ "committed" \in DOMAIN layers[x]
    BY <1>1 DEF FilesParsed, ParsedFiles
  <2>2. QED
    BY <1>1, <1>2, <2>1
<1>4. /\ c # None /\ layers[command.at].committed # None /\ Readable(layers[command.at])
      /\ m = Effective(layers[command.at]) /\ lanes[x].seen.inner = layers[x]
  BY DEF UpToDate, HasConfig, ReadLayers
<1>5. /\ Parsed(values) /\ DOMAIN values \cap Arrays = {}
      /\ Has(values, "base_port") /\ values.base_port = SliceBase(m, EnvOf(x), RepoOf(x))
      /\ Placed(m, RepoOf(x)) # {} /\ Readable(layers[x])
      /\ Footprint(OrNothing(c), w) <= SliceSize(m)
  BY <1>2, <1>4 DEF LanesMeasured, Measured
<1>6. Parsed(c) /\ Parsed(w) /\ OrNothing(c) = c
  <2>1. ParsedFiles(layers[x]) /\ c # Garbled
    BY <1>1, <1>5 DEF FilesParsed, Readable
  <2>2. QED
    BY <1>2, <1>4, <2>1, WriteParsed DEF ParsedFiles, OrNothing
<1>7. /\ EnvsPerWorkspace(inner) = EnvsPerWorkspace(Over(w, c))
      /\ PortsPerEnv(inner) = PortsPerEnv(Over(w, c))
  <2> HIDE DEF w, c
  <2>1. QED
    BY <1>6, MergedPorts
<1>8. Has(inner, "base_port") /\ inner.base_port = SliceBase(m, EnvOf(x), RepoOf(x))
  <2>1. /\ "base_port" \in DOMAIN values /\ "base_port" \in DOMAIN w
        /\ w.base_port = SliceBase(m, EnvOf(x), RepoOf(x))
    BY <1>5 DEF Over, Has
  <2> HIDE DEF w, c
  <2>2. "base_port" \in Numbers
    BY DEF Numbers
  <2>3. Has(Over(w, c), "base_port") /\ Over(w, c)["base_port"] = w.base_port
    BY <2>1 DEF Over, Has
  <2>4. /\ Has(Merged(c, w), "base_port") <=> Has(Over(w, c), "base_port")
        /\ Has(Merged(c, w), "base_port") => Merged(c, w)["base_port"] = Over(w, c)["base_port"]
    BY <1>6, <2>2, MergedNumber
  <2>5. QED
    BY <2>1, <2>3, <2>4
<1> HIDE DEF w, c, m, values
<1>9. (EnvsPerWorkspace(inner) + 1) * PortsPerEnv(inner) <= SliceSize(m)
  BY <1>5, <1>6, <1>7 DEF Footprint
<1>10. Effective(layers'[x]) = inner /\ Effective(layers'[Outer(x)]) = m
  BY <1>1, <1>3, <1>4 DEF Effective
<1>11. Whole(layers'[x])
  BY <1>3, <1>6 DEF Whole
<1>12. Whole(layers'[Outer(x)])
  BY <1>1, <1>3, <1>4, WholeFiles DEF FilesParsed
<1> HIDE DEF inner
<1>13. Fits(m, x, inner)
  BY <1>5, <1>8, <1>9 DEF Fits
<1>14. QED
  BY <1>1, <1>10, <1>11, <1>12, <1>13

LEMMA FreshNext == FilesParsed /\ LanesMeasured /\ FreshFits /\ [Next]_vars => FreshFits'
<1> SUFFICES ASSUME FilesParsed, LanesMeasured, FreshFits, [Next]_vars PROVE FreshFits'
  OBVIOUS
<1>1. CASE UNCHANGED <<layers, fresh>>
  BY <1>1 DEF FreshFits
<1>2. CASE Edit
  <2>1. PICK root \in there :
          /\ \E l \in Drafts[root] : layers' = [layers EXCEPT ![root] = l]
          /\ fresh' = fresh \ ({root} \union NestedIn(root))
    BY <1>2 DEF Edit
  <2>2. PICK l : layers' = [layers EXCEPT ![root] = l]
    BY <2>1
  <2>3. ASSUME NEW y \in fresh'
        PROVE  layers'[y] = layers[y] /\ layers'[Outer(y)] = layers[Outer(y)]
    <3>1. y \in fresh /\ y # root /\ y \notin NestedIn(root)
      BY <2>1, <2>3
    <3>2. y \in Roots \ {Top}
      BY <3>1 DEF FreshFits
    <3>3. Outer(y) # root
      <4>1. Len(y) \in Nat /\ Len(Outer(y)) = Len(y) - 2
        BY <3>2, OuterParts
      <4>2. QED
        BY <3>1, <3>2, <4>1 DEF NestedIn
    <3>4. DOMAIN layers = Roots /\ Outer(y) \in Roots
      BY <3>2, NestingAssumption DEF FilesParsed
    <3>5. QED
      BY <2>2, <3>1, <3>2, <3>3, <3>4
  <2>4. fresh' \subseteq fresh
    BY <2>1
  <2>5. QED
    BY <2>3, <2>4, FreshStays DEF FreshFits
<1>3. ASSUME NEW x \in DOMAIN lanes, Write(x) PROVE FreshFits'
  <2>1. CASE layers[x].local = Garbled
    BY <1>1, <1>3, <2>1 DEF Write
  <2>2. CASE layers[x].local # Garbled
    <3> DEFINE w == Over(lanes[x].values, layers[x].local)
    <3>1. /\ layers' = [layers EXCEPT ![x].local = w]
          /\ fresh' = (IF UpToDate(x) THEN fresh \union {x} ELSE fresh \ {x})
                        \ (IF w = layers[x].local THEN {} ELSE NestedIn(x))
      BY <1>3, <2>2 DEF Write
    <3> HIDE DEF w
    <3>2. x \in Roots \ {Top}
      BY LaneRoot
    <3>3. /\ DOMAIN layers = Roots
          /\ layers[x] = [committed |-> layers[x].committed, local |-> layers[x].local, astray |-> layers[x].astray]
      BY <3>2 DEF FilesParsed, ParsedFiles
    <3>4. ASSUME NEW y \in fresh', y # x
          PROVE  y \in fresh /\ layers'[y] = layers[y] /\ layers'[Outer(y)] = layers[Outer(y)]
      <4>1. y \in fresh /\ (w # layers[x].local => y \notin NestedIn(x))
        BY <3>1, <3>4
      <4>2. y \in Roots \ {Top}
        BY <4>1 DEF FreshFits
      <4>3. Outer(y) \in Roots /\ Len(y) \in Nat /\ Len(Outer(y)) = Len(y) - 2
        BY <4>2, OuterParts
      <4>4. layers'[y] = layers[y]
        BY <3>1, <3>3, <3>4, <4>2
      <4>5. CASE Outer(y) = x
        <5>1. w = layers[x].local
          BY <4>1, <4>2, <4>3, <4>5 DEF NestedIn
        <5>2. layers'[x] = layers[x]
          BY <3>1, <3>2, <3>3, <5>1
        <5>3. QED
          BY <4>1, <4>4, <4>5, <5>2
      <4>6. CASE Outer(y) # x
        BY <3>1, <3>3, <4>1, <4>3, <4>4, <4>6
      <4>7. QED
        BY <4>5, <4>6
    <3>5. x \in fresh' => UpToDate(x)
      BY <3>1
    <3>6. ASSUME NEW y \in fresh'
          PROVE  /\ y \in Roots \ {Top} /\ Whole(layers'[y]) /\ Whole(layers'[Outer(y)])
                 /\ Fits(Effective(layers'[Outer(y)]), y, Effective(layers'[y]))
      <4>1. CASE y = x
        BY <1>3, <2>2, <3>5, <3>6, <4>1, WrittenFits
      <4>2. CASE y # x
        <5>1. y \in fresh /\ layers'[y] = layers[y] /\ layers'[Outer(y)] = layers[Outer(y)]
          BY <3>4, <3>6, <4>2
        <5>2. QED
          BY <5>1, FreshStays
      <4>3. QED
        BY <4>1, <4>2
    <3>7. QED
      BY <3>6 DEF FreshFits
  <2>3. QED
    BY <2>1, <2>2
<1>4. QED
  BY <1>1, <1>2, <1>3
  DEF Next, LaneStep, InitCommand, InitEnds, Worktree, Check, ReadNested, StatusEnds, Measure, NestedInit, vars

\* Two nested workspaces of one workspace never hold a port in common, and none
\* holds one of the services of its environment or of another one, as long as no
\* file has changed since the slices were delegated (_write_delegation).
THEOREM NestingSlicesDisjoint == Spec => []SlicesDisjoint
<1>1. Init => LanesChained
  BY DEF Init, LanesChained, Empty
<1>2. Spec => []LanesChained
  BY <1>1, ChainedNext, PTL DEF Spec
<1>3. Spec => [](FilesParsed /\ LanesMeasured /\ FreshFits)
  BY <1>2, SlicesInit, FilesNext, LanesNext, FreshNext, PTL DEF Spec
<1>4. FilesParsed /\ FreshFits => SlicesDisjoint
  <2> SUFFICES ASSUME FilesParsed, FreshFits, NEW x \in fresh
               PROVE  /\ Ports(x) \subseteq Band(x)
                      /\ \A y \in fresh \ {x} : Outer(x) = Outer(y) => Ports(x) \intersect Ports(y) = {}
    BY DEF SlicesDisjoint
  <2>1. ASSUME NEW port \in Ports(x) PROVE port \in Band(x)
    <3> DEFINE m == Effective(layers[Outer(x)])
               base == PortBase(m, Index[EnvOf(x)])
               own == SliceSize(m)
    <3>1. /\ port \in Int /\ base \in Int /\ own \in Nat \ {0} /\ PortsPerEnv(m) \in Nat
          /\ base + own <= port /\ port <= base + PortsPerEnv(m) - 1
      BY <2>1, FreshBand
    <3>2. Band(x) = (base + own)..(base + PortsPerEnv(m) - 1)
      BY DEF Band, SliceSize, Places
    <3> HIDE DEF base, own, m
    <3>3. QED
      BY <3>1, <3>2
  <2>2. ASSUME NEW y \in fresh \ {x}, Outer(x) = Outer(y)
        PROVE  Ports(x) \intersect Ports(y) = {}
    BY <2>2, FreshApart
  <2>3. QED
    BY <2>1, <2>2
<1>5. QED
  BY <1>3, <1>4, PTL
=============================================================================

--------------------------- MODULE FollowLogsProof ---------------------------
(***************************************************************************)
(* The proofs about a follow, for any number of providers, lines, SIGINTs  *)
(* and queue places.  First its process groups (FInv): a group is          *)
(* signalled only while its pid is its own, and none is left when the      *)
(* follow returns.  Then its stream (SInv): what it returns is honest, and *)
(* it implements StreamMerge.                                              *)
(***************************************************************************)
EXTENDS FollowLogs, TLAPS, FiniteSetTheorems

(***************************************************************************)
(* The strengthening.  A group that lives has its handle on the stack, or  *)
(* is being terminated by the popen that a SIGINT hit; a group whose       *)
(* leader is reaped is terminated, and a call under way past its acquire   *)
(* is about one that is not.                                               *)
(***************************************************************************)
Groups ==
  /\ started \in 0 .. N
  /\ leader \in [Providers -> {"unborn", "running", "zombie", "reaped"}]
  /\ member \in [Providers -> {"none", "holding", "detached"}]
  /\ code \in [Providers -> {"none", "ok", "bad"}]
  /\ \A p \in Providers : /\ started < p <=> leader[p] = "unborn"
                          /\ leader[p] = "unborn" => member[p] = "none"
                          /\ p \in terminated <=> leader[p] = "reaped"
                          /\ p \in terminated => member[p] = "none"

Passes ==
  /\ pc \in Phases
  /\ stack \subseteq 1 .. started /\ todo \subseteq 1 .. started /\ failed \subseteq 1 .. started
  /\ pc \in {"join", "done"} => stack = {}

CallOK ==
  /\ call \in Calls \cup {NoCall}
  /\ call # NoCall => call.p <= started /\ pc \in {"unspawn", "term", "retry", "close"}
  /\ call.step \in {"sigterm", "sigkill", "reap"} => call.p \notin terminated
  /\ call.step = "reap" => leader[call.p] = "zombie" /\ member[call.p] = "none"

Alive(p) == leader[p] \in {"running", "zombie"} \/ member[p] # "none"

Held == \A p \in Providers : Alive(p) => p \in stack \/ (pc = "unspawn" /\ call # NoCall /\ call.p = p)

FInv == Groups /\ Passes /\ CallOK /\ Held

\* FInv holds initially, when no thread was spawned.
LEMMA FollowInit == Init => FInv
BY FollowAssumption DEF FollowAssumption, Init, FInv, Groups, Passes, CallOK, Held, Alive, Providers, Phases, NoCall, Calls

\* Steps of the readers, and of the main thread outside its spawns and terminations, leave the
\* groups alone.
LEMMA Elsewhere ==
  ASSUME FInv, UNCHANGED <<leader, code, member, started, terminated, stack, todo, failed, call>>,
         \/ pc' = pc
         \/ call = NoCall /\ pc' \in Phases /\ pc # "unspawn" /\ (pc' \in {"join", "done"} => stack = {})
  PROVE  FInv'
BY DEF FInv, Groups, Passes, CallOK, Held, Alive, NoCall

\* A step of a provider's own process preserves FInv.
LEMMA FollowProcess ==
  ASSUME FInv, NEW p \in Providers, ProcessStep(p)
  PROVE  FInv'
<1> USE DEF FInv
<1>1. CASE WriteLine(p)
  BY <1>1, Elsewhere DEF WriteLine, main, reading
<1>2. CASE Exit(p)
  <2>1. Groups' BY <1>2 DEF Exit, main, Groups
  <2>2. Passes' /\ CallOK' BY <1>2 DEF Exit, main, Groups, Passes, CallOK, NoCall, Calls
  <2>3. Held' BY <1>2 DEF Exit, main, Groups, Held, Alive
  <2>4. QED BY <2>1, <2>2, <2>3
<1>3. ASSUME NEW next \in {"holding", "detached", "none"}, Descend(p, next) PROVE FInv'
  <2>1. Groups' BY <1>3 DEF Descend, main, Groups
  <2>2. Passes' /\ CallOK' BY <1>3 DEF Descend, main, Groups, Passes, CallOK, NoCall, Calls
  <2>3. Held' BY <1>3 DEF Descend, main, Groups, Held, Alive
  <2>4. QED BY <2>1, <2>2, <2>3
<1>4. QED BY <1>1, <1>2, <1>3 DEF ProcessStep

\* A new group, which the stack or the popen's own cleanup holds.
LEMMA Launched ==
  ASSUME FInv, pc = "spawn", NEW p \in Providers, p = started + 1, Launch(p), UNCHANGED <<todo, failed, terminated>>,
         \/ stack' = stack \cup {p} /\ UNCHANGED call /\ pc' \in {"spawn", "loop", "cancel"}
         \/ UNCHANGED stack /\ Calling(p) /\ pc' = "unspawn"
  PROVE  FInv'
<1> USE DEF FInv
<1>0. started \in Nat /\ started < N /\ p \in Nat BY FollowAssumption DEF FollowAssumption, Groups, Providers
<1>1. call = NoCall BY DEF CallOK
<1>2. Groups'
  <2>1. leader[p] = "unborn" /\ p \notin terminated /\ member[p] = "none" BY <1>0 DEF Groups
  <2>2. started' = started + 1 /\ leader' = [leader EXCEPT ![p] = "running"] /\ UNCHANGED <<member, code, terminated>>
    BY DEF Launch
  <2>3. \A q \in Providers : started' < q <=> leader'[q] = "unborn"
    BY <1>0, <2>2, FollowAssumption DEF Groups, Providers, FollowAssumption
  <2>4. QED BY <1>0, <2>1, <2>2, <2>3, FollowAssumption DEF Groups, FollowAssumption
<1>3. Passes'
  <2>1. started' = p /\ 1 .. started \subseteq 1 .. p /\ p \in 1 .. p BY <1>0 DEF Launch
  <2>2. stack' \subseteq 1 .. p BY <2>1 DEF Passes
  <2>3. todo' \subseteq 1 .. p /\ failed' \subseteq 1 .. p BY <2>1 DEF Passes
  <2>4. pc' \in {"spawn", "loop", "cancel", "unspawn"} OBVIOUS
  <2>5. QED BY <2>1, <2>2, <2>3, <2>4 DEF Passes, Phases
<1>4. CallOK'
  <2>1. CASE UNCHANGED call BY <1>1, <2>1 DEF CallOK, NoCall
  <2>2. CASE Calling(p) /\ pc' = "unspawn"
    <3>1. call' = [step |-> "acquire", p |-> p, late |-> FALSE] BY <2>2 DEF Calling
    <3>2. call' \in Calls BY <3>1 DEF Calls
    <3>3. call'.p = p /\ call'.step = "acquire" BY <3>1
    <3>4. started' = p BY DEF Launch
    <3>5. QED BY <1>0, <2>2, <3>2, <3>3, <3>4 DEF CallOK
  <2>3. QED BY <2>1, <2>2
<1>5. Held' BY <1>0, <1>1 DEF Held, Alive, Groups, Launch, Calling, NoCall
<1>6. QED BY <1>2, <1>3, <1>4, <1>5

\* A call returns about a group that is terminated.
LEMMA Returned ==
  ASSUME FInv, NEW raised \in BOOLEAN, Return(raised), call # NoCall, Groups', call.p \in terminated',
         UNCHANGED started, \A p \in Providers : Alive(p)' => Alive(p)
  PROVE  FInv'
<1> USE DEF FInv
<1>1. PICK r \in Providers : r = call.p BY DEF CallOK, Calls
<1>2. ~Alive(r)'
  <2>1. r \in terminated' BY <1>1
  <2>2. QED BY <1>1, <2>1 DEF Groups, Alive
<1>3. Passes'
  <2>1. pc' \in {"cancel", "term", "retry", "close"} BY DEF Return
  <2>2. stack' \subseteq stack /\ todo' \subseteq todo BY DEF Return
  <2>3. call.p \in 1 .. started
    <3>1. r \in 1 .. N /\ r <= started /\ started \in 0 .. N BY <1>1 DEF CallOK, Groups, Providers
    <3>2. QED BY <1>1, <3>1, FollowAssumption DEF FollowAssumption
  <2>4. failed' \subseteq 1 .. started
    <3>1. failed' = failed \/ failed' = failed \cup {call.p} \/ failed' = failed \ {call.p} BY DEF Return
    <3>2. QED BY <2>3, <3>1 DEF Passes
  <2>5. QED BY <2>1, <2>2, <2>4 DEF Passes, Phases
<1>4. CallOK' BY DEF CallOK, Return, NoCall
<1>5. Held'
  <2>2. \A p \in Providers : p \in stack /\ p # r => p \in stack' BY <1>1 DEF Return
  <2>3. \A p \in Providers : Alive(p)' => p # r /\ Alive(p) BY <1>2
  <2>4. QED BY <1>1, <2>2, <2>3 DEF Held
<1>6. QED BY <1>3, <1>4, <1>5

\* Every step of terminate() preserves FInv.
LEMMA FollowTerminate == ASSUME FInv, Terminate PROVE FInv'
<1> USE DEF FInv
<1>0. call # NoCall BY DEF Terminate, Acquire, TermGroup, KillGroup, Reap, NoCall
<1>1. call \in Calls /\ call.p \in Providers /\ call.late \in BOOLEAN BY <1>0 DEF CallOK, Calls
<1>2. CASE Acquire
  <2>1. UNCHANGED <<leader, code, member, terminated, started>> BY <1>2 DEF Acquire, process
  <2>2. CASE call.p \in terminated
    <3>1. Groups' BY <2>1 DEF Groups
    <3>2. Return(call.late) BY <1>2, <2>2 DEF Acquire
    <3>3. QED BY <1>0, <1>1, <2>1, <2>2, <3>1, <3>2, Returned DEF Alive
  <2>3. CASE call.p \notin terminated
    <3>1. call' = [call EXCEPT !.step = "sigterm"] /\ UNCHANGED <<pc, stack, todo, failed>>
      BY <1>2, <2>3 DEF Acquire, Advance
    <3>2. QED BY <1>0, <1>1, <2>1, <2>3, <3>1 DEF Groups, Passes, CallOK, Held, Alive, NoCall, Calls
  <2>4. QED BY <2>2, <2>3
<1>3. CASE TermGroup
  <2>1. call' = [call EXCEPT !.step = "sigkill"] /\ UNCHANGED <<leader, code, member, started, terminated, pc, stack, todo, failed>>
    BY <1>3 DEF TermGroup, Advance, process
  <2>2. QED BY <1>0, <1>1, <1>3, <2>1 DEF TermGroup, Groups, Passes, CallOK, Held, Alive, NoCall, Calls
<1>4. CASE KillGroup
  <2>1. /\ call' = [call EXCEPT !.step = "reap"] /\ call.step = "sigkill"
        /\ leader' = [leader EXCEPT ![call.p] = IF @ = "running" THEN "zombie" ELSE @]
        /\ code' = [code EXCEPT ![call.p] = IF @ = "none" THEN "bad" ELSE @]
        /\ member' = [member EXCEPT ![call.p] = "none"]
        /\ UNCHANGED <<started, terminated, pc, stack, todo, failed>>
    BY <1>4 DEF KillGroup, Advance
  <2>2. call.p \notin terminated /\ leader[call.p] \in {"running", "zombie"}
    BY <1>0, <1>1, <2>1 DEF CallOK, Groups, Providers
  <2>3. Groups' BY <1>1, <2>1, <2>2 DEF Groups
  <2>4. CallOK' BY <1>0, <1>1, <2>1, <2>2 DEF CallOK, Groups, NoCall, Calls
  <2>5. Passes' BY <2>1 DEF Passes
  <2>6. Held' BY <1>0, <1>1, <2>1, <2>2, <2>4 DEF Held, Alive, Groups, CallOK, NoCall, Calls
  <2>7. QED BY <2>3, <2>4, <2>5, <2>6
<1>5. CASE Reap
  <2>1. /\ call.step = "reap" /\ Return(call.late)
        /\ leader' = [leader EXCEPT ![call.p] = "reaped"]
        /\ terminated' = terminated \cup {call.p}
        /\ UNCHANGED <<started, code, member>>
    BY <1>5 DEF Reap
  <2>2. leader[call.p] = "zombie" /\ member[call.p] = "none" BY <2>1 DEF CallOK
  <2>3. Groups' BY <1>1, <2>1, <2>2 DEF Groups
  <2>4. \A p \in Providers : Alive(p)' => Alive(p) BY <1>1, <2>1, <2>2 DEF Alive, Groups
  <2>5. QED BY <1>0, <1>1, <2>1, <2>3, <2>4, Returned
<1>6. QED BY <1>2, <1>3, <1>4, <1>5 DEF Terminate

\* Every step preserves FInv.
LEMMA FollowNext == FInv /\ [Next]_vars => FInv'
<1> SUFFICES ASSUME FInv, [Next]_vars PROVE FInv'
  OBVIOUS
<1>1. ASSUME NEW p \in Providers, Spawn(p) PROVE FInv'
  BY <1>1, Launched DEF Spawn
<1>2. CASE Consume \/ AllEnded \/ Cancel \/ Join
  <2>1. pc \in {"loop", "cancel", "join"} /\ call = NoCall
    BY <1>2 DEF Consume, AllEnded, Cancel, Join, FInv, CallOK
  <2>2. UNCHANGED <<leader, code, member, started, terminated, stack, todo, failed, call>> \/ Cancel
    BY <1>2 DEF Consume, AllEnded, Join, Ends, process
  <2>3. CASE Cancel
    BY <2>1, <2>3 DEF Cancel, process, FInv, Groups, Passes, CallOK, Held, Alive, NoCall, Phases
  <2>4. CASE ~Cancel
    <3>1. pc' \in Phases /\ (pc' \in {"join", "done"} => stack = {})
      BY <1>2, <2>4 DEF Consume, AllEnded, Join, Ends, Phases, FInv, Passes
    <3>2. QED BY <2>1, <2>2, <2>4, <3>1, Elsewhere
  <2>5. QED BY <2>3, <2>4
<1>3. CASE CleanUp
  <2>1. call = NoCall /\ pc \in {"term", "retry", "close"}
        /\ UNCHANGED <<leader, code, member, started, terminated, stack, todo, failed>>
    BY <1>3 DEF CleanUp, process
  <2>2. CASE Left = {}
    BY <1>3, <2>1, <2>2, Elsewhere DEF CleanUp, Left, Phases
  <2>3. CASE Left # {}
    <3>1. PICK p \in Left : Calling(p) BY <1>3, <2>3 DEF CleanUp
    <3>2. p \in 1 .. started /\ UNCHANGED pc BY <1>3, <2>1, <2>3 DEF CleanUp, Left, FInv, Passes
    <3>3. p \in Providers /\ p <= started
      BY <3>2, FollowAssumption DEF FInv, Groups, Providers, FollowAssumption
    <3>4. QED BY <2>1, <3>1, <3>2, <3>3 DEF FInv, Groups, Passes, CallOK, Held, Alive, Calling, NoCall, Calls
  <2>4. QED BY <2>2, <2>3
<1>4. CASE Terminate BY <1>4, FollowTerminate
<1>5. ASSUME NEW p \in Providers, SpawnInterrupted(p) PROVE FInv'
  <2>1. pc = "spawn" /\ call = NoCall BY <1>5 DEF SpawnInterrupted, FInv, CallOK
  <2>2. CASE UNCHANGED <<started, call, stack, process>> /\ pc' = "cancel"
    BY <1>5, <2>1, <2>2, Elsewhere DEF SpawnInterrupted, process, Phases
  <2>3. CASE Launch(p)
    <3>1. UNCHANGED <<todo, failed, terminated>> /\ p = started + 1 BY <1>5 DEF SpawnInterrupted
    <3>2. \/ stack' = stack \cup {p} /\ UNCHANGED call /\ pc' = "cancel"
          \/ UNCHANGED stack /\ Calling(p) /\ pc' = "unspawn"
      <4>1. started' = started + 1 /\ started \in Nat BY <2>3, <3>1, FollowAssumption DEF Launch, FInv, Groups, FollowAssumption
      <4>2. started' # started BY <4>1
      <4>3. QED BY <1>5, <4>2 DEF SpawnInterrupted, Ends
    <3>3. QED BY <2>1, <2>3, <3>1, <3>2, Launched
  <2>4. QED BY <1>5, <2>2, <2>3 DEF SpawnInterrupted, Ends
<1>6. CASE SpawnFails \/ LoopEnds \/ JoinInterrupted
  <2>1. call = NoCall /\ pc # "unspawn" BY <1>6 DEF SpawnFails, LoopEnds, JoinInterrupted, FInv, CallOK
  <2>2. pc' = pc \/ pc' = "cancel" BY <1>6 DEF SpawnFails, LoopEnds, JoinInterrupted, Ends
  <2>3. UNCHANGED <<leader, code, member, started, terminated, stack, todo, failed, call>>
    BY <1>6 DEF SpawnFails, LoopEnds, JoinInterrupted, process
  <2>4. QED BY <2>1, <2>2, <2>3, Elsewhere DEF Phases
<1>7. CASE DeferSigint
  <2>1. call # NoCall /\ call' = [call EXCEPT !.late = TRUE]
        /\ UNCHANGED <<leader, code, member, started, terminated, stack, todo, failed, pc>>
    BY <1>7 DEF DeferSigint, process
  <2>2. call \in Calls BY <2>1 DEF FInv, CallOK
  <2>3. call' \in Calls /\ call'.p = call.p /\ call'.step = call.step BY <2>1, <2>2 DEF Calls
  <2>4. QED BY <2>1, <2>2, <2>3 DEF FInv, Groups, Passes, CallOK, Held, Alive, NoCall, Calls
<1>8. ASSUME NEW p \in Providers, ReaderStep(p) PROVE FInv'
  BY <1>8, Elsewhere DEF ReaderStep, ReadLine, EndOfFile, ReadFails, Wait, Publish, GiveUp, process, main
<1>9. ASSUME NEW p \in Providers, ProcessStep(p) PROVE FInv'
  BY <1>9, FollowProcess
<1>10. CASE UNCHANGED vars
  BY <1>10, Elsewhere DEF vars, process, main
<1>11. QED
  BY <1>1, <1>2, <1>3, <1>4, <1>5, <1>6, <1>7, <1>8, <1>9, <1>10 DEF Next, MainStep, Disturb

\* A process group is signalled only while its leader's pid is its own.
THEOREM FollowSignalsOwned == Spec => []SignalsOwned
<1>1. FInv => SignalsOwned
  BY DEF FInv, CallOK, Groups, SignalsOwned, Calls, NoCall, Providers
<1>2. QED BY <1>1, FollowInit, FollowNext, PTL DEF Spec

\* When the follow has returned, no process of any provider's group is left, nor a leader unreaped.
THEOREM FollowNothingLeft == Spec => []NothingLeft
<1>1. FInv => NothingLeft
  BY DEF FInv, Passes, Held, Alive, Groups, NothingLeft
<1>2. QED BY <1>1, FollowInit, FollowNext, PTL DEF Spec

-----------------------------------------------------------------------------
(***************************************************************************)
(* The strengthening for the stream.  While it runs, the lines of a        *)
(* provider that the queue holds are those after the ones shown, in order, *)
(* up to the last its reader put; an exit code or an error is the last of  *)
(* a provider's events; and a provider whose code was taken is quiet: it   *)
(* has no event left, has written all it will, and its code is counted.    *)
(***************************************************************************)
Streaming == pc \in {"spawn", "loop"}

Quiet(p) == ~Holding(p) /\ taken[p] = written[p]

\* The lines of p that its reader has put.
Put(p) == IF reader[p] = "line" THEN taken[p] - 1 ELSE taken[p]

IsLine(i) == i \in DOMAIN queue /\ queue[i].kind = "line"
IsLast(i) == i \in DOMAIN queue /\ queue[i].kind # "line"

Threads ==
  /\ reader \in [Providers -> {"none", "reading", "line", "waiting", "code", "error", "done"}]
  /\ queue \in Seq(Events)
  /\ taken \in [Providers -> Nat] /\ written \in [Providers -> Nat] /\ shown \in [Providers -> Nat]
  /\ \A p \in Providers : /\ taken[p] <= written[p] /\ written[p] <= MaxLines
                          /\ shown[p] <= Put(p)
                          /\ leader[p] = "unborn" => reader[p] = "none"

Codes ==
  /\ result \in {"ok", "bad"}
  /\ \A p \in Providers : /\ code[p] = "none" <=> leader[p] \in {"unborn", "running"}
                          /\ reader[p] = "code" => code[p] # "none"
  /\ \A i \in DOMAIN queue : queue[i].kind = "code" => queue[i].code = code[queue[i].p]

Causes ==
  /\ primary \in {"none", "error", "interrupt"} /\ interrupts \in Nat /\ cancelled \in BOOLEAN
  /\ Streaming => primary = "none" /\ ~cancelled
  /\ pc \in {"unspawn", "term", "retry"} => primary # "none"
  /\ primary = "none" /\ interrupts > 0 => pc = "close" /\ call # NoCall /\ call.late = TRUE
  /\ primary = "interrupt" \/ (call # NoCall /\ call.late = TRUE) => interrupts > 0

Pending == {p \in Providers : reader[p] # "done" \/ \E i \in DOMAIN queue : IsLast(i) /\ queue[i].p = p}

Lines ==
  /\ \A p \in Providers, m \in Nat :
       shown[p] < m /\ m <= Put(p) => \E i \in DOMAIN queue : IsLine(i) /\ queue[i].p = p /\ queue[i].n = m
  /\ \A i \in DOMAIN queue : IsLine(i) => shown[queue[i].p] < queue[i].n /\ queue[i].n <= Put(queue[i].p)
  /\ \A i, j \in DOMAIN queue : i < j /\ queue[i].p = queue[j].p =>
       IsLine(i) /\ (IsLine(j) => queue[i].n < queue[j].n)

Lasts ==
  /\ \A i \in DOMAIN queue : IsLast(i) => reader[queue[i].p] = "done"
  /\ \A i \in DOMAIN queue : queue[i].kind = "code" => Quiet(queue[i].p)
  /\ \A p \in Providers : reader[p] \in {"waiting", "code"} => Quiet(p)
  /\ \A p \in Providers \ Pending :
       /\ Quiet(p) /\ (code[p] = "ok" \/ result = "bad")
       /\ \A i \in DOMAIN queue : queue[i].p # p

Merging == Streaming => Lines /\ Lasts /\ remaining = Cardinality(Pending)

Whole ==
  primary = "none" /\ ~Streaming =>
    \A p \in Providers : /\ Quiet(p) /\ shown[p] = written[p]
                         /\ code[p] = "ok" \/ result = "bad"

SInv == Threads /\ Codes /\ Causes /\ Merging /\ Whole

\* The fields of an event, by its kind.
LEMMA EventFacts ==
  \A e \in Events : /\ e.p \in Providers /\ e.kind \in {"line", "code", "error"}
                    /\ e.kind = "line" => e.n \in Nat
                    /\ e.kind = "code" => e.code \in {"ok", "bad"}
BY FollowAssumption DEF Events, FollowAssumption

\* The positions of the queue, and the fields of the events at them.
LEMMA QueueFacts ==
  ASSUME queue \in Seq(Events)
  PROVE  /\ DOMAIN queue = 1 .. Len(queue) /\ Len(queue) \in Nat
         /\ \A i \in DOMAIN queue : /\ i \in Nat /\ queue[i].p \in Providers /\ queue[i].kind \in {"line", "code", "error"}
                                    /\ queue[i].kind = "line" => queue[i].n \in Nat
                                    /\ queue[i].kind = "code" => queue[i].code \in {"ok", "bad"}
<1>1. DOMAIN queue = 1 .. Len(queue) /\ Len(queue) \in Nat /\ \A i \in DOMAIN queue : queue[i] \in Events
  OBVIOUS
<1>2. QED BY <1>1, EventFacts

\* A reader has put no more lines than it has taken; all counts are numbers.
LEMMA PutFacts ==
  ASSUME Threads, NEW p \in Providers
  PROVE  Put(p) \in Int /\ Put(p) <= taken[p] /\ taken[p] \in Nat /\ written[p] \in Nat /\ shown[p] \in Nat
BY DEF Threads, Put

\* There are N providers.
LEMMA ProvidersFinite == IsFiniteSet(Providers) /\ Cardinality(Providers) = N
BY FS_Interval, FollowAssumption DEF Providers, FollowAssumption

\* SInv holds initially, when nothing was written.
LEMMA StreamInit == Init => SInv
<1> SUFFICES ASSUME Init PROVE SInv
  OBVIOUS
<1>1. N \in Nat /\ N > 0 BY FollowAssumption DEF FollowAssumption
<1>2. Threads BY FollowAssumption DEF Init, Threads, Put, FollowAssumption
<1>3. Codes
  <2>1. DOMAIN queue = {} BY DEF Init
  <2>2. QED BY <2>1 DEF Init, Codes
<1>8. Causes
  <2>1. cancelled = FALSE /\ primary = "none" /\ interrupts = 0 /\ pc = "spawn" /\ call = NoCall BY DEF Init
  <2>2. ~cancelled /\ cancelled \in BOOLEAN BY <2>1
  <2>3. interrupts \in Nat /\ ~(interrupts > 0) BY <2>1
  <2>4. QED BY <2>1, <2>2, <2>3 DEF Causes, Streaming
<1>4. Pending = Providers BY DEF Init, Pending
<1>5. Merging
  <2>1. DOMAIN queue = {} BY DEF Init
  <2>2. Lines BY <2>1 DEF Lines, Init, Put
  <2>3. Lasts BY <1>4, <2>1 DEF Lasts, Init
  <2>4. QED BY <1>4, <2>2, <2>3, ProvidersFinite DEF Merging, Init
<1>6. Whole BY DEF Whole, Init, Streaming
<1>7. QED BY <1>2, <1>3, <1>5, <1>6, <1>8 DEF SInv

\* What a step does not take back: a provider that is quiet stays so, and an exit code stays.
Settling ==
  \A p \in Providers : /\ Quiet(p) => Quiet(p)' /\ written'[p] = written[p]
                       /\ code[p] # "none" => code'[p] = code[p]

\* Steps that leave the stream alone.
LEMMA Still ==
  ASSUME SInv, Settling, UNCHANGED <<queue, reader, taken, shown, remaining, result>>,
         written' \in [Providers -> Nat],
         \A p \in Providers : /\ written[p] <= written'[p] /\ written'[p] <= MaxLines
                              /\ leader'[p] = "unborn" => leader[p] = "unborn",
         Streaming' => Streaming
  PROVE  Threads' /\ Merging'
<1> USE DEF SInv
<1>1. Threads'
  <2>1. \A p \in Providers : Put(p)' = Put(p) BY DEF Put
  <2>2. \A p \in Providers : taken[p] <= written'[p] BY DEF Threads
  <2>3. QED BY <2>1, <2>2 DEF Threads
<1>2. CASE Streaming
  <2>1. Lines /\ Lasts /\ remaining = Cardinality(Pending) BY <1>2 DEF Merging
  <2>2. Pending' = Pending BY DEF Pending, IsLast
  <2>3. Lines' BY <2>1 DEF Lines, IsLine, Put
  <2>4. Lasts'
    <3>1. \A i \in DOMAIN queue : queue[i].p \in Providers BY QueueFacts DEF Threads
    <3>2. \A p \in Providers : code[p] = "ok" => code'[p] = "ok" BY DEF Settling
    <3>3. QED BY <2>1, <2>2, <3>1, <3>2 DEF Lasts, IsLast, Settling
  <2>5. remaining' = Cardinality(Pending') BY <2>1, <2>2
  <2>6. QED BY <1>1, <2>3, <2>4, <2>5 DEF Merging
<1>3. QED BY <1>1, <1>2 DEF Merging

\* What was shown stays whole while no thread that streams is left.
LEMMA StillWhole ==
  ASSUME SInv, Settling, UNCHANGED <<shown, result>>,
         primary' = "none" /\ ~Streaming' => primary = "none" /\ ~Streaming
  PROVE  Whole'
BY DEF SInv, Whole, Settling

\* The exit codes, when no event is put.
LEMMA StillCodes ==
  ASSUME SInv, Settling, UNCHANGED <<queue, reader, result>>,
         \A p \in Providers : code'[p] = "none" <=> leader'[p] \in {"unborn", "running"}
  PROVE  Codes'
<1>1. \A i \in DOMAIN queue : queue[i].p \in Providers /\ (queue[i].kind = "code" => queue[i].code # "none")
  BY QueueFacts DEF SInv, Threads
<1>2. QED BY <1>1 DEF SInv, Codes, Settling

\* A step of a provider's own process preserves SInv.
LEMMA StreamProcess ==
  ASSUME SInv, FInv, NEW p \in Providers, ProcessStep(p)
  PROVE  SInv'
<1>1. UNCHANGED <<queue, reader, taken, shown, remaining, result, pc, primary, call, cancelled, interrupts>>
  BY DEF ProcessStep, WriteLine, Exit, Descend, main, reading, Calm
<1>2. Settling /\ (\A q \in Providers : code'[q] = "none" <=> leader'[q] \in {"unborn", "running"})
      /\ written' \in [Providers -> Nat]
      /\ \A q \in Providers : /\ written[q] <= written'[q] /\ written'[q] <= MaxLines
                              /\ leader'[q] = "unborn" => leader[q] = "unborn"
  <2>1. CASE WriteLine(p)
    BY <2>1, FollowAssumption
    DEF FollowAssumption, WriteLine, Settling, Quiet, Holding, SInv, Threads, Codes, reading
  <2>2. CASE Exit(p)
    <3>1. PICK c \in {"ok", "bad"} : code' = [code EXCEPT ![p] = c] BY <2>2 DEF Exit
    <3>2. leader[p] = "running" /\ leader' = [leader EXCEPT ![p] = "zombie"] /\ UNCHANGED <<member, written, taken>>
      BY <2>2 DEF Exit, reading
    <3>3. QED BY <3>1, <3>2 DEF Settling, Quiet, Holding, SInv, Threads, Codes, FInv, Groups
  <2>3. CASE \E next \in {"holding", "detached", "none"} : Descend(p, next)
    BY <2>3 DEF Descend, Settling, Quiet, Holding, SInv, Threads, Codes, FInv, Groups, reading
  <2>4. QED BY <2>1, <2>2, <2>3 DEF ProcessStep
<1>3. Threads' /\ Merging' BY <1>1, <1>2, Still DEF Streaming
<1>4. Whole' BY <1>1, <1>2, StillWhole DEF Streaming
<1>5. Codes' BY <1>1, <1>2, StillCodes
<1>6. Causes' BY <1>1 DEF SInv, Causes, Streaming
<1>7. QED BY <1>3, <1>4, <1>5, <1>6 DEF SInv

\* Every step of terminate() preserves SInv.
LEMMA StreamTerminate ==
  ASSUME SInv, FInv, FInv', Terminate
  PROVE  SInv'
<1>1. /\ UNCHANGED <<queue, reader, taken, shown, remaining, result, written, cancelled, interrupts>>
      /\ call # NoCall /\ call \in Calls
  BY DEF Terminate, Acquire, TermGroup, KillGroup, Reap, reading, process, Calm, FInv, CallOK, NoCall
<1>2. call.p \in Providers /\ call.late \in BOOLEAN /\ pc \in {"unspawn", "term", "retry", "close"}
  BY <1>1 DEF FInv, CallOK, Calls
<1>3. Settling /\ (\A q \in Providers : code'[q] = "none" <=> leader'[q] \in {"unborn", "running"})
      /\ \A q \in Providers : leader'[q] = "unborn" => leader[q] = "unborn"
  <2>1. CASE UNCHANGED <<leader, code, member>>
    BY <1>1, <2>1 DEF Settling, Quiet, Holding, SInv, Codes
  <2>2. CASE KillGroup
    <3>1. leader[call.p] \in {"running", "zombie"}
      BY <1>1, <1>2, <2>2 DEF KillGroup, FInv, CallOK, Groups, Providers
    <3>2. QED BY <1>1, <1>2, <2>2, <3>1 DEF KillGroup, Settling, Quiet, Holding, SInv, Codes, Threads, FInv, Groups
  <2>3. CASE Reap
    <3>1. leader[call.p] = "zombie" BY <2>3 DEF Reap, FInv, CallOK
    <3>2. QED BY <1>1, <1>2, <2>3, <3>1 DEF Reap, Settling, Quiet, Holding, SInv, Codes, Threads, FInv, Groups
  <2>4. QED BY <2>1, <2>2, <2>3 DEF Terminate, Acquire, TermGroup, process
<1>4. \/ UNCHANGED <<pc, primary>> /\ \E to \in {"sigterm", "sigkill", "reap"} : call' = [call EXCEPT !.step = to]
      \/ Return(call.late)
  BY DEF Terminate, Acquire, TermGroup, KillGroup, Reap, Advance
<1>5. pc' \in {"unspawn", "cancel", "term", "retry", "close"} /\ ~Streaming /\ ~Streaming'
  BY <1>2, <1>4 DEF Return, Streaming
<1>6. primary' = "none" => primary = "none"
  BY <1>4 DEF Return
<1>7. Threads' /\ Merging'
  BY <1>1, <1>3, <1>5, Still DEF SInv, Threads
<1>8. Whole' BY <1>1, <1>3, <1>5, <1>6, StillWhole
<1>9. Codes' BY <1>1, <1>3, StillCodes
<1>10. Causes'
  <2>1. CASE Return(call.late)
    <3>1. call' = NoCall BY <2>1 DEF Return
    <3>2. CASE call.late = TRUE
      <4>1. interrupts > 0 BY <1>1, <3>2 DEF SInv, Causes
      <4>2. pc = "close" => primary' # "none" BY <2>1, <3>2 DEF Return
      <4>3. pc # "close" => primary # "none" /\ primary' = primary BY <1>2, <2>1 DEF Return, SInv, Causes
      <4>4. primary' \in {"none", "error", "interrupt"} BY <2>1 DEF Return, SInv, Causes
      <4>5. QED BY <1>1, <1>5, <3>1, <4>1, <4>2, <4>3, <4>4 DEF SInv, Causes
    <3>3. CASE call.late = FALSE
      <4>1. primary' = primary BY <2>1, <3>3 DEF Return
      <4>2. pc' \in {"unspawn", "term", "retry"} => pc' = pc BY <1>2, <2>1 DEF Return
      <4>3. QED BY <1>1, <1>5, <3>1, <3>3, <4>1, <4>2 DEF SInv, Causes
    <3>4. QED BY <1>2, <3>2, <3>3
  <2>2. CASE ~Return(call.late)
    <3>1. PICK to \in {"sigterm", "sigkill", "reap"} : call' = [call EXCEPT !.step = to] BY <1>4, <2>2
    <3>2. UNCHANGED <<pc, primary>> BY <1>4, <2>2
    <3>3. call'.late = call.late BY <1>1, <3>1 DEF Calls
    <3>4. call' \in Calls BY <1>1, <3>1 DEF Calls
    <3>5. call' # NoCall BY <3>4 DEF Calls, NoCall
    <3>6. QED BY <1>1, <3>2, <3>3, <3>5 DEF SInv, Causes, Streaming
  <2>3. QED BY <2>1, <2>2
<1>11. QED BY <1>7, <1>8, <1>9, <1>10 DEF SInv

\* A provider is started: its process runs, and its reader, if it has one, reads.
LEMMA StreamLaunched ==
  ASSUME SInv, FInv, pc = "spawn", NEW p \in Providers, p = started + 1, Launch(p),
         UNCHANGED <<queue, taken, shown, remaining, result>>,
         NEW r \in {"none", "reading"}, reader' = [reader EXCEPT ![p] = r]
  PROVE  Threads' /\ Codes' /\ (pc' \in {"spawn", "loop"} => Merging')
<1> USE DEF SInv
<1>1. leader[p] = "unborn" /\ reader[p] = "none"
  <2>1. started < p BY FollowAssumption DEF FInv, Groups, FollowAssumption
  <2>2. QED BY <2>1 DEF FInv, Groups, Threads
<1>2. leader' = [leader EXCEPT ![p] = "running"] /\ UNCHANGED <<code, member, written>>
  BY DEF Launch
<1>3. \A q \in Providers : Put(q)' = Put(q) BY <1>1 DEF Put, Threads
<1>4. \A q \in Providers : reader[q] # "none" => q # p /\ reader'[q] = reader[q] /\ (Quiet(q)' <=> Quiet(q))
  BY <1>1, <1>2 DEF Quiet, Holding, Threads, FInv, Groups
<1>5. Threads' BY <1>1, <1>2, <1>3 DEF Threads, FInv, Groups
<1>6. Codes' BY <1>1, <1>2 DEF Codes, Threads, FInv, Groups
<1>7. Lines /\ Lasts /\ remaining = Cardinality(Pending) BY DEF Merging, Streaming
<1>8. Pending' = Pending BY <1>1, <1>4 DEF Pending, IsLast, Threads
<1>9. \A i \in DOMAIN queue : queue[i].p \in Providers BY QueueFacts DEF Threads
<1>10. Lines' BY <1>3, <1>7, <1>9 DEF Lines, IsLine
<1>11. Lasts'
  <2>1. \A i \in DOMAIN queue : IsLast(i) => reader'[queue[i].p] = "done" BY <1>4, <1>7, <1>9 DEF Lasts
  <2>2. \A i \in DOMAIN queue : queue[i].kind = "code" => Quiet(queue[i].p)'
    BY <1>4, <1>7, <1>9 DEF Lasts, IsLast
  <2>3. \A q \in Providers : reader'[q] \in {"waiting", "code"} => Quiet(q)'
    BY <1>1, <1>4, <1>7 DEF Lasts, Threads
  <2>4. \A q \in Providers \ Pending : Quiet(q)' BY <1>4, <1>7 DEF Lasts, Pending
  <2>5. QED BY <1>2, <1>7, <1>8, <2>1, <2>2, <2>3, <2>4 DEF Lasts, IsLast
<1>12. remaining' = Cardinality(Pending') BY <1>7, <1>8
<1>13. QED BY <1>5, <1>6, <1>10, <1>11, <1>12 DEF Merging

\* Spawning a provider, interrupted or not, preserves SInv.
LEMMA StreamSpawn ==
  ASSUME SInv, FInv, NEW p \in Providers, Spawn(p) \/ SpawnInterrupted(p)
  PROVE  SInv'
<1>1. /\ pc = "spawn" /\ p = started + 1 /\ primary = "none" /\ call = NoCall
      /\ UNCHANGED <<queue, taken, shown, remaining, result, cancelled>>
  BY DEF Spawn, SpawnInterrupted, SInv, Causes, Streaming, FInv, CallOK
<1>2. CASE Spawn(p)
  <2>1. pc' \in {"spawn", "loop"} /\ UNCHANGED <<primary, call, interrupts>> BY <1>2 DEF Spawn, Calm
  <2>2. Launch(p) /\ reader' = [reader EXCEPT ![p] = "reading"] BY <1>2 DEF Spawn
  <2>3. Threads' /\ Codes' /\ Merging' BY <1>1, <2>1, <2>2, StreamLaunched
  <2>4. Causes' BY <1>1, <2>1 DEF SInv, Causes, Streaming, NoCall
  <2>5. Whole' BY <2>1 DEF Whole, Streaming
  <2>6. QED BY <2>3, <2>4, <2>5 DEF SInv
<1>3. CASE SpawnInterrupted(p)
  <2>1. pc' \in {"cancel", "unspawn"} /\ primary' = "interrupt" /\ interrupts' = interrupts + 1
    BY <1>3 DEF SpawnInterrupted, Sigint, Ends
  <2>2. Threads' /\ Codes'
    <3>1. CASE UNCHANGED <<process, reader>>
      <4>1. \A q \in Providers : Put(q)' = Put(q) BY <1>1, <3>1 DEF Put
      <4>2. UNCHANGED <<leader, code, written>> BY <3>1 DEF process
      <4>3. QED BY <1>1, <3>1, <4>1, <4>2 DEF SInv, Threads, Codes
    <3>2. CASE Launch(p) /\ \E r \in {"none", "reading"} : reader' = [reader EXCEPT ![p] = r]
      BY <1>1, <3>2, StreamLaunched
    <3>3. CASE Launch(p) /\ UNCHANGED reader
      <4>1. started < p BY <1>1, FollowAssumption DEF FInv, Groups, FollowAssumption
      <4>2. reader[p] = "none" BY <4>1 DEF FInv, Groups, SInv, Threads
      <4>3. reader' = [reader EXCEPT ![p] = "none"] BY <3>3, <4>2 DEF SInv, Threads
      <4>4. QED BY <1>1, <3>3, <4>3, StreamLaunched
    <3>4. QED BY <1>3, <3>1, <3>2, <3>3 DEF SpawnInterrupted, Ends
  <2>3. Causes'
    <3>1. interrupts' \in Nat /\ interrupts' > 0 BY <2>1 DEF SInv, Causes
    <3>2. QED BY <1>1, <2>1, <3>1 DEF SInv, Causes, Streaming
  <2>4. Merging' /\ Whole' BY <2>1 DEF Merging, Whole, Streaming
  <2>5. QED BY <2>2, <2>3, <2>4 DEF SInv
<1>4. QED BY <1>2, <1>3

\* The main thread's other steps, of the loop's end and after it.
LEMMA StreamMain ==
  ASSUME SInv, FInv, AllEnded \/ Cancel \/ CleanUp \/ Join \/ SpawnFails \/ LoopEnds \/ JoinInterrupted \/ DeferSigint
  PROVE  SInv'
<1>1. UNCHANGED <<process, queue, reader, taken, shown, remaining, result>>
  BY DEF AllEnded, Cancel, CleanUp, Join, SpawnFails, LoopEnds, JoinInterrupted, DeferSigint, reading
<1>2. UNCHANGED <<leader, code, member, written>> BY <1>1 DEF process
<1>3. Settling BY <1>1, <1>2 DEF Settling, Quiet, Holding
<1>4. Streaming' => Streaming
  BY DEF AllEnded, Cancel, CleanUp, Join, SpawnFails, LoopEnds, JoinInterrupted, DeferSigint, Streaming, Ends
<1>5. Threads' /\ Merging'
  <2>1. \A p \in Providers : written[p] \in Nat /\ written[p] <= MaxLines BY DEF SInv, Threads
  <2>2. QED BY <1>1, <1>2, <1>3, <1>4, <2>1, Still DEF SInv, Threads
<1>6. Codes' BY <1>1, <1>2, <1>3, StillCodes DEF SInv, Codes
<1>7. Whole'
  <2>1. CASE AllEnded
    <3>1. Streaming /\ Lines /\ Lasts /\ Cardinality(Pending) = 0
      BY <2>1 DEF AllEnded, SInv, Merging, Streaming
    <3>2. Pending = {}
      <4>1. IsFiniteSet(Pending) BY ProvidersFinite, FS_Subset DEF Pending
      <4>2. QED BY <3>1, <4>1, FS_EmptySet
    <3>3. \A p \in Providers : /\ Quiet(p) /\ (code[p] = "ok" \/ result = "bad") /\ reader[p] = "done"
                               /\ \A i \in DOMAIN queue : queue[i].p # p
      BY <3>1, <3>2 DEF Lasts, Pending
    <3>4. \A p \in Providers : shown[p] = written[p]
      <4>1. TAKE p \in Providers
      <4>2. Put(p) = taken[p] /\ taken[p] = written[p] BY <3>3 DEF Put, Quiet
      <4>3. ~(shown[p] < taken[p]) BY <3>1, <3>3, <4>2, PutFacts DEF Lines, SInv
      <4>4. QED BY <4>2, <4>3 DEF SInv, Threads
    <3>5. QED BY <1>1, <1>2, <1>3, <3>3, <3>4 DEF Whole, Settling
  <2>2. CASE ~AllEnded
    <3>1. primary' = "none" /\ ~Streaming' => primary = "none" /\ ~Streaming
      BY <2>2 DEF Cancel, CleanUp, Join, SpawnFails, LoopEnds, JoinInterrupted, DeferSigint, Streaming, Ends
    <3>2. QED BY <1>1, <1>3, <3>1, StillWhole
  <2>3. QED BY <2>1, <2>2
<1>8. Causes'
  <2>0. interrupts \in Nat BY DEF SInv, Causes
  <2>1. CASE AllEnded \/ Cancel \/ CleanUp \/ Join
    <3>1. UNCHANGED <<primary, interrupts>> BY <2>1 DEF AllEnded, Cancel, CleanUp, Join, Calm
    <3>2. call = NoCall BY <2>1 DEF AllEnded, Cancel, CleanUp, Join, FInv, CallOK
    <3>3. call' # NoCall => call'.late = FALSE
      BY <2>1, <3>2 DEF AllEnded, Cancel, CleanUp, Join, Calling
    <3>4. cancelled' \in BOOLEAN BY <2>1 DEF AllEnded, Cancel, CleanUp, Join, SInv, Causes
    <3>5. ~Streaming' BY <2>1 DEF AllEnded, Cancel, CleanUp, Join, Streaming
    <3>6. pc' \in {"unspawn", "term", "retry"} => primary # "none"
      BY <2>1 DEF AllEnded, Cancel, CleanUp, Join, SInv, Causes
    <3>7. QED BY <3>1, <3>2, <3>3, <3>4, <3>5, <3>6 DEF SInv, Causes
  <2>2. CASE SpawnFails
    BY <2>2 DEF SpawnFails, Ends, Fault, SInv, Causes, Streaming, FInv, CallOK
  <2>3. CASE LoopEnds
    BY <2>0, <2>3 DEF LoopEnds, Ends, Fault, Sigint, SInv, Causes, Streaming, FInv, CallOK
  <2>4. CASE JoinInterrupted
    BY <2>0, <2>4 DEF JoinInterrupted, Sigint, SInv, Causes, Streaming, FInv, CallOK
  <2>5. CASE DeferSigint
    <3>1. call # NoCall /\ call \in Calls /\ pc \in {"unspawn", "term", "retry", "close"}
      BY <2>5 DEF DeferSigint, FInv, CallOK
    <3>2. call' \in Calls /\ call'.late = TRUE BY <2>5, <3>1 DEF DeferSigint, Calls
    <3>3. call' # NoCall BY <3>2 DEF Calls, NoCall
    <3>4. interrupts' \in Nat /\ interrupts' > 0 BY <2>0, <2>5 DEF DeferSigint, Sigint
    <3>5. UNCHANGED <<pc, primary, cancelled>> BY <2>5 DEF DeferSigint
    <3>6. QED BY <3>1, <3>2, <3>3, <3>4, <3>5 DEF SInv, Causes, Streaming
  <2>6. QED BY <2>1, <2>2, <2>3, <2>4, <2>5
<1>9. QED BY <1>5, <1>6, <1>7, <1>8 DEF SInv

\* A reader's step that puts nothing in the queue.
LEMMA StreamRead ==
  ASSUME SInv, FInv, NEW p \in Providers, ReadLine(p) \/ EndOfFile(p) \/ ReadFails(p) \/ Wait(p)
  PROVE  SInv'
<1> USE DEF SInv
<1>1. /\ UNCHANGED <<queue, process, main, interrupts>>
      /\ reader[p] \in {"reading", "waiting"}
      /\ \E r \in {"line", "waiting", "error", "code"} : reader' = [reader EXCEPT ![p] = r]
  BY DEF ReadLine, EndOfFile, ReadFails, Wait, Step, Calm, Fault
<1>2. UNCHANGED <<leader, code, member, written, pc, primary, call, cancelled, result, remaining, shown>>
  BY <1>1 DEF process, main
<1>3. /\ taken' \in [Providers -> Nat]
      /\ \A q \in Providers : Put(q)' = Put(q) /\ taken'[q] <= written[q]
      /\ \A q \in Providers : q # p => taken'[q] = taken[q] /\ reader'[q] = reader[q]
  <2>1. CASE ReadLine(p) BY <2>1 DEF ReadLine, Step, Threads, Put
  <2>2. CASE ~ReadLine(p)
    BY <1>1, <2>2 DEF EndOfFile, ReadFails, Wait, Step, Threads, Put
  <2>3. QED BY <2>1, <2>2
<1>4. \A q \in Providers : Quiet(q) => Quiet(q)'
  <2>1. CASE ReadLine(p)
    <3>1. ~Quiet(p) BY <2>1 DEF ReadLine, Quiet, Threads
    <3>2. QED BY <1>2, <1>3, <3>1 DEF Quiet, Holding
  <2>2. CASE ~ReadLine(p)
    <3>1. UNCHANGED taken BY <2>2 DEF EndOfFile, ReadFails, Wait
    <3>2. QED BY <1>2, <3>1 DEF Quiet, Holding
  <2>3. QED BY <2>1, <2>2
<1>5. Threads'
  <2>1. leader[p] # "unborn" BY <1>1 DEF Threads
  <2>2. QED BY <1>1, <1>2, <1>3, <2>1 DEF Threads
<1>6. Codes'
  <2>1. reader'[p] = "code" => code[p] # "none"
    BY <1>1 DEF ReadLine, EndOfFile, ReadFails, Wait, Step, Codes, Threads
  <2>2. QED BY <1>1, <1>2, <1>3, <2>1 DEF Codes
<1>7. Causes' BY <1>1, <1>2 DEF Causes, Streaming
<1>8. Whole' BY <1>2, <1>4 DEF Whole, Streaming
<1>9. ASSUME Streaming PROVE Lines' /\ Lasts' /\ remaining' = Cardinality(Pending')
  <2>1. Lines /\ Lasts /\ remaining = Cardinality(Pending) BY <1>9 DEF Merging
  <2>2. \A i \in DOMAIN queue : queue[i].p \in Providers BY QueueFacts DEF Threads
  <2>3. p \in Pending /\ reader'[p] # "done" /\ reader[p] # "done" BY <1>1 DEF Pending, Threads
  <2>4. Pending' = Pending BY <1>1, <1>3, <2>3 DEF Pending, IsLast
  <2>5. Lines' BY <1>1, <1>2, <1>3, <2>1, <2>2 DEF Lines, IsLine
  <2>6. Lasts'
    <3>1. \A i \in DOMAIN queue : IsLast(i) => queue[i].p # p BY <2>1, <2>3 DEF Lasts
    <3>2. \A i \in DOMAIN queue : IsLast(i) => reader'[queue[i].p] = "done" BY <1>3, <2>1, <2>2, <3>1 DEF Lasts
    <3>3. \A i \in DOMAIN queue : queue[i].kind = "code" => Quiet(queue[i].p)'
      BY <1>1, <1>4, <2>1, <2>2 DEF Lasts
    <3>4. \A q \in Providers : reader'[q] \in {"waiting", "code"} => Quiet(q)'
      <4>1. reader'[p] \in {"waiting", "code"} => Quiet(p)'
        <5>1. CASE EndOfFile(p) BY <1>2, <5>1 DEF EndOfFile, Quiet, Holding
        <5>2. CASE Wait(p) BY <1>4, <2>1, <5>2 DEF Wait, Step, Lasts
        <5>3. CASE ReadLine(p) \/ ReadFails(p) BY <5>3 DEF ReadLine, ReadFails, Step, Threads
        <5>4. QED BY <5>1, <5>2, <5>3
      <4>2. QED BY <1>3, <1>4, <2>1, <4>1 DEF Lasts
    <3>5. QED BY <1>1, <1>2, <1>4, <2>1, <2>4, <3>2, <3>3, <3>4 DEF Lasts, IsLast
  <2>7. QED BY <1>2, <2>1, <2>4, <2>5, <2>6
<1>10. Merging' BY <1>2, <1>9 DEF Merging, Streaming
<1>11. QED BY <1>5, <1>6, <1>7, <1>8, <1>10

\* A reader that gives up, the follow being cancelled, preserves SInv.
LEMMA StreamGiveUp ==
  ASSUME SInv, FInv, NEW p \in Providers, GiveUp(p)
  PROVE  SInv'
<1> USE DEF SInv
<1>1. /\ UNCHANGED <<queue, taken, process, main, interrupts>> /\ cancelled
      /\ reader[p] \in {"line", "code", "error"} /\ reader' = [reader EXCEPT ![p] = "done"]
  BY DEF GiveUp, Step, Calm
<1>2. UNCHANGED <<leader, code, member, written, pc, primary, call, cancelled, result, remaining, shown>>
  BY <1>1 DEF process, main
<1>3. ~Streaming BY <1>1 DEF Causes
<1>4. Threads'
  <2>1. \A q \in Providers : Put(q) <= Put(q)' /\ Put(q)' \in Int BY <1>1 DEF Put, Threads
  <2>2. \A q \in Providers : shown[q] <= Put(q)' BY <2>1, PutFacts DEF Threads
  <2>3. leader[p] # "unborn" BY <1>1 DEF Threads
  <2>4. QED BY <1>1, <1>2, <2>2, <2>3 DEF Threads
<1>5. Codes' BY <1>1, <1>2 DEF Codes, Threads
<1>6. Causes' BY <1>1, <1>2 DEF Causes, Streaming
<1>7. Whole' BY <1>1, <1>2 DEF Whole, Streaming, Quiet, Holding
<1>8. QED BY <1>2, <1>3, <1>4, <1>5, <1>6, <1>7 DEF Merging, Streaming

\* The event a reader puts, and the queue it leaves.
LEMMA PutEvent ==
  ASSUME SInv, FInv, NEW p \in Providers, reader[p] \in {"line", "code", "error"}, queue' = Append(queue, EventOf(p))
  PROVE  /\ EventOf(p) \in Events /\ EventOf(p).p = p
         /\ EventOf(p).kind = reader[p]
         /\ reader[p] = "line" => EventOf(p).n = taken[p]
         /\ reader[p] = "code" => EventOf(p).code = code[p]
         /\ queue' \in Seq(Events) /\ DOMAIN queue' = 1 .. Len(queue) + 1 /\ DOMAIN queue = 1 .. Len(queue)
         /\ Len(queue) \in Nat
         /\ queue'[Len(queue) + 1] = EventOf(p)
         /\ \A i \in DOMAIN queue : queue'[i] = queue[i]
<1>1. queue \in Seq(Events) /\ taken[p] \in Nat /\ written[p] \in Nat /\ taken[p] <= MaxLines
  BY FollowAssumption DEF SInv, Threads, FollowAssumption
<1>2. CASE reader[p] = "line"
  <2>1. taken[p] \in 1 .. MaxLines
    <3>1. shown[p] <= taken[p] - 1 /\ shown[p] \in Nat BY <1>2 DEF SInv, Threads, Put
    <3>2. QED BY <1>1, <3>1, FollowAssumption DEF FollowAssumption
  <2>2. EventOf(p) = [p |-> p, kind |-> "line", n |-> taken[p]] BY <1>2 DEF EventOf
  <2>3. EventOf(p) \in [p : Providers, kind : {"line"}, n : 1 .. MaxLines] BY <2>1, <2>2
  <2>4. EventOf(p) \in Events BY <2>3 DEF Events
  <2>5. QED BY <1>1, <1>2, <2>2, <2>4
<1>3. CASE reader[p] = "code"
  <2>1. code[p] \in {"ok", "bad"} BY <1>3 DEF SInv, Codes, FInv, Groups
  <2>2. EventOf(p) = [p |-> p, kind |-> "code", code |-> code[p]] BY <1>3 DEF EventOf
  <2>3. EventOf(p) \in [p : Providers, kind : {"code"}, code : {"ok", "bad"}] BY <2>1, <2>2
  <2>4. EventOf(p) \in Events BY <2>3 DEF Events
  <2>5. QED BY <1>1, <1>3, <2>2, <2>4
<1>4. CASE reader[p] = "error"
  <2>1. EventOf(p) = [p |-> p, kind |-> "error"] BY <1>4 DEF EventOf
  <2>2. EventOf(p) \in Events BY <2>1 DEF Events
  <2>3. QED BY <1>1, <1>4, <2>1, <2>2
<1>5. QED BY <1>2, <1>3, <1>4

\* A reader that puts its event into the queue preserves SInv.
LEMMA StreamPublish ==
  ASSUME SInv, FInv, NEW p \in Providers, Publish(p)
  PROVE  SInv'
<1> USE DEF SInv
<1>1. /\ UNCHANGED <<taken, process, main, interrupts>> /\ queue' = Append(queue, EventOf(p))
      /\ \/ reader[p] = "line" /\ reader' = [reader EXCEPT ![p] = "reading"]
         \/ reader[p] \in {"code", "error"} /\ reader' = [reader EXCEPT ![p] = "done"]
  BY DEF Publish, Step, Calm
<1>2. UNCHANGED <<leader, code, member, written, pc, primary, call, cancelled, result, remaining, shown>>
  BY <1>1 DEF process, main
<1>a. PICK k \in Nat : k = Len(queue) + 1 BY QueueFacts DEF Threads
<1>b. PICK e \in Events : e = EventOf(p) BY <1>1, PutEvent
<1>3. /\ e.p = p /\ e.kind = reader[p]
      /\ reader[p] = "line" => e.n = taken[p]
      /\ reader[p] = "code" => e.code = code[p]
      /\ queue' \in Seq(Events) /\ DOMAIN queue' = 1 .. k /\ DOMAIN queue = 1 .. k - 1
      /\ k \in DOMAIN queue' /\ queue'[k] = e
      /\ \A i \in DOMAIN queue : queue'[i] = queue[i]
  <2>1. reader[p] \in {"line", "code", "error"} BY <1>1
  <2>2. QED BY <1>1, <1>a, <1>b, <2>1, PutEvent
<1>4. \A i \in DOMAIN queue' : i = k \/ (i \in DOMAIN queue /\ i < k)
  <2>1. \A i \in 1 .. k : i = k \/ (i \in 1 .. k - 1 /\ i < k) BY <1>a
  <2>2. DOMAIN queue' = 1 .. k /\ DOMAIN queue = 1 .. k - 1 BY <1>3
  <2>3. QED BY <2>1, <2>2
<1>5. \A i \in DOMAIN queue : queue[i].p \in Providers /\ i \in DOMAIN queue' /\ i # k
  BY <1>3, QueueFacts DEF Threads
<1>6. /\ \A q \in Providers : q # p => Put(q)' = Put(q) /\ reader'[q] = reader[q]
      /\ reader[p] = "line" => Put(p) = taken[p] - 1
      /\ reader[p] # "line" => Put(p) = taken[p]
      /\ Put(p)' = taken[p] /\ taken[p] \in Nat
  BY <1>1 DEF Put, Threads
<1>7. \A q \in Providers : Quiet(q)' <=> Quiet(q) BY <1>1, <1>2 DEF Quiet, Holding
<1>8. Threads'
  <2>1. \A q \in Providers : shown[q] <= Put(q)'
    <3>1. TAKE q \in Providers
    <3>2. shown[q] \in Nat /\ shown[q] <= Put(q) /\ Put(q) <= taken[q] /\ Put(q) \in Int
      BY PutFacts DEF Threads
    <3>3. CASE q = p BY <1>6, <3>2, <3>3
    <3>4. CASE q # p BY <1>6, <3>2, <3>4
    <3>5. QED BY <3>3, <3>4
  <2>2. leader[p] # "unborn" BY <1>1 DEF Threads
  <2>3. QED BY <1>1, <1>2, <1>3, <2>1, <2>2 DEF Threads
<1>9. Codes'
  <2>1. \A i \in DOMAIN queue' : queue'[i].kind = "code" => queue'[i].code = code[queue'[i].p]
    BY <1>3, <1>4 DEF Codes
  <2>2. QED BY <1>1, <1>2, <2>1 DEF Codes, Threads
<1>10. Causes' BY <1>1, <1>2 DEF Causes, Streaming
<1>11. Whole' BY <1>2, <1>7 DEF Whole, Streaming
<1>12. ASSUME Streaming PROVE Lines' /\ Lasts' /\ remaining' = Cardinality(Pending')
  <2>1. Lines /\ Lasts /\ remaining = Cardinality(Pending) BY <1>12 DEF Merging
  <2>2. \A i \in DOMAIN queue : IsLast(i) => queue[i].p # p BY <1>1, <2>1 DEF Lasts
  <2>3. \A i \in DOMAIN queue : (IsLine(i)' <=> IsLine(i)) /\ (IsLast(i)' <=> IsLast(i))
    BY <1>3, <1>5 DEF IsLine, IsLast
  <2>4. (IsLine(k)' <=> reader[p] = "line") /\ (IsLast(k)' <=> reader[p] \in {"code", "error"})
    BY <1>1, <1>3 DEF IsLine, IsLast
  <2>5. Pending' = Pending
    <3>1. p \in Pending BY <1>1 DEF Pending, Threads
    <3>2. p \in Pending'
      <4>1. CASE reader[p] = "line" BY <1>1, <4>1 DEF Pending, Threads
      <4>2. CASE reader[p] # "line"
        <5>1. k \in DOMAIN queue' /\ IsLast(k)' /\ queue'[k].p = p BY <1>1, <1>3, <2>4, <4>2
        <5>2. QED BY <5>1 DEF Pending
      <4>3. QED BY <4>1, <4>2
    <3>3. \A q \in Providers : q # p => (q \in Pending' <=> q \in Pending)
      BY <1>3, <1>4, <1>5, <1>6, <2>3 DEF Pending
    <3>4. QED BY <3>1, <3>2, <3>3 DEF Pending
  <2>6. Lines'
    <3>1. \A q \in Providers, m \in Nat : shown[q] < m /\ m <= Put(q)' =>
            \E i \in DOMAIN queue' : IsLine(i)' /\ queue'[i].p = q /\ queue'[i].n = m
      <4>1. SUFFICES ASSUME NEW q \in Providers, NEW m \in Nat, shown[q] < m, m <= Put(q)'
                     PROVE \E i \in DOMAIN queue' : IsLine(i)' /\ queue'[i].p = q /\ queue'[i].n = m
        OBVIOUS
      <4>2. CASE m <= Put(q)
        <5>1. PICK i \in DOMAIN queue : IsLine(i) /\ queue[i].p = q /\ queue[i].n = m BY <2>1, <4>1, <4>2 DEF Lines
        <5>2. QED BY <1>3, <1>5, <2>3, <5>1
      <4>3. CASE ~(m <= Put(q))
        <5>1. q = p /\ reader[p] = "line" /\ m = taken[p] BY <1>1, <1>6, <4>1, <4>3
        <5>2. QED BY <1>3, <2>4, <5>1
      <4>4. QED BY <4>2, <4>3
    <3>2. \A i \in DOMAIN queue' : IsLine(i)' => shown[queue'[i].p] < queue'[i].n /\ queue'[i].n <= Put(queue[i].p)'
      <4>1. SUFFICES ASSUME NEW i \in DOMAIN queue', IsLine(i)'
                     PROVE shown[queue'[i].p] < queue'[i].n /\ queue'[i].n <= Put(queue[i].p)'
        OBVIOUS
      <4>2. CASE i = k
        <5>1. shown[p] \in Nat /\ shown[p] <= taken[p] - 1 BY <1>6, <2>4, <4>1, <4>2 DEF Threads
        <5>2. queue'[i].p = p /\ queue'[i].n = taken[p] BY <1>3, <2>4, <4>1, <4>2
        <5>3. QED BY <1>6, <5>1, <5>2
      <4>3. CASE i # k
        <5>1. i \in DOMAIN queue /\ IsLine(i) /\ queue'[i] = queue[i] BY <1>3, <1>4, <2>3, <4>1, <4>3
        <5>2. shown[queue[i].p] < queue[i].n /\ queue[i].n <= Put(queue[i].p) /\ queue[i].n \in Nat
          BY <2>1, <5>1, QueueFacts DEF Lines, Threads, IsLine
        <5>3. PICK q \in Providers : q = queue[i].p BY <1>5, <5>1
        <5>4. q = queue'[i].p /\ Put(q) <= Put(q)' /\ Put(q) \in Int /\ Put(q)' \in Int
          BY <1>6, <5>1, <5>3, PutFacts
        <5>5. QED BY <5>1, <5>2, <5>3, <5>4
      <4>4. QED BY <4>2, <4>3
    <3>3. \A i, j \in DOMAIN queue' : i < j /\ queue'[i].p = queue'[j].p =>
            IsLine(i)' /\ (IsLine(j)' => queue'[i].n < queue'[j].n)
      <4>1. SUFFICES ASSUME NEW i \in DOMAIN queue', NEW j \in DOMAIN queue', i < j, queue'[i].p = queue'[j].p
                     PROVE IsLine(i)' /\ (IsLine(j)' => queue'[i].n < queue'[j].n)
        OBVIOUS
      <4>2. i \in DOMAIN queue /\ queue'[i] = queue[i] BY <1>3, <4>1
      <4>3. CASE j = k
        <5>1. queue[i].p = p /\ IsLine(i) BY <1>3, <2>2, <4>1, <4>2, <4>3 DEF IsLine, IsLast
        <5>2. IsLine(j)' => queue[i].n <= taken[p] - 1 /\ queue[i].n \in Nat
          BY <1>6, <2>1, <2>4, <4>2, <4>3, <5>1, QueueFacts DEF Lines, Threads, IsLine
        <5>3. IsLine(j)' => queue'[j].n = taken[p] BY <1>3, <2>4, <4>3
        <5>4. QED BY <1>6, <2>3, <4>2, <5>1, <5>2, <5>3
      <4>4. CASE j # k
        <5>1. j \in DOMAIN queue /\ queue'[j] = queue[j] BY <1>3, <1>4, <4>4
        <5>2. QED BY <2>1, <2>3, <4>1, <4>2, <5>1 DEF Lines
      <4>5. QED BY <4>3, <4>4
    <3>4. QED BY <1>2, <3>1, <3>2, <3>3 DEF Lines
  <2>7. Lasts'
    <3>1. \A i \in DOMAIN queue' : IsLast(i)' => reader'[queue'[i].p] = "done"
      <4>1. \A i \in DOMAIN queue : IsLast(i) => reader'[queue[i].p] = "done" BY <1>5, <1>6, <2>1, <2>2 DEF Lasts
      <4>2. IsLast(k)' => reader'[p] = "done" BY <1>1, <2>4 DEF Threads
      <4>3. QED BY <1>3, <1>4, <2>3, <4>1, <4>2
    <3>2. \A i \in DOMAIN queue' : queue'[i].kind = "code" => Quiet(queue[i].p)'
      BY <1>3, <1>4, <1>5, <1>7, <2>1 DEF Lasts
    <3>3. \A q \in Providers : reader'[q] \in {"waiting", "code"} => Quiet(q)'
      BY <1>1, <1>6, <1>7, <2>1 DEF Lasts, Threads
    <3>4. \A q \in Providers \ Pending : q # p BY <1>1 DEF Pending, Threads
    <3>5. \A q \in Providers \ Pending : \A i \in DOMAIN queue' : queue'[i].p # q
      BY <1>3, <1>4, <2>1, <3>4 DEF Lasts
    <3>6. QED BY <1>2, <1>7, <2>1, <2>5, <3>1, <3>2, <3>3, <3>5 DEF Lasts
  <2>8. QED BY <1>2, <2>1, <2>5, <2>6, <2>7
<1>13. Merging' BY <1>2, <1>12 DEF Merging, Streaming
<1>14. QED BY <1>8, <1>9, <1>10, <1>11, <1>13

\* The queue when its head is taken.
LEMMA TakeHead ==
  ASSUME queue \in Seq(Events), queue # <<>>, queue' = Tail(queue)
  PROVE  /\ queue' \in Seq(Events) /\ 1 \in DOMAIN queue /\ Head(queue) = queue[1]
         /\ \A i \in DOMAIN queue' : i \in Nat /\ i + 1 \in DOMAIN queue /\ queue'[i] = queue[i + 1]
         /\ \A i \in DOMAIN queue : i # 1 => i \in Nat /\ i - 1 \in DOMAIN queue' /\ 1 < i /\ queue'[i - 1] = queue[i]
OBVIOUS

\* The main thread taking an event preserves SInv.
LEMMA StreamConsume ==
  ASSUME SInv, FInv, Consume
  PROVE  SInv'
<1> USE DEF SInv
<1>a. queue \in Seq(Events) BY DEF Threads
<1>1. /\ pc = "loop" /\ remaining > 0 /\ queue # <<>> /\ queue' = Tail(queue)
      /\ UNCHANGED <<leader, code, member, written, taken, reader, call, cancelled, interrupts>>
  BY DEF Consume, process, Calm
<1>2. PICK e \in Events : e = queue[1] /\ e = Head(queue) /\ 1 \in DOMAIN queue
  BY <1>a, <1>1, TakeHead
<1>3. /\ e.p \in Providers /\ e.kind \in {"line", "code", "error"}
      /\ e.kind = "line" => e.n \in Nat
  BY <1>2, EventFacts
<1>4. /\ IF e.kind = "error" THEN Ends("error") ELSE UNCHANGED <<pc, primary>>
      /\ shown' = IF e.kind = "line" THEN [shown EXCEPT ![e.p] = e.n] ELSE shown
      /\ remaining' = IF e.kind = "code" THEN remaining - 1 ELSE remaining
      /\ result' = IF e.kind = "code" /\ e.code = "bad" THEN "bad" ELSE result
  BY <1>2 DEF Consume
<1>5. /\ queue' \in Seq(Events)
      /\ \A i \in DOMAIN queue' : i \in Nat /\ i + 1 \in DOMAIN queue /\ queue'[i] = queue[i + 1]
      /\ \A i \in DOMAIN queue : i # 1 => i \in Nat /\ i - 1 \in DOMAIN queue' /\ 1 < i /\ queue'[i - 1] = queue[i]
  BY <1>a, <1>1, TakeHead
<1>6. Lines /\ Lasts /\ remaining = Cardinality(Pending) BY <1>1 DEF Merging, Streaming
<1>7. \A q \in Providers : (Put(q)' = Put(q)) /\ (Quiet(q)' <=> Quiet(q))
  BY <1>1 DEF Put, Quiet, Holding
<1>8. e.kind = "line" => shown[e.p] < e.n /\ e.n <= Put(e.p)
  BY <1>2, <1>6 DEF Lines, IsLine
<1>9. Threads'
  <2>1. shown' \in [Providers -> Nat] BY <1>3, <1>4 DEF Threads
  <2>2. \A q \in Providers : shown'[q] <= Put(q) BY <1>3, <1>4, <1>8 DEF Threads
  <2>3. QED BY <1>1, <1>5, <1>7, <2>1, <2>2 DEF Threads
<1>10. Codes'
  <2>1. \A i \in DOMAIN queue' : queue'[i].kind = "code" => queue'[i].code = code[queue'[i].p]
    BY <1>5 DEF Codes
  <2>2. QED BY <1>1, <1>4, <2>1 DEF Codes
<1>11. Causes' BY <1>1, <1>4 DEF Causes, Streaming, Ends, FInv, CallOK
<1>12. CASE e.kind = "error"
  <2>1. pc' = "cancel" /\ primary' = "error" BY <1>4, <1>12 DEF Ends
  <2>2. QED BY <1>9, <1>10, <1>11, <2>1 DEF Merging, Whole, Streaming
<1>13. CASE e.kind # "error"
  <2>1. pc' = "loop" BY <1>1, <1>4, <1>13
  <2>2. \A i \in DOMAIN queue' : (IsLine(i)' <=> IsLine(i + 1)) /\ (IsLast(i)' <=> IsLast(i + 1))
    BY <1>5 DEF IsLine, IsLast
  <2>3. \A i \in DOMAIN queue : queue[i].p \in Providers BY <1>a, QueueFacts
  <2>4. Lines'
    <3>1. \A q \in Providers, m \in Nat : shown'[q] < m /\ m <= Put(q) =>
            \E i \in DOMAIN queue' : IsLine(i)' /\ queue'[i].p = q /\ queue'[i].n = m
      <4>1. SUFFICES ASSUME NEW q \in Providers, NEW m \in Nat, shown'[q] < m, m <= Put(q)
                     PROVE \E i \in DOMAIN queue' : IsLine(i)' /\ queue'[i].p = q /\ queue'[i].n = m
        OBVIOUS
      <4>2. shown[q] < m BY <1>3, <1>4, <1>8, <4>1 DEF Threads
      <4>3. PICK i \in DOMAIN queue : IsLine(i) /\ queue[i].p = q /\ queue[i].n = m
        BY <1>6, <4>1, <4>2 DEF Lines
      <4>4. i # 1 BY <1>2, <1>3, <1>4, <4>1, <4>3 DEF Threads, IsLine
      <4>5. PICK j \in DOMAIN queue' : j = i - 1 /\ i = j + 1 /\ queue'[j] = queue[i] BY <1>5, <4>4
      <4>6. QED BY <2>2, <4>3, <4>5
    <3>2. \A i \in DOMAIN queue' : IsLine(i)' => shown'[queue'[i].p] < queue'[i].n /\ queue'[i].n <= Put(queue'[i].p)
      <4>1. SUFFICES ASSUME NEW i \in DOMAIN queue', IsLine(i)'
                     PROVE shown'[queue'[i].p] < queue'[i].n /\ queue'[i].n <= Put(queue'[i].p)
        OBVIOUS
      <4>2. PICK j \in DOMAIN queue : j = i + 1 /\ queue[j] = queue'[i] /\ IsLine(j) /\ 1 < j
        BY <1>5, <2>2, <4>1
      <4>3. shown[queue[j].p] < queue[j].n /\ queue[j].n <= Put(queue[j].p) BY <1>6, <4>2 DEF Lines
      <4>4. e.kind = "line" /\ e.p = queue[j].p => e.n < queue[j].n BY <1>2, <1>6, <4>2 DEF Lines
      <4>5. QED BY <1>3, <1>4, <2>3, <4>2, <4>3, <4>4 DEF Threads
    <3>3. \A i, j \in DOMAIN queue' : i < j /\ queue'[i].p = queue'[j].p =>
            IsLine(i)' /\ (IsLine(j)' => queue'[i].n < queue'[j].n)
      <4>1. SUFFICES ASSUME NEW i \in DOMAIN queue', NEW j \in DOMAIN queue', i < j, queue'[i].p = queue'[j].p
                     PROVE IsLine(i)' /\ (IsLine(j)' => queue'[i].n < queue'[j].n)
        OBVIOUS
      <4>2. /\ i + 1 \in DOMAIN queue /\ j + 1 \in DOMAIN queue /\ i + 1 < j + 1
            /\ queue'[i] = queue[i + 1] /\ queue'[j] = queue[j + 1]
        BY <1>5, <4>1
      <4>3. IsLine(i + 1) /\ (IsLine(j + 1) => queue[i + 1].n < queue[j + 1].n)
        BY <1>6, <4>1, <4>2 DEF Lines
      <4>4. QED BY <2>2, <4>2, <4>3
    <3>4. \A q \in Providers : Put(q)' = Put(q) BY <1>7
    <3>5. \A i \in DOMAIN queue' : queue'[i].p \in Providers BY <1>5, <2>3
    <3>6. QED BY <3>1, <3>2, <3>3, <3>4, <3>5 DEF Lines
  <2>5. Lasts' /\ remaining' = Cardinality(Pending')
    <3>1. \A i \in DOMAIN queue' : IsLast(i)' => reader'[queue'[i].p] = "done"
      BY <1>1, <1>5, <1>6, <2>2 DEF Lasts
    <3>2. \A i \in DOMAIN queue' : queue'[i].kind = "code" => Quiet(queue'[i].p)
      BY <1>5, <1>6 DEF Lasts
    <3>3. \A q \in Providers : reader'[q] \in {"waiting", "code"} => Quiet(q) BY <1>1, <1>6 DEF Lasts
    <3>4. \A i \in DOMAIN queue' : queue'[i].p \in Providers BY <1>5, <2>3
    <3>5. CASE e.kind = "line"
      <4>1. Pending' = Pending
        <5>1. \A q \in Providers : (\E i \in DOMAIN queue : IsLast(i) /\ queue[i].p = q)
                                     => \E j \in DOMAIN queue' : IsLast(j)' /\ queue'[j].p = q
          <6>1. SUFFICES ASSUME NEW q \in Providers, NEW i \in DOMAIN queue, IsLast(i), queue[i].p = q
                         PROVE \E j \in DOMAIN queue' : IsLast(j)' /\ queue'[j].p = q
            OBVIOUS
          <6>2. i # 1 BY <1>2, <3>5, <6>1 DEF IsLast
          <6>3. PICK j \in DOMAIN queue' : i = j + 1 /\ queue'[j] = queue[i] BY <1>5, <6>2
          <6>4. QED BY <2>2, <6>1, <6>3
        <5>2. \A q \in Providers : (\E i \in DOMAIN queue' : IsLast(i)' /\ queue'[i].p = q)
                                     => \E j \in DOMAIN queue : IsLast(j) /\ queue[j].p = q
          BY <1>5, <2>2
        <5>3. QED BY <1>1, <5>1, <5>2 DEF Pending
      <4>2. \A q \in Providers \ Pending : \A i \in DOMAIN queue' : queue'[i].p # q
        BY <1>5, <1>6 DEF Lasts
      <4>3. UNCHANGED <<result, remaining>> BY <1>4, <3>5
      <4>4. remaining' = Cardinality(Pending') BY <1>6, <4>1, <4>3
      <4>5. QED BY <1>1, <1>6, <1>7, <3>1, <3>2, <3>3, <3>4, <4>1, <4>2, <4>3, <4>4 DEF Lasts, IsLast
    <3>6. CASE e.kind = "code"
      <4>1. IsLast(1) /\ reader[e.p] = "done" /\ Quiet(e.p) /\ e.code = code[e.p] /\ e.p \in Pending
        BY <1>2, <1>3, <1>6, <3>6 DEF IsLast, Lasts, Codes, Pending
      <4>2. \A i \in DOMAIN queue' : queue'[i].p # e.p
        <5>1. \A j \in DOMAIN queue : 1 < j => queue[j].p # e.p
          BY <1>2, <1>6, <3>6 DEF Lines, IsLine
        <5>2. QED BY <1>5, <5>1
      <4>3. Pending' = Pending \ {e.p}
        <5>1. e.p \notin Pending' BY <1>1, <4>1, <4>2 DEF Pending
        <5>2. \A q \in Providers : q # e.p => ((\E i \in DOMAIN queue : IsLast(i) /\ queue[i].p = q)
                                     => \E j \in DOMAIN queue' : IsLast(j)' /\ queue'[j].p = q)
          <6>1. SUFFICES ASSUME NEW q \in Providers, q # e.p, NEW i \in DOMAIN queue, IsLast(i), queue[i].p = q
                         PROVE \E j \in DOMAIN queue' : IsLast(j)' /\ queue'[j].p = q
            OBVIOUS
          <6>2. i # 1 BY <1>2, <6>1
          <6>3. PICK j \in DOMAIN queue' : i = j + 1 /\ queue'[j] = queue[i] BY <1>5, <6>2
          <6>4. QED BY <2>2, <6>1, <6>3
        <5>3. \A q \in Providers : (\E i \in DOMAIN queue' : IsLast(i)' /\ queue'[i].p = q)
                                     => \E j \in DOMAIN queue : IsLast(j) /\ queue[j].p = q
          BY <1>5, <2>2
        <5>4. QED BY <1>1, <5>1, <5>2, <5>3 DEF Pending
      <4>4. remaining' = Cardinality(Pending')
        <5>1. IsFiniteSet(Pending) BY ProvidersFinite, FS_Subset DEF Pending
        <5>2. Cardinality(Pending \ {e.p}) = Cardinality(Pending) - 1 BY <4>1, <5>1, FS_RemoveElement
        <5>3. QED BY <1>4, <1>6, <3>6, <4>3, <5>2
      <4>5. \A q \in Providers \ Pending' : Quiet(q) /\ (code[q] = "ok" \/ result' = "bad")
        <5>1. code[e.p] = "ok" \/ result' = "bad" BY <1>4, <3>6, <4>1, <1>2, EventFacts
        <5>2. \A q \in Providers \ Pending : Quiet(q) /\ (code[q] = "ok" \/ result' = "bad")
          BY <1>4, <1>6 DEF Lasts
        <5>3. QED BY <4>1, <4>3, <5>1, <5>2
      <4>6. \A q \in Providers \ Pending' : \A i \in DOMAIN queue' : queue'[i].p # q
        BY <1>5, <1>6, <4>2, <4>3 DEF Lasts
      <4>7. QED BY <1>1, <1>7, <3>1, <3>2, <3>3, <3>4, <4>4, <4>5, <4>6 DEF Lasts
    <3>7. QED BY <1>3, <1>13, <3>5, <3>6
  <2>6. QED BY <1>9, <1>10, <1>11, <2>1, <2>4, <2>5 DEF Merging, Whole, Streaming
<1>14. QED BY <1>12, <1>13

\* Every step preserves SInv.
LEMMA StreamNext == SInv /\ FInv /\ FInv' /\ [Next]_vars => SInv'
<1> SUFFICES ASSUME SInv, FInv, FInv', [Next]_vars PROVE SInv'
  OBVIOUS
<1>1. ASSUME NEW p \in Providers, Spawn(p) \/ SpawnInterrupted(p) PROVE SInv' BY <1>1, StreamSpawn
<1>2. CASE AllEnded \/ Cancel \/ CleanUp \/ Join \/ SpawnFails \/ LoopEnds \/ JoinInterrupted \/ DeferSigint
  BY <1>2, StreamMain
<1>3. CASE Consume BY <1>3, StreamConsume
<1>4. CASE Terminate BY <1>4, StreamTerminate
<1>5. ASSUME NEW p \in Providers, ReaderStep(p) PROVE SInv'
  BY <1>5, StreamRead, StreamPublish, StreamGiveUp DEF ReaderStep
<1>6. ASSUME NEW p \in Providers, ProcessStep(p) PROVE SInv' BY <1>6, StreamProcess
<1>7. CASE UNCHANGED vars
  <2>1. UNCHANGED <<leader, code, member, written, queue, reader, taken, shown, remaining, result, pc, primary, call,
                    cancelled, interrupts>>
    BY <1>7 DEF vars, process, reading, main
  <2>2. Settling BY <2>1 DEF Settling, Quiet, Holding
  <2>3. Threads' /\ Merging' BY <2>1, <2>2, Still DEF SInv, Threads, Streaming
  <2>4. Codes' /\ Whole' BY <2>1, <2>2, StillCodes, StillWhole DEF SInv, Codes, Streaming
  <2>5. QED BY <2>1, <2>3, <2>4 DEF SInv, Causes, Streaming
<1>8. QED BY <1>1, <1>2, <1>3, <1>4, <1>5, <1>6, <1>7 DEF Next, MainStep, Disturb

\* Both invariants hold of every reachable state.
LEMMA StreamInvariant == Spec => [](FInv /\ SInv)
<1>1. Init => FInv /\ SInv BY FollowInit, StreamInit
<1>2. FInv /\ SInv /\ [Next]_vars => (FInv /\ SInv)' BY FollowNext, StreamNext
<1>3. QED BY <1>1, <1>2, PTL DEF Spec

\* A follow that returns 0 was reached by no SIGINT, and every provider exited with 0; one that
\* returns 130 was reached by a SIGINT.
THEOREM FollowExitHonest == Spec => []ExitHonest
<1>1. SInv => ExitHonest
  <2> SUFFICES ASSUME SInv, pc = "done"
               PROVE /\ primary = "none" /\ result = "ok" => interrupts = 0 /\ \A p \in Providers : code[p] = "ok"
                     /\ primary = "interrupt" => interrupts > 0
    BY DEF ExitHonest
  <2>1. primary = "none" => interrupts = 0 BY DEF SInv, Causes
  <2>2. primary = "none" /\ result = "ok" => \A p \in Providers : code[p] = "ok"
    BY DEF SInv, Whole, Streaming
  <2>3. primary = "interrupt" => interrupts > 0 BY DEF SInv, Causes
  <2>4. QED BY <2>1, <2>2, <2>3
<1>2. QED BY <1>1, StreamInvariant, PTL

-----------------------------------------------------------------------------
(***************************************************************************)
(* The refinement: the stream implements StreamMerge.                      *)
(***************************************************************************)
Ended == IF pc # "done" THEN "no" ELSE IF primary = "none" THEN "complete" ELSE "cut"

\* A step that is no write, no line shown and no return is a stutter of the merge.
LEMMA MergeStutters ==
  ASSUME UNCHANGED <<written, shown>>, pc # "done", pc' # "done"
  PROVE  UNCHANGED <<written, shown, Ended>>
BY DEF Ended

\* Every step is a step of the abstract merge, or leaves what it shows alone.
LEMMA MergeStep ==
  ASSUME SInv, FInv, [Next]_vars
  PROVE  [Merge!Next]_<<written, shown, Ended>>
<1> SUFFICES ASSUME ~UNCHANGED <<written, shown, Ended>> PROVE Merge!Next
  OBVIOUS
<1>1. ASSUME NEW p \in Providers, WriteLine(p) PROVE Merge!Write(p)
  <2>1. Holding(p) /\ written' = [written EXCEPT ![p] = @ + 1] /\ UNCHANGED <<pc, primary, shown>>
    BY <1>1 DEF WriteLine, main
  <2>2. pc # "done" BY <2>1 DEF FInv, Passes, Held, Alive, Holding
  <2>3. QED BY <2>1, <2>2 DEF Merge!Write
<1>2. ASSUME Consume PROVE \E p \in Providers : Merge!Show(p)
  <2>1. pc = "loop" /\ pc' # "done" /\ queue # <<>> /\ UNCHANGED written
    BY <1>2 DEF Consume, Ends, process
  <2>2. PICK e \in Events : e = queue[1] /\ e = Head(queue) /\ 1 \in DOMAIN queue
    BY <1>2, <2>1, TakeHead DEF Consume, SInv, Threads
  <2>3. shown' = IF e.kind = "line" THEN [shown EXCEPT ![e.p] = e.n] ELSE shown BY <1>2, <2>2 DEF Consume
  <2>4. e.kind = "line" /\ e.p \in Providers /\ e.n \in Nat
    BY <2>1, <2>2, <2>3, EventFacts, MergeStutters
  <2>5. Lines BY <2>1 DEF SInv, Merging, Streaming
  <2>6. shown[e.p] < e.n /\ e.n <= Put(e.p) /\ shown[e.p] \in Nat
    BY <2>2, <2>4, <2>5, PutFacts DEF Lines, IsLine, SInv
  <2>7. e.n = shown[e.p] + 1
    <3>1. SUFFICES ASSUME shown[e.p] + 1 < e.n PROVE FALSE BY <2>4, <2>6
    <3>2. shown[e.p] + 1 <= Put(e.p) BY <2>4, <2>6, <3>1, PutFacts DEF SInv
    <3>3. PICK i \in DOMAIN queue : IsLine(i) /\ queue[i].p = e.p /\ queue[i].n = shown[e.p] + 1
      BY <2>4, <2>5, <2>6, <3>2 DEF Lines
    <3>4. i # 1 /\ i \in Nat /\ 1 < i BY <2>2, <2>6, <3>1, <3>3, QueueFacts DEF SInv, Threads
    <3>5. e.n < queue[i].n BY <2>2, <2>5, <3>3, <3>4 DEF Lines
    <3>6. QED BY <2>4, <2>6, <3>1, <3>3, <3>5
  <2>8. shown[e.p] < written[e.p] BY <2>4, <2>6, PutFacts DEF SInv, Threads
  <2>9. shown' = [shown EXCEPT ![e.p] = @ + 1] BY <2>3, <2>4, <2>7
  <2>10. QED BY <2>1, <2>4, <2>8, <2>9 DEF Merge!Show
<1>3. ASSUME Join PROVE \E how \in {"complete", "cut"} : Merge!End(how)
  <2>1. pc = "join" /\ pc' = "done" /\ UNCHANGED <<primary, written, shown>> BY <1>3 DEF Join, process
  <2>2. primary = "none" => shown = written
    <3>1. primary = "none" => \A p \in Providers : shown[p] = written[p] BY <2>1 DEF SInv, Whole, Streaming
    <3>2. QED BY <3>1 DEF SInv, Threads
  <2>3. CASE primary = "none"
    <3>1. Merge!End("complete") BY <2>1, <2>2, <2>3 DEF Merge!End
    <3>2. QED BY <3>1
  <2>4. CASE primary # "none"
    <3>1. Merge!End("cut") BY <2>1, <2>4 DEF Merge!End
    <3>2. QED BY <3>1
  <2>5. QED BY <2>3, <2>4
<1>4. ASSUME pc = "done", ~Join, \A p \in Providers : ~WriteLine(p) PROVE FALSE
  <2>1. UNCHANGED <<written, shown, pc, primary>>
    BY <1>4 DEF Next, vars, MainStep, Disturb, Terminate, ReaderStep, ProcessStep, Spawn, Consume, AllEnded, Cancel, CleanUp,
       SpawnInterrupted, SpawnFails, LoopEnds, JoinInterrupted, DeferSigint, ReadLine, EndOfFile, ReadFails, Wait, Publish,
       GiveUp, Exit, Descend, main, process, reading, Acquire, TermGroup, KillGroup, Reap, FInv, CallOK, NoCall
  <2>2. QED BY <2>1 DEF Ended
<1>5. ASSUME pc # "done", ~Join, ~Consume, \A p \in Providers : ~WriteLine(p) PROVE FALSE
  <2>1. UNCHANGED <<written, shown>>
    BY <1>5 DEF Next, vars, MainStep, Disturb, Terminate, ReaderStep, ProcessStep, Spawn, Consume, AllEnded, Cancel, CleanUp,
       SpawnInterrupted, SpawnFails, LoopEnds, JoinInterrupted, DeferSigint, ReadLine, EndOfFile, ReadFails, Wait, Publish,
       GiveUp, Exit, Descend, main, process, reading, Acquire, TermGroup, KillGroup, Reap, Launch
  <2>2. pc' # "done"
    BY <1>5 DEF Next, vars, MainStep, Disturb, Terminate, ReaderStep, ProcessStep, Spawn, Consume, AllEnded, Cancel, CleanUp,
       SpawnInterrupted, SpawnFails, LoopEnds, JoinInterrupted, DeferSigint, ReadLine, EndOfFile, ReadFails, Wait, Publish,
       GiveUp, Exit, Descend, main, process, reading, Acquire, TermGroup, KillGroup, Reap, Ends, Return
  <2>3. QED BY <1>5, <2>1, <2>2, MergeStutters
<1>6. QED
  <2>1. Consume => pc # "done" BY DEF Consume
  <2>2. QED BY <1>1, <1>2, <1>3, <1>4, <1>5, <2>1 DEF Merge!Next

\* The stream of a follow shows every provider's lines in the order written, none skipped or
\* repeated, and ends complete only when it has shown them all.
THEOREM FollowImplementsMerge == Spec => ImplementsMerge
<1>1. Init => Merge!Init BY DEF Init, Merge!Init
<1>2. FInv /\ SInv /\ [Next]_vars => [Merge!Next]_<<written, shown, Ended>> BY MergeStep
<1>3. QED BY <1>1, <1>2, StreamInvariant, PTL DEF Spec, ImplementsMerge, Merge!Spec, Ended

=============================================================================

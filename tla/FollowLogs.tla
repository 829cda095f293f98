----------------------------- MODULE FollowLogs -----------------------------
(***************************************************************************)
(* `winter service logs --follow` over several providers (_follow_many of  *)
(* ServiceLogsService) with the process groups it owns (_StreamingProcess  *)
(* of LocalSubprocessRunner).  The main thread starts one process and one  *)
(* reader thread per provider and shows what the readers put in a bounded  *)
(* queue; however that ends, it then terminates every group, closes every  *)
(* handle and joins every reader.                                          *)
(*                                                                         *)
(* A SIGINT reaches the main thread only, where it blocks: while it spawns,*)
(* gets an event, terminates a process or joins.  A provider's descendants *)
(* stay in its process group.  The wait that finds no leader exited yet,   *)
(* and the timeout of a full queue, are steps that are not enabled yet.    *)
(***************************************************************************)
EXTENDS FiniteSets, Integers, Sequences

CONSTANTS
  N,              \* providers, numbered in the order they are started
  Capacity,       \* maxsize of the queue
  MaxLines,       \* bound: lines a provider writes
  MaxDisturbances \* bound: SIGINTs, and failures of a spawn, a reader or the reporter

ASSUME FollowAssumption ==
  /\ N \in Nat \ {0} /\ Capacity \in Nat \ {0}
  /\ MaxLines \in Nat /\ MaxDisturbances \in Nat

Providers == 1 .. N

VARIABLES
  pc,          \* the main thread's phase
  started,     \* how many providers it has started
  call,        \* the terminate() it is in: the step, the process, an interrupt it deferred
  primary,     \* what ended the follow: nothing, an error, an interrupt
  result,      \* the first bad exit code
  remaining,   \* providers whose exit code it has not taken yet
  stack,       \* handles the exit stack holds
  todo,        \* processes this termination pass has yet to visit
  failed,      \* those whose termination raised
  cancelled,
  queue,
  reader,      \* each reader thread's step
  taken,       \* lines a reader has read from its pipe
  leader, code, member,  \* a provider's process group: its leader, the leader's exit code,
                         \* and a descendant that holds the pipe or has let go of it
  terminated,  \* handles with _terminated set
  written, shown,
  interrupts, faults

process == <<leader, code, member, written>>
reading == <<reader, taken, queue>>
main == <<pc, started, call, primary, result, remaining, stack, todo, failed, cancelled, terminated, shown>>
vars == <<process, reading, main, interrupts, faults>>

Phases == {"spawn", "unspawn", "loop", "cancel", "term", "retry", "close", "join", "done"}
NoCall == [step |-> "none"]
Calls == [step : {"acquire", "sigterm", "sigkill", "reap"}, p : Providers, late : BOOLEAN]
Events == [p : Providers, kind : {"line"}, n : 1 .. MaxLines]
            \cup [p : Providers, kind : {"code"}, code : {"ok", "bad"}] \cup [p : Providers, kind : {"error"}]

TypeOK ==
  /\ pc \in Phases /\ started \in 0 .. N /\ remaining \in 0 .. N
  /\ call \in Calls \cup {NoCall}
  /\ primary \in {"none", "error", "interrupt"} /\ result \in {"ok", "bad"}
  /\ stack \subseteq 1 .. started /\ todo \subseteq stack /\ failed \subseteq stack
  /\ terminated \subseteq 1 .. started
  /\ cancelled \in BOOLEAN
  /\ queue \in Seq(Events) /\ Len(queue) <= Capacity
  /\ reader \in [Providers -> {"none", "reading", "line", "waiting", "code", "error", "done"}]
  /\ leader \in [Providers -> {"unborn", "running", "zombie", "reaped"}]
  /\ code \in [Providers -> {"none", "ok", "bad"}]
  /\ member \in [Providers -> {"none", "holding", "detached"}]
  /\ \A p \in Providers : /\ 0 <= shown[p] /\ shown[p] <= taken[p]
                          /\ taken[p] <= written[p] /\ written[p] <= MaxLines
  /\ interrupts \in Nat /\ faults \in Nat /\ interrupts + faults <= MaxDisturbances

Init ==
  /\ pc = "spawn" /\ started = 0 /\ remaining = N
  /\ call = NoCall /\ primary = "none" /\ result = "ok"
  /\ stack = {} /\ todo = {} /\ failed = {} /\ terminated = {}
  /\ cancelled = FALSE /\ queue = <<>>
  /\ reader = [p \in Providers |-> "none"]
  /\ leader = [p \in Providers |-> "unborn"]
  /\ code = [p \in Providers |-> "none"]
  /\ member = [p \in Providers |-> "none"]
  /\ taken = [p \in Providers |-> 0] /\ written = [p \in Providers |-> 0] /\ shown = [p \in Providers |-> 0]
  /\ interrupts = 0 /\ faults = 0

Spared == interrupts + faults < MaxDisturbances
Fault == Spared /\ faults' = faults + 1 /\ UNCHANGED interrupts
Sigint == Spared /\ interrupts' = interrupts + 1 /\ UNCHANGED faults
Calm == UNCHANGED <<interrupts, faults>>

-----------------------------------------------------------------------------
(***************************************************************************)
(* A provider's process group.                                             *)
(***************************************************************************)
Holding(p) == leader[p] = "running" \/ member[p] = "holding"

WriteLine(p) ==
  /\ Holding(p) /\ written[p] < MaxLines
  /\ written' = [written EXCEPT ![p] = @ + 1]
  /\ UNCHANGED <<leader, code, member, reading, main>> /\ Calm

Exit(p) ==
  /\ leader[p] = "running" /\ leader' = [leader EXCEPT ![p] = "zombie"]
  /\ \E c \in {"ok", "bad"} : code' = [code EXCEPT ![p] = c]
  /\ UNCHANGED <<member, written, reading, main>> /\ Calm

\* A descendant is started; it lets go of the pipe; it exits.
Descend(p, next) ==
  /\ \/ leader[p] = "running" /\ member[p] = "none" /\ next = "holding"
     \/ member[p] = "holding" /\ next \in {"detached", "none"}
     \/ member[p] = "detached" /\ next = "none"
  /\ member' = [member EXCEPT ![p] = next]
  /\ UNCHANGED <<leader, code, written, reading, main>> /\ Calm

-----------------------------------------------------------------------------
(***************************************************************************)
(* A reader thread.                                                        *)
(***************************************************************************)
Step(p, from, to) == reader[p] = from /\ reader' = [reader EXCEPT ![p] = to]

ReadLine(p) ==
  /\ Step(p, "reading", "line") /\ p \in stack /\ taken[p] < written[p]
  /\ taken' = [taken EXCEPT ![p] = @ + 1]
  /\ UNCHANGED <<queue, process, main>> /\ Calm

\* The pipe is at its end when every process that held it is gone.
EndOfFile(p) ==
  /\ Step(p, "reading", "waiting") /\ p \in stack /\ taken[p] = written[p] /\ ~Holding(p)
  /\ UNCHANGED <<taken, queue, process, main>> /\ Calm

\* Decoding fails; or the main thread has closed the pipe.
ReadFails(p) ==
  /\ Step(p, "reading", "error")
  /\ IF p \in stack THEN Fault ELSE Calm
  /\ UNCHANGED <<taken, queue, process, main>>

\* The main thread holds the handle's lock from a terminate's acquire to its end.
Locked(p) == call.step \in {"sigterm", "sigkill", "reap"} /\ call.p = p

\* Mutant: the wait reaps the leader.
WaitReaps(p) ==
  /\ Step(p, "waiting", "code") /\ ~Locked(p) /\ leader[p] \in {"zombie", "reaped"}
  /\ leader' = [leader EXCEPT ![p] = "reaped"]
  /\ UNCHANGED <<code, member, written, taken, queue, main>> /\ Calm

\* wait() polls with WNOWAIT: the leader's pid stays its own until a terminate reaps it.
Wait(p) ==
  /\ Step(p, "waiting", "code") /\ ~Locked(p) /\ leader[p] \in {"zombie", "reaped"}
  /\ UNCHANGED <<taken, queue, process, main>> /\ Calm

EventOf(p) ==
  IF reader[p] = "line" THEN [p |-> p, kind |-> "line", n |-> taken[p]]
  ELSE IF reader[p] = "code" THEN [p |-> p, kind |-> "code", code |-> code[p]]
  ELSE [p |-> p, kind |-> "error"]

\* Mutant: a full queue loses the event.
PutOrDrop(p) ==
  /\ \/ Step(p, "line", "reading") \/ Step(p, "code", "done") \/ Step(p, "error", "done")
  /\ queue' = IF Len(queue) < Capacity THEN Append(queue, EventOf(p)) ELSE queue
  /\ UNCHANGED <<taken, process, main>> /\ Calm

\* publish: a put waits while the queue is full.
Publish(p) ==
  /\ \/ Step(p, "line", "reading") \/ Step(p, "code", "done") \/ Step(p, "error", "done")
  /\ Len(queue) < Capacity /\ queue' = Append(queue, EventOf(p))
  /\ UNCHANGED <<taken, process, main>> /\ Calm

\* ... and gives up, and the reader with it, once the follow is cancelled.
GiveUp(p) ==
  /\ cancelled /\ \E at \in {"line", "code", "error"} : Step(p, at, "done")
  /\ UNCHANGED <<taken, queue, process, main>> /\ Calm

-----------------------------------------------------------------------------
(***************************************************************************)
(* terminate() of a process group, which every phase below calls.          *)
(***************************************************************************)
Calling(p) == call = NoCall /\ call' = [step |-> "acquire", p |-> p, late |-> FALSE]
Advance(to) == call' = [call EXCEPT !.step = to]

\* Mutant: an interrupt that ends the follow while it closes is not kept.
Forgotten(raised) ==
  /\ call' = NoCall
  /\ \/ pc = "unspawn" /\ pc' = "cancel" /\ UNCHANGED <<primary, stack, todo, failed>>
     \/ /\ pc = "term" /\ todo' = todo \ {call.p}
        /\ failed' = IF raised THEN failed \cup {call.p} ELSE failed
        /\ UNCHANGED <<pc, primary, stack>>
     \/ /\ pc = "retry" /\ failed' = IF raised THEN failed ELSE failed \ {call.p}
        /\ UNCHANGED <<pc, primary, stack, todo>>
     \/ pc = "close" /\ stack' = stack \ {call.p} /\ UNCHANGED <<pc, primary, todo, failed>>

\* The call ends: it raises the interrupt it deferred, which each caller handles its own way.
Return(raised) ==
  /\ call' = NoCall
  /\ \/ pc = "unspawn" /\ pc' = "cancel" /\ UNCHANGED <<primary, stack, todo, failed>>
     \/ /\ pc = "term" /\ todo' = todo \ {call.p}
        /\ failed' = IF raised THEN failed \cup {call.p} ELSE failed
        /\ UNCHANGED <<pc, primary, stack>>
     \/ /\ pc = "retry" /\ failed' = IF raised THEN failed ELSE failed \ {call.p}
        /\ UNCHANGED <<pc, primary, stack, todo>>
     \/ /\ pc = "close" /\ stack' = stack \ {call.p}
        /\ primary' = IF raised /\ primary = "none" THEN "interrupt" ELSE primary
        /\ UNCHANGED <<pc, todo, failed>>

Acquire ==
  /\ call.step = "acquire"
  /\ IF call.p \in terminated
       THEN Return(call.late)
       ELSE Advance("sigterm") /\ UNCHANGED <<pc, primary, stack, todo, failed>>
  /\ UNCHANGED <<started, result, remaining, cancelled, terminated, shown, process, reading>> /\ Calm

\* SIGTERM, which the group may obey or not, and half a second of grace.
TermGroup ==
  /\ call.step = "sigterm" /\ Advance("sigkill")
  /\ UNCHANGED <<pc, started, primary, result, remaining, stack, todo, failed, cancelled, terminated, shown, process, reading>>
  /\ Calm

KillGroup ==
  /\ call.step = "sigkill" /\ Advance("reap")
  /\ leader' = [leader EXCEPT ![call.p] = IF @ = "running" THEN "zombie" ELSE @]
  /\ code' = [code EXCEPT ![call.p] = IF @ = "none" THEN "bad" ELSE @]
  /\ member' = [member EXCEPT ![call.p] = "none"]
  /\ UNCHANGED <<pc, started, primary, result, remaining, stack, todo, failed, cancelled, terminated, shown, written, reading>>
  /\ Calm

Reap ==
  /\ call.step = "reap" /\ Return(call.late)
  /\ leader' = [leader EXCEPT ![call.p] = "reaped"]
  /\ terminated' = terminated \cup {call.p}
  /\ UNCHANGED <<started, result, remaining, cancelled, shown, code, member, written, reading>> /\ Calm

\* A SIGINT is kept while the step it hit is tried again.
DeferSigint ==
  /\ call # NoCall /\ Sigint /\ call' = [call EXCEPT !.late = TRUE]
  /\ UNCHANGED <<pc, started, primary, result, remaining, stack, todo, failed, cancelled, terminated, shown, process, reading>>

-----------------------------------------------------------------------------
(***************************************************************************)
(* The main thread.                                                        *)
(***************************************************************************)
Ends(cause) == primary' = cause /\ pc' = "cancel"
Launch(p) == started' = p /\ leader' = [leader EXCEPT ![p] = "running"] /\ UNCHANGED <<code, member, written>>

Spawn(p) ==
  /\ pc = "spawn" /\ p = started + 1 /\ Launch(p)
  /\ stack' = stack \cup {p} /\ reader' = [reader EXCEPT ![p] = "reading"]
  /\ pc' = IF p = N THEN "loop" ELSE "spawn"
  /\ UNCHANGED <<call, primary, result, remaining, todo, failed, cancelled, terminated, shown, taken, queue>> /\ Calm

SpawnFails ==
  /\ pc = "spawn" /\ Fault /\ Ends("error")
  /\ UNCHANGED <<started, call, result, remaining, stack, todo, failed, cancelled, terminated, shown, process, reading>>

\* Before the process; while it is acquired, where the signal is deferred and the handle's own
\* cleanup terminates it; or once it is on the stack, with or without its reader.
SpawnInterrupted(p) ==
  /\ pc = "spawn" /\ p = started + 1 /\ Sigint
  /\ \/ Ends("interrupt") /\ UNCHANGED <<started, call, stack, process, reader>>
     \/ primary' = "interrupt" /\ pc' = "unspawn" /\ Launch(p) /\ Calling(p) /\ UNCHANGED <<stack, reader>>
     \/ /\ Ends("interrupt") /\ Launch(p) /\ stack' = stack \cup {p} /\ UNCHANGED call
        /\ \E r \in {"none", "reading"} : reader' = [reader EXCEPT ![p] = r]
  /\ UNCHANGED <<result, remaining, todo, failed, cancelled, terminated, shown, taken, queue>>

Consume ==
  /\ pc = "loop" /\ remaining > 0 /\ queue # <<>>
  /\ LET e == Head(queue) IN
       /\ queue' = Tail(queue)
       /\ IF e.kind = "error" THEN Ends("error") ELSE UNCHANGED <<pc, primary>>
       /\ shown' = IF e.kind = "line" THEN [shown EXCEPT ![e.p] = e.n] ELSE shown
       /\ remaining' = IF e.kind = "code" THEN remaining - 1 ELSE remaining
       /\ result' = IF e.kind = "code" /\ e.code = "bad" THEN "bad" ELSE result
  /\ UNCHANGED <<started, call, stack, todo, failed, cancelled, terminated, reader, taken, process>> /\ Calm

AllEnded ==
  /\ pc = "loop" /\ remaining = 0 /\ pc' = "cancel"
  /\ UNCHANGED <<started, call, primary, result, remaining, stack, todo, failed, cancelled, terminated, shown, process, reading>>
  /\ Calm

\* The reporter raises, or a SIGINT hits the get or the output.
LoopEnds ==
  /\ pc = "loop"
  /\ \/ Fault /\ Ends("error")
     \/ Sigint /\ Ends("interrupt")
  /\ UNCHANGED <<started, call, result, remaining, stack, todo, failed, cancelled, terminated, shown, process, reading>>

\* Mutant: the readers are released only after the join.
LateCancel ==
  /\ pc = "cancel"
  /\ pc' = IF primary = "none" THEN "close" ELSE "term"
  /\ todo' = IF primary = "none" THEN {} ELSE stack
  /\ UNCHANGED <<cancelled, started, call, primary, result, remaining, stack, failed, terminated, shown, process, reading>> /\ Calm

Cancel ==
  /\ pc = "cancel" /\ cancelled' = TRUE
  /\ pc' = IF primary = "none" THEN "close" ELSE "term"
  /\ todo' = IF primary = "none" THEN {} ELSE stack
  /\ UNCHANGED <<started, call, primary, result, remaining, stack, failed, terminated, shown, process, reading>> /\ Calm

\* Mutant: a follow whose providers have all exited has nothing to close.
OpenAfterFailure ==
  CASE pc = "term" -> todo [] pc = "retry" -> failed [] OTHER -> IF primary = "none" THEN {} ELSE stack

Left == CASE pc = "term" -> todo [] pc = "retry" -> failed [] OTHER -> stack

\* Every process is visited; those that raised again until they do not; then the stack is closed,
\* the last handle first.
CleanUp ==
  /\ pc \in {"term", "retry", "close"} /\ call = NoCall
  /\ IF Left = {}
       THEN /\ pc' = CASE pc = "term" -> "retry" [] pc = "retry" -> "close" [] OTHER -> "join"
            /\ UNCHANGED call
       ELSE /\ \E p \in Left : Calling(p) /\ \A q \in Left : IF pc = "close" THEN q <= p ELSE p <= q
            /\ UNCHANGED pc
  /\ UNCHANGED <<started, primary, result, remaining, stack, todo, failed, cancelled, terminated, shown, process, reading>> /\ Calm

Join ==
  /\ pc = "join" /\ pc' = "done" /\ \A p \in Providers : reader[p] \in {"none", "done"}
  /\ UNCHANGED <<started, call, primary, result, remaining, stack, todo, failed, cancelled, terminated, shown, process, reading>>
  /\ Calm

JoinInterrupted ==
  /\ pc = "join" /\ Sigint
  /\ primary' = IF primary = "none" THEN "interrupt" ELSE primary
  /\ UNCHANGED <<pc, started, call, result, remaining, stack, todo, failed, cancelled, terminated, shown, process, reading>>

-----------------------------------------------------------------------------
Terminate == Acquire \/ TermGroup \/ KillGroup \/ Reap
MainStep ==
  \/ \E p \in Providers : Spawn(p)
  \/ Consume \/ AllEnded \/ Cancel \/ CleanUp \/ Join \/ Terminate
Disturb ==
  \/ \E p \in Providers : SpawnInterrupted(p)
  \/ SpawnFails \/ LoopEnds \/ JoinInterrupted \/ DeferSigint
ReaderStep(p) == ReadLine(p) \/ EndOfFile(p) \/ ReadFails(p) \/ Wait(p) \/ Publish(p) \/ GiveUp(p)
ProcessStep(p) == WriteLine(p) \/ Exit(p) \/ \E next \in {"holding", "detached", "none"} : Descend(p, next)

Next ==
  \/ MainStep \/ Disturb
  \/ \E p \in Providers : ReaderStep(p) \/ ProcessStep(p)

Spec == Init /\ [][Next]_vars

\* The threads run on; the processes need not.
FairSpec == Spec /\ WF_vars(MainStep) /\ \A p \in Providers : WF_vars(ReaderStep(p))

-----------------------------------------------------------------------------
(***************************************************************************)
(* A process group is signalled only while its leader's pid is still its   *)
(* own: never once the leader is reaped and the number may be another's.   *)
(***************************************************************************)
SignalsOwned == call.step \in {"sigterm", "sigkill"} => leader[call.p] \in {"running", "zombie"}

(***************************************************************************)
(* When the follow has returned, whatever ended it, no process of any      *)
(* provider's group runs and no leader is left unreaped.                   *)
(***************************************************************************)
NothingLeft ==
  pc = "done" => \A p \in Providers : leader[p] \in {"unborn", "reaped"} /\ member[p] = "none"

(***************************************************************************)
(* The follow returns 0 only when every provider exited with 0 and no      *)
(* SIGINT reached it, however late; it returns 130 only for a SIGINT.      *)
(***************************************************************************)
ExitHonest ==
  pc = "done" => /\ primary = "none" /\ result = "ok" => interrupts = 0 /\ \A p \in Providers : code[p] = "ok"
                 /\ primary = "interrupt" => interrupts > 0

\* The stream shows each provider's lines in order and whole, or is cut short: StreamMerge.
Merge == INSTANCE StreamMerge WITH
  ended <- IF pc # "done" THEN "no" ELSE IF primary = "none" THEN "complete" ELSE "cut"
ImplementsMerge == Merge!Spec

(***************************************************************************)
(* The follow returns once it is interrupted or fails, or every provider   *)
(* has gone: no reader stays blocked on the full queue or on a pipe, no    *)
(* termination on a lock.                                                  *)
(***************************************************************************)
AllGone == started = N /\ \A p \in Providers : ~Holding(p)
AlwaysReturns == (primary # "none" \/ AllGone) ~> pc = "done"

=============================================================================

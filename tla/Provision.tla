------------------------------ MODULE Provision ------------------------------
(***************************************************************************)
(* The commands on top of the service layer: `winter service up | down |   *)
(* restart`, with the readiness gate of `up --wait`, and `winter provision *)
(* | clean`, which starts the services its handlers require and then runs  *)
(* them sub-target by sub-target, one environment after the other.         *)
(*                                                                         *)
(* A handler is a record [target, scope, src, from, name, does, needs,     *)
(* project, halts]: `does` is the set of the scripts it declares, `needs`  *)
(* its required_services tokens as <<scope, name>>, `project` the worktree *)
(* it runs in, `halts` the services its scripts take down.  A setup is a   *)
(* workspace as Manifests describes it, with what Capability loads of it.  *)
(***************************************************************************)
EXTENDS Services, Capability

CONSTANTS Commands,     \* the command lines, see cmd below
          Chain,        \* dependency, resource, data
          ScopeOrder,   \* workspace, feature-environment, feature-worktree
          Deadline      \* polls before --timeout has elapsed

VARIABLES
    cmd,        \* [kind, pats, wait] or [kind, envs, action, stage, seed, ...]
    at,         \* where the command is
    run,        \* the run of one environment, and what is left to do
    clock,      \* polls so far
    ran,        \* the scripts that ran, in order
    stream,     \* the event stream of the environment: closed by `finished`
    exit

vars == <<dispatchVars, cmd, at, run, clock, ran, stream, exit>>
runVars == <<run, ran, stream>>

Over(code) == at' = "over" /\ exit' = code
Ask(verb, pats) == disp' = Asked(verb, pats)
Handler(i) == setup.handlers[i]

-----------------------------------------------------------------------------
(* winter service *)

Bare(scope) == [scopes |-> {scope}, names |-> setup.names, bare |-> TRUE]
WorkspaceExplicit(pats) == \E i \in DOMAIN pats : Workspace \in pats[i].scopes

StartCommand ==
    /\ at = "start"
    /\ IF cmd.kind = "up" /\ ~WorkspaceExplicit(cmd.pats)
       THEN Ask("up", <<Bare(Workspace)>>) /\ at' = "ensure"
       ELSE Ask(cmd.kind, cmd.pats) /\ at' = "targets"
    /\ UNCHANGED <<setup, running, sick, faults, cmd, runVars, clock, exit>>

\* The workspace scope comes first, whatever becomes of it.
Ensured ==
    /\ at = "ensure" /\ disp.phase = "done"
    /\ exit' = disp.code
    /\ Ask("up", cmd.pats) /\ at' = "targets"
    /\ UNCHANGED <<setup, running, sick, faults, cmd, runVars, clock>>

FirstFailure(first, second) == IF first # 0 THEN first ELSE second

TargetsDone ==
    /\ at = "targets" /\ disp.phase = "done"
    /\ IF cmd.wait /\ FirstFailure(exit, disp.code) = 0
       THEN at' = "poll" /\ UNCHANGED exit
       ELSE Over(FirstFailure(exit, disp.code))
    /\ UNCHANGED <<dispatchVars, cmd, runVars, clock>>

\* No handler catches what a dispatch raises.
DispatchRaises ==
    /\ at \in {"ensure", "targets"} /\ disp.phase = "raised"
    /\ Over(1)
    /\ UNCHANGED <<dispatchVars, cmd, runVars, clock>>

-----------------------------------------------------------------------------
(* up --wait *)

Garbles(garbled) == IF garbled = {} THEN UNCHANGED faults
                    ELSE faults < MaxFaults /\ faults' = faults + 1

\* Mutant: every poll starts the clock again.
ElapsedNever(polls) == FALSE

Elapsed(polls) == polls >= Deadline

PollRaises ==
    /\ at = "poll" /\ CollectRaises
    /\ Over(1)
    /\ UNCHANGED <<dispatchVars, cmd, runVars, clock>>

Hear(garbled) ==
    /\ at = "poll" /\ ~CollectRaises
    /\ IF Unhealthy(Reported(cmd.pats, garbled)) = {} THEN Over(0) /\ UNCHANGED clock
       ELSE IF Elapsed(clock) THEN Over(1) /\ UNCHANGED clock
       ELSE /\ clock' = Min({clock + 1, Deadline})
            /\ UNCHANGED <<at, exit>>
    /\ UNCHANGED <<setup, running, sick, disp, cmd, runVars>>

Poll == Hear({}) /\ UNCHANGED faults

\* A provider's status document does not parse: the poll goes on without it.
PollGarbled == \E p \in Providers : Hear({p}) /\ Garbles({p})

\* A service comes up, or never does.
Heals ==
    /\ at = "poll"
    /\ \E s \in sick : sick' = sick \ {s}
    /\ UNCHANGED <<setup, running, disp, faults, cmd, at, runVars, clock, exit>>

-----------------------------------------------------------------------------
(* winter provision: what an environment runs. *)

Rank(s, x) == CHOOSE i \in DOMAIN s : s[i] = x
Before(i, j) ==
    LET key(k) == <<Rank(ScopeOrder, Handler(k).scope), IF Handler(k).src = Project THEN 0 ELSE 1, k>>
    IN  \E n \in 1..3 : /\ key(i)[n] < key(j)[n]
                        /\ \A m \in 1..(n - 1) : key(i)[m] = key(j)[m]

Matches(name) == {i \in DOMAIN setup.handlers : Handler(i).name = name}
Selected == CHOOSE i \in Matches(cmd.name) : TRUE
Refused(env) ==
    \/ env \notin setup.dirs
    \/ setup.malformed
    \/ /\ cmd.name # None
       /\ \/ Cardinality(Matches(cmd.name)) # 1
          \/ cmd.stage # None /\ Handler(Selected).target # cmd.stage

Stages == IF cmd.name # None THEN <<Handler(Selected).target>>
          ELSE IF cmd.seed THEN <<"resource", "data">>
          ELSE IF cmd.stage # None THEN <<cmd.stage>> ELSE Chain

\* clean leaves out the handlers that declare none, the others keep all.
SelectForAction(s) == SelectSeq(s, LAMBDA i : cmd.action # "clean" \/ "clean" \in Handler(i).does)

HandlersOf(stage) ==
    IF cmd.name # None THEN <<Selected>>
    ELSE SelectForAction(SetToSortSeq({i \in DOMAIN setup.handlers : Handler(i).target = stage}, Before))

\* A reset is made of what there is.
ResetSteps(does) ==
    IF "reset" \in does THEN <<"reset">>
    ELSE IF "destroy" \in does THEN <<"destroy", "apply">> ELSE <<"apply">>

\* The scripts one handler runs; a missing script is a warning.
Steps(i) ==
    LET does == Handler(i).does
    IN  IF cmd.action = "reset" THEN ResetSteps(does)
        ELSE IF cmd.action \in does THEN <<cmd.action>> ELSE <<>>

Queue(stage) == FlattenSeq([k \in DOMAIN HandlersOf(stage) |->
                    LET i == HandlersOf(stage)[k]
                    IN  [n \in DOMAIN Steps(i) |-> [h |-> i, act |-> Steps(i)[n]]]])

\* What a dry run says would run.
DryActions(i) ==
    LET does == Handler(i).does
        has(act) == SelectSeq(<<act>>, LAMBDA x : x \in does)
    IN  CASE cmd.action # "reset" -> has(cmd.action)
          [] "reset" \in does -> <<"reset">>
          [] OTHER -> Append(has("destroy"), "apply")
DryPlan ==
    FlattenSeq([n \in DOMAIN Stages |->
        FlattenSeq([k \in DOMAIN HandlersOf(Stages[n]) |->
            LET i == HandlersOf(Stages[n])[k]
            IN  [m \in DOMAIN DryActions(i) |-> <<i, DryActions(i)[m]>>]])])

Tokens(stage) == UNION {Handler(i).needs : i \in ToSet(SelectForAction(HandlersOf(stage)))}
Foreign(tokens) == \E t \in tokens : t[1] \notin {Workspace, run.env}
TokenPats(tokens) ==
    LET s == SetToSeq(tokens)
    IN  [i \in DOMAIN s |-> [scopes |-> {s[i][1]}, names |-> {s[i][2]}, bare |-> FALSE]]

\* Health is not looked at, and what is not reported is down.
Down(tokens, reported) ==
    {t \in tokens : ~\E e \in reported : /\ e.state = "running"
                                          /\ <<e.svc.scope, e.svc.name>> = t}

-----------------------------------------------------------------------------
(* winter provision: the run. *)

Fresh == [env |-> None, envs |-> <<>>, stages |-> <<>>, queue |-> <<>>,
          scopes |-> <<>>, failed |-> FALSE]
Provisioning == cmd.kind = "provision"

\* The run of an environment ends with `finished`; the last non-zero code wins.
EnvEnds(code) == /\ stream' = "closed" /\ at' = "env"
                 /\ exit' = IF code # 0 THEN code ELSE exit
Keep == UNCHANGED <<dispatchVars, cmd, clock>>

BeginEnv ==
    /\ at = "env" /\ run.envs # <<>>
    /\ LET env == Head(run.envs)
       IN IF Refused(env) THEN Over(1) /\ UNCHANGED <<run, stream>>
          ELSE /\ run' = [Fresh EXCEPT !.env = env, !.envs = Tail(run.envs),
                                       !.stages = IF cmd.dry THEN <<>> ELSE Stages]
               /\ stream' = "open" /\ at' = "stage" /\ UNCHANGED exit
    /\ UNCHANGED ran /\ Keep

EnvsDone ==
    /\ at = "env" /\ run.envs = <<>>
    /\ Over(exit)
    /\ UNCHANGED runVars /\ Keep

ChainDone ==
    /\ at = "stage" /\ run.stages = <<>>
    /\ EnvEnds(IF run.failed THEN 1 ELSE 0)
    /\ UNCHANGED <<run, ran>> /\ Keep

BeginStage ==
    /\ at = "stage" /\ run.stages # <<>>
    /\ IF HandlersOf(Head(run.stages)) = <<>>
       THEN run' = [run EXCEPT !.stages = Tail(@)] /\ UNCHANGED at
       ELSE at' = "check" /\ UNCHANGED run
    /\ UNCHANGED <<ran, stream, exit>> /\ Keep

ToHandlers(r) == /\ at' = "handlers"
                 /\ run' = [r EXCEPT !.queue = Queue(Head(r.stages))]
                 /\ UNCHANGED exit

\* What the check raises ends the command, with a `finished` of status error
\* when it is a ClickException.
CheckFails(closes) == /\ Over(1) /\ stream' = IF closes THEN "closed" ELSE stream
                      /\ UNCHANGED run

ServiceCheck ==
    /\ at = "check"
    /\ LET tokens == Tokens(Head(run.stages))
       IN IF tokens = {} \/ ~cmd.check
          THEN ToHandlers(run) /\ UNCHANGED <<faults, stream>>
          ELSE IF Foreign(tokens) \/ CollectRaises
          THEN CheckFails(Foreign(tokens) \/ setup.providers = <<>>) /\ UNCHANGED faults
          ELSE \E garbled \in {{}} \cup {{p} : p \in Providers} :
                 /\ Garbles(garbled)
                 /\ LET down == Down(tokens, Reported(TokenPats(tokens), garbled))
                    IN  run' = [run EXCEPT !.scopes = SetToSeq({t[1] : t \in down})]
                 /\ at' = "starting" /\ UNCHANGED <<stream, exit>>
    /\ UNCHANGED <<setup, running, sick, disp, cmd, clock, ran>>

StartScope ==
    /\ at = "starting" /\ disp.phase = "idle" /\ run.scopes # <<>>
    /\ Ask("up", <<Bare(Head(run.scopes))>>)
    /\ UNCHANGED <<setup, running, sick, faults, cmd, at, runVars, clock, exit>>

CanGoOn(code) == code = 0

ScopeStarted ==
    /\ at = "starting" /\ disp.phase = "done"
    /\ disp' = Idle
    /\ IF CanGoOn(disp.code)
       THEN run' = [run EXCEPT !.scopes = Tail(@)] /\ UNCHANGED <<at, stream, exit>>
       ELSE CheckFails(TRUE)
    /\ UNCHANGED <<setup, running, sick, faults, cmd, clock, ran>>

ScopeRaises ==
    /\ at = "starting" /\ disp.phase = "raised"
    /\ CheckFails(setup.clash)
    /\ UNCHANGED ran /\ Keep

ServicesReady ==
    /\ at = "starting" /\ disp.phase = "idle" /\ run.scopes = <<>>
    /\ ToHandlers(run)
    /\ UNCHANGED <<ran, stream>> /\ Keep

-----------------------------------------------------------------------------
(* winter provision: the handlers. *)

\* A handler that names a project needs its worktree in the environment.
NoCwd(i) == Handler(i).project # None /\ <<run.env, Handler(i).project>> \notin setup.worktrees

Note(ok) == ran' = Append(ran, [env |-> run.env, h |-> Head(run.queue).h,
                                act |-> Head(run.queue).act, ok |-> ok,
                                home |-> HomeOf(setup, Handler(Head(run.queue).h))])

\* A script may take services of its own scope down with it.
Halts(i) == {s \in running : <<s.scope, s.name>> \in Handler(i).halts}

ScriptSucceeds ==
    /\ at = "handlers" /\ run.queue # <<>> /\ ~NoCwd(Head(run.queue).h)
    /\ Note(TRUE)
    /\ Stop(Halts(Head(run.queue).h))
    /\ run' = [run EXCEPT !.queue = Tail(@)]
    /\ UNCHANGED <<setup, disp, faults, cmd, at, clock, stream, exit>>

\* Mutant: a failed clean ends the run like any other failure.
BestEffortNever(act) == FALSE

\* Only a failed clean leaves the rest to run.
BestEffort(act) == act = "clean"

AfterScript(act) ==
    IF BestEffort(act)
    THEN run' = [run EXCEPT !.queue = Tail(@), !.failed = TRUE] /\ UNCHANGED <<at, stream, exit>>
    ELSE EnvEnds(1) /\ UNCHANGED run

ScriptFails ==
    /\ at = "handlers" /\ run.queue # <<>> /\ ~NoCwd(Head(run.queue).h)
    /\ faults < MaxFaults /\ faults' = faults + 1
    /\ Note(FALSE)
    /\ \E got \in SUBSET Halts(Head(run.queue).h) : Stop(got)
    /\ AfterScript(Head(run.queue).act)
    /\ UNCHANGED <<setup, disp, cmd, clock>>

\* A missing worktree fails a clean, and ends the command otherwise.
CwdMissing ==
    /\ at = "handlers" /\ run.queue # <<>> /\ NoCwd(Head(run.queue).h)
    /\ IF BestEffort(Head(run.queue).act)
       THEN Note(FALSE) /\ AfterScript(Head(run.queue).act)
       ELSE Over(1) /\ UNCHANGED runVars
    /\ Keep

StageDone ==
    /\ at = "handlers" /\ run.queue = <<>>
    /\ run' = [run EXCEPT !.stages = Tail(@)]
    /\ at' = "stage"
    /\ UNCHANGED <<ran, stream, exit>> /\ Keep

-----------------------------------------------------------------------------
Init ==
    /\ setup \in Setups
    /\ cmd \in {c \in Commands : c.in = setup.id}
    /\ running \in SUBSET {s \in Instances : <<s.scope, s.name>> \in setup.before}
    /\ sick = {} /\ disp = Idle /\ faults = 0 /\ clock = 0
    /\ at = IF Provisioning THEN "env" ELSE "start"
    /\ run = [Fresh EXCEPT !.envs = IF Provisioning THEN cmd.envs ELSE <<>>]
    /\ ran = <<>> /\ stream = "closed" /\ exit = 0

Dispatching == DispatchStep /\ UNCHANGED <<cmd, at, runVars, clock, exit>>

ServiceCommand == StartCommand \/ Ensured \/ TargetsDone \/ DispatchRaises
                    \/ PollRaises \/ Poll
ProvisionCommand == BeginEnv \/ EnvsDone \/ ChainDone \/ BeginStage \/ ServiceCheck
                    \/ StartScope \/ ScopeStarted \/ ScopeRaises \/ ServicesReady
                    \/ ScriptSucceeds \/ ScriptFails \/ CwdMissing \/ StageDone

Step == Dispatching \/ ServiceCommand \/ ProvisionCommand
Next == Step \/ Heals \/ PollGarbled

\* The process runs: a provider call and a script return.
Spec == Init /\ [][Next]_vars /\ WF_vars(Step)
-----------------------------------------------------------------------------
(* Properties. *)

\* Which services the command line is about.
Meant(s) ==
    CASE cmd.kind = "provision" -> s.scope \in {t[1] : t \in Tokens(Head(run.stages))}
      [] cmd.kind = "up" -> Chosen(cmd.pats, s) \/ s.scope = Workspace
      [] OTHER -> Chosen(cmd.pats, s)

\* A pattern of restart that is about something.
Answered(pat) ==
    IF pat.bare \/ Sole THEN pat.scopes \cap (Envs \cup {Workspace}) # {}
    ELSE \E s \in Instances : Hits(pat, s)

\* The extensions the configuration or the override lets winter call.
Bound(name) ==
    IF setup.override # <<>> THEN name = setup.override[1].name
    ELSE setup.bound # <<>> => /\ name \in ToSet(setup.bound)
                               /\ \A n \in ToSet(setup.bound) : Fault(setup, n) = "none"

\* A dispatch never starts or stops a service the command line does not name
\* (or, for a provision run, outside the scopes of the required services), nor
\* one of an extension that is not bound, or that is bound with others of which
\* one is unusable; and restart touches nothing while one of its patterns is about nothing:
\* ServiceDispatchService has no filter on what the providers do.
OnlySelected ==
    [][disp.phase = "cells" =>
          /\ \A s \in (running' \ running) \cup (running \ running') : Meant(s) /\ Bound(s.by)
          /\ cmd.kind = "restart" /\ (running' # running \/ faults' # faults) =>
                \A i \in DOMAIN cmd.pats : Answered(cmd.pats[i])]_vars

\* The services winter can know of: describe of a sole provider is not asked.
Known(s) == Sole \/ s.by \notin setup.mute
AllKnown(running_or_not(_)) ==
    \A s \in Instances : Chosen(cmd.pats, s) /\ Known(s) => running_or_not(s)

ActsOf(env, i) == SelectSeq(ran, LAMBDA r : r.env = env /\ r.h = i)
InStages(i) == IF cmd.name # None THEN Handler(i).name = cmd.name
               ELSE Handler(i).target \in ToSet(Stages)

\* The scripts of a handler that leave it as the action says.
Carried(env, i) ==
    LET acts == ActsOf(env, i)
        does == Handler(i).does
        did(a) == \E k \in DOMAIN acts : acts[k].act = a
    IN  CASE cmd.action = "apply" -> did("apply")
          [] cmd.action = "reset" ->
                /\ acts # <<>> /\ acts[Len(acts)].act \in {"apply", "reset"}
                /\ {"destroy", "reset"} \cap does # {} => did("destroy") \/ did("reset")
          [] OTHER -> cmd.action \in does => did(cmd.action)

\* The exit code does not hide anything: at 0 every service an up or restart
\* was asked for runs, none that a down was asked for does, and every handler
\* of every sub-target and environment was carried out; a script that failed
\* makes the exit non-zero, also when the environments after it are fine.
ExitHonest ==
    at = "over" =>
        /\ exit = 0 /\ ~Provisioning =>
              AllKnown(LAMBDA s : (s \in running) = (cmd.kind # "down"))
        /\ exit = 0 /\ Provisioning /\ ~cmd.dry =>
              \A k \in DOMAIN cmd.envs, i \in DOMAIN setup.handlers :
                  InStages(i) => Carried(cmd.envs[k], i)
        /\ (\E i \in DOMAIN ran : ~ran[i].ok) => exit # 0

\* The place of a script in the chain.
Place(r) == <<Rank(Chain, Handler(r.h).target), Rank(ScopeOrder, Handler(r.h).scope)>>
NotAfter(x, y) == x[1] < y[1] \/ (x[1] = y[1] /\ x[2] <= y[2])

\* Scripts run dependency before resource before data and substrate first, in
\* the settings of the extension that declared them; a script that failed is
\* the last of its environment unless it was a clean, a clean that could check
\* its services leaves no handler out, and a run that reports success ran what
\* its dry run had announced.
ChainHolds ==
    /\ \A i, j \in DOMAIN ran : i < j /\ ran[i].env = ran[j].env =>
          /\ NotAfter(Place(ran[i]), Place(ran[j]))
          /\ ran[i].ok \/ ran[i].act = "clean"
    /\ \A i \in DOMAIN ran : ran[i].home = Handler(ran[i].h).from
    /\ at = "over" /\ Provisioning /\ ~cmd.dry /\ exit = 0 =>
          \A k \in DOMAIN cmd.envs :
              LET did == SelectSeq(ran, LAMBDA r : r.env = cmd.envs[k])
              IN  [n \in DOMAIN did |-> <<did[n].h, did[n].act>>] = DryPlan
    /\ at = "over" /\ Provisioning /\ cmd.action = "clean" /\ ~cmd.check /\ ~cmd.dry =>
          \A k \in DOMAIN cmd.envs, i \in DOMAIN setup.handlers :
              ~(\E n \in 1..k : Refused(cmd.envs[n])) /\ InStages(i) /\ "clean" \in Handler(i).does
                  => ActsOf(cmd.envs[k], i) # <<>>

\* An extension's [provision] handlers are all among the ones that are run.
Taken(r) == \A i \in DOMAIN r.manifest.provision :
    \E h \in ToSet(setup.handlers) : h.from = r.name /\ h.target = r.manifest.provision[i].target
NeedsAreLists(es) == \A i \in DOMAIN es : es[i].needs.form # "bad"

\* The extensions whose refused manifest the doctor says nothing of: it looks
\* at none when adopt_extensions is off (provision reads them all the same),
\* only at the [provision] table of a manifest that does not load, and in it
\* not at the type of required_services.
Unlooked(r) ==
    \/ ~setup.adopts
    \/ r.manifest.form = "elsewhere" \/ ~ParsesServices(r.manifest.services)
    \/ ~NeedsAreLists(r.manifest.provision)

\* What the doctor passes a provision run does not stop at, and the other way
\* round: when it has no finding, no environment is refused for the
\* workspace's table, unless for required_services of a wrong type, and no
\* handler of an extension is silently left out, unless it is one of those
\* that Unlooked names; and each of its findings is of a table that the parser
\* refuses.  The two validate the same tables in code of their own.
ProbeForesees ==
    at = "over" /\ Provisioning =>
        LET repos == ToSet(ExtensionRepos(setup))
        IN  /\ ProbeFindings(setup) = {} =>
                  /\ setup.malformed => ~NeedsAreLists(setup.provision)
                  /\ \A r \in repos : Taken(r) \/ Unlooked(r)
            /\ ProbeFindings(setup) # {} =>
                  setup.malformed \/ \E r \in repos : ~Loads(r.manifest)

\* Every command comes to an exit, also when a service stays unhealthy.
EveryRunEnds == <>(at = "over")
=============================================================================

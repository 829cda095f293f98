----------------------------- MODULE MCProvision -----------------------------
(***************************************************************************)
(* Two environments and two providers: p has db in every environment and   *)
(* mq in the workspace, q has web in every environment.  The situations    *)
(* differ in who is bound, what describe tells and what up runs into, and  *)
(* a family of them in one entry of a manifest.                            *)
(***************************************************************************)
EXTENDS Provision, TLC

CONSTANTS p, q, a, b, ghost

Entry(target, scope, does, tokens) ==
    [target |-> target, table |-> TRUE, extra |-> FALSE, scope |-> scope,
     apply |-> "text", destroy |-> IF "destroy" \in does THEN "list" ELSE "absent",
     reset |-> IF "reset" \in does THEN "text" ELSE "absent",
     clean |-> IF "clean" \in does THEN "text" ELSE "absent",
     needs |-> [form |-> IF tokens = {} THEN "absent" ELSE "list", tokens |-> tokens],
     project |-> "absent", name |-> "absent", halts |-> {}]

ServiceEntry(name) ==
    [table |-> TRUE, extra |-> FALSE, name |-> name, scope |-> "absent", cmd |-> "text",
     command |-> "absent", image |-> "text", target |-> "absent", ports |-> "list"]

MQ == <<Workspace, "mq">>
DB(e) == <<e, "db">>

\* Declared in an order that is not the order they run in; the tokens are
\* those of environment a.
OwnEntries ==
    << [Entry("resource", "worktree", {"destroy"}, {DB(a)}) EXCEPT !.halts = {MQ}],
       [Entry("dependency", "feature", {"clean"}, {}) EXCEPT !.project = "app"] >>
ExtEntries ==
    << [Entry("resource", "feature", {"clean", "reset"}, {DB(a), MQ}) EXCEPT !.name = "vhost"],
       [Entry("data", "workspace", {"clean"}, {MQ}) EXCEPT !.name = "seed"] >>

Manifest(prefix, entries, services) ==
    [form |-> "ok", prefix |-> prefix, serves |-> TRUE, entry |-> TRUE, version |-> "v1",
     provision |-> entries, services |-> services]
Repo(name, manifest) == [name |-> name, on |-> TRUE, manifest |-> manifest]
Plain == [Manifest("plain", <<>>, <<>>) EXCEPT !.form = "none"]

Slow == [by |-> p, scope |-> a, name |-> "db"]

World ==
    [standalones |-> <<Repo(p, Manifest("ext", ExtEntries, <<ServiceEntry("db")>>)),
                       Repo(q, Manifest("web", <<>>, <<ServiceEntry("web")>>))>>,
     projects |-> <<Repo("app", Plain)>>,
     provision |-> OwnEntries, services |-> <<ServiceEntry("mq")>>, adopts |-> TRUE,
     bound |-> <<>>, override |-> <<>>, alphabetical |-> <<p, q>>,
     id |-> "two",
     owns |-> p :> [env |-> {"db"}, workspace |-> {"mq"}] @@ q :> [env |-> {"web"}, workspace |-> {}],
     mute |-> {}, envs |-> <<a, b>>, unresolved |-> {},
     slow |-> {Slow, [by |-> q, scope |-> a, name |-> "web"]}, names |-> {"db", "web", "cron", "mq"},
     before |-> {DB(a), <<b, "web">>, MQ},
     dirs |-> {a, b}, worktrees |-> {<<a, "app">>}]
Alone(name, owns) == [World EXCEPT !.bound = <<name>>, !.owns = owns @@ @]

Situations ==
    { World,
      [Alone(p, p :> [env |-> {"db", "web", "cron"}, workspace |-> {"mq"}]) EXCEPT !.id = "sole"],
      [World EXCEPT !.id = "few", !.provision = OwnEntries, !.standalones[1].manifest.provision = <<>>,
                    !.worktrees = {}],
      [World EXCEPT !.id = "mute", !.mute = {q}],
      [World EXCEPT !.id = "twice",
                    !.owns = p :> [env |-> {"db"}, workspace |-> {}] @@ q :> [env |-> {"db"}, workspace |-> {}]],
      [World EXCEPT !.id = "unbound", !.standalones[1].on = FALSE, !.before = {},
                    !.standalones[2].manifest.serves = FALSE],
      [World EXCEPT !.id = "clash", !.services = <<ServiceEntry("db")>>],
      [World EXCEPT !.id = "unresolved", !.unresolved = {b}],
      [World EXCEPT !.id = "envs", !.before = {DB(a)},
                    !.owns = p :> [env |-> {"db"}, workspace |-> {}] @@ q :> [env |-> {"web"}, workspace |-> {}]] }

\* How q, or what names it, can be unusable.
Bindings ==
    { [World EXCEPT !.bound = <<p, q>>, !.standalones[2].manifest.entry = FALSE],
      [World EXCEPT !.bound = <<q, p>>, !.standalones[2].manifest.version = "v9"],
      [World EXCEPT !.bound = <<p, ghost>>],
      [World EXCEPT !.bound = <<q, p>>, !.standalones[2].manifest.version = "absent"],
      [World EXCEPT !.bound = <<q, p>>, !.projects = <<[Repo(q, Plain) EXCEPT !.on = FALSE]>>],
      [World EXCEPT !.standalones[1].manifest.form = "unreadable"],
      [World EXCEPT !.standalones[1].on = FALSE, !.standalones[2].manifest.entry = FALSE],
      [World EXCEPT !.bound = <<p>>, !.override = <<[path |-> FALSE, name |-> q]>>],
      [World EXCEPT !.override = <<[path |-> FALSE, name |-> ghost]>>],
      [World EXCEPT !.bound = <<p>>,
                    !.override = <<[path |-> TRUE, name |-> q, manifest |-> Manifest("co", <<>>, <<>>)]>>],
      [World EXCEPT !.standalones = SubSeq(@, 1, 1),
                    !.projects = <<Repo(q, Manifest("web", <<>>, <<>>))>>] }

\* One field of one entry at a time, of the workspace's table, of an
\* extension's and of the services.
Variants(e) ==
    {[e EXCEPT !.target = t] : t \in {"dependency", "data", "else"}}
      \cup {[e EXCEPT !.table = FALSE], [e EXCEPT !.extra = TRUE]}
      \cup {[e EXCEPT !.scope = s] : s \in {"workspace", "worktree", "absent", "else"}}
      \cup {[e EXCEPT !.apply = f] : f \in {"list", "absent", "empty"}}
      \cup {[e EXCEPT !.clean = f] : f \in {"absent", "number"}}
      \cup {[e EXCEPT !.needs.form = "bad"], [e EXCEPT !.target = "dependency", !.needs = [form |-> "list", tokens |-> {}]]}
      \cup {[e EXCEPT !.project = n, !.scope = s] : n \in {"app", "none such", "bad"}, s \in {"feature", "workspace"}}
      \cup {[e EXCEPT !.name = n, !.scope = s] : n \in {"seed", "bad"}, s \in {"feature", "workspace", "else"}}
ServiceVariants ==
    LET e == ServiceEntry("job")
    IN  {e, [e EXCEPT !.table = FALSE], [e EXCEPT !.extra = TRUE], [e EXCEPT !.name = "absent"],
         [e EXCEPT !.name = "db"], [e EXCEPT !.scope = "worktree"], [e EXCEPT !.cmd = "bad", !.command = "text"],
         [e EXCEPT !.cmd = "absent", !.command = "bad"], [e EXCEPT !.ports = "bad"]}
Tables ==
    LET seed == Entry("data", "workspace", {"clean"}, {})
    IN  {<<[seed EXCEPT !.name = "seed"], v>> : v \in Variants(Entry("resource", "feature", {"clean"}, {}))}
Declarations ==
    {[World EXCEPT !.provision = t] : t \in Tables}
      \cup {[World EXCEPT !.standalones[1].manifest.provision = t] : t \in Tables}
      \cup {[World EXCEPT !.services = <<v>>] : v \in ServiceVariants}
      \cup {[World EXCEPT !.standalones[2].manifest.services = <<v>>] : v \in ServiceVariants}
      \cup {[World EXCEPT !.standalones[1].manifest.services = <<v>>] : v \in ServiceVariants}
      \cup {[World EXCEPT !.standalones[1].manifest.form = "elsewhere"]}
      \cup {[World EXCEPT !.adopts = FALSE, !.standalones[1].manifest.provision = t] : t \in Tables}

Setup(w) == w @@ Loaded(w)
Named(worlds, id) == {[w EXCEPT !.id = id, !.before = {DB(a)}] : w \in worlds}
MCSetups == {Setup(w) : w \in Situations \cup Named(Bindings, "bindings")
                                          \cup Named(Declarations, "declarations")}
Ids == {w.id : w \in Situations}

All == {"db", "web", "cron", "mq"}
Env(e) == [scopes |-> {e}, names |-> All, bare |-> TRUE]
Of(es, ns) == [scopes |-> es, names |-> ns, bare |-> FALSE]

Patterns ==
    { <<Env(a)>>, <<Env(b), Env(a)>>,
      <<Of({a}, {"db"}), Of({a}, {"web"})>>,        \* a/db a/web
      <<Of({a, b, ghost}, {"web"})>>,               \* */web
      <<Of({a}, {"db"}), Env(b)>>,                  \* a/db b
      <<Of({Workspace}, {"mq"})>>, <<Env(Workspace), Of({b}, {"db"})>>,
      <<Env(ghost)>>, <<Of({a}, {"mq"}), Env(b)>> } \* a service of no environment

Service(kind, pats, wait, id) == [kind |-> kind, pats |-> pats, wait |-> wait, in |-> id]
ServiceCommands ==
    {Service(k, x, FALSE, id) : k \in {"up", "down", "restart"}, x \in Patterns, id \in Ids}
    \cup {Service("up", <<Env(a)>>, TRUE, id) : id \in Ids}

Provisions(action) ==
    [kind |-> "provision", envs |-> <<a>>, action |-> action, stage |-> None, seed |-> FALSE,
     name |-> None, check |-> TRUE, dry |-> FALSE, in |-> "two"]
ProvisionLines ==
    { Provisions("apply"), [Provisions("apply") EXCEPT !.envs = <<a, b>>, !.check = FALSE],
      [Provisions("apply") EXCEPT !.seed = TRUE, !.stage = "resource"],
      [Provisions("apply") EXCEPT !.dry = TRUE, !.envs = <<a, ghost>>],
      [Provisions("apply") EXCEPT !.envs = <<b, a>>, !.stage = "data"],
      [Provisions("reset") EXCEPT !.stage = "resource"],
      [Provisions("reset") EXCEPT !.name = "seed"],
      [Provisions("destroy") EXCEPT !.stage = "resource", !.check = FALSE],
      [Provisions("apply") EXCEPT !.name = "seed", !.stage = "resource"],
      [Provisions("apply") EXCEPT !.stage = "resource", !.envs = <<b>>],
      [Provisions("destroy") EXCEPT !.stage = "dependency", !.envs = <<b>>],
      Provisions("clean"), [Provisions("clean") EXCEPT !.envs = <<b, a>>, !.check = FALSE] }
\* A clean that reads the declarations.
Cleans == {[Provisions("clean") EXCEPT !.check = FALSE, !.in = "declarations"]}

MCCommands ==
    ServiceCommands \cup {[c EXCEPT !.in = id] : c \in ProvisionLines, id \in Ids}
      \cup {Service(k, <<Env(a)>>, FALSE, "bindings") : k \in {"up", "down"}}
      \cup {Service("up", <<Env(a)>>, FALSE, "declarations")} \cup Cleans

MCChain == <<"dependency", "resource", "data">>
MCScopeOrder == <<"workspace", "feature", "worktree">>
=============================================================================

------------------------------ MODULE MCNesting ------------------------------
(***************************************************************************)
(* An outer workspace with environments a and b and the nested workspaces  *)
(* lab and sub, and a workspace tool nested in lab's environment n.  One   *)
(* opening is edited while commands run; the others differ in one section  *)
(* of one configuration each and stay as they are.                         *)
(***************************************************************************)
EXTENDS Nesting, TLC

Lab(e) == <<e, "lab">>
Sub(e) == <<e, "sub">>
Tool == <<"a", "lab", "n", "tool">>

MCRoots == {Top, Lab("a"), Sub("a"), Lab("b"), Tool}
MCDefaultAliases == [i \in 1..10 |-> i]
MCIndex == [a |-> 1, b |-> 2, n |-> 2]

Repo(name) == [name |-> name]
NestedRepo(name, keys) == keys @@ [name |-> name, nested |-> TRUE]
Envs(n) == [envs |-> n]
Key(key, value) == key :> value

\* Two nested repositories share 180 ports: 60 each, which lab and sub just fit.
TopCommitted ==
    [base_port |-> 6000, ports_per_env |-> 180, env_aliases |-> <<"a", "b">>, envs_per_workspace |-> 4,
     project_repository |-> <<Repo("app"), NestedRepo("lab", Envs(1)), NestedRepo("sub", Envs(1))>>]
LabCommitted ==
    [ports_per_env |-> 20, envs_per_workspace |-> 2, env_aliases |-> Empty,
     project_repository |-> <<NestedRepo("tool", Envs(1))>>]
SubCommitted == [base_port |-> 5000, standalone_repository |-> <<Repo("ext")>>]
ToolCommitted == [ports_per_env |-> 3]

Files(committed, local) == [committed |-> committed, local |-> local, astray |-> FALSE]
Committed == [r \in MCRoots |->
                 CASE r = Top -> TopCommitted [] r = Tool -> ToolCommitted
                   [] RepoOf(r) = "lab" -> LabCommitted [] OTHER -> SubCommitted]
Plain == [r \in MCRoots |-> Files(Committed[r], Empty)]
Opening(f, edits) == [layers |-> f, edits |-> edits]

Command == [command |-> Text, format |-> "dotenv", shell |-> TRUE]
Var(value) == [feature |-> [vars |-> [key |-> value]]]
Tier(vendors) == [fast |-> vendors]

\* Sections of a configuration: some a loader takes, some it refuses.
Sections ==
    { Key("git", [user |-> Text]), Key("git", [user |-> Bad]), Key("git", Bad),
      Key("tui", [dashboard |-> [layout |-> "list"]]), Key("tui", [dashboard |-> [layout |-> Bad]]),
      Key("tui", Bad), Key("capabilities", Bad), Key("adopt_extensions", "none"),
      Key("adopt_extensions", Bad), Key("session_prefix", Text), Key("prefix", Bad),
      Key("prefix", "ext"),
      Key("env", Var(Text)), Key("env", Var(Bad)), Key("env", Var(Command)),
      Key("env", Var(Command @@ [cwd |-> Text])), Key("env", Var([shell |-> FALSE])),
      Key("env", [vars |-> Empty]), Key("env", [feature |-> [vars |-> [WINTER_ENV |-> Command]]]),
      Key("model_tiers", Tier([claude |-> Text])), Key("model_tiers", Tier([claude |-> Bad])),
      Key("model_tiers", Tier([other |-> Text])), Key("model_tiers", Tier(Empty)),
      Key("agent_model_overrides", Bad), Key("agent_model_overrides", [dev |-> [tier |-> "opus"]]),
      Key("agent_model_overrides", [dev |-> [tier |-> "fast"]]),
      Key("agent_model_overrides", [dev |-> [claude |-> Bad]]),
      Key("ports_per_env", Bad), Key("env_aliases", Bad), Key("envs_per_workspace", 1),
      Key("standalone_repository", <<Repo("ext")>>),
      Key("standalone_repository", <<Repo("ext"), [url |-> "ext"]>>),
      Key("standalone_repository", <<[name |-> "ext", prefix |-> "ws"]>>),
      Key("standalone_repository", <<[name |-> "ext", path |-> Outside]>>),
      Key("standalone_repository", <<NestedRepo("ext", Empty)>>), Key("standalone_repository", Bad) }

\* Declarations of lab in the outer workspace.
LabEntries ==
    { [url |-> "lab", nested |-> TRUE], NestedRepo("lab", Envs(2)), NestedRepo("lab", Envs(Bad)),
      NestedRepo("lab", Envs(0)), NestedRepo("lab", Empty), NestedRepo("lab", [load |-> "lazy"]),
      NestedRepo("lab", [extension |-> TRUE]), [name |-> "lab", nested |-> Bad],
      Envs(1) @@ Repo("lab"), [load |-> Bad] @@ Repo("lab"), [entry |-> {Outside}] @@ Repo("lab"),
      NestedRepo("lab", Envs(1) @@ [inherit_local |-> {Outside}]),
      NestedRepo("lab", Envs(1) @@ [inherit_local |-> {}]) }

WithLab(e) == [TopCommitted EXCEPT !.project_repository = <<e, NestedRepo("sub", Envs(1))>>]
Heir(keys) == WithLab(NestedRepo("lab", Envs(1) @@ [inherit_local |-> keys]))
Extension == [name |-> "ext", prefix |-> "ext"]
Envs4 == Key("envs_per_workspace", 4)
Aliased == [ports_per_env |-> 10, envs_per_workspace |-> 5, env_aliases |-> <<"n", "o", "p">>]
Reordered == [TopCommitted EXCEPT !.project_repository =
                 <<NestedRepo("sub", Envs(1)), NestedRepo("lab", Envs(1))>>]

TopDrafts ==
    { Files(TopCommitted, Empty), Files(Reordered, Empty),
      Files(TopCommitted, Key("ports_per_env", 300)), Files(TopCommitted, Key("git", Bad)),
      Files(TopCommitted, Key("project_repository", <<NestedRepo("third", Empty)>>)),
      Files(TopCommitted, Garbled) }
LabDrafts ==
    { Files(LabCommitted, Key("ports_per_env", 30)), Files(LabCommitted, Key("base_port", 1)),
      Files(LabCommitted, Garbled), Files(None, Empty), [Files(LabCommitted, Empty) EXCEPT !.astray = TRUE] }
MCDrafts ==
    [r \in MCRoots |-> IF r = Top THEN TopDrafts ELSE IF RepoOf(r) = "lab" THEN LabDrafts ELSE {}]

MCOpenings ==
    {Opening(Plain, 1)} \union
    { Opening(f, 0) : f \in
        {[Plain EXCEPT ![Top] = d] : d \in TopDrafts}
        \union {[Plain EXCEPT ![Lab("a")] = d] : d \in LabDrafts}
        \union {[Plain EXCEPT ![Tool].astray = TRUE]}
        \* lab in the outer workspace, and a section of its own configuration
        \union {[Plain EXCEPT ![Top] = Files(WithLab(e), Empty)] : e \in LabEntries}
        \union {[Plain EXCEPT ![Lab("a")] = Files(s @@ LabCommitted, Empty)] : s \in Sections}
        \* what lab inherits, on top of an overlay of its own
        \union {[Plain EXCEPT ![Top] = Files(Heir(DOMAIN s), s),
                              ![Lab("a")] = Files(Key("standalone_repository", <<Extension>>) @@ LabCommitted,
                                                  Key("git", [user |-> Text]))] : s \in Sections}
        \* an override inherited without the tier it names, and a bound without the aliases
        \union {[Plain EXCEPT ![Top] = Files(Heir({"agent_model_overrides"}),
                                             Key("agent_model_overrides", [dev |-> [tier |-> "fast"]])
                                               @@ Key("model_tiers", Tier([claude |-> Text]))),
                              ![Lab("a")] = Files(LabCommitted, Empty)],
                [Plain EXCEPT ![Top] = Files(WithLab(NestedRepo("lab", [inherit_local |-> {"envs_per_workspace"}])),
                                             Envs4),
                              ![Lab("a")] = Files(Aliased, Empty)]}
        \* a table inherited where lab's own file has a string
        \union {LET tui == Key("tui", [dashboard |-> [layout |-> "list"]])
                IN  [Plain EXCEPT ![Top] = Files(Heir({"tui"}), tui),
                                  ![Lab("a")] = Files(Key("tui", Bad) @@ LabCommitted, Empty)]} }
=============================================================================

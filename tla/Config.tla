------------------------------- MODULE Config -------------------------------
(***************************************************************************)
(* The configuration of one workspace: how .winter/config.toml and         *)
(* .winter/config.local.toml merge, and what the loader refuses.           *)
(*                                                                         *)
(* A layer is a function on the top-level keys its file holds, a table or  *)
(* an entry of an array a function on its own keys.  Garbled is a file     *)
(* that is not TOML, Bad a value the key does not take (a non-empty string *)
(* where the kind matters), Outside a path that is empty, absolute or      *)
(* holds a `..` segment, and of a list of names one that is none.  A url   *)
(* stands for the name in it.  A layout, an id or a label is its own       *)
(* value; a model, a profile and a plain variable are Text.                *)
(***************************************************************************)
EXTENDS Integers, Sequences, FiniteSets

CONSTANTS Bad, Outside, Text, Garbled, None,
          DefaultAliases, \* the aliases of a workspace that declares none
          Managed,        \* WINTER_* names
          Vendors, BuiltinTiers

ASSUME ConfigAssumption == Bad \notin Int

Has(table, key) == key \in DOMAIN table
Get(table, key, default) == IF Has(table, key) THEN table[key] ELSE default
Empty == <<>>   \* no key, no entry

\* A table laid over another: its keys win.
Over(f, g) == [k \in DOMAIN f \union DOMAIN g |-> IF k \in DOMAIN f THEN f[k] ELSE g[k]]

\* The members of s at the positions in I, in their order.
MembersAt(s, I) ==
    LET upto[k \in 0..Len(s)] ==
          IF k = 0 THEN <<>> ELSE IF k \in I THEN Append(upto[k - 1], s[k]) ELSE upto[k - 1]
    IN  upto[Len(s)]

-----------------------------------------------------------------------------
(* The two layers. *)

Tables == {"git", "keybindings", "tui", "capabilities", "env", "model_tiers",
           "agent_model_overrides"}
Arrays == {"project_repository", "standalone_repository"}

OrNothing(value) == IF value \in {Bad, None} THEN Empty ELSE value

\* A table merges one level deep, an array grows, any other value is replaced.
MergedValue(key, base, over) ==
    IF key \in Tables THEN IF over = Bad THEN base ELSE Over(over, OrNothing(base))
    ELSE IF key \in Arrays /\ over # Bad THEN OrNothing(base) \o over
    ELSE over

Merged(base, over) ==
    [k \in DOMAIN base \union DOMAIN over |->
        IF Has(over, k) THEN MergedValue(k, Get(base, k, Empty), over[k]) ELSE base[k]]

\* dict() of a string.
MergeFails(base, over) ==
    \E k \in Tables \intersect DOMAIN base \intersect DOMAIN over : base[k] = Bad

-----------------------------------------------------------------------------
(* Repositories. *)

IsNested(e) == Get(e, "nested", FALSE) = TRUE
NameOf(e) == Get(e, "name", Get(e, "url", None))
Entries(m, key) ==
    LET es == OrNothing(Get(m, key, Empty))
    IN  MembersAt(es, {i \in DOMAIN es : es[i] # Bad /\ NameOf(es[i]) # None})

BadExtensionKeys(e) ==
    \/ Get(e, "extension", TRUE) \notin BOOLEAN
    \/ Get(e, "load", "lazy") \notin {"eager", "lazy", "none"}
    \/ Has(e, "entry") /\ (e.entry = Bad \/ e.entry = {} \/ Outside \in e.entry)

NestedOnly == {"envs", "inherit_local"}
BadNestedKeys(e, kind) ==
    \/ Get(e, "nested", FALSE) \notin BOOLEAN
    \/ ~IsNested(e) /\ DOMAIN e \intersect NestedOnly # {}
    \/ IsNested(e) /\ \/ kind = "standalone"
                      \/ DOMAIN e \intersect {"load", "entry"} # {}
                      \/ Get(e, "extension", FALSE) = TRUE
                      \/ Has(e, "envs") /\ (e.envs = Bad \/ e.envs < 1)
                      \/ Has(e, "inherit_local") /\ (e.inherit_local = Bad \/ Outside \in e.inherit_local)

BadStandalones(es) ==
    \/ \E i, j \in DOMAIN es : i # j /\ NameOf(es[i]) = NameOf(es[j])
    \/ \E i \in DOMAIN es : Outside \in {Get(es[i], "path", None), Get(es[i], "config_dir", None)}

\* A standalone may not prune the skills of the workspace.
PrefixClash(m) ==
    LET own == Get(m, "prefix", "ws")
        standalones == Entries(m, "standalone_repository")
    IN  \E i \in DOMAIN standalones :
            Get(standalones[i], "prefix", None) = (IF own = Bad THEN "ws" ELSE own)

BadRepositories(m) ==
    LET projects == Entries(m, "project_repository")
        standalones == Entries(m, "standalone_repository")
    IN  \/ \E i \in DOMAIN projects : BadExtensionKeys(projects[i]) \/ BadNestedKeys(projects[i], "project")
        \/ \E i \in DOMAIN standalones :
               BadExtensionKeys(standalones[i]) \/ BadNestedKeys(standalones[i], "standalone")
        \/ BadStandalones(standalones) \/ PrefixClash(m)

-----------------------------------------------------------------------------
(* Indices and ports. *)

IntOr(value, default) == IF value = Bad THEN default ELSE value
BasePort(m) == IntOr(Get(m, "base_port", 4000), 4000)
PortsPerEnv(m) == IntOr(Get(m, "ports_per_env", 20), 20)
EnvsPerWorkspace(m) == IntOr(Get(m, "envs_per_workspace", 48), 48)
\* A string is a list of one.
Aliases(m) == LET al == Get(m, "env_aliases", DefaultAliases) IN IF al = Bad THEN <<Bad>> ELSE al

NoHashBand(m) == EnvsPerWorkspace(m) < Len(Aliases(m)) + 2
PortBase(m, index) == BasePort(m) + index * PortsPerEnv(m)

-----------------------------------------------------------------------------
(* The other sections. *)

\* Read without a look at its kind.
BadGit(m) ==
    LET git == Get(m, "git", Empty) IN git = Bad \/ Get(git, "user", Empty) = Bad

\* A section of another kind counts as absent.
Section(m, key) == LET s == Get(m, key, Empty) IN IF s = Bad THEN Empty ELSE s

Layouts == {"auto", "repos-as-columns", "repos-as-rows", "list"}
BadDashboard(m) ==
    Get(Section(Section(m, "tui"), "dashboard"), "layout", "auto") \notin Layouts

BadCommand(key, v) ==
    \/ key \in Managed
    \/ ~(DOMAIN v \subseteq {"command", "format", "shell", "exports"})
    \/ Get(v, "command", Bad) = Bad
    \/ Get(v, "format", "raw") = Bad \/ Get(v, "shell", FALSE) = Bad \/ Get(v, "exports", None) = Bad
BadBand(vars) ==
    \E key \in DOMAIN vars : vars[key] = Bad \/ (vars[key] # Text /\ BadCommand(key, vars[key]))
BadEnv(m) ==
    LET env == Section(m, "env")
    IN  Has(env, "vars") \/ \E band \in DOMAIN env : BadBand(Section(Section(env, band), "vars"))

BadVendors(vendors) ==
    \/ vendors = Bad \/ DOMAIN vendors = {} \/ ~(DOMAIN vendors \subseteq Vendors)
    \/ \E v \in DOMAIN vendors : vendors[v] = Bad
BadTiers(m) ==
    LET tiers == Section(m, "model_tiers") IN \E t \in DOMAIN tiers : BadVendors(tiers[t])

\* An override names a tier of the effective table or a model per vendor.
BadOverrides(m) ==
    LET overrides == Section(m, "agent_model_overrides")
        tiers == BuiltinTiers \union DOMAIN Section(m, "model_tiers")
    IN  \E a \in DOMAIN overrides :
            \/ overrides[a] = Bad
            \/ IF Has(overrides[a], "tier") THEN overrides[a].tier \notin tiers
               ELSE BadVendors(overrides[a])

BadScalars(m) ==
    \/ Get(m, "adopt_extensions", "winter") \notin {"none", "winter", "all"}
    \/ Has(m, "service_orchestrator") \/ Has(m, "session_prefix")

-----------------------------------------------------------------------------

\* What a parser of TOML makes of a file that has the keys of a configuration: the
\* keys that take a number have a number or something else, and so has the one of
\* an entry; an array has entries.
Number(table, key) == Has(table, key) => table[key] \in Int \union {Bad}
Numbers == {"base_port", "ports_per_env", "envs_per_workspace"}
Listed(es) ==
    /\ es \in Seq({es[i] : i \in DOMAIN es})
    /\ \A i \in DOMAIN es : es[i] # Bad => Number(es[i], "envs")
Parsed(layer) ==
    /\ layer = [k \in DOMAIN layer |-> layer[k]]
    /\ \A k \in Numbers : Number(layer, k)
    /\ Has(layer, "project_repository") /\ layer.project_repository # Bad
         => Listed(layer.project_repository)

Readable(layers) == layers.committed # Garbled /\ layers.local # Garbled
Effective(layers) == Merged(layers.committed, layers.local)

\* Whether a winter that resolved this workspace gets past its configuration.
Loads(layers) ==
    /\ layers.committed # None /\ Readable(layers)
    /\ Get(layers.committed, "agent_model_overrides", Empty) # Bad
    /\ Get(layers.local, "agent_model_overrides", Empty) # Bad
    /\ ~MergeFails(layers.committed, layers.local)
    /\ LET m == Effective(layers)
       IN  ~( \/ BadRepositories(m) \/ NoHashBand(m) \/ BadScalars(m)
              \/ BadGit(m) \/ BadDashboard(m) \/ BadEnv(m) \/ BadTiers(m) \/ BadOverrides(m) )
=============================================================================

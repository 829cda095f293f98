-------------------------------- MODULE MCLint --------------------------------
(***************************************************************************)
(* Two repositories in two envs, the workspace's own files, and a          *)
(* directory below the workspace that happens to be called like a          *)
(* repository. Manifests, configuration, scripts and services each come in *)
(* a few kinds, combined freely.                                           *)
(***************************************************************************)
EXTENDS Lint

MCFiles == {<<"AGENTS.md">>, <<"AGENTS.winter.md">>, <<"tools", "cli", "web", "x.md">>,
            <<"projects", "web", "a.md">>, <<"projects", "api", "a.md">>,
            <<"alpha", "web", "a.md">>, <<"alpha", "web", "gen", "b.md">>, <<"alpha", "api", "a.md">>,
            <<"beta", "web", "a.md">>, <<"beta", "web", "gen", "b.md">>}

Entry(name, check, glob) == [form |-> "rule", name |-> name, check |-> check, glob |-> glob]
Wrong(name) == [form |-> "wrong", name |-> name, check |-> AnyCheck, glob |-> <<>>]
Generated == Entry("", AnyCheck, <<"gen", "**">>)
Unread == [ok |-> FALSE, entries |-> <<>>]
Declares(entries) == [ok |-> TRUE, entries |-> entries]

MCManifests == {
    [r \in {} |-> Unread],
    [r \in {<<"alpha", "web">>, <<"beta", "web">>} |-> Declares(<<Generated, Entry("", "style", <<"*">>)>>)],
    [r \in {<<"alpha", "web">>, <<"projects", "web">>} |->
        Declares(<<Entry("", "file-size", <<"a.md">>), Wrong(""), Entry("", AnyCheck, <<"**", "b.md">>)>>)],
    [r \in {<<"alpha", "web">>, <<"alpha", "api">>} |->
        IF r = <<"alpha", "web">> THEN Unread ELSE Declares(<<Entry("", "style", <<"gone.md">>)>>)]}

MCConfigs == {
    Declares(<<>>), Unread,
    Declares(<<Entry("", AnyCheck, <<"**">>)>>),
    Declares(<<Entry("web", AnyCheck, <<"**">>), Wrong("")>>),
    Declares(<<Entry("", "style", <<"*", "api", "**">>), Entry("web", "style", <<"gen", "*">>),
               Entry("misspelt", AnyCheck, <<"**">>)>>)}

MCIssues == {
    {LintFinding("style", "fail", f) : f \in MCFiles},
    {LintFinding("style", "warn", <<"alpha", "web", "gen", "b.md">>),
     LintFinding("extractability", "fail", <<"beta", "web", "a.md">>)},
    {LintFinding("style", "fail", <<"alpha", "web", "a.md">>)}}

Style(place) == [check |-> "style", place |-> place]
Token(of, name) == [scope |-> of, name |-> name]
Ref(of, name) == [file |-> Config, token |-> Token(of, name)]
Provider(answers) == [answers |-> answers, services |-> {Token("*", "db"), Token("workspace", "proxy")}]

\* Who contributes, and what the provisioning asks of the services.
Contribution(core, scripts, adopt, extensions, providers, refs, unreadable) ==
    [unreadable |-> unreadable, core |-> core, scripts |-> scripts, adopt |-> adopt, extensions |-> extensions,
     providers |-> providers, refs |-> refs]
Extension(manifest) == [manifest |-> manifest, scripts |-> <<Style("runs")>>]
MCContributions == {
    Contribution(TRUE, <<Style("runs")>>, TRUE, <<Extension("absent"), Extension("ok")>>,
                 {Provider(TRUE)}, {Ref("alpha", "db"), Ref("workspace", "proxy")}, {<<"beta", "web", "a.md">>}),
    Contribution(TRUE, <<>>, TRUE, <<Extension("broken")>>, {Provider(FALSE)}, {Ref("alpha", "db")}, {<<"AGENTS.winter.md">>}),
    Contribution(FALSE, <<Style("escapes")>>, FALSE, <<Extension("ok")>>, {}, {}, {}),
    Contribution(TRUE, <<Style("runs")>>, FALSE, <<>>, {}, {Ref("alpha", "db"), Ref("", "db")}, {})}

World(envs, manifests, config, issues, c) ==
    c @@ [repos |-> <<"web", "api">>, envs |-> envs, files |-> MCFiles,
     manifests |-> manifests, config |-> config, issues |-> issues,
     sizes |-> [f \in {<<"AGENTS.md">>, <<"alpha", "web", "a.md">>, <<"beta", "web", "a.md">>} |->
                   IF f[1] = "beta" THEN "large" ELSE "medium"],
     imports |-> {<<<<"AGENTS.winter.md">>, <<"alpha", "web", "a.md">>>>},
     dirty |-> [r \in {<<>>, <<"alpha", "web">>, <<"beta", "web">>} |->
                   CASE r = <<>> -> {<<"tools", "cli", "web", "x.md">>}
                     [] r = <<"beta", "web">> -> {}
                     [] OTHER -> {<<"alpha", "web", "a.md">>}],
     unpushed |-> [r \in {<<>>, <<"alpha", "web">>, <<"beta", "web">>} |->
                   IF r = <<"alpha", "web">> THEN {<<"alpha", "web", "gen", "gone.md">>} ELSE {}]]

MCWorlds ==
    {World(<<"alpha", "beta">>, m, c, i, k) :
        m \in MCManifests, c \in MCConfigs, i \in MCIssues, k \in MCContributions}
    \cup {World(<<"alpha", "web">>, m, c, i, k) :
        m \in MCManifests, c \in {Declares(<<>>)}, i \in MCIssues, k \in MCContributions}

Request(names, all, changed, cwd) == [names |-> names, all |-> all, changed |-> changed, cwd |-> cwd]
MCRequests ==
    {Request(<<>>, FALSE, FALSE, <<"alpha", "web">>), Request(<<>>, TRUE, FALSE, <<>>),
     Request(<<"alpha", "beta">>, FALSE, FALSE, <<>>), Request(<<"web">>, FALSE, FALSE, <<>>),
     Request(<<"*">>, FALSE, FALSE, <<>>), Request(<<"alpha">>, TRUE, FALSE, <<>>),
     Request(<<>>, FALSE, TRUE, <<>>), Request(<<>>, FALSE, TRUE, <<"alpha", "web", "gen">>),
     Request(<<>>, FALSE, TRUE, <<"beta", "web">>)}
=============================================================================

----------------------------- MODULE MCProjection -----------------------------
(***************************************************************************)
(* Nine workspaces of two repositories: a standalone and a project, two    *)
(* standalones whose prefixes overlap, no manifests at all, the directory  *)
(* an older winter left behind with files of the user's own among it,      *)
(* extensions that are not adopted, one that has the workspace's own       *)
(* prefix, and links where an older winter or the user put them.           *)
(***************************************************************************)
EXTENDS Doctor, TLC

CONSTANTS x, y, claude, opencode, scores

MCVendors == <<claude, opencode>>
MCAlphabet == <<"dev", "fmt", "gone", "notes", "old", "wf", "ws", "x", "y", "zap">>

WF == <<"wf">>
Fmt == <<"fmt">>
From(manifest, prefix, skills) ==
    [manifest |-> manifest, prefix |-> prefix, skills |-> skills, agents |-> {<<"dev">>},
     named |-> FALSE, untiered |-> {}, rules |-> {}, load |-> None, page |-> TRUE, rev |-> 1]
Own == [From(None, None, <<Fmt>>) EXCEPT !.agents = {}]

Plain ==
    [mode |-> "winter", kind |-> x :> "standalone" @@ y :> "project",
     name |-> x :> <<"x">> @@ y :> <<"y">>, prefix |-> x :> None @@ y :> None @@ Ws :> <<"ws">>,
     load |-> [r \in Repos |-> None], entry |-> [r \in Repos |-> FALSE], optout |-> {},
     source |-> x :> From("ok", WF, <<Fmt, WF>>) @@ y :> From("ok", None, <<Fmt>>) @@ Ws :> Own,
     clone |-> x :> "absent" @@ y :> "clean", files |-> {}, junk |-> {}]

Link(r, src, v, name) == [of |-> "skill", is |-> "link", by |-> r, src |-> src, dir |-> v, name |-> name, rev |-> 0]
Copy(name) == [Link(x, name, opencode, WF \o name) EXCEPT !.is = "copy", !.rev = 1]

\* The extension x has the prefix of the workspace, or one that covers it.
Namesakes == { [Plain EXCEPT !.clone[x] = "clean", !.source[x] = From("ok", p, <<Fmt>>)] :
                 p \in {<<"ws">>, <<"ws", "fmt">>} }
\* Two skills and no files; copies of skills that are gone, and a link among
\* them.
Strays ==
    { [Plain EXCEPT !.clone[x] = "clean", !.source[x].skills = <<Fmt, <<"zap">>>>, !.files = f] :
        f \in { {}, {Link(x, Fmt, opencode, <<"wf", "old">>), Copy(<<"gone">>), Copy(<<"x">>)} } }

MCSetups == Namesakes \cup Strays \cup
    { [Plain EXCEPT !.source[x].rules = {scores}, !.junk = {scores}],
      [Plain EXCEPT !.kind[y] = "standalone", !.clone = x :> "clean" @@ y :> "clean",
                    !.source[y].prefix = <<"wf", "x">>, !.source[x].skills = <<Fmt>>],
      [Plain EXCEPT !.mode = "all", !.prefix[x] = <<"ws", "x">>, !.load[y] = "lazy",
                    !.source = x :> From(None, None, <<Fmt>>) @@ y :> From(None, None, <<>>) @@ Ws :> Own],
      [Plain EXCEPT !.source[y].named = TRUE, !.source[y].load = "lazy",
                    !.files = { [of |-> "agent", is |-> "link", by |-> x, src |-> <<"dev">>, dir |-> claude,
                                 name |-> <<"wf", "dev">>, rev |-> 0],
                                [of |-> "skill", is |-> User, by |-> User, src |-> <<>>, dir |-> claude,
                                 name |-> <<"wf", "fmt">>, rev |-> 0],
                                [of |-> "skill", is |-> User, by |-> User, src |-> <<>>, dir |-> opencode,
                                 name |-> <<"notes">>, rev |-> 0] }],
      [Plain EXCEPT !.mode = "none", !.load[x] = "none", !.source[Ws].named = TRUE] }
=============================================================================

--------------------------- MODULE MCEnvLifecycle ---------------------------
(***************************************************************************)
(* One ordinary repository, one pinned, one that is itself a workspace.    *)
(***************************************************************************)
EXTENDS EnvLifecycle

MCRepos == {"app", "infra", "inner"}
MCNested == {"inner"}
MCPinned == {"infra"}
MCRefs == {"main", "feature"}
=============================================================================

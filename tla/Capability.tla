------------------------------ MODULE Capability ------------------------------
(***************************************************************************)
(* Which extensions provide the service capability: the binding            *)
(* `capabilities.service` of the configuration (a sequence `bound` of      *)
(* names, empty when there is none), and the override of one invocation    *)
(* (`override`, a sequence of none or one [path, name, manifest]: a local  *)
(* checkout, or the name of an installed extension).                       *)
(***************************************************************************)
EXTENDS Manifests

\* The service specifications this winter supports.
Supported == {"v1"}

Candidates(w) == SelectSeq(LoadedRepos(w), LAMBDA r : r.manifest.serves)
Candidate(w, name) == SelectSeq(Candidates(w), LAMBDA r : r.name = name)

\* An extension that does not say what it implements is taken to fit.
Compatible(m) == m.version = "absent" \/ m.version \in Supported

\* What is wrong with one member of the binding.
Fault(w, name) ==
    CASE Candidate(w, name) = <<>> -> "invalid"
      [] ~Candidate(w, name)[1].manifest.entry -> "invalid"
      [] ~Compatible(Candidate(w, name)[1].manifest) -> "incompatible"
      [] OTHER -> "none"

ByName(w) == SelectSeq(w.alphabetical, LAMBDA n : Candidate(w, n) # <<>>)

\* Mutant: the members of the binding that are wrong are left out.
DescribeLenient(w) ==
    [kind |-> IF w.bound # <<>> THEN "explicit" ELSE IF Candidates(w) = <<>> THEN "unbound" ELSE "implicit",
     names |-> IF w.bound = <<>> THEN ByName(w) ELSE SelectSeq(w.bound, LAMBDA n : Fault(w, n) = "none")]

\* A binding is as listed or wrong; without one every candidate is bound, in
\* the order of their names.
Describe(w) ==
    LET wrong == {i \in DOMAIN w.bound : Fault(w, w.bound[i]) # "none"}
    IN  IF w.bound # <<>>
        THEN [kind |-> IF wrong = {} THEN "explicit" ELSE Fault(w, w.bound[Min(wrong)]),
              names |-> w.bound]
        ELSE [kind |-> IF Candidates(w) = <<>> THEN "unbound" ELSE "implicit", names |-> ByName(w)]

\* The one provider of an implicit binding: its entrypoint must be there.
ResolveSole(w, name) == IF Candidate(w, name)[1].manifest.entry THEN <<name>> ELSE <<>>

\* Nothing when no provider can be called, and so the command fails.
Resolve_all(w) ==
    LET d == Describe(w)
    IN  CASE d.kind \in {"invalid", "incompatible", "unbound"} -> <<>>
          [] d.kind = "implicit" /\ Len(d.names) = 1 -> ResolveSole(w, d.names[1])
          [] OTHER -> d.names

\* An override needs a manifest that loads, an entrypoint and its file; its
\* version is not looked at.
Usable(m) == Loads(m) /\ m.serves /\ m.entry
OverrideByPath(o) == IF Usable(o.manifest) THEN <<o.name>> ELSE <<>>
OverrideByName(w, o) ==
    LET found == SelectSeq(ExtensionRepos(w), LAMBDA r : r.name = o.name)
    IN  IF found # <<>> /\ Usable(found[1].manifest) THEN <<o.name>> ELSE <<>>

ProvidersOf(w) ==
    IF w.override = <<>> THEN Resolve_all(w)
    ELSE IF w.override[1].path THEN OverrideByPath(w.override[1])
    ELSE OverrideByName(w, w.override[1])

\* A workspace as the commands find it.
Loaded(w) ==
    [providers |-> ProvidersOf(w), handlers |-> AllHandlers(w),
     malformed |-> Malformed(w), clash |-> Clash(w)]
=============================================================================

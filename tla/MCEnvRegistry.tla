--------------------------- MODULE MCEnvRegistry ---------------------------
(***************************************************************************)
(* Instances of EnvRegistry for TLC: alias lists, and names whose digests  *)
(* collide at the last slot of the hash band, so that probes wrap and the  *)
(* band fills up.                                                          *)
(***************************************************************************)
EXTENDS EnvRegistry

CONSTANTS alpha, beta, fa, fb, fc

MCNames == {alpha, beta, fa, fb}
MCDigest == [n \in Names |-> IF n = fa THEN 1 ELSE IF n = fb THEN 3 ELSE 0]

\* An alias is appended to the configured list or dropped from it, inserted in
\* front of another, moved, or two come at once.
EditedAliasLists == {<<alpha>>, <<alpha, beta>>, <<beta, alpha, fa>>}

=============================================================================

------------------------------ MODULE MCRestack ------------------------------
(***************************************************************************)
(* Instances of Restack for TLC: a stack of two envs in two repositories.   *)
(***************************************************************************)
EXTENDS Restack

CONSTANTS e1, e2, main, r1, r2

MCRepos == <<r1, r2>>

CommandLine(chain, base, cut) == [chain |-> chain, base |-> base, cut |-> cut]
Stack == CommandLine(<<e2, e1>>, main, None)
Cut == CommandLine(<<e2>>, main, e1)
CutSelf == CommandLine(<<e2>>, main, e2)

\* The stack's own order, and its top cut loose from a landed bottom
\* (or, in vain, from itself).
MCInOrder == {Stack, Cut, CutSelf}
=============================================================================

---------------------------- MODULE StreamMerge ----------------------------
(***************************************************************************)
(* What `winter service logs --follow` promises over several providers:    *)
(* one stream that shows every provider's lines in the order written, with *)
(* none skipped or repeated; it ends complete only when every line written *)
(* was shown, and no provider writes on after it has ended.                *)
(***************************************************************************)
EXTENDS Naturals

CONSTANT Providers

VARIABLES
  written,  \* how many lines each provider has written
  shown,    \* how many of them the stream has shown
  ended     \* the stream runs ("no"), ran to its end, or was cut short

Init ==
  /\ written = [p \in Providers |-> 0]
  /\ shown = [p \in Providers |-> 0]
  /\ ended = "no"

Write(p) ==
  /\ ended = "no"
  /\ written' = [written EXCEPT ![p] = @ + 1]
  /\ UNCHANGED <<shown, ended>>

Show(p) ==
  /\ ended = "no" /\ shown[p] < written[p]
  /\ shown' = [shown EXCEPT ![p] = @ + 1]
  /\ UNCHANGED <<written, ended>>

End(how) ==
  /\ ended = "no" /\ ended' = how
  /\ how = "complete" => shown = written
  /\ UNCHANGED <<written, shown>>

Next ==
  \/ \E p \in Providers : Write(p) \/ Show(p)
  \/ \E how \in {"complete", "cut"} : End(how)

Spec == Init /\ [][Next]_<<written, shown, ended>>

=============================================================================

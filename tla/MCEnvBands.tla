----------------------------- MODULE MCEnvBands -----------------------------
(***************************************************************************)
(* The bands of one workspace with four entries that can collide: a        *)
(* literal, a command, an entry that reads them and one more, in the order *)
(* and the bands of each setup.                                            *)
(***************************************************************************)
EXTENDS EnvBands, TLC

MCNames == {"A", "B", "C", "D", "_H", "P", "E", "S"}
MCManaged == {"P", "E", "S"}
MCScopeNamed == {"P", "E"}
MCUnderscored == {"_H"}
MCRuns == <<[scope |-> "workspace", commands |-> TRUE], [scope |-> "feature", commands |-> TRUE],
            [scope |-> "feature", commands |-> FALSE]>>

Literal(key, refs) == [key |-> key, kind |-> "literal", shell |-> FALSE, refs |-> refs, emits |-> {}]
Raw(key, shell, refs) == [key |-> key, kind |-> "raw", shell |-> shell, refs |-> refs, emits |-> {key}]
Mute(key) == [key |-> key, kind |-> "raw", shell |-> FALSE, refs |-> {}, emits |-> {}]
MultiOf(key, shell, refs, emits) == [key |-> key, kind |-> "multi", shell |-> shell, refs |-> refs, emits |-> emits]

FirstOnes == {Literal("A", {}), Literal("A", {"B"}), Literal("E", {"E"})}
Commands == {MultiOf("C", s, r, e) : s \in BOOLEAN, r \in {{}, {"B"}}, e \in {{"A"}, {"A", "C"}}}
                \cup {Raw("_H", FALSE, {})}
Readers == {Literal("B", {"A"}), Literal("B", {"C"}), Literal("B", {"P"}), Literal("B", {"S"}), Raw("B", TRUE, {"A"}), Raw("B", FALSE, {"E"})}
Extras == {Literal("P", {}), Raw("A", FALSE, {}), Mute("A"), MultiOf("_H", TRUE, {"A"}, {"B"}), MultiOf("D", FALSE, {}, {"B"})}

\* Which of the four comes where, and in which band.
Orders == {<<1, 2, 3, 4>>, <<3, 2, 1, 4>>, <<2, 4, 1, 3>>}
BandPatterns == {<<0, 0, 0, 0>>, <<0, 0, 1, 1>>, <<0, 1, 1, 2>>}

Arranged(entries, order, bands) ==
    [p \in 1..4 |-> [band |-> bands[p]] @@ entries[order[p]]]

KeysUniqueInBand(s) ==
    \A i, j \in DOMAIN s : i # j /\ s[i].band = s[j].band => s[i].key # s[j].key

MCSetups ==
    {s \in {Arranged(<<f, c, r, x>>, o, b) :
              f \in FirstOnes, c \in Commands, r \in Readers, x \in Extras, o \in Orders, b \in BandPatterns} :
        KeysUniqueInBand(s)}
=============================================================================

-------------------------- MODULE MCObjectResource --------------------------
(* Instances of ObjectResource for TLC. *)
EXTENDS ObjectResource, TLC

CONSTANTS r1, r2, u1, u2, u3, u4, u5, name, note, a, b

Block(value, single, hint) ==
    [body |-> [k \in Key |-> IF k = name THEN value ELSE None],
     singleton |-> single, reconfigure |-> hint]

\* Blocks declare the key name alone; the key note is left to the firewall.
ItemConfigs    == {Block(v, FALSE, TRUE) : v \in {a, b}}
MixedConfigs   == ItemConfigs \union {Block(b, TRUE, TRUE)}
HintConfigs    == {Block(b, FALSE, hint) : hint \in BOOLEAN}
BadBody        == [body |-> Malformed, singleton |-> FALSE, reconfigure |-> TRUE]
AllConfigs     == MixedConfigs \union {BadBody}
TrackingConfigs == AllConfigs \union {Block(b, FALSE, FALSE)}

Fresh == [k \in Key |-> a]

\* Every value reads back as it was written.
Verbatim == [k \in Key |-> [v \in Value |-> v]]
\* The value b is a list out of order, which Read reports sorted, as a.
Sorting  == [k \in Key |-> [v \in Value |-> a]]

Symmetric == Permutations({r1, r2}) \union Permutations(Uuid \ Preexisting)
=============================================================================

-------------------------- MODULE MCObjectReconcile --------------------------
(* An instance of ObjectReconcile for TLC: the first endpoint belongs to a   *)
(* plugin that is not installed, the other two reload items and settings.    *)
EXTENDS ObjectReconcile, TLC

CONSTANTS r1, r2, u1, u2, u3, u4, u5, name, a, b, plugin, items, settings

Block(value, single, hint) ==
    [body |-> [k \in Key |-> value], singleton |-> single, reconfigure |-> hint]

\* Objects with and without an apply command of their own.
HintConfigs == {Block(b, FALSE, hint) : hint \in BOOLEAN}

Fresh    == [k \in Key |-> a]
Verbatim == [k \in Key |-> [v \in Value |-> v]]

Declared == <<plugin, items, settings>>
Reloads  == [e \in Endpoint |-> CASE e = plugin -> {}
                                  [] e = items -> Uuid
                                  [] e = settings -> {Settings}]
=============================================================================

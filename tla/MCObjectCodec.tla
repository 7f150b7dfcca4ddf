---------------------------- MODULE MCObjectCodec ----------------------------
(* ObjectAddress for every block of three names, one of them the sentinel for *)
(* bare verbs, and ObjectCodec over every value of a bounded set of inputs:    *)
(* TLC picks one input after another, beside one of the blocks, which the      *)
(* conversions do not look at.                                                 *)
EXTENDS ObjectCodec, FiniteSets, TLC

Names   == {"server", "apply", "none"}

Words   == <<"1", "content", "inet", "inet6", "selected", "true">>
Options == {"inet", "inet6", "1"}
Lists   == UNION {[1..n -> Options] : n \in 0..3}

Objects(keys, S) == {Obj(f) : f \in [keys -> S]}

(* JSON values of four levels.  The texts among the leaves are what option    *)
(* maps collapse to, so that the set has what collapsing makes of each.       *)
Selections == {Text(SelectSeq(Words, LAMBDA w : w \in s), ",") : s \in SUBSET Options}
Flags      == {Number(0), Number(1), Text(<<"1">>, ","), Text(<<"inet">>, ","), Boolean(TRUE)}
Leaf       == Flags \union Selections \union {Text(<<"1", "selected">>, ","), Text(<<"selected">>, ",")}
Entry      == Objects({"selected"}, Flags) \union Objects({"content"}, {Number(1)})
Field      == UNION {Objects(ks, Flags \union Entry) : ks \in SUBSET {"inet", "inet6"}}
Body       == UNION {{Obj([f \in {"selected", "1"} |-> IF f = "1" THEN v ELSE w]) :
                        v \in Field \union Selections} :
                     w \in {Number(1)} \union Objects({"selected"}, {Number(1)})}
Rows       == {Arr(<<v, Number(1)>>) : v \in Field \union Selections}
Shown      == {Show(s) : s \in SUBSET Options}
Readings   == Objects({"content"}, Shown \union Selections)
Trees      == Leaf \union Entry \union Field \union Body \union Rows \union Shown \union Readings
                \union {Arr(<<v>>) : v \in Rows}

Depth[v \in Trees] ==
    IF Parts(v) = {} THEN 0
    ELSE 1 + (CHOOSE n \in {Depth[p] : p \in Parts(v)} : \A p \in Parts(v) : Depth[p] <= n)
=============================================================================

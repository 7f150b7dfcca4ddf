------------------------- MODULE ObjectCodecProofs -------------------------
(***************************************************************************)
(* An import restores the block it was made from, whatever its attributes  *)
(* are called and whichever of its hints are set; what Read stores is in   *)
(* its simplest form, however deep a body nests; and a list reads back as  *)
(* it was declared exactly when it was declared in string order.           *)
(***************************************************************************)
EXTENDS ObjectCodec, WellFoundedInduction, TLAPS

Hints == {"reconfigure", "item_suffix", "envelope", "set_command"}

\* A hint that is an empty string is read back as one that is not set.
Plain(v) == IF v = "" THEN None ELSE v

-----------------------------------------------------------------------------
(* What becomes of one hint.                                               *)

LEMMA FourHints ==
    /\ DOMAIN HintNames = 1..4
    /\ \A i \in 1..4 : HintNames[i] \in Hints
    /\ HintNames[1] = "reconfigure" /\ HintNames[2] = "item_suffix"
    /\ HintNames[3] = "envelope" /\ HintNames[4] = "set_command"
BY DEF HintNames, Hints

LEMMA HintTyped ==
    ASSUME NEW m \in Block, NEW h \in Hints
    PROVE  m[h] \in Hint
BY DEF Block, Hints

\* The hint at position i, whatever those around it are: behind the last one
\* that is set it is missing from the id, before it an empty one stands for it.
LEMMA HintRead ==
    ASSUME NEW m \in Block, NEW i \in 1..4
    PROVE  setStrOrNull(pipeField(ImportId(m), i)) = Plain(m[HintNames[i]])
<1> DEFINE h == HintNames[i]
<1>1. h \in Hints /\ m[h] \in Hint
      BY FourHints, HintTyped
<1>2. ImportId(m).hints = HintsOf(m)
      BY DEF ImportId
<1>3. Written(m) \subseteq 1..4
      BY FourHints DEF Written
<1>4. CASE i \in DOMAIN HintsOf(m)
  <2>1. HintsOf(m)[i] = IF m[h] = None THEN "" ELSE m[h]
        BY <1>4 DEF HintsOf
  <2>2. QED BY <1>1, <1>2, <1>4, <2>1, NameAssumption DEF pipeField, setStrOrNull, Plain, Hint
<1>5. CASE i \notin DOMAIN HintsOf(m)
  <2>1. i \notin Written(m)
        BY <1>5, FourHints DEF HintsOf
  <2>2. m[h] = None
        BY <2>1, FourHints DEF Written
  <2>3. QED BY <1>2, <1>5, <2>2, NameAssumption DEF pipeField, setStrOrNull, Plain
<1>6. QED BY <1>4, <1>5

-----------------------------------------------------------------------------
(* What becomes of the block.                                              *)

LEMMA PathRead ==
    ASSUME NEW m \in Block
    PROVE  /\ Len(ImportId(m).segments) \in {2, 3}
           /\ ImportId(m).segments[1] = m.module
           /\ ImportId(m).segments[2] = m.controller
           /\ Len(ImportId(m).segments) = 3 <=> m.uuid # None
           /\ m.uuid # None => ImportId(m).segments[3] = m.uuid
BY DEF ImportId

LEMMA ImportReads ==
    ASSUME NEW m \in Block
    PROVE  ImportState(ImportId(m)) =
             [module |-> m.module, controller |-> m.controller, uuid |-> m.uuid,
              reconfigure |-> Plain(m.reconfigure), item_suffix |-> Plain(m.item_suffix),
              envelope |-> Plain(m.envelope), set_command |-> Plain(m.set_command)]
<1>1. /\ setStrOrNull(pipeField(ImportId(m), 1)) = Plain(m.reconfigure)
      /\ setStrOrNull(pipeField(ImportId(m), 2)) = Plain(m.item_suffix)
      /\ setStrOrNull(pipeField(ImportId(m), 3)) = Plain(m.envelope)
      /\ setStrOrNull(pipeField(ImportId(m), 4)) = Plain(m.set_command)
      BY HintRead, FourHints
<1>2. (IF Len(ImportId(m).segments) = 3 THEN ImportId(m).segments[3] ELSE None) = m.uuid
      BY PathRead
<1>3. QED BY <1>1, <1>2, PathRead DEF ImportState

LEMMA ImportRestores ==
    ASSUME NEW m \in Block, NEW n, n = ImportState(ImportId(m))
    PROVE  /\ n \in Block
           /\ Commands(n) = Commands(m)
           /\ envelopeKey(n) = envelopeKey(m)
           /\ applyCommand(n) = applyCommand(m)
           /\ (\A i \in DOMAIN HintNames : m[HintNames[i]] # "") => n = m
<1>1. n = [module |-> m.module, controller |-> m.controller, uuid |-> m.uuid,
           reconfigure |-> Plain(m.reconfigure), item_suffix |-> Plain(m.item_suffix),
           envelope |-> Plain(m.envelope), set_command |-> Plain(m.set_command)]
      BY ImportReads
<1>2. n \in Block
  <2>1. /\ m.module \in Name /\ m.controller \in Name /\ m.uuid \in Name \union {None}
        /\ m.reconfigure \in Hint /\ m.item_suffix \in Hint
        /\ m.envelope \in Hint /\ m.set_command \in Hint
        BY DEF Block
  <2>2. \A v \in Hint : Plain(v) \in Hint
        BY DEF Plain, Hint
  <2>3. QED BY <1>1, <2>1, <2>2 DEF Block
<1>3. /\ n.module = m.module /\ n.controller = m.controller /\ n.uuid = m.uuid
      /\ n.reconfigure = Plain(m.reconfigure) /\ n.item_suffix = Plain(m.item_suffix)
      /\ n.envelope = Plain(m.envelope) /\ n.set_command = Plain(m.set_command)
      BY <1>1
<1>4. itemSuffix(n) = itemSuffix(m)
      BY <1>3, NameAssumption DEF itemSuffix, Plain
<1>5. setVerb(n) = setVerb(m)
      BY <1>3, <1>4, NameAssumption DEF setVerb, Plain
<1>6. Commands(n) = Commands(m)
      BY <1>3, <1>4, <1>5
      DEF Commands, CreateCmd, ReadCmd, UpdateCmd, DeleteCmd, IsSingleton, cmdPath
<1>7. envelopeKey(n) = envelopeKey(m) /\ applyCommand(n) = applyCommand(m)
      BY <1>3, NameAssumption DEF envelopeKey, applyCommand, Plain
<1>8. ASSUME \A i \in DOMAIN HintNames : m[HintNames[i]] # "" PROVE n = m
  <2>1. \A i \in 1..4 : m[HintNames[i]] # ""
        BY <1>8, FourHints
  <2>2. /\ m.reconfigure # "" /\ m.item_suffix # ""
        /\ m.envelope # "" /\ m.set_command # ""
    <3>1. 1 \in 1..4 /\ 2 \in 1..4 /\ 3 \in 1..4 /\ 4 \in 1..4
          OBVIOUS
    <3>2. /\ m[HintNames[1]] # "" /\ m[HintNames[2]] # ""
          /\ m[HintNames[3]] # "" /\ m[HintNames[4]] # ""
          BY <2>1, <3>1
    <3>3. QED BY <3>2, FourHints
  <2>3. m = [module |-> m.module, controller |-> m.controller, uuid |-> m.uuid,
             reconfigure |-> m.reconfigure, item_suffix |-> m.item_suffix,
             envelope |-> m.envelope, set_command |-> m.set_command]
        BY DEF Block
  <2>4. QED BY <1>1, <2>2, <2>3 DEF Plain
<1>9. QED BY <1>2, <1>6, <1>7, <1>8

-----------------------------------------------------------------------------
(* Induction on the depth of a value: a set of values has a least deep one, *)
(* so a statement that fails somewhere fails at a value all of whose parts  *)
(* satisfy it.                                                              *)

LEMMA LeastNumber ==
    ASSUME NEW N, N \subseteq Nat, N # {}
    PROVE  \E n \in N : \A m \in N : n <= m
<1> DEFINE Less == OpToRel(<, Nat)
<1>1. IsWellFoundedOn(Less, Nat)
      BY NatLessThanWellFounded
<1>2. PICK n \in N : \A m \in N : ~(<<m, n>> \in Less)
  <2> HIDE DEF Less
  <2>1. QED BY <1>1, WFMin
<1>3. \A m \in N : ~(m < n)
      BY <1>2 DEF OpToRel
<1>4. QED BY <1>3

LEMMA LeastDeep ==
    ASSUME NEW T, T \subseteq Tree, T # {}
    PROVE  \E v \in T : \A p \in Parts(v) : p \in Tree \ T
<1> DEFINE N == {depth[v] : v \in T}
<1>1. N \subseteq Nat /\ N # {}
      BY TreeAssumption
<1>2. PICK n \in N : \A m \in N : n <= m
  <2> HIDE DEF N
  <2>1. QED BY <1>1, LeastNumber
<1>3. PICK v \in T : depth[v] = n
      OBVIOUS
<1>4. ASSUME NEW p \in Parts(v) PROVE p \in Tree \ T
  <2>1. p \in Tree /\ depth[p] < depth[v]
        BY TreeAssumption
  <2>2. p \in T => depth[v] <= depth[p]
        BY <1>2, <1>3
  <2>3. QED BY <1>1, <2>1, <2>2, TreeAssumption
<1>5. QED BY <1>3, <1>4

-----------------------------------------------------------------------------
(* The recursion of collapseValue has a solution: every JSON value nests to *)
(* a finite depth, so its calls end.                                        *)

LEMMA ObjectParts ==
    ASSUME NEW v \in Tree, Is("object", v)
    PROVE  ~Is("array", v) /\ Parts(v) = {v.object[k] : k \in DOMAIN v.object}
<1>1. v = [object |-> v.object]
      BY TreeAssumption DEF Obj
<1>2. DOMAIN v = {"object"}
      BY <1>1
<1>3. ~Is("array", v)
      BY <1>2 DEF Is
<1>4. QED BY <1>3 DEF Parts

\* A call looks at what the calls for the parts return and at nothing else.
LEMMA CollapseLocal ==
    ASSUME NEW v \in Tree, NEW f, NEW g, \A p \in Parts(v) : f[p] = g[p]
    PROVE  collapse(f, v) = collapse(g, v)
<1>1. CASE Is("object", v)
  <2>1. \A k \in DOMAIN v.object : f[v.object[k]] = g[v.object[k]]
        BY <1>1, ObjectParts
  <2>2. [k \in DOMAIN v.object |-> f[v.object[k]]] = [k \in DOMAIN v.object |-> g[v.object[k]]]
        BY <2>1
  <2>3. QED BY <1>1, <2>2 DEF collapse
<1>2. CASE ~Is("object", v) /\ Is("array", v)
  <2>1. \A i \in DOMAIN v.array : f[v.array[i]] = g[v.array[i]]
        BY <1>2 DEF Parts
  <2>2. [i \in DOMAIN v.array |-> f[v.array[i]]] = [i \in DOMAIN v.array |-> g[v.array[i]]]
        BY <2>1
  <2>3. QED BY <1>2, <2>2 DEF collapse
<1>3. CASE ~Is("object", v) /\ ~Is("array", v)
      BY <1>3 DEF collapse
<1>4. QED BY <1>1, <1>2, <1>3

\* f collapses every value less than n deep.
Below(n) == {v \in Tree : depth[v] < n}
Solves(f, n) == f = [v \in Below(n) |-> collapse(f, v)]

LEMMA SolutionsAgree ==
    ASSUME NEW m \in Nat, NEW n \in Nat, m <= n,
           NEW f, NEW g, Solves(f, m), Solves(g, n), NEW v \in Below(m)
    PROVE  f[v] = g[v]
<1> DEFINE T == {w \in Below(m) : f[w] # g[w]}
<1>1. SUFFICES ASSUME T # {} PROVE FALSE
      OBVIOUS
<1>2. T \subseteq Tree
      BY DEF Below
<1>3. PICK w \in T : \A p \in Parts(w) : p \in Tree \ T
  <2> HIDE DEF T
  <2>1. QED BY <1>1, <1>2, LeastDeep
<1>4. w \in Below(m) /\ w \in Below(n) /\ w \in Tree
      BY TreeAssumption DEF Below
<1>5. \A p \in Parts(w) : f[p] = g[p]
  <2> SUFFICES ASSUME NEW p \in Parts(w) PROVE f[p] = g[p]
      OBVIOUS
  <2>1. p \in Tree /\ depth[p] < depth[w] /\ depth[w] < m /\ depth[p] \in Nat /\ depth[w] \in Nat
        BY <1>4, TreeAssumption DEF Below
  <2>2. p \in Below(m)
        BY <2>1 DEF Below
  <2>3. QED BY <1>3, <2>2
<1>6. f[w] = collapse(f, w) /\ g[w] = collapse(g, w)
      BY <1>4 DEF Solves
<1>7. QED BY <1>4, <1>5, <1>6, CollapseLocal

LEMMA SolutionExists ==
    ASSUME NEW n \in Nat
    PROVE  \E f : Solves(f, n)
<1> DEFINE N == {m \in Nat : ~ \E f : Solves(f, m)}
<1>1. SUFFICES ASSUME N # {} PROVE FALSE
      OBVIOUS
<1>2. PICK m \in N : \A k \in N : m <= k
  <2>1. N \subseteq Nat
        OBVIOUS
  <2> HIDE DEF N
  <2>2. QED BY <1>1, <2>1, LeastNumber
<1>3. CASE m = 0
  <2> DEFINE f == [v \in {} |-> v]
  <2>1. Below(0) = {}
        BY TreeAssumption DEF Below
  <2>2. Solves(f, 0)
        BY <2>1 DEF Solves
  <2>3. QED BY <1>2, <1>3, <2>2
<1>4. CASE m # 0
  <2>1. m - 1 \in Nat /\ ~(m <= m - 1)
        BY <1>4
  <2>2. PICK f : Solves(f, m - 1)
        BY <1>2, <2>1
  <2> DEFINE g == [v \in Below(m) |-> collapse(f, v)]
  <2>3. ASSUME NEW v \in Below(m) PROVE collapse(f, v) = collapse(g, v)
    <3>1. v \in Tree /\ depth[v] < m
          BY DEF Below
    <3>2. ASSUME NEW p \in Parts(v) PROVE f[p] = g[p]
      <4>1. p \in Tree /\ depth[p] < depth[v] /\ depth[v] \in Nat /\ depth[p] \in Nat
            BY <3>1, TreeAssumption
      <4>2. p \in Below(m - 1) /\ p \in Below(m)
            BY <3>1, <4>1, <2>1 DEF Below
      <4>3. QED BY <2>2, <4>2 DEF Solves
    <3>3. QED BY <3>1, <3>2, CollapseLocal
  <2>4. g = [v \in Below(m) |-> collapse(g, v)]
    <3> HIDE DEF g
    <3>1. g = [v \in Below(m) |-> collapse(f, v)]
          BY DEF g
    <3>2. QED BY <2>3, <3>1
  <2>5. Solves(g, m)
        BY <2>4 DEF Solves
  <2>6. QED BY <1>2, <2>5
<1>5. QED BY <1>3, <1>4

\* On every JSON value collapseValue returns what one call of it makes of the
\* value and of the calls for its parts.
THEOREM CollapseDefined ==
    \A v \in Tree : collapseValue[v] = collapse(collapseValue, v)
<1> DEFINE s(n) == CHOOSE f : Solves(f, n)
           F == [v \in Tree |-> collapse(s(depth[v]), v)]
<1>1. \A n \in Nat : Solves(s(n), n)
      BY SolutionExists
<1> HIDE DEF s
<1>2. ASSUME NEW v \in Tree PROVE collapse(s(depth[v]), v) = collapse(F, v)
  <2>1. ASSUME NEW p \in Parts(v) PROVE s(depth[v])[p] = F[p]
    <3>1. p \in Tree /\ depth[p] < depth[v] /\ depth[v] \in Nat /\ depth[p] \in Nat
          BY TreeAssumption
    <3>2. p \in Below(depth[v])
          BY <3>1 DEF Below
    <3>3. s(depth[v])[p] = collapse(s(depth[v]), p)
          BY <1>1, <3>1, <3>2 DEF Solves
    <3>4. ASSUME NEW q \in Parts(p) PROVE s(depth[v])[q] = s(depth[p])[q]
      <4>1. q \in Below(depth[p])
            BY <3>1, TreeAssumption DEF Below
      <4>2. depth[p] <= depth[v]
            BY <3>1
      <4>3. s(depth[p])[q] = s(depth[v])[q]
            BY <1>1, <3>1, <4>1, <4>2, SolutionsAgree
      <4>4. QED BY <4>3
    <3>5. collapse(s(depth[v]), p) = collapse(s(depth[p]), p)
          BY <3>1, <3>4, CollapseLocal
    <3>6. QED BY <3>1, <3>3, <3>5
  <2> HIDE DEF F
  <2>2. QED BY <2>1, CollapseLocal
<1>3. F = [v \in Tree |-> collapse(F, v)]
  <2>1. F = [v \in Tree |-> collapse(s(depth[v]), v)]
        OBVIOUS
  <2> HIDE DEF F
  <2>2. QED BY <1>2, <2>1
<1> HIDE DEF F
<1>4. collapseValue = [v \in Tree |-> collapse(collapseValue, v)]
      BY <1>3 DEF collapseValue
<1>5. QED BY <1>4

-----------------------------------------------------------------------------
(* What collapsing makes of a value of each kind.                          *)

LEMMA OptionFieldCollapses ==
    ASSUME NEW v \in Tree, Is("object", v), IsOptionField(v.object)
    PROVE  collapseValue[v] = optionFieldSelection(v.object)
<1>1. ~Is("array", v)
      BY ObjectParts
<1>2. QED BY <1>1, CollapseDefined DEF collapse

LEMMA ObjectCollapses ==
    ASSUME NEW v \in Tree, Is("object", v), ~IsOptionField(v.object)
    PROVE  collapseValue[v] = Obj([k \in DOMAIN v.object |-> collapseValue[v.object[k]]])
<1>1. ~Is("array", v)
      BY ObjectParts
<1>2. QED BY <1>1, CollapseDefined DEF collapse

LEMMA ArrayCollapses ==
    ASSUME NEW v \in Tree, Is("array", v)
    PROVE  /\ Parts(v) = {v.array[i] : i \in DOMAIN v.array}
           /\ collapseValue[v] = Arr([i \in DOMAIN v.array |-> collapseValue[v.array[i]]])
<1>1. ~Is("object", v)
      BY ObjectParts
<1>2. QED BY <1>1, CollapseDefined DEF collapse, Parts

LEMMA LeafCollapses ==
    ASSUME NEW v \in Tree, ~Is("object", v), ~Is("array", v)
    PROVE  Parts(v) = {} /\ collapseValue[v] = v
BY CollapseDefined DEF collapse, Parts

\* A string is neither an object nor an array, an array no object.
LEMMA Kinds ==
    /\ \A items, sep : ~Is("object", Text(items, sep)) /\ ~Is("array", Text(items, sep))
    /\ \A fields : Is("object", Obj(fields)) /\ Obj(fields).object = fields
    /\ \A items : Is("array", Arr(items)) /\ ~Is("object", Arr(items)) /\ Arr(items).array = items
BY DEF Is, Text, Obj, Arr

LEMMA SelectionIsText ==
    ASSUME NEW v \in Tree, Is("object", v), IsOptionField(v.object)
    PROVE  ~Is("object", collapseValue[v]) /\ ~Is("array", collapseValue[v])
<1>1. collapseValue[v] = optionFieldSelection(v.object)
      BY OptionFieldCollapses
<1>2. /\ ~Is("object", optionFieldSelection(v.object))
      /\ ~Is("array", optionFieldSelection(v.object))
      BY Kinds DEF optionFieldSelection
<1>3. QED BY <1>1, <1>2

\* An object that collapsing leaves an object keeps its keys.
LEMMA KeysKept ==
    ASSUME NEW v \in Tree, Is("object", collapseValue[v])
    PROVE  /\ Is("object", v) /\ ~IsOptionField(v.object)
           /\ DOMAIN collapseValue[v].object = DOMAIN v.object
<1>1. CASE Is("object", v) /\ IsOptionField(v.object)
      BY <1>1, SelectionIsText
<1>2. CASE Is("object", v) /\ ~IsOptionField(v.object)
      BY <1>2, ObjectCollapses, Kinds
<1>3. CASE ~Is("object", v) /\ Is("array", v)
      BY <1>3, ArrayCollapses, Kinds
<1>4. CASE ~Is("object", v) /\ ~Is("array", v)
      BY <1>4, LeafCollapses
<1>5. QED BY <1>1, <1>2, <1>3, <1>4

\* Collapsing the fields of an object never makes an option map of it: what is
\* an object with a selected flag afterwards was one before.
LEMMA NoNewOptionField ==
    ASSUME NEW v \in Tree, Is("object", v), ~IsOptionField(v.object)
    PROVE  ~IsOptionField([k \in DOMAIN v.object |-> collapseValue[v.object[k]]])
<1> DEFINE new == [k \in DOMAIN v.object |-> collapseValue[v.object[k]]]
<1>1. SUFFICES ASSUME IsOptionField(new) PROVE IsOptionField(v.object)
      OBVIOUS
<1>2. DOMAIN new = DOMAIN v.object /\ DOMAIN v.object # {}
      BY <1>1 DEF IsOptionField
<1>3. ASSUME NEW k \in DOMAIN v.object
      PROVE  Is("object", v.object[k]) /\ "selected" \in DOMAIN v.object[k].object
  <2>1. v.object[k] \in Tree
        BY ObjectParts, TreeAssumption
  <2>2. Is("object", new[k]) /\ "selected" \in DOMAIN new[k].object
        BY <1>1, <1>2 DEF IsOptionField
  <2>3. new[k] = collapseValue[v.object[k]]
        OBVIOUS
  <2> HIDE DEF new
  <2>4. QED BY <2>1, <2>2, <2>3, KeysKept
<1>4. QED BY <1>2, <1>3 DEF IsOptionField

\* A collapsed value is in its simplest form.
LEMMA CollapseIdempotent ==
    ASSUME NEW u \in Tree
    PROVE  collapseValue[u] \in Tree /\ collapseValue[collapseValue[u]] = collapseValue[u]
<1> DEFINE T == {v \in Tree : collapseValue[collapseValue[v]] # collapseValue[v]}
<1>1. SUFFICES ASSUME T # {} PROVE FALSE
      BY CollapsedAssumption
<1>2. PICK v \in T : \A p \in Parts(v) : p \in Tree \ T
  <2>1. T \subseteq Tree
        OBVIOUS
  <2> HIDE DEF T
  <2>2. QED BY <1>1, <2>1, LeastDeep
<1> DEFINE w == collapseValue[v]
<1>3. v \in Tree /\ w \in Tree /\ collapseValue[w] # w
      BY CollapsedAssumption
<1>4. \A p \in Parts(v) : collapseValue[collapseValue[p]] = collapseValue[p]
      BY <1>2
<1> HIDE DEF T
<1>5. CASE Is("object", v) /\ IsOptionField(v.object)
  <2>1. ~Is("object", w) /\ ~Is("array", w)
        BY <1>3, <1>5, SelectionIsText
  <2> HIDE DEF w
  <2>2. QED BY <1>3, <2>1, LeafCollapses
<1>6. CASE Is("object", v) /\ ~IsOptionField(v.object)
  <2> DEFINE new == [k \in DOMAIN v.object |-> collapseValue[v.object[k]]]
  <2>1. w = Obj(new)
        BY <1>3, <1>6, ObjectCollapses
  <2>2. ~IsOptionField(new)
        BY <1>3, <1>6, NoNewOptionField
  <2>3. DOMAIN new = DOMAIN v.object /\ \A k \in DOMAIN v.object : collapseValue[new[k]] = new[k]
        BY <1>3, <1>4, <1>6, ObjectParts
  <2> HIDE DEF w
  <2>4. collapseValue[w] = Obj([k \in DOMAIN new |-> collapseValue[new[k]]])
    <3> HIDE DEF new
    <3>1. Is("object", w) /\ w.object = new
          BY <2>1, Kinds
    <3>2. QED BY <1>3, <2>2, <3>1, ObjectCollapses
  <2>5. [k \in DOMAIN new |-> collapseValue[new[k]]] = new
        BY <2>3
  <2>6. QED BY <1>3, <2>1, <2>4, <2>5
<1>7. CASE ~Is("object", v) /\ Is("array", v)
  <2> DEFINE new == [i \in DOMAIN v.array |-> collapseValue[v.array[i]]]
  <2>1. w = Arr(new)
        BY <1>3, <1>7, ArrayCollapses
  <2>2. DOMAIN new = DOMAIN v.array /\ \A i \in DOMAIN v.array : collapseValue[new[i]] = new[i]
        BY <1>3, <1>4, <1>7, ArrayCollapses
  <2> HIDE DEF w
  <2>3. collapseValue[w] = Arr([i \in DOMAIN new |-> collapseValue[new[i]]])
    <3> HIDE DEF new
    <3>1. Is("array", w) /\ w.array = new
          BY <2>1, Kinds
    <3>2. QED BY <1>3, <3>1, ArrayCollapses
  <2>4. [i \in DOMAIN new |-> collapseValue[new[i]]] = new
        BY <2>2
  <2>5. QED BY <1>3, <2>1, <2>3, <2>4
<1>8. CASE ~Is("object", v) /\ ~Is("array", v)
      BY <1>3, <1>8, LeafCollapses
<1>9. QED BY <1>5, <1>6, <1>7, <1>8

\* A value in its simplest form is no option map, and neither are its parts.
LEMMA SimplestThroughout ==
    ASSUME NEW v \in Tree, collapseValue[v] = v
    PROVE  /\ ~(Is("object", v) /\ IsOptionField(v.object))
           /\ \A p \in Parts(v) : p \in Tree /\ collapseValue[p] = p
<1>1. ~(Is("object", v) /\ IsOptionField(v.object))
      BY SelectionIsText
<1>2. ASSUME NEW p \in Parts(v) PROVE p \in Tree /\ collapseValue[p] = p
  <2>1. p \in Tree
        BY TreeAssumption
  <2>2. CASE Is("object", v)
    <3>1. v.object = [k \in DOMAIN v.object |-> collapseValue[v.object[k]]]
          BY <1>1, <2>2, ObjectCollapses, Kinds
    <3>2. PICK k \in DOMAIN v.object : p = v.object[k]
          BY <2>2, ObjectParts
    <3>3. QED BY <2>1, <3>1, <3>2
  <2>3. CASE Is("array", v)
    <3>1. v.array = [i \in DOMAIN v.array |-> collapseValue[v.array[i]]]
          BY <2>3, ArrayCollapses, Kinds
    <3>2. PICK i \in DOMAIN v.array : p = v.array[i]
          BY <2>3, ArrayCollapses
    <3>3. QED BY <2>1, <3>1, <3>2
  <2>4. CASE ~Is("object", v) /\ ~Is("array", v)
        BY <2>4, LeafCollapses
  <2>5. QED BY <2>2, <2>3, <2>4
<1>3. QED BY <1>1, <1>2

-----------------------------------------------------------------------------
\* A value on its way is one of the inputs, or part of a collapsed body.
Simplest == [kind : {"body"}, value : {v \in Tree : collapseValue[v] = v}]
InputOK  == input \in {Nothing} \union Inputs \union Simplest

LEMMA InputInvariant == CodecSpec => []InputOK
<1>1. CodecInit => InputOK
      BY DEF CodecInit, InputOK
<1>2. InputOK /\ [CodecNext]_<<vars, input>> => InputOK'
  <2> SUFFICES ASSUME InputOK, [CodecNext]_<<vars, input>> PROVE InputOK'
      OBVIOUS
  <2>1. CASE Arrive
        BY <2>1 DEF Arrive, InputOK
  <2>2. CASE Leave
        BY <2>2 DEF Leave, InputOK
  <2>3. CASE Read
    <3>1. input.value \in Tree
          BY <2>3 DEF Read, InputOK, Inputs, Simplest, Nothing
    <3>2. QED BY <2>3, <3>1, CollapseIdempotent DEF Read, InputOK, Simplest
  <2>4. CASE Descend
    <3>1. input.value \in Tree /\ collapseValue[input.value] = input.value
          BY <2>4 DEF Descend, InputOK, Inputs, Simplest, Nothing
    <3>2. QED BY <2>4, <3>1, SimplestThroughout DEF Descend, InputOK, Simplest
  <2>5. CASE UNCHANGED input
        BY <2>5 DEF InputOK
  <2>6. QED BY <2>1, <2>2, <2>3, <2>4, <2>5 DEF CodecNext, vars
<1>3. QED BY <1>1, <1>2, PTL DEF CodecSpec

\* Whatever the firewall sends, and however deep it nests: what Read stores
\* (collapseOptionFields) holds no option map anywhere, and collapsing it again
\* changes nothing.
THEOREM BodiesCollapse == CodecSpec => []CollapseComplete
<1>1. InputOK => CollapseComplete
      BY SimplestThroughout DEF InputOK, CollapseComplete, Inputs, Simplest, Nothing
<1>2. QED BY <1>1, InputInvariant, PTL

-----------------------------------------------------------------------------
(* The round trip of a list field.                                         *)

\* What the firewall shows collapses to the selected options in string order.
LEMMA ShownCollapses ==
    ASSUME NEW S \in SUBSET Option
    PROVE  collapseValue[Obj([f \in {"content"} |-> Show(S)])]
             = Obj([f \in {"content"} |-> Text(Sorted(S), ",")])
<1> DEFINE shown == Show(S)
           body == Obj([f \in {"content"} |-> shown])
           flag(o) == Obj([f \in {"selected"} |-> Number(IF o \in S THEN 1 ELSE 0)])
<1>1. shown = Obj([o \in Option |-> flag(o)])
      BY DEF Show
<1>2. /\ \A o \in Option : Is("object", flag(o)) /\ DOMAIN flag(o).object = {"selected"}
      /\ \A o \in Option : isSelected(flag(o).object["selected"]) <=> o \in S
  <2>1. \A o \in Option : flag(o).object["selected"] = Number(IF o \in S THEN 1 ELSE 0)
        BY Kinds
  <2>2. isSelected(Number(1)) /\ ~isSelected(Number(0))
        BY DEF isSelected, Number, Is
  <2>3. \A o \in Option : isSelected(flag(o).object["selected"]) <=> o \in S
        BY <2>1, <2>2
  <2>4. QED BY <2>3, Kinds
<1> HIDE DEF flag
<1>3. Is("object", shown) /\ shown.object = [o \in Option |-> flag(o)]
      BY <1>1, Kinds
<1> HIDE DEF shown
<1>4. Is("object", body) /\ body.object = [f \in {"content"} |-> shown]
      BY Kinds
<1>5. body \in Tree
      BY ShownAssumption DEF shown
<1> HIDE DEF body
<1>6. shown \in Tree
  <2>1. shown \in Parts(body)
        BY <1>4, <1>5, ObjectParts
  <2>2. QED BY <1>5, <2>1, TreeAssumption
<1>7. IsOptionField(shown.object)
      BY <1>2, <1>3, OptionAssumption DEF IsOptionField
<1>8. ~IsOptionField(body.object)
      BY <1>3, <1>4, OptionAssumption DEF IsOptionField
<1>9. collapseValue[shown] = Text(Sorted(S), ",")
  <2>1. {k \in DOMAIN shown.object : isSelected(shown.object[k].object["selected"])} = S
        BY <1>2, <1>3
  <2>2. collapseValue[shown] = optionFieldSelection(shown.object)
        BY <1>3, <1>6, <1>7, OptionFieldCollapses
  <2>3. QED BY <2>1, <2>2 DEF optionFieldSelection
<1>10. collapseValue[body] = Obj([f \in {"content"} |-> collapseValue[shown]])
  <2>1. collapseValue[body]
          = Obj([f \in DOMAIN body.object |-> collapseValue[body.object[f]]])
        BY <1>4, <1>5, <1>8, ObjectCollapses
  <2>2. [f \in DOMAIN body.object |-> collapseValue[body.object[f]]]
          = [f \in {"content"} |-> collapseValue[shown]]
        BY <1>4
  <2>3. QED BY <2>1, <2>2
<1>11. QED BY <1>9, <1>10 DEF body, shown

LEMMA ListTyped ==
    ASSUME NEW list \in List
    PROVE  /\ list \in Seq(Option) /\ Len(list) \in Nat
           /\ Len(list) > 1 \/ Len(list) <= 1
           /\ \A i \in DOMAIN list : list[i] \in Option
<1>1. list \in Seq(Option)
      BY OptionAssumption
<1>2. DOMAIN list = 1..Len(list) /\ Len(list) \in Nat
      BY <1>1
<1>3. \A i \in 1..Len(list) : list[i] \in Option
      BY <1>1
<1>4. QED BY <1>1, <1>2, <1>3

LEMMA TextParts ==
    ASSUME NEW items, NEW sep, NEW v, v = Text(items, sep)
    PROVE  /\ Is("text", v) /\ v.text = items
           /\ Len(items) > 1 => v.sep = sep
<1> DEFINE s == IF Len(items) > 1 THEN sep ELSE ","
<1>1. v = [text |-> items, sep |-> s]
      BY DEF Text
<1>2. Len(items) > 1 => s = sep
      OBVIOUS
<1> HIDE DEF s
<1>3. v.text = items /\ v.sep = s /\ "text" \in DOMAIN v
      BY <1>1
<1>4. QED BY <1>2, <1>3 DEF Is

\* The list that is sent is the declared one, and the firewall splits it at the
\* separator it was sent with.
LEMMA ListAccepted ==
    ASSUME NEW key, NEW list \in List, NEW declared, declared = Text(list, ","),
           NEW payload,
           payload = wrap(key, [k \in {"content"} |-> declared])[key].object["content"]
    PROVE  Entries(payload) = Entries(declared) /\ Accepts(key, payload)
<1> DEFINE sent == [k \in {"content"} |-> declared]
<1>1. payload = (IF key = "alias" THEN aliasContentToNewlines(sent) ELSE sent)["content"]
      BY Kinds DEF wrap
<1>2. Is("text", declared) /\ declared.text = list /\ declared.sep = ","
      BY DEF Text, Is
<1>3. CASE key = "alias" /\ Len(list) > 1
  <2>1. aliasContentToNewlines(sent)["content"] = Text(list, Newline)
        BY <1>2, <1>3 DEF aliasContentToNewlines
  <2>2. payload = Text(list, Newline)
        BY <1>1, <1>3, <2>1
  <2>3. payload.text = list /\ payload.sep = Newline
    <3>1. Text(list, Newline).text = list /\ Text(list, Newline).sep = Newline
          BY <1>3, TextParts
    <3>2. QED BY <2>2, <3>1
  <2>4. QED BY <1>2, <1>3, <2>3 DEF Entries, Accepts, Separator
<1>4. CASE key = "alias" /\ ~(Len(list) > 1)
  <2>1. aliasContentToNewlines(sent) = sent
        BY <1>2, <1>4 DEF aliasContentToNewlines
  <2>2. payload = declared
        BY <1>1, <1>4, <2>1
  <2>3. Len(list) <= 1
        BY <1>4, ListTyped
  <2>4. QED BY <1>2, <2>2, <2>3 DEF Accepts
<1>5. CASE key # "alias"
  <2>1. payload = declared
        BY <1>1, <1>5
  <2>2. QED BY <1>2, <1>5, <2>1 DEF Accepts, Separator
<1>6. QED BY <1>3, <1>4, <1>5

LEMMA ListReadsBack ==
    ASSUME NEW key, NEW list \in List, NEW declared, declared = Text(list, ",")
    PROVE  /\ Entries(declared) \subseteq Option
           /\ ReadBack(key, declared) = Text(Sorted(Entries(declared)), ",")
<1> DEFINE S == Entries(declared)
           payload == wrap(key, [k \in {"content"} |-> declared])[key].object["content"]
           shown == Obj([f \in {"content"} |-> Show(S)])
           raw == [k \in {key} |-> shown]
<1>1. S \subseteq Option
  <2>1. declared.text = list
        BY DEF Text
  <2>2. \A i \in DOMAIN list : list[i] \in Option
        BY ListTyped
  <2>3. Entries(declared) = {list[i] : i \in DOMAIN list}
        BY <2>1 DEF Entries
  <2>4. QED BY <2>2, <2>3
<1>2. Entries(payload) = S /\ Accepts(key, payload)
      BY ListAccepted
<1> HIDE DEF payload, S
<1>3. unwrap(key, raw) = shown
  <2>1. Is("object", shown) /\ shown.object = [f \in {"content"} |-> Show(S)]
        BY Kinds
  <2>3. DOMAIN shown.object = {"content"}
        BY <2>1
  <2> HIDE DEF shown
  <2>2. QED BY <2>1 DEF unwrap
<1>4. ReadBack(key, declared) = collapseValue[shown].object["content"]
      BY <1>2, <1>3 DEF ReadBack, payload
<1>5. collapseValue[shown].object["content"] = Text(Sorted(S), ",")
  <2>1. collapseValue[shown] = Obj([f \in {"content"} |-> Text(Sorted(S), ",")])
        BY <1>1, ShownCollapses
  <2> HIDE DEF shown
  <2>2. collapseValue[shown].object = [f \in {"content"} |-> Text(Sorted(S), ",")]
        BY <2>1, Kinds
  <2>3. QED BY <2>2
<1>6. QED BY <1>1, <1>4, <1>5 DEF S

\* Any list an operator declares, of any options, for an alias and for any other
\* field: what is sent is accepted, and the next plan is 0-diff exactly when the
\* list is in string order without repetition.
THEOREM SortedListsReadBack == CodecSpec => []SortedReadsBack
<1>1. ASSUME NEW key, NEW list \in List
      PROVE  LET declared == Text(list, ",")
                 back == ReadBack(key, declared)
             IN  /\ back # None
                 /\ subsetMatches([f \in {"content"} |-> back], [f \in {"content"} |-> declared])
                      <=> list = Sorted(Entries(declared))
  <2> DEFINE declared == Text(list, ",")
             S == Entries(declared)
             back == ReadBack(key, declared)
  <2>1. S \subseteq Option /\ back = Text(Sorted(S), ",")
        BY ListReadsBack
  <2>2. back # None
    <3> DEFINE body == Obj([f \in {"content"} |-> Show(S)])
    <3>1. body \in Tree /\ collapseValue[body] = Obj([f \in {"content"} |-> back])
          BY <2>1, ShownAssumption, ShownCollapses
    <3>2. Obj([f \in {"content"} |-> back]) \in Tree
          BY <3>1, CollapsedAssumption
    <3> HIDE DEF back
    <3>3. back \in Parts(Obj([f \in {"content"} |-> back]))
          BY <3>2, ObjectParts, Kinds
    <3>4. QED BY <3>2, <3>3, TreeAssumption
  <2>3. subsetMatches([f \in {"content"} |-> back], [f \in {"content"} |-> declared])
          <=> declared = back
        BY DEF subsetMatches
  <2>4. declared = back <=> list = Sorted(S)
    <3>1. declared.text = list /\ Text(Sorted(S), ",").text = Sorted(S)
          BY DEF Text
    <3> HIDE DEF S, declared
    <3>2. declared = Text(list, ",")
          BY DEF declared
    <3>3. QED BY <2>1, <3>1, <3>2
  <2>5. QED BY <2>2, <2>3, <2>4
<1>2. InputOK => SortedReadsBack
  <2>1. (InputOK /\ input.kind = "list") => input.list \in List
        BY DEF InputOK, Inputs, Simplest, Nothing
  <2>2. QED BY <1>1, <2>1 DEF SortedReadsBack
<1>3. QED BY <1>2, InputInvariant, PTL

-----------------------------------------------------------------------------
LEMMA ImportInvariant == Spec => []ImportRestoresBlock
<1> DEFINE Inv == block \in Block /\ ImportRestoresBlock
<1>1. Init => Inv
      BY DEF Init, ImportRestoresBlock
<1>2. Inv /\ [Next]_vars => Inv'
  <2> SUFFICES ASSUME Inv, [Next]_vars PROVE Inv'
      OBVIOUS
  <2>1. CASE Import
    <3>1. block' = block /\ state' = ImportState(ImportId(block)) /\ block \in Block
          BY <2>1 DEF Import
    <3>2. state' # Refused
          BY <3>1, ImportRestores, StateAssumption
    <3>3. QED BY <3>1, <3>2, ImportRestores DEF ImportRestoresBlock
  <2>2. CASE Forget
        BY <2>2 DEF Forget, ImportRestoresBlock
  <2>3. CASE UNCHANGED vars
        BY <2>3 DEF vars, ImportRestoresBlock
  <2>4. QED BY <2>1, <2>2, <2>3 DEF Next
<1>3. QED BY <1>1, <1>2, PTL DEF Spec

\* The conversions beside it change nothing about the block or its state.
LEMMA CodecAddresses == CodecSpec => Spec
<1>1. CodecInit => Init
      BY DEF CodecInit
<1>2. [CodecNext]_<<vars, input>> => [Next]_vars
      BY DEF CodecNext
<1>3. QED BY <1>1, <1>2, PTL DEF CodecSpec, Spec

\* Whatever a block is called, and whichever of its hints are set, empty or left
\* out, importing it by its own id gives back what every later call is built
\* from: the positional hints never slip.
THEOREM BlockRestored == CodecSpec => []ImportRestoresBlock
BY ImportInvariant, CodecAddresses, PTL
=============================================================================

----------------------------- MODULE ObjectCodec -----------------------------
(***************************************************************************)
(* The conversions of internal/provider/object_resource.go: how a declared *)
(* field travels to the firewall and back.  ObjectAddress has where to.    *)
(*                                                                         *)
(* A JSON value is a record with one field that tells its kind.  A string  *)
(* is the sequence of the entries it lists and their separator; strings    *)
(* that list nothing or one entry have no separator to tell.               *)
(***************************************************************************)
EXTENDS ObjectAddress

CONSTANTS
    Alphabet,   \* the words entries and keys are made of, in string order
    Tree,       \* JSON values, with their parts and what Read makes of them
    depth,      \* depth[v]: how deep v nests
    Option,     \* the options of a list field
    List,       \* the entries an operator may declare for it, in any order
    Envelope    \* envelope keys

Word == {Alphabet[i] : i \in DOMAIN Alphabet}

Newline == "\n"

Text(items, sep) == [text |-> items, sep |-> IF Len(items) > 1 THEN sep ELSE ","]
Number(n)        == [number |-> n]
Boolean(b)       == [boolean |-> b]
Obj(fields)      == [object |-> fields]
Arr(items)       == [array |-> items]

Is(kind, v) == kind \in DOMAIN v

\* The values an object or an array holds.
Parts(v) ==
    CASE Is("object", v) -> {v.object[k] : k \in DOMAIN v.object}
      [] Is("array", v)  -> {v.array[i] : i \in DOMAIN v.array}
      [] OTHER -> {}

\* An object has nothing beside its fields, an array nothing beside its items,
\* and JSON nests to a finite depth.
ASSUME TreeAssumption ==
    /\ None \notin Tree
    /\ \A v \in Tree :
         /\ Is("object", v) => v = Obj(v.object)
         /\ Is("array", v) => v = Arr(v.array)
         /\ depth[v] \in Nat
         /\ \A p \in Parts(v) : p \in Tree /\ depth[p] < depth[v]

\* The words of S in string order (sort.Strings).
Sorted(S) == SelectSeq(Alphabet, LAMBDA w : w \in S)

-----------------------------------------------------------------------------
(* Writing.                                                                *)

\* Mutant: an alias is sent as it was declared.
aliasContentAsDeclared(body) == body

\* An alias content that lists several entries is sent one entry per line.
aliasContentToNewlines(body) ==
    IF /\ "content" \in DOMAIN body
       /\ Is("text", body["content"])
       /\ Len(body["content"].text) > 1
    THEN [body EXCEPT !["content"] = Text(@.text, Newline)]
    ELSE body

\* The body under its envelope key; the key decides about the alias form.
wrap(key, body) == [k \in {key} |-> Obj(IF key = "alias" THEN aliasContentToNewlines(body)
                                                        ELSE body)]

-----------------------------------------------------------------------------
(* Reading.                                                                *)

isSelected(v) ==
    \/ Is("number", v) /\ v.number # 0
    \/ Is("text", v) /\ v.text \in {<<"1">>, <<"true">>}
    \/ Is("boolean", v) /\ v.boolean

\* A non-empty object whose values are all objects that carry a selected flag.
IsOptionField(fields) ==
    /\ DOMAIN fields # {}
    /\ \A k \in DOMAIN fields : Is("object", fields[k]) /\ "selected" \in DOMAIN fields[k].object

optionFieldSelection(fields) ==
    Text(Sorted({k \in DOMAIN fields : isSelected(fields[k].object["selected"])}), ",")

\* Mutant: arrays are not recursed into.
collapseObjects(rest, v) ==
    CASE Is("object", v) /\ IsOptionField(v.object) -> optionFieldSelection(v.object)
      [] Is("object", v) /\ ~IsOptionField(v.object) ->
           Obj([k \in DOMAIN v.object |-> rest[v.object[k]]])
      [] OTHER -> v

\* One call of collapseValue; rest is what its calls for the parts return.
collapse(rest, v) ==
    CASE Is("object", v) /\ IsOptionField(v.object) -> optionFieldSelection(v.object)
      [] Is("object", v) /\ ~IsOptionField(v.object) ->
           Obj([k \in DOMAIN v.object |-> rest[v.object[k]]])
      [] Is("array", v) -> Arr([i \in DOMAIN v.array |-> rest[v.array[i]]])
      [] OTHER -> v

collapseValue[v \in Tree] == collapse(collapseValue, v)

\* The object under key, or None for a missing envelope and an empty object.
unwrap(key, raw) ==
    IF key \in DOMAIN raw /\ Is("object", raw[key]) /\ DOMAIN raw[key].object # {}
    THEN raw[key] ELSE None

\* Every declared key is in the prior object with an equal value.
subsetMatches(prior, cfg) ==
    \A k \in DOMAIN cfg : k \in DOMAIN prior /\ cfg[k] = prior[k]

-----------------------------------------------------------------------------
(* The firewall's side of a list field, as the code relies on it: an alias *)
(* content is split at newlines, a multi-select field at commas; a string  *)
(* that still holds the other separator is one entry nobody knows.  A read *)
(* shows every option with its flag.                                       *)

Separator(key) == IF key = "alias" THEN Newline ELSE ","
Accepts(key, v) == Len(v.text) <= 1 \/ v.sep = Separator(key)
Entries(v) == {v.text[i] : i \in DOMAIN v.text}
Show(selection) ==
    Obj([o \in Option |->
           Obj([f \in {"selected"} |-> Number(IF o \in selection THEN 1 ELSE 0)])])

\* What Read reports for field content, declared as text v in a block whose
\* envelope is key; None when the firewall refuses the write.
ReadBack(key, v) ==
    LET payload == wrap(key, [k \in {"content"} |-> v])[key].object["content"]
        raw     == [k \in {key} |-> Obj([f \in {"content"} |-> Show(Entries(payload))])]
    IN  IF Accepts(key, payload) THEN collapseValue[unwrap(key, raw)].object["content"]
                                 ELSE None

\* A field lists options, none of which is called like the flag of an option.
ASSUME OptionAssumption ==
    /\ Option # {} /\ "selected" \notin Option
    /\ \A s \in List : s \in Seq(Option)

\* What the firewall shows of a field is a JSON value, and so is what collapsing
\* makes of one.
ASSUME ShownAssumption ==
    \A shown \in SUBSET Option : Obj([f \in {"content"} |-> Show(shown)]) \in Tree
ASSUME CollapsedAssumption == \A v \in Tree : collapseValue[v] \in Tree

-----------------------------------------------------------------------------
(* A block and, beside it, a value on its way: a body the firewall sends,  *)
(* or a list the operator declares.  The conversions do not look at the    *)
(* block, so one of them is enough to see them with.                       *)

VARIABLE input

Nothing == [kind |-> "nothing"]
Inputs  == [kind : {"raw"}, value : Tree]
             \union [kind : {"list"}, key : Envelope, list : List]

OneBlock == CHOOSE b \in Block : TRUE
Arrive == input = Nothing /\ block = OneBlock /\ state = None /\ input' \in Inputs
Leave  == input # Nothing /\ input' = Nothing

\* Read stores the collapsed body.
Read ==
    /\ input.kind = "raw"
    /\ input' = [kind |-> "body", value |-> collapseValue[input.value]]

\* Whoever reads a body goes from a value to any of its parts.
Descend ==
    /\ input.kind = "body"
    /\ \E p \in Parts(input.value) : input' = [kind |-> "body", value |-> p]

CodecInit == Init /\ input = Nothing
CodecNext ==
    \/ input = Nothing /\ Next /\ UNCHANGED input
    \/ (Arrive \/ Read \/ Descend \/ Leave) /\ UNCHANGED vars
CodecSpec == CodecInit /\ [][CodecNext]_<<vars, input>>

-----------------------------------------------------------------------------
\* Collapsing leaves no option map anywhere in a read-back body, however deep
\* one looks, and collapsing again changes nothing there: a refresh of a
\* refreshed body agrees with it.
CollapseComplete ==
    input.kind = "body" =>
        /\ ~(Is("object", input.value) /\ IsOptionField(input.value.object))
        /\ collapseValue[input.value] = input.value

\* A list declared in string order without repetition is accepted by the
\* firewall and reads back as it was declared, so that the plan after the write
\* is 0-diff, for aliases and for multi-select fields alike.  Any other order
\* reads back different.
SortedReadsBack ==
    input.kind = "list" =>
        LET declared == Text(input.list, ",")
            back == ReadBack(input.key, declared)
        IN  /\ back # None
            /\ subsetMatches([f \in {"content"} |-> back], [f \in {"content"} |-> declared])
                 <=> input.list = Sorted(Entries(declared))
=============================================================================

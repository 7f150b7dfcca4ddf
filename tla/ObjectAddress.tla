---------------------------- MODULE ObjectAddress ----------------------------
(***************************************************************************)
(* How a block of internal/provider/object_resource.go addresses the API,  *)
(* and how an import id carries that address into the state: ImportState   *)
(* reads the path and the positional hints an operator has put together    *)
(* from the block, and every later call is built from what it read.        *)
(*                                                                         *)
(* Names are opaque: an id is split at slashes and bars, which none holds. *)
(***************************************************************************)
EXTENDS Integers, Sequences

CONSTANTS
    Name,       \* what modules, controllers, uuids and hints may be called
    None,       \* an attribute that is not set; a block that is not tracked
    Refused     \* an import that ended in an error

ASSUME NameAssumption ==
    /\ "" \notin Name
    /\ None \notin Name \union {"", "none"}

Hint  == Name \union {"", None}
Block == [module : Name, controller : Name, uuid : Name \union {None},
          reconfigure : Hint, item_suffix : Hint, envelope : Hint, set_command : Hint]

ASSUME StateAssumption == None \notin Block /\ Refused \notin Block \union {None}

VARIABLES
    block,      \* the block in the configuration
    state       \* what the state file has of it

vars == <<block, state>>

-----------------------------------------------------------------------------
(* Addressing: the verbs, the envelope and the apply command of a block.   *)

itemSuffix(m) ==
    CASE m.item_suffix \in {None, ""} -> "Item"
      [] m.item_suffix = "none" -> ""
      [] OTHER -> m.item_suffix

\* A verb is the pair of its root and its noun; set_command is the whole verb.
setVerb(m) ==
    IF m.set_command \in {None, ""} THEN <<"set", itemSuffix(m)>> ELSE <<m.set_command, "">>

envelopeKey(m) == IF m.envelope \in {None, ""} THEN m.controller ELSE m.envelope

\* An apply command that is not set is not posted.
applyCommand(m) == IF m.reconfigure = "" THEN None ELSE m.reconfigure

\* A command of a block; that of an item ends with its uuid.
cmdPath(m, verb, uuid) ==
    [module |-> m.module, controller |-> m.controller, verb |-> verb, uuid |-> uuid]

\* A singleton is set and read as a whole, and never deleted.
IsSingleton(m) == m.uuid = None

CreateCmd(m) ==
    IF IsSingleton(m) THEN cmdPath(m, <<"set", "">>, None)
                      ELSE cmdPath(m, <<"add", itemSuffix(m)>>, None)
ReadCmd(m) ==
    IF IsSingleton(m) THEN cmdPath(m, <<"get", "">>, None)
                      ELSE cmdPath(m, <<"get", itemSuffix(m)>>, m.uuid)
UpdateCmd(m) ==
    IF IsSingleton(m) THEN cmdPath(m, <<"set", "">>, None)
                      ELSE cmdPath(m, setVerb(m), m.uuid)
DeleteCmd(m) ==
    IF IsSingleton(m) THEN None ELSE cmdPath(m, <<"del", itemSuffix(m)>>, m.uuid)

Commands(m) == <<CreateCmd(m), ReadCmd(m), UpdateCmd(m), DeleteCmd(m)>>

-----------------------------------------------------------------------------
(* Import ids: an address and the positional hints after it.               *)

\* The id as an operator writes it: trailing hints that are not set are left
\* out, those in between are empty.
HintNames == <<"reconfigure", "item_suffix", "envelope", "set_command">>
Written(m) == {i \in DOMAIN HintNames : m[HintNames[i]] # None}
HintsOf(m) ==
    [i \in {j \in DOMAIN HintNames : \E k \in Written(m) : j <= k} |->
        IF m[HintNames[i]] = None THEN "" ELSE m[HintNames[i]]]
ImportId(m) ==
    [segments |-> IF m.uuid = None THEN <<m.module, m.controller>>
                                   ELSE <<m.module, m.controller, m.uuid>>,
     hints    |-> HintsOf(m)]

\* Mutant: the last hint of an id is not read.
pipeFieldShort(id, i) == IF i + 1 \in DOMAIN id.hints THEN id.hints[i] ELSE ""

pipeField(id, i) == IF i \in DOMAIN id.hints THEN id.hints[i] ELSE ""
setStrOrNull(val) == IF val = "" THEN None ELSE val

\* An id of two segments is a singleton, of three an item; any other is an
\* error, which leaves no state.
ImportState(id) ==
    IF Len(id.segments) \notin {2, 3}
    THEN Refused
    ELSE [module      |-> id.segments[1],
          controller  |-> id.segments[2],
          uuid        |-> IF Len(id.segments) = 3 THEN id.segments[3] ELSE None,
          reconfigure |-> setStrOrNull(pipeField(id, 1)),
          item_suffix |-> setStrOrNull(pipeField(id, 2)),
          envelope    |-> setStrOrNull(pipeField(id, 3)),
          set_command |-> setStrOrNull(pipeField(id, 4))]

-----------------------------------------------------------------------------
Init == block \in Block /\ state = None

\* A block is imported by the id made of its attributes.
Import ==
    /\ state = None
    /\ state' = ImportState(ImportId(block))
    /\ UNCHANGED block

\* The operator takes the block out of the state file (tofu state rm).
Forget == state # None /\ state' = None /\ UNCHANGED block

Next == Import \/ Forget
Spec == Init /\ [][Next]_vars

-----------------------------------------------------------------------------
\* The imported block addresses the firewall as the declared one does: by the
\* same commands, under the same envelope, with the same apply command.  Unless
\* the operator has written a hint as an empty string, it is the declared block,
\* and the first plan after the import has nothing to change but the body.
ImportRestoresBlock ==
    state # None =>
        /\ state # Refused
        /\ Commands(state) = Commands(block)
        /\ envelopeKey(state) = envelopeKey(block)
        /\ applyCommand(state) = applyCommand(block)
        /\ (\A i \in DOMAIN HintNames : block[HintNames[i]] # "") => state = block
=============================================================================

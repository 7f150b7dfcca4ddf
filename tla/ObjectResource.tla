--------------------------- MODULE ObjectResource ---------------------------
(***************************************************************************)
(* The opnsense_object resource (internal/provider/object_resource.go)     *)
(* driven by OpenTofu runs over the REST client                            *)
(* (internal/opnsense/client.go).                                          *)
(*                                                                         *)
(* A run refreshes every tracked resource (Read), plans each one from its  *)
(* configuration and the refreshed state, and applies the plans of all     *)
(* resources in parallel (Create, Update, Delete).  Each handler is cut at *)
(* its HTTP calls: between two calls the firewall, an administrator, other *)
(* resources and requests the client gave up on may act.                   *)
(*                                                                         *)
(* The firewall keeps a configuration (store, config.xml) and what its     *)
(* services run with (live); an apply command copies the first into the    *)
(* second.  The collection items of one controller are the Uuid slots, the *)
(* settings of a singleton controller the slot Settings.                   *)
(***************************************************************************)
EXTENDS Integers, FiniteSets

CONSTANTS
    Resource,     \* resource addresses in the configuration
    Uuid,         \* uuids the firewall may assign to items
    Settings,     \* the slot of the singleton controller
    Key, Value,   \* fields of an object and their values
    None,         \* absence of a record, a key or a resource
    Malformed,    \* a declared body that is not valid JSON
    Default,      \* the object the firewall fills undeclared fields from
    ReadBack,     \* ReadBack[k][v]: what Read reports for field k written as v
    Preexisting,  \* items on the firewall before the first run
    Configs,      \* the configurations an operator may declare
    ImportHints,  \* whether import ids carry the reconfigure path
    Faults,       \* the kinds of fault of this instance
    Admin,        \* the administrator's actions of this instance
    MaxFaults,    \* bound on the number of faults
    MaxEdits      \* bound on configuration changes, imports and admin actions

Slot   == Uuid \union {Settings}
Object == [Key -> Value]
Body   == [Key -> Value \union {None}]

\* One resource block: the attributes body, singleton and reconfigure.
Config == [body: Body \union {Malformed}, singleton: BOOLEAN, reconfigure: BOOLEAN]

\* objectModel: slot stands for module/controller[/uuid], so that singleton
\* is slot = Settings.
Model == [slot: Slot, body: Body, reconfigure: BOOLEAN]

Op      == {"get", "add", "set", "del", "apply"}
Request == [op: Op, slot: Slot \union {None}, body: Body \union {None}]

\* "empty" is a 200 whose envelope is absent or empty, "rejected" a 200 whose
\* result is neither absent nor saved/deleted/ok, "garbled" a 200 whose text
\* is not JSON, "notFound" a 404, "error" any other failure of Client.do.
Reply == [kind: {"ok", "empty", "rejected", "garbled", "notFound", "error"},
          slot: Slot \union {None},
          body: Object \union {None}]

Phase == {"idle", "import", "refresh", "planned", "create", "update", "delete",
          "reconfigure"}

FaultKind == {"refused", "missing", "lost", "garbled", "void", "late", "applyRejected", "crash"}
AdminKind == {"edit", "delete"}

ASSUME SettingsAssumption == Settings \notin Uuid
ASSUME NoneAssumption ==
    /\ None \notin Slot
    /\ None \notin Value
    /\ None \notin Body
    /\ None \notin Model
    /\ None \notin Request
    /\ None \notin Reply
    /\ None \notin Config
    /\ Malformed \notin Body
ASSUME DataAssumption ==
    /\ Default \in Object
    /\ ReadBack \in [Key -> [Value -> Value]]
    /\ Preexisting \subseteq Uuid
    /\ Configs \subseteq Config
    /\ ImportHints \subseteq BOOLEAN
ASSUME BoundAssumption ==
    /\ Faults \subseteq FaultKind
    /\ Admin \subseteq AdminKind
    /\ MaxFaults \in Nat
    /\ MaxEdits \in Nat

VARIABLES
    config,   \* config[r]: the declared block of r, or None
    state,    \* state[r]: what the state file records for r, or None
    pc,       \* pc[r]: how far r's handler is
    model,    \* model[r]: the handler's m once a call has filled it, or None
    wire,     \* wire[r]: r's request the firewall has not executed, or None
    reply,    \* reply[r]: the answer r's handler has not handled, or None
    late,     \* given-up requests the firewall may still execute
    store,    \* store[s]: the object configured in slot s, or None
    live,     \* live[s]: the object the services run with, or None
    issued,   \* uuids assigned so far
    faults, edits

provider == <<config, state, pc, model, wire, reply>>
device   == <<late, store, live, issued>>
vars     == <<provider, device, faults, edits>>

-----------------------------------------------------------------------------
(* Planning.                                                               *)

\* Every declared key is in the prior object with an equal value; a body
\* that does not parse matches nothing.
subsetMatches(prior, cfg) ==
    /\ cfg # Malformed
    /\ \A k \in Key : cfg[k] # None => cfg[k] = prior[k]

\* Mutant: no plan modifier, the declared body is always planned.
PlannedBodyUnsuppressed(prior, cfg) == cfg

\* The planned body: the prior object when the declared keys match it.
PlannedBody(prior, cfg) == IF subsetMatches(prior, cfg) THEN prior ELSE cfg

\* Mutant: the declared keys are sent together with the object last read.
UpdateBodyMerged(r) ==
    [k \in Key |-> IF config[r].body[k] = None THEN state[r].body[k] ELSE config[r].body[k]]

\* The body an update of r carries: the declared one, or the whole prior
\* object when only another attribute changed.
UpdateBody(r) == PlannedBody(state[r].body, config[r].body)

\* What the plan asks of r: requiresReplaceBool turns a change of singleton
\* into a delete followed by a create.
Creates(r) == state[r] = None /\ config[r] # None
Deletes(r) ==
    /\ state[r] # None
    /\ config[r] # None => config[r].singleton # (state[r].slot = Settings)
Updates(r) ==
    /\ state[r] # None
    /\ config[r] # None
    /\ ~Deletes(r)
    /\ <<UpdateBody(r), config[r].reconfigure>> # <<state[r].body, state[r].reconfigure>>
Settled(r) == ~Creates(r) /\ ~Deletes(r) /\ ~Updates(r)

\* Object obj after a write of body: undeclared fields keep their value.
Merge(obj, body) ==
    [k \in Key |-> IF body[k] = None THEN obj[k] ELSE ReadBack[k][body[k]]]

-----------------------------------------------------------------------------
(* Requests and the handlers' reading of the replies.                      *)

Call(op, slot, body) == [op |-> op, slot |-> slot, body |-> body]
Get(slot) == Call("get", slot, None)
Apply     == Call("apply", None, None)

\* POST r's request and wait for its reply.
Send(r, phase, req) ==
    /\ pc' = [pc EXCEPT ![r] = phase]
    /\ wire' = [wire EXCEPT ![r] = req]
    /\ reply' = [reply EXCEPT ![r] = None]

\* Client.do returned an error: a transport failure or a non-2xx status.
Failed(a) == a.kind \in {"error", "notFound"}

\* checkResult accepts a result that is absent, saved, deleted or ok.
Accepted(a) == a.kind \in {"ok", "empty"}

\* r's handler returns; new is the state it leaves, next r's phase.
Return(r, new, next) ==
    /\ state' = [state EXCEPT ![r] = new]
    /\ pc' = [pc EXCEPT ![r] = next]
    /\ model' = [model EXCEPT ![r] = None]
    /\ wire' = [wire EXCEPT ![r] = None]
    /\ reply' = [reply EXCEPT ![r] = None]

\* r's handler returns with a diagnostic: its state is what it was.
Fail(r) == Return(r, state[r], "idle")

\* After the write: POST the apply command if one is declared, otherwise
\* store the model.
Reconfigure(r, new, wanted, next) ==
    IF wanted
    THEN /\ Send(r, "reconfigure", Apply)
         /\ model' = [model EXCEPT ![r] = new]
         /\ UNCHANGED state
    ELSE Return(r, new, next)

AllIdle == \A r \in Resource : pc[r] = "idle"

-----------------------------------------------------------------------------
(* Runs: refresh, plan, apply.                                             *)

\* Read of every tracked resource begins.
StartRun ==
    /\ AllIdle
    /\ pc' = [r \in Resource |-> "refresh"]
    /\ wire' = [r \in Resource |-> IF state[r] = None THEN None ELSE Get(state[r].slot)]
    /\ UNCHANGED <<config, state, model, reply, device, faults, edits>>

\* Mutant: a missing item stays in the state.
ReadKeeps(m, a) == IF a.kind = "ok" THEN [m EXCEPT !.body = a.body] ELSE m

\* What Read makes of its reply: 404 and any body without the envelope remove
\* the resource, an object replaces the body.
Read(m, a) == IF a.kind = "ok" THEN [m EXCEPT !.body = a.body] ELSE None
ReadFails(a) == a.kind = "error"

Refreshed(r) == pc[r] = "refresh" /\ (state[r] = None \/ reply[r] # None)

\* All reads are in: the refreshed state is what the plan and the apply use.
FinishRefresh ==
    /\ \A r \in Resource : Refreshed(r)
    /\ \A r \in Resource : state[r] # None => ~ReadFails(reply[r])
    /\ state' = [r \in Resource |->
                    IF state[r] = None THEN None ELSE Read(state[r], reply[r])]
    /\ pc' = [r \in Resource |-> "planned"]
    /\ reply' = [r \in Resource |-> None]
    /\ UNCHANGED <<config, model, wire, device, faults, edits>>

\* A read failed: the run stops and the state file is not written.
AbortRefresh ==
    /\ \A r \in Resource : Refreshed(r)
    /\ \E r \in Resource : state[r] # None /\ ReadFails(reply[r])
    /\ pc' = [r \in Resource |-> "idle"]
    /\ reply' = [r \in Resource |-> None]
    /\ UNCHANGED <<config, state, model, wire, device, faults, edits>>

\* No difference: r's part of the run is over.
NoChange(r) ==
    /\ pc[r] = "planned"
    /\ Settled(r)
    /\ Fail(r)
    /\ UNCHANGED <<config, device, faults, edits>>

\* A body that is not JSON is refused before any call.
InvalidBody(r) ==
    /\ pc[r] = "planned"
    /\ Creates(r) \/ Updates(r)
    /\ config[r].body = Malformed
    /\ Fail(r)
    /\ UNCHANGED <<config, device, faults, edits>>

Create(r) ==
    /\ pc[r] = "planned"
    /\ Creates(r)
    /\ config[r].body # Malformed
    /\ Send(r, "create",
            IF config[r].singleton THEN Call("set", Settings, config[r].body)
                                   ELSE Call("add", None, config[r].body))
    /\ UNCHANGED <<config, state, model, device, faults, edits>>

\* Mutant: an accepted reply without a uuid is not an error.
CreateReturnsUnchecked(r) ==
    /\ pc[r] = "create"
    /\ reply[r] # None
    /\ LET slot == IF config[r].singleton THEN Settings ELSE reply[r].slot
           m    == [slot |-> slot, body |-> config[r].body,
                    reconfigure |-> config[r].reconfigure]
       IN  IF Accepted(reply[r]) THEN Reconfigure(r, m, m.reconfigure, "idle") ELSE Fail(r)
    /\ UNCHANGED <<config, device, faults, edits>>

\* Mutant: the uuid is kept where concurrent creates overwrite it.
CreateReturnsShared(r) ==
    /\ pc[r] = "create"
    /\ reply[r] # None
    /\ \E q \in Resource :
         /\ pc[q] = "create" /\ reply[q] # None
         /\ LET slot == IF config[r].singleton THEN Settings ELSE reply[q].slot
                m    == [slot |-> slot, body |-> config[r].body,
                         reconfigure |-> config[r].reconfigure]
            IN  IF Accepted(reply[r]) /\ slot # None
                THEN Reconfigure(r, m, m.reconfigure, "idle")
                ELSE Fail(r)
    /\ UNCHANGED <<config, device, faults, edits>>

\* The uuid comes from the reply to add; a reply without one is an error.
CreateReturns(r) ==
    /\ pc[r] = "create"
    /\ reply[r] # None
    /\ LET slot == IF config[r].singleton THEN Settings ELSE reply[r].slot
           m    == [slot |-> slot, body |-> config[r].body,
                    reconfigure |-> config[r].reconfigure]
       IN  IF Accepted(reply[r]) /\ slot # None
           THEN Reconfigure(r, m, m.reconfigure, "idle")
           ELSE Fail(r)
    /\ UNCHANGED <<config, device, faults, edits>>

Update(r) ==
    /\ pc[r] = "planned"
    /\ Updates(r)
    /\ config[r].body # Malformed
    /\ Send(r, "update", Call("set", state[r].slot, UpdateBody(r)))
    /\ UNCHANGED <<config, state, model, device, faults, edits>>

UpdateReturns(r) ==
    /\ pc[r] = "update"
    /\ reply[r] # None
    /\ LET m == [slot |-> state[r].slot, body |-> UpdateBody(r),
                 reconfigure |-> config[r].reconfigure]
       IN  IF Accepted(reply[r]) THEN Reconfigure(r, m, m.reconfigure, "idle")
                                 ELSE Fail(r)
    /\ UNCHANGED <<config, device, faults, edits>>

\* A replacement goes on to its create once the delete has succeeded.
AfterDelete(r) == IF config[r] = None THEN "idle" ELSE "planned"

\* A singleton is only dropped from the state.
Delete(r) ==
    /\ pc[r] = "planned"
    /\ Deletes(r)
    /\ IF state[r].slot = Settings
       THEN Return(r, None, AfterDelete(r))
       ELSE /\ Send(r, "delete", Call("del", state[r].slot, None))
            /\ UNCHANGED <<state, model>>
    /\ UNCHANGED <<config, device, faults, edits>>

\* Mutant: every failed call counts as an item already gone.
DeleteReturnsAlways(r) ==
    /\ pc[r] = "delete"
    /\ reply[r] # None
    /\ CASE Failed(reply[r]) -> Return(r, None, AfterDelete(r))
         [] Accepted(reply[r]) ->
              Reconfigure(r, None, state[r].reconfigure, AfterDelete(r))
         [] OTHER -> Fail(r)
    /\ UNCHANGED <<config, device, faults, edits>>

\* 404 means the item is already gone and skips the apply command.
DeleteReturns(r) ==
    /\ pc[r] = "delete"
    /\ reply[r] # None
    /\ CASE reply[r].kind = "notFound" -> Return(r, None, AfterDelete(r))
         [] Accepted(reply[r]) ->
              Reconfigure(r, None, state[r].reconfigure, AfterDelete(r))
         [] OTHER -> Fail(r)
    /\ UNCHANGED <<config, device, faults, edits>>

\* Mutant: the model is not stored once the apply command has returned.
ReconfigureReturnsForgetful(r) ==
    /\ pc[r] = "reconfigure"
    /\ reply[r] # None
    /\ IF Failed(reply[r]) \/ model[r] # None
       THEN Fail(r)
       ELSE Return(r, None, AfterDelete(r))
    /\ UNCHANGED <<config, device, faults, edits>>

\* Mutant: a failed apply command is not an error.
ReconfigureReturnsDeaf(r) ==
    /\ pc[r] = "reconfigure"
    /\ reply[r] # None
    /\ Return(r, model[r], IF model[r] = None THEN AfterDelete(r) ELSE "idle")
    /\ UNCHANGED <<config, device, faults, edits>>

\* Only an error of the call counts; the body of the reply is not looked at.
ReconfigureReturns(r) ==
    /\ pc[r] = "reconfigure"
    /\ reply[r] # None
    /\ IF Failed(reply[r])
       THEN Fail(r)
       ELSE Return(r, model[r], IF model[r] = None THEN AfterDelete(r) ELSE "idle")
    /\ UNCHANGED <<config, device, faults, edits>>

-----------------------------------------------------------------------------
(* The operator: configuration changes and imports between runs.           *)

\* At most one block declares the singleton.
ConfigChange(r, c) ==
    /\ AllIdle
    /\ edits < MaxEdits
    /\ c # config[r]
    /\ c # None /\ c.singleton =>
         \A q \in Resource \ {r} : config[q] # None => ~config[q].singleton
    /\ config' = [config EXCEPT ![r] = c]
    /\ edits' = edits + 1
    /\ UNCHANGED <<state, pc, model, wire, reply, device, faults>>

\* An import of a slot no other block tracks; hint tells whether the id
\* carries the reconfigure path.
Import(r, s, hint) ==
    /\ AllIdle
    /\ edits < MaxEdits
    /\ config[r] # None
    /\ state[r] = None
    /\ \A q \in Resource : state[q] # None => state[q].slot # s
    /\ model' = [model EXCEPT ![r] = [slot |-> s, body |-> [k \in Key |-> None],
                                      reconfigure |-> hint]]
    /\ Send(r, "import", Get(s))
    /\ edits' = edits + 1
    /\ UNCHANGED <<config, state, device, faults>>

\* The Read that follows ImportState fills the body; an import that finds
\* nothing fails and leaves no state.
ImportReturns(r) ==
    /\ pc[r] = "import"
    /\ reply[r] # None
    /\ IF ReadFails(reply[r]) THEN Fail(r)
                              ELSE Return(r, Read(model[r], reply[r]), "idle")
    /\ UNCHANGED <<config, device, faults, edits>>

-----------------------------------------------------------------------------
(* The firewall.                                                           *)

Answer(kind, slot, body) == [kind |-> kind, slot |-> slot, body |-> body]

\* An add takes a uuid never assigned before; once they run out, it is refused.
Executable(req) == req.op = "add" => Uuid # issued

\* The effect of executing req, u being the uuid of an added item.
Effect(req, u) ==
    CASE req.op = "add" /\ Executable(req) ->
           /\ store' = [store EXCEPT ![u] = Merge(Default, req.body)]
           /\ issued' = issued \union {u}
           /\ UNCHANGED live
      [] req.op = "set" /\ store[req.slot] # None ->
           /\ store' = [store EXCEPT ![req.slot] = Merge(store[req.slot], req.body)]
           /\ UNCHANGED <<live, issued>>
      [] req.op = "del" ->
           /\ store' = [store EXCEPT ![req.slot] = None]
           /\ UNCHANGED <<live, issued>>
      [] req.op = "apply" ->
           /\ live' = store
           /\ UNCHANGED <<store, issued>>
      [] OTHER -> UNCHANGED <<store, live, issued>>

\* How a command on a missing item is answered: with an empty object, a failed
\* result or a 404, depending on the controller.
MissingKinds(op) ==
    CASE op = "get" -> {"empty", "notFound"}
      [] op = "set" -> {"rejected"}
      [] op = "del" -> {"rejected", "notFound"}

\* The replies that tell the truth about req.
Answers(req, u) ==
    CASE req.op = "add" -> {IF Executable(req) THEN Answer("ok", u, None)
                                               ELSE Answer("rejected", None, None)}
      [] req.op = "apply" -> {Answer("ok", None, None)}
      [] req.op \in {"get", "set", "del"} ->
           IF store[req.slot] # None
           THEN {Answer("ok", req.slot, IF req.op = "get" THEN store[req.slot] ELSE None)}
           ELSE {Answer(kind, None, None) : kind \in MissingKinds(req.op)}

\* The uuids execution of req may choose from.
Choices(req) == IF req.op = "add" /\ Executable(req) THEN Uuid \ issued ELSE {None}

Respond(r, a) ==
    /\ wire' = [wire EXCEPT ![r] = None]
    /\ reply' = [reply EXCEPT ![r] = a]

Serve(r) ==
    /\ wire[r] # None
    /\ \E u \in Choices(wire[r]) :
         /\ Effect(wire[r], u)
         /\ \E a \in Answers(wire[r], u) : Respond(r, a)
    /\ UNCHANGED <<config, state, pc, model, late, faults, edits>>

Fault(kind) ==
    /\ kind \in Faults
    /\ faults < MaxFaults
    /\ faults' = faults + 1

\* The request is executed and its reply lost, cut short or without content.
Distortions(op) ==
    {<<"lost", "error">>, <<"garbled", "garbled">>}
        \union (IF op = "get" THEN {} ELSE {<<"void", "empty">>})

ServeUnheard(r) ==
    /\ wire[r] # None
    /\ \E distortion \in Distortions(wire[r].op) :
         /\ Fault(distortion[1])
         /\ Respond(r, Answer(distortion[2], None, None))
    /\ \E u \in Choices(wire[r]) : Effect(wire[r], u)
    /\ UNCHANGED <<config, state, pc, model, late, edits>>

\* The request is refused (an HTTP error or validation errors), the route to
\* it is missing, or the apply command fails and says so in a 200.
Refusals(op) ==
    {<<"refused", "error">>, <<"missing", "notFound">>}
        \union (IF op \in {"add", "set", "del"} THEN {<<"refused", "rejected">>} ELSE {})
        \union (IF op = "apply" THEN {<<"applyRejected", "rejected">>} ELSE {})

Refuse(r) ==
    /\ wire[r] # None
    /\ \E refusal \in Refusals(wire[r].op) :
         /\ Fault(refusal[1])
         /\ Respond(r, Answer(refusal[2], None, None))
    /\ UNCHANGED <<config, state, pc, model, device, edits>>

\* The client's timeout expires first; the firewall may execute it later.
Timeout(r) ==
    /\ wire[r] # None
    /\ wire[r].op # "get"
    /\ Fault("late")
    /\ Respond(r, Answer("error", None, None))
    /\ late' = late \union {wire[r]}
    /\ UNCHANGED <<config, state, pc, model, store, live, issued, edits>>

ServeLate(req) ==
    /\ \E u \in Choices(req) : Effect(req, u)
    /\ late' = late \ {req}
    /\ UNCHANGED <<provider, faults, edits>>

\* The run is killed: replies are never seen, requests on the wire may still
\* be executed.
Crash ==
    /\ Fault("crash")
    /\ \E sent \in SUBSET {r \in Resource : wire[r] # None /\ wire[r].op # "get"} :
         late' = late \union {wire[r] : r \in sent}
    /\ pc' = [r \in Resource |-> "idle"]
    /\ model' = [r \in Resource |-> None]
    /\ wire' = [r \in Resource |-> None]
    /\ reply' = [r \in Resource |-> None]
    /\ UNCHANGED <<config, state, store, live, issued, edits>>

\* An administrator saves a field, or deletes an item, in the web interface.
AdminEdit(s, k, v) ==
    /\ "edit" \in Admin
    /\ edits < MaxEdits
    /\ store[s] # None
    /\ store[s][k] # v
    /\ store' = [store EXCEPT ![s][k] = v]
    /\ edits' = edits + 1
    /\ UNCHANGED <<provider, late, live, issued, faults>>

AdminDelete(u) ==
    /\ "delete" \in Admin
    /\ edits < MaxEdits
    /\ store[u] # None
    /\ store' = [store EXCEPT ![u] = None]
    /\ edits' = edits + 1
    /\ UNCHANGED <<provider, late, live, issued, faults>>

-----------------------------------------------------------------------------
Init ==
    /\ config \in [Resource -> Configs \union {None}]
    /\ \A q, r \in Resource :
         (config[q] # None /\ config[r] # None /\ config[q].singleton /\ config[r].singleton)
            => q = r
    /\ state = [r \in Resource |-> None]
    /\ pc = [r \in Resource |-> "idle"]
    /\ model = [r \in Resource |-> None]
    /\ wire = [r \in Resource |-> None]
    /\ reply = [r \in Resource |-> None]
    /\ late = {}
    /\ store = [s \in Slot |-> IF s \in Preexisting \union {Settings} THEN Default ELSE None]
    /\ live = store
    /\ issued = Preexisting
    /\ faults = 0
    /\ edits = 0

Handler(r) ==
    \/ NoChange(r) \/ InvalidBody(r)
    \/ Create(r) \/ CreateReturns(r)
    \/ Update(r) \/ UpdateReturns(r)
    \/ Delete(r) \/ DeleteReturns(r)
    \/ ReconfigureReturns(r) \/ ImportReturns(r)

Operator(r) ==
    \/ \E c \in Configs \union {None} : ConfigChange(r, c)
    \/ \E s \in issued \union {Settings}, hint \in ImportHints : Import(r, s, hint)

Network(r) == ServeUnheard(r) \/ Refuse(r) \/ Timeout(r)

Administrator ==
    \/ \E s \in Slot, k \in Key, v \in Value : AdminEdit(s, k, v)
    \/ \E u \in Uuid : AdminDelete(u)

Next ==
    \/ StartRun \/ FinishRefresh \/ AbortRefresh
    \/ \E r \in Resource : Handler(r) \/ Operator(r) \/ Serve(r) \/ Network(r)
    \/ \E req \in late : ServeLate(req)
    \/ Crash
    \/ Administrator

Spec == Init /\ [][Next]_vars

\* A pipeline that keeps re-running the apply, handlers that go on when their
\* reply is there, and a firewall that executes or answers what it is sent.
Fairness ==
    /\ WF_vars(StartRun) /\ WF_vars(FinishRefresh) /\ WF_vars(AbortRefresh)
    /\ \A r \in Resource : WF_vars(Handler(r)) /\ WF_vars(Serve(r))

FairSpec == Spec /\ Fairness

-----------------------------------------------------------------------------
(* Properties.                                                             *)

\* Every variable has its type: what a handler keeps, what travels and what
\* the firewall stores are of the shapes declared above.
TypeOK ==
    /\ config \in [Resource -> Config \union {None}]
    /\ state \in [Resource -> Model \union {None}]
    /\ pc \in [Resource -> Phase]
    /\ model \in [Resource -> Model \union {None}]
    /\ wire \in [Resource -> Request \union {None}]
    /\ reply \in [Resource -> Reply \union {None}]
    /\ late \subseteq Request
    /\ store \in [Slot -> Object \union {None}]
    /\ live \in [Slot -> Object \union {None}]
    /\ issued \subseteq Uuid
    /\ faults \in 0..MaxFaults
    /\ edits \in 0..MaxEdits

\* The slots r's state file entry, model or create reply stands for.
Held(r) ==
    (IF state[r] = None THEN {} ELSE {state[r].slot})
        \union (IF model[r] = None THEN {} ELSE {model[r].slot})
        \union (IF pc[r] = "create" /\ reply[r] # None /\ reply[r].slot # None
                THEN {reply[r].slot} ELSE {})

\* Two resources never manage the same item: whatever the order of their
\* creates, replacements, imports, lost replies and crashes, an item one of
\* them has in its state or is about to store is nobody else's.
TrackedDistinct ==
    \A q, r \in Resource : q # r => Held(q) \intersect Held(r) \subseteq {Settings}

\* Items created on the firewall that no resource knows of.
Orphans ==
    {u \in issued \ Preexisting : store[u] # None /\ \A r \in Resource : u \notin Held(r)}

\* An item is left behind on the firewall only by a fault (a lost reply, a
\* failed apply after the add, a crash, an answer that hides the item), and
\* one fault leaves at most one item behind for each resource.
LeaksNeedFaults == Cardinality(Orphans) <= faults * Cardinality(Resource)

\* Read, Delete and the delete of a replacement let go of an item only when
\* it is no longer on the firewall ("the item no longer exists").
DropMeansGone ==
    [][\A r \in Resource :
          (state[r] # None /\ state[r].slot # Settings /\ state'[r] = None)
              => store'[state[r].slot] = None]_vars

\* Keys that no configuration of this instance declares.
Undeclared == {k \in Key : \A c \in Configs : c.body # Malformed => c.body[k] = None}

\* The provider never clobbers device fields nobody declared: on an existing
\* object such a field changes only by an administrator's hand, even when that
\* edit falls between the refresh and the write.
UndeclaredUntouched ==
    [][\A s \in Slot : \A k \in Undeclared :
          (store[s] # None /\ store'[s] # None /\ store'[s][k] # store[s][k])
              => edits' # edits]_vars

\* A Create or Update that reports success after its apply command leaves the
\* services running with what it configured.
SuccessMeansApplied ==
    [][\A r \in Resource :
          (pc[r] = "reconfigure" /\ model[r] # None /\ state'[r] = model[r])
              => live[model[r].slot] = store[model[r].slot]]_vars

\* Once faults and edits stop, every resource reaches its configuration: what
\* is declared is tracked and matches the object stored, what is not is not
\* tracked.
InPlace(r) ==
    IF config[r] = None
    THEN state[r] = None
    ELSE /\ state[r] # None
         /\ (state[r].slot = Settings) = config[r].singleton
         /\ store[state[r].slot] # None
         /\ subsetMatches(store[state[r].slot], config[r].body)
Converges == <>[](\A r \in Resource : InPlace(r))

\* Once faults and edits stop, runs become no-ops: from some point on no write
\* is sent to the firewall (0-diff).
Writing(r) == pc[r] \in {"create", "update", "delete", "reconfigure"}
EventuallyQuiet == <>[](\A r \in Resource : ~Writing(r))

\* The items and who has them in the state file, as ObjectLifecycle sees them;
\* the settings of a singleton are nobody's item.
ItemStatus(u) ==
    IF u \notin issued THEN "unused" ELSE IF store[u] # None THEN "present" ELSE "gone"
ItemOf(r) == IF state[r] = None \/ state[r].slot = Settings THEN None ELSE state[r].slot

Lifecycle == INSTANCE ObjectLifecycle WITH
    Item    <- Uuid,
    Nothing <- None,
    status  <- [u \in Uuid |-> ItemStatus(u)],
    owner   <- [r \in Resource |-> ItemOf(r)]

\* The resources implement the life cycle of items: items appear once, have one
\* owner, and are let go of when they are gone for good, never exchanged.
ImplementsLifecycle == Lifecycle!Spec
=============================================================================

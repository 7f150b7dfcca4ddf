------------------------ MODULE ObjectResourceProofs ------------------------
(***************************************************************************)
(* Theorems about ObjectResource for every number of resources, items,     *)
(* keys, values, faults and edits.                                         *)
(***************************************************************************)
EXTENDS ObjectResource, TLAPS

\* A request names the slot and carries the body its command needs.
RequestOK(req) ==
    /\ req.op \in {"get", "set", "del"} => req.slot \in Slot
    /\ req.op \in {"add", "set"} => req.body \in Body

\* What a handler's phase tells of its variables: nothing is under way outside
\* a handler, a write was planned from a valid block, each phase waits for the
\* answer to its own command.
PhaseOK(r) ==
    /\ pc[r] \in {"idle", "planned"} => wire[r] = None /\ reply[r] = None /\ model[r] = None
    /\ pc[r] \in {"create", "update"} => config[r] # None /\ config[r].body # Malformed
    /\ pc[r] = "update" => state[r] # None
    /\ pc[r] = "import" => model[r] # None
    /\ pc[r] = "refresh" => model[r] = None /\ (state[r] = None => wire[r] = None)
    /\ wire[r] # None => reply[r] = None
    /\ wire[r] # None => RequestOK(wire[r])
    /\ (wire[r] # None /\ pc[r] \in {"refresh", "import"}) => wire[r].op = "get"
    /\ (wire[r] # None /\ pc[r] = "create") =>
         wire[r].op = "add" \/ (wire[r].op = "set" /\ wire[r].slot = Settings)
    /\ (reply[r] # None /\ pc[r] \in {"refresh", "import"} /\ reply[r].kind = "ok") =>
         reply[r].body \in Object

TypeInv ==
    /\ TypeOK
    /\ \A req \in late : RequestOK(req)
    /\ \A r \in Resource : PhaseOK(r)

\* Whatever a resource holds was assigned by the firewall.
HeldIssued == \A r \in Resource : Held(r) \subseteq issued \union {Settings}

\* What makes TrackedDistinct inductive: a uuid that is about to be assigned is
\* held by nobody.
Ownership == HeldIssued /\ TrackedDistinct

-----------------------------------------------------------------------------
(* Operators.                                                              *)

\* A write leaves an object with a value in every field.
LEMMA MergeType ==
    ASSUME NEW obj \in Object, NEW body \in Body
    PROVE  Merge(obj, body) \in Object
<1>1. ASSUME NEW k \in Key
      PROVE  (IF body[k] = None THEN obj[k] ELSE ReadBack[k][body[k]]) \in Value
      BY <1>1, DataAssumption DEF Object, Body
<1>2. QED BY <1>1 DEF Merge, Object

\* The body of an update is the declared body or the object in the state.
LEMMA UpdateBodyType ==
    ASSUME NEW r \in Resource, state[r] \in Model, config[r] \in Config,
           config[r].body # Malformed
    PROVE  UpdateBody(r) \in Body
BY DEF UpdateBody, PlannedBody, Model, Config

\* Executing a request keeps the firewall's variables typed, and never takes a
\* uuid back.
LEMMA EffectType ==
    ASSUME store \in [Slot -> Object \union {None}],
           live \in [Slot -> Object \union {None}],
           issued \subseteq Uuid,
           NEW req \in Request, RequestOK(req),
           NEW u \in Choices(req), Effect(req, u)
    PROVE  /\ store' \in [Slot -> Object \union {None}]
           /\ live' \in [Slot -> Object \union {None}]
           /\ issued' \subseteq Uuid
           /\ issued \subseteq issued'
<1>1. CASE req.op = "add" /\ Executable(req)
  <2>1. u \in Uuid
        BY <1>1 DEF Choices
  <2>2. Merge(Default, req.body) \in Object
        BY <1>1, MergeType, DataAssumption DEF RequestOK
  <2>3. store' = [store EXCEPT ![u] = Merge(Default, req.body)]
        /\ issued' = issued \union {u} /\ live' = live
        BY <1>1 DEF Effect
  <2>4. QED BY <2>1, <2>2, <2>3 DEF Slot
<1>2. CASE req.op = "set" /\ store[req.slot] # None
  <2>1. req.slot \in Slot /\ store[req.slot] \in Object
        BY <1>2 DEF RequestOK
  <2>2. Merge(store[req.slot], req.body) \in Object
        BY <1>2, <2>1, MergeType DEF RequestOK
  <2>3. store' = [store EXCEPT ![req.slot] = Merge(store[req.slot], req.body)]
        /\ issued' = issued /\ live' = live
        BY <1>2 DEF Effect
  <2>4. QED BY <2>1, <2>2, <2>3
<1>3. CASE req.op = "del"
      BY <1>3 DEF Effect
<1>4. CASE req.op = "apply"
      BY <1>4 DEF Effect
<1>5. CASE ~(\/ req.op = "add" /\ Executable(req)
             \/ req.op = "set" /\ store[req.slot] # None
             \/ req.op = "del"
             \/ req.op = "apply")
      BY <1>5 DEF Effect
<1>6. QED BY <1>1, <1>2, <1>3, <1>4, <1>5

\* A truthful reply is a reply, and one to a get that says ok shows an object.
LEMMA AnswersType ==
    ASSUME store \in [Slot -> Object \union {None}],
           NEW req \in Request, RequestOK(req),
           NEW u \in Choices(req), NEW answer \in Answers(req, u)
    PROVE  /\ answer \in Reply
           /\ (req.op = "get" /\ answer.kind = "ok") => answer.body \in Object
<1>1. CASE req.op = "add"
  <2>1. u \in Uuid \/ ~Executable(req)
        BY <1>1 DEF Choices
  <2>2. QED BY <1>1, <2>1 DEF Answers, Answer, Reply, Slot
<1>2. CASE req.op = "apply"
      BY <1>2 DEF Answers, Answer, Reply
<1>3. CASE req.op \in {"get", "set", "del"}
  <2>1. req.slot \in Slot
        BY <1>3 DEF RequestOK
  <2>2. CASE store[req.slot] # None
        BY <1>3, <2>1, <2>2 DEF Answers, Answer, Reply
  <2>3. CASE store[req.slot] = None
        BY <1>3, <2>1, <2>3 DEF Answers, Answer, Reply, MissingKinds
  <2>4. QED BY <2>2, <2>3
<1>4. QED BY <1>1, <1>2, <1>3 DEF Request, Op

-----------------------------------------------------------------------------
(* How handlers end.                                                       *)

\* A handler that returns leaves well-typed variables and nothing under way.
LEMMA ReturnType ==
    ASSUME TypeInv, NEW r \in Resource, NEW new \in Model \union {None},
           NEW next \in {"idle", "planned"}, Return(r, new, next),
           UNCHANGED <<config, device, faults, edits>>
    PROVE  TypeInv'
<1>1. TypeOK'
      BY DEF TypeInv, TypeOK, Return, device, Phase
<1>2. ASSUME NEW q \in Resource PROVE PhaseOK(q)'
  <2>1. CASE q = r
        BY <2>1 DEF TypeInv, TypeOK, Return, PhaseOK
  <2>2. CASE q # r
        BY <2>2 DEF TypeInv, TypeOK, Return, PhaseOK, RequestOK
  <2>3. QED BY <2>1, <2>2
<1>3. \A req \in late' : RequestOK(req)'
      BY DEF TypeInv, device, RequestOK
<1>4. QED BY <1>1, <1>2, <1>3 DEF TypeInv

\* So does one that sends a request fit for the phase it enters.
LEMMA SendType ==
    ASSUME TypeInv, NEW r \in Resource, NEW phase \in Phase \ {"idle", "planned"},
           NEW req \in Request, RequestOK(req),
           phase = "import" => req.op = "get",
           phase = "create" => req.op = "add" \/ (req.op = "set" /\ req.slot = Settings),
           phase \in {"create", "update"} => config[r] # None /\ config[r].body # Malformed,
           phase = "update" => state[r] # None,
           NEW new \in Model \union {None},
           phase = "import" => new # None,
           phase # "refresh",
           Send(r, phase, req),
           model' = [model EXCEPT ![r] = new],
           edits' \in 0..MaxEdits,
           UNCHANGED <<config, state, device, faults>>
    PROVE  TypeInv'
<1>1. TypeOK'
      BY DEF TypeInv, TypeOK, Send, device
<1>2. ASSUME NEW q \in Resource PROVE PhaseOK(q)'
  <2>1. CASE q = r
        BY <2>1 DEF TypeInv, TypeOK, Send, PhaseOK, RequestOK
  <2>2. CASE q # r
        BY <2>2 DEF TypeInv, TypeOK, Send, PhaseOK, RequestOK
  <2>3. QED BY <2>1, <2>2
<1>3. \A q \in late' : RequestOK(q)'
      BY DEF TypeInv, device, RequestOK
<1>4. QED BY <1>1, <1>2, <1>3 DEF TypeInv

\* And one that applies its write, or stores the model at once.
LEMMA ReconfigureType ==
    ASSUME TypeInv, NEW r \in Resource, NEW new \in Model \union {None},
           NEW wanted, NEW next \in {"idle", "planned"},
           Reconfigure(r, new, wanted, next),
           UNCHANGED <<config, device, faults, edits>>
    PROVE  TypeInv'
<1>1. CASE wanted
  <2>1. Apply \in Request /\ RequestOK(Apply)
        BY DEF Apply, Call, Request, Op, RequestOK
  <2>2. /\ Send(r, "reconfigure", Apply)
        /\ model' = [model EXCEPT ![r] = new]
        /\ UNCHANGED state
        BY <1>1 DEF Reconfigure
  <2>3. edits' \in 0..MaxEdits
        BY DEF TypeInv, TypeOK
  <2>4. QED BY <2>1, <2>2, <2>3, SendType DEF Phase
<1>2. CASE ~wanted
      BY <1>2, ReturnType DEF Reconfigure
<1>3. QED BY <1>1, <1>2

\* A refused or read-only step: only r's own end of the run is recorded.
LEMMA FailType ==
    ASSUME TypeInv, NEW r \in Resource, Fail(r),
           UNCHANGED <<config, device, faults, edits>>
    PROVE  TypeInv'
BY ReturnType DEF Fail, TypeInv, TypeOK

-----------------------------------------------------------------------------
(* Type correctness.                                                       *)

\* The handlers of one resource.
LEMMA HandlerType ==
    ASSUME TypeInv, NEW r \in Resource, Handler(r)
    PROVE  TypeInv'
<1> USE DEF TypeInv, TypeOK
<1>1. CASE NoChange(r) \/ InvalidBody(r)
      BY <1>1, FailType DEF NoChange, InvalidBody
<1>2. CASE Create(r)
  <2> DEFINE req == IF config[r].singleton THEN Call("set", Settings, config[r].body)
                                          ELSE Call("add", None, config[r].body)
  <2>1. config[r] \in Config /\ config[r].body \in Body
        BY <1>2 DEF Create, Creates, Config
  <2>2. req \in Request /\ RequestOK(req)
        BY <2>1 DEF Call, Request, Op, RequestOK, Slot
  <2>3. req.op = "add" \/ (req.op = "set" /\ req.slot = Settings)
        BY DEF Call
  <2>4. Send(r, "create", req) /\ UNCHANGED <<config, state, model, device, faults, edits>>
        /\ config[r] # None /\ config[r].body # Malformed
        BY <1>2 DEF Create, Creates
  <2>5. model' = [model EXCEPT ![r] = model[r]] /\ model[r] \in Model \union {None}
        BY <2>4
  <2> HIDE DEF req
  <2>6. QED BY <2>2, <2>3, <2>4, <2>5, SendType DEF Phase
<1>3. CASE CreateReturns(r)
  <2> DEFINE slot == IF config[r].singleton THEN Settings ELSE reply[r].slot
             m == [slot |-> slot, body |-> config[r].body,
                   reconfigure |-> config[r].reconfigure]
  <2>1. config[r] \in Config /\ config[r].body \in Body /\ reply[r] \in Reply
        BY <1>3 DEF CreateReturns, PhaseOK, Config
  <2>2. CASE Accepted(reply[r]) /\ slot # None
    <3>1. m \in Model
          BY <2>1, <2>2 DEF Model, Config, Reply, Slot
    <3>2. Reconfigure(r, m, m.reconfigure, "idle")
          BY <1>3, <2>2 DEF CreateReturns
    <3> HIDE DEF m
    <3>3. QED BY <1>3, <3>1, <3>2, ReconfigureType DEF CreateReturns
  <2>3. CASE ~(Accepted(reply[r]) /\ slot # None)
        BY <1>3, <2>3, FailType DEF CreateReturns
  <2>4. QED BY <2>2, <2>3
<1>4. CASE Update(r)
  <2> DEFINE req == Call("set", state[r].slot, UpdateBody(r))
  <2>1. /\ config[r] # None /\ config[r] \in Config /\ config[r].body # Malformed
        /\ state[r] # None /\ state[r] \in Model
        BY <1>4 DEF Update, Updates
  <2>2. UpdateBody(r) \in Body
        BY <2>1, UpdateBodyType
  <2>3. req \in Request /\ RequestOK(req)
        BY <2>1, <2>2 DEF Call, Request, Op, RequestOK, Model
  <2>4. Send(r, "update", req) /\ UNCHANGED <<config, state, model, device, faults, edits>>
        BY <1>4 DEF Update
  <2>5. model' = [model EXCEPT ![r] = model[r]] /\ model[r] \in Model \union {None}
        BY <2>4
  <2> HIDE DEF req
  <2>6. QED BY <2>1, <2>3, <2>4, <2>5, SendType DEF Phase
<1>5. CASE UpdateReturns(r)
  <2> DEFINE m == [slot |-> state[r].slot, body |-> UpdateBody(r),
                   reconfigure |-> config[r].reconfigure]
  <2>1. /\ config[r] # None /\ config[r] \in Config /\ config[r].body # Malformed
        /\ state[r] # None /\ state[r] \in Model
        BY <1>5 DEF UpdateReturns, PhaseOK
  <2>2. m \in Model
        BY <2>1, UpdateBodyType DEF Model, Config
  <2>3. CASE Accepted(reply[r])
    <3>1. Reconfigure(r, m, m.reconfigure, "idle")
          BY <1>5, <2>3 DEF UpdateReturns
    <3> HIDE DEF m
    <3>2. QED BY <1>5, <2>2, <3>1, ReconfigureType DEF UpdateReturns
  <2>4. CASE ~Accepted(reply[r])
        BY <1>5, <2>4, FailType DEF UpdateReturns
  <2>5. QED BY <2>3, <2>4
<1>6. CASE Delete(r)
  <2>1. state[r] # None /\ state[r] \in Model
        BY <1>6 DEF Delete, Deletes
  <2>2. CASE state[r].slot = Settings
        BY <1>6, <2>2, ReturnType DEF Delete, AfterDelete
  <2>3. CASE state[r].slot # Settings
    <3> DEFINE req == Call("del", state[r].slot, None)
    <3>1. req \in Request /\ RequestOK(req) /\ req.op = "del"
          BY <2>1 DEF Call, Request, Op, RequestOK, Model
    <3>2. Send(r, "delete", req) /\ UNCHANGED <<config, state, model, device, faults, edits>>
          BY <1>6, <2>3 DEF Delete
    <3>3. model' = [model EXCEPT ![r] = model[r]] /\ model[r] \in Model \union {None}
          BY <3>2
    <3> HIDE DEF req
    <3>4. QED BY <3>1, <3>2, <3>3, SendType DEF Phase
  <2>4. QED BY <2>2, <2>3
<1>7. CASE DeleteReturns(r)
  <2>1. UNCHANGED <<config, device, faults, edits>> /\ AfterDelete(r) \in {"idle", "planned"}
        BY <1>7 DEF DeleteReturns, AfterDelete
  <2>2. CASE reply[r].kind = "notFound"
        BY <1>7, <2>1, <2>2, ReturnType DEF DeleteReturns, Accepted
  <2>3. CASE Accepted(reply[r])
        BY <1>7, <2>1, <2>3, ReconfigureType DEF DeleteReturns, Accepted
  <2>4. CASE reply[r].kind # "notFound" /\ ~Accepted(reply[r])
        BY <1>7, <2>1, <2>4, FailType DEF DeleteReturns
  <2>5. QED BY <2>2, <2>3, <2>4
<1>8. CASE ReconfigureReturns(r)
  <2>1. CASE Failed(reply[r])
        BY <1>8, <2>1, FailType DEF ReconfigureReturns
  <2>2. CASE ~Failed(reply[r])
        BY <1>8, <2>2, ReturnType DEF ReconfigureReturns, AfterDelete
  <2>3. QED BY <2>1, <2>2
<1>9. CASE ImportReturns(r)
  <2>1. CASE ReadFails(reply[r])
        BY <1>9, <2>1, FailType DEF ImportReturns
  <2>2. CASE ~ReadFails(reply[r])
    <3>1. reply[r] \in Reply /\ model[r] \in Model
          BY <1>9 DEF ImportReturns, PhaseOK
    <3>2. reply[r].kind = "ok" => reply[r].body \in Object
          BY <1>9 DEF ImportReturns, PhaseOK
    <3>3. Read(model[r], reply[r]) \in Model \union {None}
          BY <3>1, <3>2 DEF Read, Model, Object, Body
    <3>4. QED BY <1>9, <2>2, <3>3, ReturnType DEF ImportReturns
  <2>3. QED BY <2>1, <2>2
<1>10. QED BY <1>1, <1>2, <1>3, <1>4, <1>5, <1>6, <1>7, <1>8, <1>9 DEF Handler

\* The steps of a run that concern all resources at once.
LEMMA RunType ==
    ASSUME TypeInv, StartRun \/ FinishRefresh \/ AbortRefresh
    PROVE  TypeInv'
<1> USE DEF TypeInv, TypeOK
<1>1. CASE StartRun
  <2>1. ASSUME NEW r \in Resource, state[r] # None
        PROVE  Get(state[r].slot) \in Request /\ RequestOK(Get(state[r].slot))
               /\ Get(state[r].slot).op = "get"
        BY <2>1 DEF Get, Call, Request, Op, RequestOK, Model
  <2>2. TypeOK'
        BY <1>1, <2>1 DEF StartRun, Phase, device
  <2>3. ASSUME NEW r \in Resource PROVE PhaseOK(r)'
        BY <1>1, <2>1, <2>3 DEF StartRun, PhaseOK, RequestOK, AllIdle
  <2>4. \A req \in late' : RequestOK(req)'
        BY <1>1 DEF StartRun, device, RequestOK
  <2>5. QED BY <2>2, <2>3, <2>4
<1>2. CASE FinishRefresh
  <2>1. ASSUME NEW r \in Resource, state[r] # None
        PROVE  Read(state[r], reply[r]) \in Model \union {None}
    <3>1. reply[r] \in Reply /\ state[r] \in Model
          BY <1>2, <2>1 DEF FinishRefresh, Refreshed
    <3>2. reply[r].kind = "ok" => reply[r].body \in Object
          BY <1>2, <2>1 DEF FinishRefresh, Refreshed, PhaseOK
    <3>3. QED BY <3>1, <3>2 DEF Read, Model, Object, Body
  <2>2. TypeOK'
        BY <1>2, <2>1 DEF FinishRefresh, Phase, device
  <2>3. ASSUME NEW r \in Resource PROVE PhaseOK(r)'
    <3>1. wire[r] = None /\ model[r] = None
          BY <1>2, <2>3 DEF FinishRefresh, Refreshed, PhaseOK
    <3>2. QED BY <1>2, <2>3, <3>1 DEF FinishRefresh, PhaseOK
  <2>4. \A req \in late' : RequestOK(req)'
        BY <1>2 DEF FinishRefresh, device, RequestOK
  <2>5. QED BY <2>2, <2>3, <2>4
<1>3. CASE AbortRefresh
  <2>1. TypeOK'
        BY <1>3 DEF AbortRefresh, Phase, device
  <2>2. ASSUME NEW r \in Resource PROVE PhaseOK(r)'
    <3>1. wire[r] = None /\ model[r] = None
          BY <1>3, <2>2 DEF AbortRefresh, Refreshed, PhaseOK
    <3>2. QED BY <1>3, <2>2, <3>1 DEF AbortRefresh, PhaseOK
  <2>3. \A req \in late' : RequestOK(req)'
        BY <1>3 DEF AbortRefresh, device, RequestOK
  <2>4. QED BY <2>1, <2>2, <2>3
<1>4. QED BY <1>1, <1>2, <1>3

\* The operator's steps between runs.
LEMMA OperatorType ==
    ASSUME TypeInv, NEW r \in Resource, Operator(r)
    PROVE  TypeInv'
<1> USE DEF TypeInv, TypeOK
<1>1. ASSUME NEW c \in Configs \union {None}, ConfigChange(r, c)
      PROVE  TypeInv'
  <2>1. c \in Config \union {None}
        BY DataAssumption
  <2>2. TypeOK'
        BY <1>1, <2>1, BoundAssumption DEF ConfigChange, device
  <2>3. ASSUME NEW q \in Resource PROVE PhaseOK(q)'
        BY <1>1, <2>3 DEF ConfigChange, AllIdle, PhaseOK, RequestOK
  <2>4. \A req \in late' : RequestOK(req)'
        BY <1>1 DEF ConfigChange, device, RequestOK
  <2>5. QED BY <2>2, <2>3, <2>4
<1>2. ASSUME NEW s \in issued \union {Settings}, NEW hint \in ImportHints, Import(r, s, hint)
      PROVE  TypeInv'
  <2> DEFINE new == [slot |-> s, body |-> [k \in Key |-> None], reconfigure |-> hint]
  <2>1. new \in Model /\ new # None
        BY DataAssumption, NoneAssumption DEF Model, Slot, Body
  <2>2. Get(s) \in Request /\ RequestOK(Get(s)) /\ Get(s).op = "get"
        BY DEF Get, Call, Request, Op, RequestOK, Slot
  <2>3. /\ Send(r, "import", Get(s))
        /\ model' = [model EXCEPT ![r] = new]
        /\ UNCHANGED <<config, state, device, faults>>
        /\ edits' \in 0..MaxEdits
        BY <1>2, BoundAssumption DEF Import
  <2> HIDE DEF new
  <2>4. QED BY <2>1, <2>2, <2>3, SendType DEF Phase
<1>3. QED BY <1>1, <1>2 DEF Operator

\* A reply of the right shape keeps the invariant, whatever it did to the
\* firewall.
LEMMA RespondType ==
    ASSUME TypeInv, NEW r \in Resource, wire[r] # None,
           NEW a \in Reply, Respond(r, a),
           (wire[r].op = "get" /\ a.kind = "ok") => a.body \in Object,
           store' \in [Slot -> Object \union {None}],
           live' \in [Slot -> Object \union {None}],
           issued' \subseteq Uuid,
           late' \subseteq Request, \A req \in late' : RequestOK(req),
           faults' \in 0..MaxFaults,
           UNCHANGED <<config, state, pc, model, edits>>
    PROVE  TypeInv'
<1> USE DEF TypeInv, TypeOK
<1>1. TypeOK'
      BY DEF Respond
<1>2. ASSUME NEW q \in Resource PROVE PhaseOK(q)'
      BY <1>2 DEF Respond, PhaseOK, RequestOK
<1>3. \A req \in late' : RequestOK(req)'
      BY DEF RequestOK
<1>4. QED BY <1>1, <1>2, <1>3

\* The firewall and the network.
LEMMA FirewallType ==
    ASSUME TypeInv, NEW r \in Resource, Serve(r) \/ Network(r)
    PROVE  TypeInv'
<1> USE DEF TypeInv, TypeOK
<1>1. wire[r] # None /\ wire[r] \in Request /\ RequestOK(wire[r])
      BY DEF Serve, Network, ServeUnheard, Refuse, Timeout, PhaseOK
<1>2. ASSUME NEW kind, Fault(kind) PROVE faults' \in 0..MaxFaults
      BY <1>2, BoundAssumption DEF Fault
<1>3. \A kind \in {"error", "garbled", "empty", "notFound", "rejected"} :
         Answer(kind, None, None) \in Reply /\ Answer(kind, None, None).kind # "ok"
      BY DEF Answer, Reply
<1>4. CASE Serve(r)
  <2>1. PICK u \in Choices(wire[r]) :
          /\ Effect(wire[r], u)
          /\ \E a \in Answers(wire[r], u) : Respond(r, a)
        BY <1>4 DEF Serve
  <2>2. PICK a \in Answers(wire[r], u) : Respond(r, a)
        BY <2>1
  <2>3. a \in Reply /\ ((wire[r].op = "get" /\ a.kind = "ok") => a.body \in Object)
        BY <1>1, AnswersType
  <2>4. /\ store' \in [Slot -> Object \union {None}]
        /\ live' \in [Slot -> Object \union {None}]
        /\ issued' \subseteq Uuid
        BY <1>1, <2>1, EffectType
  <2>5. UNCHANGED <<config, state, pc, model, late, faults, edits>>
        BY <1>4 DEF Serve
  <2>6. QED BY <1>1, <2>2, <2>3, <2>4, <2>5, RespondType
<1>5. CASE ServeUnheard(r)
  <2>1. PICK distortion \in Distortions(wire[r].op) :
          Fault(distortion[1]) /\ Respond(r, Answer(distortion[2], None, None))
        BY <1>5 DEF ServeUnheard
  <2>2. distortion[2] \in {"error", "garbled", "empty"}
        BY <2>1 DEF Distortions
  <2>3. PICK u \in Choices(wire[r]) : Effect(wire[r], u)
        BY <1>5 DEF ServeUnheard
  <2>4. /\ store' \in [Slot -> Object \union {None}]
        /\ live' \in [Slot -> Object \union {None}]
        /\ issued' \subseteq Uuid
        BY <1>1, <2>3, EffectType
  <2>5. UNCHANGED <<config, state, pc, model, late, edits>>
        BY <1>5 DEF ServeUnheard
  <2>6. faults' \in 0..MaxFaults
        BY <1>2, <2>1
  <2>7. /\ Answer(distortion[2], None, None) \in Reply
        /\ Answer(distortion[2], None, None).kind # "ok"
        BY <1>3, <2>2
  <2>8. QED BY <1>1, <2>1, <2>4, <2>5, <2>6, <2>7, RespondType
<1>6. CASE Refuse(r)
  <2>1. PICK refusal \in Refusals(wire[r].op) :
          Fault(refusal[1]) /\ Respond(r, Answer(refusal[2], None, None))
        BY <1>6 DEF Refuse
  <2>2. refusal[2] \in {"error", "notFound", "rejected"}
        BY <2>1 DEF Refusals
  <2>3. UNCHANGED <<config, state, pc, model, device, edits>>
        BY <1>6 DEF Refuse
  <2>4. faults' \in 0..MaxFaults
        BY <1>2, <2>1
  <2>5. /\ Answer(refusal[2], None, None) \in Reply
        /\ Answer(refusal[2], None, None).kind # "ok"
        BY <1>3, <2>2
  <2>6. QED BY <1>1, <2>1, <2>3, <2>4, <2>5, RespondType DEF device
<1>7. CASE Timeout(r)
  <2>1. /\ Respond(r, Answer("error", None, None))
        /\ late' = late \union {wire[r]}
        /\ UNCHANGED <<config, state, pc, model, store, live, issued, edits>>
        /\ faults' \in 0..MaxFaults
        BY <1>2, <1>7 DEF Timeout
  <2>2. QED BY <1>1, <1>3, <2>1, RespondType
<1>8. QED BY <1>4, <1>5, <1>6, <1>7 DEF Network

\* Late requests, crashes and the administrator.
LEMMA EnvironmentType ==
    ASSUME TypeInv, (\E req \in late : ServeLate(req)) \/ Crash \/ Administrator
    PROVE  TypeInv'
<1> USE DEF TypeInv, TypeOK
<1>1. ASSUME NEW req \in late, ServeLate(req) PROVE TypeInv'
  <2>1. PICK u \in Choices(req) : Effect(req, u)
        BY <1>1 DEF ServeLate
  <2>2. /\ store' \in [Slot -> Object \union {None}]
        /\ live' \in [Slot -> Object \union {None}]
        /\ issued' \subseteq Uuid
        BY <2>1, EffectType
  <2>3. TypeOK'
        BY <1>1, <2>2 DEF ServeLate, provider
  <2>4. ASSUME NEW q \in Resource PROVE PhaseOK(q)'
        BY <1>1, <2>4 DEF ServeLate, provider, PhaseOK, RequestOK
  <2>5. \A q \in late' : RequestOK(q)'
        BY <1>1 DEF ServeLate, RequestOK
  <2>6. QED BY <2>3, <2>4, <2>5
<1>2. CASE Crash
  <2>1. PICK sent \in SUBSET {r \in Resource : wire[r] # None /\ wire[r].op # "get"} :
          late' = late \union {wire[r] : r \in sent}
        BY <1>2 DEF Crash
  <2>2. \A r \in sent : wire[r] \in Request /\ RequestOK(wire[r])
        BY <2>1 DEF PhaseOK
  <2>3. TypeOK'
        BY <1>2, <2>1, <2>2, BoundAssumption DEF Crash, Fault, Phase
  <2>4. ASSUME NEW q \in Resource PROVE PhaseOK(q)'
        BY <1>2, <2>4 DEF Crash, PhaseOK, RequestOK
  <2>5. \A q \in late' : RequestOK(q)'
        BY <2>1, <2>2 DEF RequestOK
  <2>6. QED BY <2>3, <2>4, <2>5
<1>3. CASE Administrator
  <2>1. UNCHANGED <<provider, late, live, issued, faults>> /\ edits' \in 0..MaxEdits
        BY <1>3, BoundAssumption DEF Administrator, AdminEdit, AdminDelete
  <2>2. store' \in [Slot -> Object \union {None}]
    <3>1. ASSUME NEW s \in Slot, NEW k \in Key, NEW v \in Value, AdminEdit(s, k, v)
          PROVE  store' \in [Slot -> Object \union {None}]
      <4>1. store[s] \in Object
            BY <3>1 DEF AdminEdit
      <4>2. [store[s] EXCEPT ![k] = v] \in Object
            BY <4>1, <3>1 DEF Object
      <4>3. store' = [store EXCEPT ![s] = [store[s] EXCEPT ![k] = v]]
            BY <3>1 DEF AdminEdit
      <4>4. QED BY <4>2, <4>3
    <3>2. ASSUME NEW u \in Uuid, AdminDelete(u)
          PROVE  store' \in [Slot -> Object \union {None}]
          BY <3>2 DEF AdminDelete
    <3>3. QED BY <1>3, <3>1, <3>2 DEF Administrator
  <2>3. TypeOK'
        BY <2>1, <2>2 DEF provider
  <2>4. ASSUME NEW q \in Resource PROVE PhaseOK(q)'
        BY <2>1, <2>4 DEF provider, PhaseOK, RequestOK
  <2>5. \A q \in late' : RequestOK(q)'
        BY <2>1 DEF RequestOK
  <2>6. QED BY <2>3, <2>4, <2>5
<1>4. QED BY <1>1, <1>2, <1>3

\* The inductive form: types, and what each phase tells of its variables.
LEMMA TypeInit ==
    ASSUME Init
    PROVE  TypeInv
<1>1. TypeOK
      BY DataAssumption, BoundAssumption DEF Init, TypeOK, Phase, Slot
<1>2. QED BY <1>1 DEF Init, TypeInv, PhaseOK

LEMMA TypeStep ==
    ASSUME TypeInv, [Next]_vars
    PROVE  TypeInv'
<1>1. CASE UNCHANGED vars
      BY <1>1 DEF vars, provider, device, TypeInv, TypeOK, PhaseOK, RequestOK
<1>2. CASE Next
      BY <1>2, RunType, HandlerType, OperatorType, FirewallType, EnvironmentType DEF Next
<1>3. QED BY <1>1, <1>2

LEMMA TypeInvariant == Spec => []TypeInv
BY TypeInit, TypeStep, PTL DEF Spec

\* Every variable of the object resource, of the requests and replies that
\* travel and of the firewall keeps its type in every behaviour.
THEOREM TypeCorrect == Spec => []TypeOK
<1>1. TypeInv => TypeOK
      BY DEF TypeInv
<1>2. QED BY <1>1, TypeInvariant, PTL

-----------------------------------------------------------------------------
(* No item has two owners.                                                 *)

\* A step after which nobody holds an item it did not hold keeps ownership.
LEMMA OwnershipKept ==
    ASSUME Ownership, issued \subseteq issued',
           \A r \in Resource : Held(r)' \subseteq Held(r) \union {Settings}
    PROVE  Ownership'
<1>1. HeldIssued'
      BY DEF Ownership, HeldIssued
<1>2. TrackedDistinct'
  <2> SUFFICES ASSUME NEW q \in Resource, NEW r \in Resource, q # r
               PROVE  Held(q)' \intersect Held(r)' \subseteq {Settings}
      BY DEF TrackedDistinct
  <2>1. Held(q) \intersect Held(r) \subseteq {Settings}
        BY DEF Ownership, TrackedDistinct
  <2>2. QED BY <2>1
<1>3. QED BY <1>1, <1>2 DEF Ownership

\* A step that gives one resource a slot nobody else holds keeps it too.
LEMMA OwnershipGained ==
    ASSUME Ownership, issued \subseteq issued',
           NEW r \in Resource, NEW s \in issued' \union {Settings},
           \A q \in Resource \ {r} : Held(q)' \subseteq Held(q) /\ (s = Settings \/ s \notin Held(q)),
           Held(r)' \subseteq Held(r) \union {s}
    PROVE  Ownership'
<1>1. HeldIssued'
      BY DEF Ownership, HeldIssued
<1>2. TrackedDistinct'
  <2> SUFFICES ASSUME NEW p \in Resource, NEW q \in Resource, p # q
               PROVE  Held(p)' \intersect Held(q)' \subseteq {Settings}
      BY DEF TrackedDistinct
  <2>1. Held(p) \intersect Held(q) \subseteq {Settings}
        BY DEF Ownership, TrackedDistinct
  <2>2. CASE p = r
        BY <2>1, <2>2
  <2>3. CASE q = r
        BY <2>1, <2>3
  <2>4. CASE p # r /\ q # r
        BY <2>1, <2>4
  <2>5. QED BY <2>2, <2>3, <2>4
<1>3. QED BY <1>1, <1>2 DEF Ownership

\* A handler that returns, or goes on to its apply command, with a slot it held
\* or none.
LEMMA ReturnOwnership ==
    ASSUME Ownership, TypeInv, NEW r \in Resource, NEW new, NEW next \in {"idle", "planned"},
           new = None \/ new.slot \in Held(r) \union {Settings},
           NEW wanted, Reconfigure(r, new, wanted, next),
           UNCHANGED issued
    PROVE  Ownership'
<1>1. \A q \in Resource : Held(q)' \subseteq Held(q) \union {Settings}
  <2> SUFFICES ASSUME NEW q \in Resource PROVE Held(q)' \subseteq Held(q) \union {Settings}
      OBVIOUS
  <2>1. CASE wanted
        BY <2>1 DEF Reconfigure, Send, Held, TypeInv, TypeOK
  <2>2. CASE ~wanted
        BY <2>2 DEF Reconfigure, Return, Held, TypeInv, TypeOK
  <2>3. QED BY <2>1, <2>2
<1>2. QED BY <1>1, OwnershipKept

\* A handler that fails keeps what it had in its state.
LEMMA FailOwnership ==
    ASSUME Ownership, TypeInv, NEW r \in Resource, Fail(r), UNCHANGED issued
    PROVE  Ownership'
<1>1. \A q \in Resource : Held(q)' \subseteq Held(q) \union {Settings}
      BY DEF Fail, Return, Held, TypeInv, TypeOK
<1>2. QED BY <1>1, OwnershipKept

\* A handler that sends a write holds what it held.
LEMMA SendOwnership ==
    ASSUME Ownership, TypeInv, NEW r \in Resource, NEW phase, NEW req, Send(r, phase, req),
           UNCHANGED <<state, model, issued>>
    PROVE  Ownership'
<1>1. \A q \in Resource : Held(q)' \subseteq Held(q) \union {Settings}
      BY DEF Send, Held, TypeInv, TypeOK
<1>2. QED BY <1>1, OwnershipKept

LEMMA HandlerOwnership ==
    ASSUME Ownership, TypeInv, NEW r \in Resource, Handler(r)
    PROVE  Ownership'
<1>0. UNCHANGED issued
      BY DEF Handler, device, NoChange, InvalidBody, Create, CreateReturns, Update,
             UpdateReturns, Delete, DeleteReturns, ReconfigureReturns, ImportReturns
<1>1. CASE NoChange(r) \/ InvalidBody(r)
      BY <1>0, <1>1, FailOwnership DEF NoChange, InvalidBody
<1>2. CASE Create(r) \/ Update(r)
      BY <1>0, <1>2, SendOwnership DEF Create, Update
<1>3. CASE CreateReturns(r)
  <2> DEFINE slot == IF config[r].singleton THEN Settings ELSE reply[r].slot
             m == [slot |-> slot, body |-> config[r].body,
                   reconfigure |-> config[r].reconfigure]
  <2>1. CASE Accepted(reply[r]) /\ slot # None
    <3>1. m.slot \in Held(r) \union {Settings}
          BY <1>3, <2>1 DEF CreateReturns, Held
    <3>2. Reconfigure(r, m, m.reconfigure, "idle")
          BY <1>3, <2>1 DEF CreateReturns
    <3> HIDE DEF m
    <3>3. QED BY <1>0, <3>1, <3>2, ReturnOwnership
  <2>2. CASE ~(Accepted(reply[r]) /\ slot # None)
        BY <1>0, <1>3, <2>2, FailOwnership DEF CreateReturns
  <2>3. QED BY <2>1, <2>2
<1>4. CASE UpdateReturns(r)
  <2> DEFINE m == [slot |-> state[r].slot, body |-> UpdateBody(r),
                   reconfigure |-> config[r].reconfigure]
  <2>1. CASE Accepted(reply[r])
    <3>1. m.slot \in Held(r)
          BY <1>4 DEF UpdateReturns, TypeInv, PhaseOK, Held
    <3>2. Reconfigure(r, m, m.reconfigure, "idle")
          BY <1>4, <2>1 DEF UpdateReturns
    <3> HIDE DEF m
    <3>3. QED BY <1>0, <3>1, <3>2, ReturnOwnership
  <2>2. CASE ~Accepted(reply[r])
        BY <1>0, <1>4, <2>2, FailOwnership DEF UpdateReturns
  <2>3. QED BY <2>1, <2>2
<1>5. CASE Delete(r)
  <2>1. CASE state[r].slot = Settings
        BY <1>0, <1>5, <2>1, ReturnOwnership DEF Delete, Reconfigure, AfterDelete
  <2>2. CASE state[r].slot # Settings
        BY <1>0, <1>5, <2>2, SendOwnership DEF Delete
  <2>3. QED BY <2>1, <2>2
<1>6. CASE DeleteReturns(r)
  <2>1. AfterDelete(r) \in {"idle", "planned"}
        BY DEF AfterDelete
  <2>2. CASE reply[r].kind = "notFound"
        BY <1>0, <1>6, <2>1, <2>2, ReturnOwnership DEF DeleteReturns, Accepted, Reconfigure
  <2>3. CASE Accepted(reply[r])
        BY <1>0, <1>6, <2>1, <2>3, ReturnOwnership DEF DeleteReturns, Accepted
  <2>4. CASE reply[r].kind # "notFound" /\ ~Accepted(reply[r])
        BY <1>0, <1>6, <2>4, FailOwnership DEF DeleteReturns
  <2>5. QED BY <2>2, <2>3, <2>4
<1>7. CASE ReconfigureReturns(r)
  <2>1. CASE Failed(reply[r])
        BY <1>0, <1>7, <2>1, FailOwnership DEF ReconfigureReturns
  <2>2. CASE ~Failed(reply[r])
    <3> DEFINE next == IF model[r] = None THEN AfterDelete(r) ELSE "idle"
    <3>1. next \in {"idle", "planned"} /\ Return(r, model[r], next)
          BY <1>7, <2>2 DEF ReconfigureReturns, AfterDelete
    <3>2. model[r] = None \/ model[r].slot \in Held(r)
          BY DEF Held
    <3>3. Reconfigure(r, model[r], FALSE, next)
          BY <3>1 DEF Reconfigure
    <3> HIDE DEF next
    <3>4. QED BY <1>0, <3>1, <3>2, <3>3, ReturnOwnership
  <2>3. QED BY <2>1, <2>2
<1>8. CASE ImportReturns(r)
  <2>1. CASE ReadFails(reply[r])
        BY <1>0, <1>8, <2>1, FailOwnership DEF ImportReturns
  <2>2. CASE ~ReadFails(reply[r])
    <3> DEFINE new == Read(model[r], reply[r])
    <3>1. model[r] \in Model /\ model[r] # None
          BY <1>8 DEF ImportReturns, TypeInv, TypeOK, PhaseOK
    <3>2. new = None \/ new.slot = model[r].slot
          BY <3>1 DEF Read, Model
    <3>3. model[r].slot \in Held(r)
          BY <3>1 DEF Held
    <3>4. Reconfigure(r, new, FALSE, "idle")
          BY <1>8, <2>2 DEF ImportReturns, Reconfigure
    <3> HIDE DEF new
    <3>5. QED BY <1>0, <3>2, <3>3, <3>4, ReturnOwnership
  <2>3. QED BY <2>1, <2>2
<1>9. QED BY <1>1, <1>2, <1>3, <1>4, <1>5, <1>6, <1>7, <1>8 DEF Handler

LEMMA RunOwnership ==
    ASSUME Ownership, TypeInv, StartRun \/ FinishRefresh \/ AbortRefresh
    PROVE  Ownership'
<1>1. ASSUME NEW q \in Resource PROVE Held(q)' \subseteq Held(q) \union {Settings}
  <2>1. CASE StartRun
        BY <2>1 DEF StartRun, Held
  <2>2. CASE FinishRefresh
    <3>1. state[q] # None => Read(state[q], reply[q]) = None
                               \/ Read(state[q], reply[q]).slot = state[q].slot
          BY DEF Read, TypeInv, TypeOK, Model
    <3>2. QED BY <2>2, <3>1 DEF FinishRefresh, Held
  <2>3. CASE AbortRefresh
        BY <2>3 DEF AbortRefresh, Held
  <2>4. QED BY <2>1, <2>2, <2>3
<1>2. UNCHANGED issued
      BY DEF StartRun, FinishRefresh, AbortRefresh, device
<1>3. QED BY <1>1, <1>2, OwnershipKept

LEMMA OperatorOwnership ==
    ASSUME Ownership, TypeInv, NEW r \in Resource, Operator(r)
    PROVE  Ownership'
<1>1. ASSUME NEW c \in Configs \union {None}, ConfigChange(r, c)
      PROVE  Ownership'
  <2>1. \A q \in Resource : Held(q)' \subseteq Held(q) \union {Settings}
        BY <1>1 DEF ConfigChange, Held
  <2>2. QED BY <1>1, <2>1, OwnershipKept DEF ConfigChange, device
<1>2. ASSUME NEW s \in issued \union {Settings}, NEW hint \in ImportHints, Import(r, s, hint)
      PROVE  Ownership'
  <2>1. \A q \in Resource : model[q] = None /\ pc[q] # "create"
        BY <1>2 DEF Import, AllIdle, TypeInv, PhaseOK
  <2>2. ASSUME NEW q \in Resource \ {r} PROVE Held(q)' \subseteq Held(q) /\ s \notin Held(q)
        BY <1>2, <2>1 DEF Import, Send, Held, TypeInv, TypeOK
  <2>3. Held(r)' \subseteq Held(r) \union {s}
        BY <1>2 DEF Import, Send, Held, TypeInv, TypeOK
  <2>4. UNCHANGED issued
        BY <1>2 DEF Import, device
  <2>5. QED BY <2>2, <2>3, <2>4, OwnershipGained
<1>3. QED BY <1>1, <1>2 DEF Operator

\* A reply that brings no uuid gives nobody anything.
LEMMA RespondOwnership ==
    ASSUME Ownership, TypeInv, NEW r \in Resource, NEW a, Respond(r, a),
           pc[r] = "create" => a.slot \in {None, Settings},
           issued \subseteq issued',
           UNCHANGED <<state, pc, model>>
    PROVE  Ownership'
<1>1. ASSUME NEW q \in Resource PROVE Held(q)' \subseteq Held(q) \union {Settings}
      BY DEF Respond, Held, TypeInv, TypeOK
<1>2. QED BY <1>1, OwnershipKept

LEMMA FirewallOwnership ==
    ASSUME Ownership, TypeInv, NEW r \in Resource, Serve(r) \/ Network(r)
    PROVE  Ownership'
<1>1. wire[r] # None /\ wire[r] \in Request /\ RequestOK(wire[r])
      BY DEF Serve, Network, ServeUnheard, Refuse, Timeout, TypeInv, TypeOK, PhaseOK
<1>2. ASSUME NEW u \in Choices(wire[r]), Effect(wire[r], u) PROVE issued \subseteq issued'
      BY <1>1, <1>2, EffectType DEF TypeInv, TypeOK
<1>3. \A kind : Answer(kind, None, None).slot = None
      BY DEF Answer
<1>4. CASE Serve(r)
  <2>1. PICK u \in Choices(wire[r]) :
          /\ Effect(wire[r], u)
          /\ \E a \in Answers(wire[r], u) : Respond(r, a)
        BY <1>4 DEF Serve
  <2>2. PICK a \in Answers(wire[r], u) : Respond(r, a)
        BY <2>1
  <2>3. UNCHANGED <<state, pc, model>> /\ issued \subseteq issued'
        BY <1>2, <1>4, <2>1 DEF Serve
  <2>4. CASE wire[r].op = "add" /\ Executable(wire[r])
    <3>1. u \in Uuid \ issued /\ issued' = issued \union {u} /\ a.slot = u
          BY <2>1, <2>2, <2>4 DEF Choices, Effect, Answers, Answer
    <3>2. ASSUME NEW q \in Resource \ {r} PROVE Held(q)' \subseteq Held(q) /\ u \notin Held(q)
          BY <2>2, <2>3, <3>1, SettingsAssumption
          DEF Respond, Held, TypeInv, TypeOK, Ownership, HeldIssued
    <3>3. Held(r)' \subseteq Held(r) \union {u}
          BY <2>2, <2>3, <3>1 DEF Respond, Held, TypeInv, TypeOK
    <3>4. QED BY <2>3, <3>1, <3>2, <3>3, OwnershipGained
  <2>5. CASE ~(wire[r].op = "add" /\ Executable(wire[r]))
    <3>1. pc[r] = "create" => a.slot \in {None, Settings}
          BY <1>1, <2>2, <2>5
          DEF Answers, Answer, MissingKinds, TypeInv, PhaseOK
    <3>2. QED BY <2>2, <2>3, <3>1, RespondOwnership
  <2>6. QED BY <2>4, <2>5
<1>5. CASE ServeUnheard(r)
  <2>1. PICK distortion \in Distortions(wire[r].op) :
          Respond(r, Answer(distortion[2], None, None))
        BY <1>5 DEF ServeUnheard
  <2>2. UNCHANGED <<state, pc, model>> /\ issued \subseteq issued'
        BY <1>2, <1>5 DEF ServeUnheard
  <2>3. QED BY <1>3, <2>1, <2>2, RespondOwnership
<1>6. CASE Refuse(r)
  <2>1. PICK refusal \in Refusals(wire[r].op) :
          Respond(r, Answer(refusal[2], None, None))
        BY <1>6 DEF Refuse
  <2>2. UNCHANGED <<state, pc, model, issued>>
        BY <1>6 DEF Refuse, device
  <2>3. QED BY <1>3, <2>1, <2>2, RespondOwnership
<1>7. CASE Timeout(r)
      BY <1>3, <1>7, RespondOwnership DEF Timeout
<1>8. QED BY <1>4, <1>5, <1>6, <1>7 DEF Network

LEMMA EnvironmentOwnership ==
    ASSUME Ownership, TypeInv, (\E req \in late : ServeLate(req)) \/ Crash \/ Administrator
    PROVE  Ownership'
<1>1. ASSUME NEW q \in Resource PROVE Held(q)' \subseteq Held(q) \union {Settings}
  <2>1. CASE \E req \in late : ServeLate(req)
        BY <2>1 DEF ServeLate, provider, Held
  <2>2. CASE Crash
        BY <2>2 DEF Crash, Held
  <2>3. CASE Administrator
        BY <2>3 DEF Administrator, AdminEdit, AdminDelete, provider, Held
  <2>4. QED BY <2>1, <2>2, <2>3
<1>2. issued \subseteq issued'
  <2>1. ASSUME NEW req \in late, ServeLate(req) PROVE issued \subseteq issued'
        BY <2>1, EffectType DEF ServeLate, TypeInv, TypeOK
  <2>2. CASE Crash \/ Administrator
        BY <2>2 DEF Crash, Administrator, AdminEdit, AdminDelete
  <2>3. QED BY <2>1, <2>2
<1>3. QED BY <1>1, <1>2, OwnershipKept

LEMMA OwnershipInit ==
    ASSUME Init
    PROVE  Ownership
BY DEF Init, Ownership, HeldIssued, TrackedDistinct, Held

LEMMA OwnershipStep ==
    ASSUME Ownership, TypeInv, [Next]_vars
    PROVE  Ownership'
<1>1. CASE UNCHANGED vars
      BY <1>1 DEF vars, provider, device, Ownership, HeldIssued, TrackedDistinct, Held
<1>2. CASE Next
      BY <1>2, RunOwnership, HandlerOwnership, OperatorOwnership, FirewallOwnership,
         EnvironmentOwnership DEF Next
<1>3. QED BY <1>1, <1>2

LEMMA OwnershipInvariant == Spec => []Ownership
BY OwnershipInit, OwnershipStep, TypeInvariant, PTL DEF Spec

\* Whatever the interleaving of creates, replacements, imports, lost and late
\* requests and crashes, no item is in two resources' hands.
THEOREM OneOwner == Spec => []TrackedDistinct
<1>1. Ownership => TrackedDistinct
      BY DEF Ownership
<1>2. QED BY <1>1, OwnershipInvariant, PTL
-----------------------------------------------------------------------------
(* What a step leaves alone.                                               *)

\* A step of one resource leaves the others' variables alone.
LEMMA OthersStill ==
    ASSUME TypeInv, NEW q \in Resource, Handler(q) \/ Operator(q) \/ Serve(q) \/ Network(q),
           NEW r \in Resource, r # q
    PROVE  UNCHANGED <<config[r], state[r], pc[r], model[r], wire[r], reply[r]>>
<1> USE DEF TypeInv, TypeOK, Return, Send
<1>1. ASSUME NEW new, NEW next, Return(q, new, next)
      PROVE  UNCHANGED <<state[r], pc[r], model[r], wire[r], reply[r]>>
      BY <1>1
<1>2. ASSUME NEW new, NEW wanted, NEW next, Reconfigure(q, new, wanted, next)
      PROVE  UNCHANGED <<state[r], pc[r], model[r], wire[r], reply[r]>>
      BY <1>1, <1>2 DEF Reconfigure
<1>3. ASSUME NEW phase, NEW req, Send(q, phase, req), UNCHANGED <<state, model>>
      PROVE  UNCHANGED <<state[r], pc[r], model[r], wire[r], reply[r]>>
      BY <1>3
<1>4. ASSUME NEW a, Respond(q, a), UNCHANGED <<state, pc, model>>
      PROVE  UNCHANGED <<state[r], pc[r], model[r], wire[r], reply[r]>>
      BY <1>4 DEF Respond
<1>5. ASSUME Fail(q)
      PROVE  UNCHANGED <<state[r], pc[r], model[r], wire[r], reply[r]>>
      BY <1>1, <1>5 DEF Fail
<1> HIDE DEF TypeInv, TypeOK, Return, Send
<1>6. config'[r] = config[r]
  <2>1. CASE Handler(q)
        BY <2>1 DEF Handler, NoChange, InvalidBody, Create, CreateReturns, Update, UpdateReturns,
           Delete, DeleteReturns, ReconfigureReturns, ImportReturns
  <2>2. ASSUME NEW c, ConfigChange(q, c) PROVE config'[r] = config[r]
        BY <2>2 DEF ConfigChange, TypeInv, TypeOK
  <2>3. CASE Operator(q)
        BY <2>2, <2>3 DEF Operator, Import
  <2>4. CASE Serve(q) \/ Network(q)
        BY <2>4 DEF Serve, Network, ServeUnheard, Refuse, Timeout
  <2>5. QED BY <2>1, <2>3, <2>4
<1>7. SUFFICES UNCHANGED <<state[r], pc[r], model[r], wire[r], reply[r]>>
      BY <1>6
<1>8. CASE Handler(q)
  <2>1. CASE NoChange(q) \/ InvalidBody(q)
        BY <1>5, <2>1 DEF NoChange, InvalidBody
  <2>2. CASE Create(q) \/ Update(q)
        BY <1>3, <2>2 DEF Create, Update
  <2>3. CASE CreateReturns(q)
        BY <1>2, <1>5, <2>3 DEF CreateReturns
  <2>4. CASE UpdateReturns(q)
        BY <1>2, <1>5, <2>4 DEF UpdateReturns
  <2>5. CASE Delete(q)
        BY <1>1, <1>3, <2>5 DEF Delete
  <2>6. CASE DeleteReturns(q)
        BY <1>1, <1>2, <1>5, <2>6 DEF DeleteReturns
  <2>7. CASE ReconfigureReturns(q)
        BY <1>1, <1>5, <2>7 DEF ReconfigureReturns
  <2>8. CASE ImportReturns(q)
        BY <1>1, <1>5, <2>8 DEF ImportReturns
  <2>9. QED BY <1>8, <2>1, <2>2, <2>3, <2>4, <2>5, <2>6, <2>7, <2>8 DEF Handler
<1>9. CASE Operator(q)
  <2>1. ASSUME NEW c, ConfigChange(q, c)
        PROVE  UNCHANGED <<state[r], pc[r], model[r], wire[r], reply[r]>>
        BY <2>1 DEF ConfigChange
  <2>2. ASSUME NEW s, NEW hint, Import(q, s, hint)
        PROVE  UNCHANGED <<state[r], pc[r], model[r], wire[r], reply[r]>>
        BY <2>2 DEF Import, Send, TypeInv, TypeOK
  <2>3. QED BY <1>9, <2>1, <2>2 DEF Operator
<1>10. CASE Serve(q) \/ Network(q)
      BY <1>4, <1>10 DEF Serve, Network, ServeUnheard, Refuse, Timeout
<1>11. QED BY <1>8, <1>9, <1>10

\* A resource's state changes by the end of the refresh or its own handler.
LEMMA StateStill ==
    ASSUME TypeInv, [Next]_vars, NEW r \in Resource, ~FinishRefresh, ~Handler(r)
    PROVE  state'[r] = state[r]
<1>1. ASSUME NEW q \in Resource, q # r, Handler(q) \/ Operator(q) \/ Serve(q) \/ Network(q)
      PROVE  state'[r] = state[r]
      BY <1>1, OthersStill
<1>2. CASE Operator(r) \/ Serve(r) \/ Network(r)
      BY <1>2 DEF Operator, ConfigChange, Import, Send, Serve, Network, ServeUnheard,
                  Refuse, Timeout
<1>3. CASE StartRun \/ AbortRefresh \/ Crash \/ UNCHANGED vars
      BY <1>3 DEF StartRun, AbortRefresh, Crash, vars, provider
<1>4. CASE (\E req \in late : ServeLate(req)) \/ Administrator
      BY <1>4 DEF ServeLate, Administrator, AdminEdit, AdminDelete, provider
<1>5. QED BY <1>1, <1>2, <1>3, <1>4 DEF Next

\* A step of a handler, a run or an operator asks anew or ends.
LEMMA AsksAnew ==
    ASSUME TypeInv, NEW r \in Resource,
           \/ Handler(r) \/ Operator(r)
           \/ StartRun \/ FinishRefresh \/ AbortRefresh \/ Crash
    PROVE  reply'[r] = None
<1>1. CASE StartRun \/ FinishRefresh \/ AbortRefresh \/ Crash
      BY <1>1 DEF StartRun, FinishRefresh, AbortRefresh, Crash, AllIdle, TypeInv, PhaseOK
<1>2. CASE Operator(r)
      BY <1>2 DEF Operator, ConfigChange, Import, Send, AllIdle, TypeInv, TypeOK, PhaseOK
<1>3. ASSUME NEW new, NEW next, Return(r, new, next) PROVE reply'[r] = None
      BY <1>3 DEF Return, TypeInv, TypeOK
<1>4. ASSUME NEW phase, NEW req, Send(r, phase, req) PROVE reply'[r] = None
      BY <1>4 DEF Send, TypeInv, TypeOK
<1>5. ASSUME NEW new, NEW wanted, NEW next, Reconfigure(r, new, wanted, next)
      PROVE  reply'[r] = None
      BY <1>3, <1>4, <1>5 DEF Reconfigure
<1>6. CASE Handler(r)
  <2>1. CASE NoChange(r) \/ InvalidBody(r) \/ Create(r) \/ Update(r) \/ Delete(r)
        BY <1>3, <1>4, <2>1 DEF NoChange, InvalidBody, Create, Update, Delete, Fail
  <2>2. CASE CreateReturns(r) \/ UpdateReturns(r) \/ DeleteReturns(r)
        BY <1>3, <1>5, <2>2 DEF CreateReturns, UpdateReturns, DeleteReturns, Fail
  <2>3. CASE ReconfigureReturns(r) \/ ImportReturns(r)
        BY <1>3, <2>3 DEF ReconfigureReturns, ImportReturns, Fail
  <2>4. QED BY <1>6, <2>1, <2>2, <2>3 DEF Handler
<1>7. QED BY <1>1, <1>2, <1>6

-----------------------------------------------------------------------------
(* What is gone stays gone.                                                *)

\* s was an item and is one no longer.
Gone(s) == s = Settings \/ (s \in issued /\ store[s] = None)

\* No request brings an item back: an add takes a new uuid, a set on a missing
\* item changes nothing.
LEMMA EffectGone ==
    ASSUME TypeInv, NEW req \in Request, RequestOK(req), NEW u \in Choices(req), Effect(req, u),
           NEW s \in Slot, Gone(s)
    PROVE  Gone(s)'
<1>1. CASE req.op = "add" /\ Executable(req)
  <2>1. u \in Uuid \ issued
        BY <1>1 DEF Choices
  <2>2. /\ store' = [store EXCEPT ![u] = Merge(Default, req.body)]
        /\ issued' = issued \union {u}
        BY <1>1 DEF Effect
  <2>3. QED BY <2>1, <2>2 DEF Gone, TypeInv, TypeOK
<1>2. CASE req.op = "set" /\ store[req.slot] # None
      BY <1>2 DEF Effect, Gone, TypeInv, TypeOK
<1>3. CASE req.op = "del"
      BY <1>3 DEF Effect, Gone, TypeInv, TypeOK
<1>4. CASE req.op = "apply"
      BY <1>4 DEF Effect, Gone
<1>5. CASE ~(req.op = "add" /\ Executable(req)) /\ ~(req.op = "set" /\ store[req.slot] # None)
           /\ req.op # "del" /\ req.op # "apply"
      BY <1>5 DEF Effect, Gone
<1>6. QED BY <1>1, <1>2, <1>3, <1>4, <1>5

\* Nor does any other step.
LEMMA GoneKept ==
    ASSUME TypeInv, [Next]_vars, NEW s \in Slot, Gone(s)
    PROVE  Gone(s)'
<1>1. ASSUME UNCHANGED <<store, issued>> PROVE Gone(s)'
      BY <1>1 DEF Gone
<1>2. CASE StartRun \/ FinishRefresh \/ AbortRefresh \/ Crash \/ UNCHANGED vars
      BY <1>1, <1>2 DEF StartRun, FinishRefresh, AbortRefresh, Crash, vars, device
<1>3. ASSUME NEW r \in Resource, Handler(r) \/ Operator(r) PROVE Gone(s)'
      BY <1>1, <1>3 DEF Handler, Operator, device, NoChange, InvalidBody, Create, CreateReturns,
         Update, UpdateReturns, Delete, DeleteReturns, ReconfigureReturns, ImportReturns,
         ConfigChange, Import
<1>4. ASSUME NEW r \in Resource, Serve(r) \/ Network(r) PROVE Gone(s)'
  <2>1. CASE Refuse(r) \/ Timeout(r)
        BY <1>1, <2>1 DEF Refuse, Timeout, device
  <2>2. CASE Serve(r) \/ ServeUnheard(r)
    <3>1. wire[r] # None
          BY <2>2 DEF Serve, ServeUnheard
    <3>2. wire[r] \in Request /\ RequestOK(wire[r])
          BY <3>1 DEF TypeInv, TypeOK, PhaseOK
    <3>3. PICK u \in Choices(wire[r]) : Effect(wire[r], u)
          BY <2>2 DEF Serve, ServeUnheard
    <3>4. QED BY <3>2, <3>3, EffectGone
  <2>3. QED BY <1>4, <2>1, <2>2 DEF Network
<1>5. ASSUME NEW req \in late, ServeLate(req) PROVE Gone(s)'
  <2>1. req \in Request /\ RequestOK(req)
        BY <1>5 DEF TypeInv, TypeOK
  <2>2. PICK u \in Choices(req) : Effect(req, u)
        BY <1>5 DEF ServeLate
  <2>3. QED BY <2>1, <2>2, EffectGone
<1>6. ASSUME Administrator PROVE Gone(s)'
  <2>1. ASSUME NEW t \in Slot, NEW k \in Key, NEW v \in Value, AdminEdit(t, k, v) PROVE Gone(s)'
        BY <2>1 DEF AdminEdit, Gone, TypeInv, TypeOK
  <2>2. ASSUME NEW u \in Uuid, AdminDelete(u) PROVE Gone(s)'
        BY <2>2 DEF AdminDelete, Gone, TypeInv, TypeOK
  <2>3. QED BY <1>6, <2>1, <2>2 DEF Administrator
<1>7. QED BY <1>2, <1>3, <1>4, <1>5, <1>6 DEF Next

\* A del that has been executed has removed its item.
LEMMA DeletedGone ==
    ASSUME TypeInv, NEW req \in Request, NEW u \in Choices(req), Effect(req, u), req.op = "del",
           req.slot \in issued \union {Settings}
    PROVE  Gone(req.slot)'
<1>1. store' = [store EXCEPT ![req.slot] = None] /\ issued' = issued
      BY DEF Effect
<1>2. req.slot \in Slot
      BY DEF TypeInv, TypeOK, Slot
<1>3. QED BY <1>1, <1>2 DEF Gone, TypeInv, TypeOK

\* A create or an update that does not fail has a model to store.
LEMMA WriteReturns ==
    ASSUME TypeInv, NEW r \in Resource, CreateReturns(r) \/ UpdateReturns(r)
    PROVE  \/ Fail(r)
           \/ \E new \in Model :
                /\ new # None /\ new.reconfigure = config[r].reconfigure
                /\ UpdateReturns(r) => new.slot = state[r].slot /\ new.body = UpdateBody(r)
                /\ CreateReturns(r) =>
                     /\ config[r].singleton \/ reply[r].slot # None
                     /\ new.slot = IF config[r].singleton THEN Settings ELSE reply[r].slot
                /\ Reconfigure(r, new, new.reconfigure, "idle")
<1>1. CASE CreateReturns(r)
  <2> DEFINE slot == IF config[r].singleton THEN Settings ELSE reply[r].slot
             m == [slot |-> slot, body |-> config[r].body,
                   reconfigure |-> config[r].reconfigure]
  <2>1. CASE Accepted(reply[r]) /\ slot # None
    <3>1. Reconfigure(r, m, m.reconfigure, "idle")
          BY <1>1, <2>1 DEF CreateReturns
    <3>2. config[r] \in Config /\ config[r].body \in Body /\ reply[r] \in Reply
          BY <1>1 DEF CreateReturns, TypeInv, TypeOK, PhaseOK, Config
    <3>3. m \in Model /\ m.reconfigure = config[r].reconfigure /\ m.slot = slot
          BY <2>1, <3>2 DEF Model, Config, Reply, Slot
    <3>4. ~UpdateReturns(r) /\ (config[r].singleton \/ reply[r].slot # None)
          BY <1>1, <2>1 DEF CreateReturns, UpdateReturns
    <3> HIDE DEF m
    <3>5. QED BY <3>1, <3>3, <3>4, NoneAssumption
  <2>2. QED BY <1>1, <2>1 DEF CreateReturns
<1>2. CASE UpdateReturns(r)
  <2> DEFINE m == [slot |-> state[r].slot, body |-> UpdateBody(r),
                   reconfigure |-> config[r].reconfigure]
  <2>1. CASE Accepted(reply[r])
    <3>1. Reconfigure(r, m, m.reconfigure, "idle")
          BY <1>2, <2>1 DEF UpdateReturns
    <3>2. /\ config[r] \in Config /\ config[r].body # Malformed
          /\ state[r] \in Model
          BY <1>2 DEF UpdateReturns, TypeInv, TypeOK, PhaseOK
    <3>3. UpdateBody(r) \in Body
          BY <3>2, UpdateBodyType
    <3>4. /\ m \in Model /\ m.reconfigure = config[r].reconfigure
          /\ m.slot = state[r].slot /\ m.body = UpdateBody(r) /\ ~CreateReturns(r)
          BY <1>2, <3>2, <3>3 DEF Model, Config, CreateReturns, UpdateReturns
    <3> HIDE DEF m
    <3>5. QED BY <3>1, <3>4, NoneAssumption
  <2>2. QED BY <1>2, <2>1 DEF UpdateReturns
<1>3. QED BY <1>1, <1>2

-----------------------------------------------------------------------------
(* What a handler's variables have to do with one another.                 *)

\* The model r is about to store is of its block, names the slot r has already,
\* and differs from what the state says.
Configured(r) ==
    /\ config[r] # None
    /\ model[r] # state[r]
    /\ (model[r].slot = Settings) = config[r].singleton
    /\ state[r] # None => model[r].slot = state[r].slot

\* The request on the wire is the one of r's phase, about r's own slot.
Asked(r) ==
    /\ pc[r] = "refresh" => wire[r].slot = state[r].slot
    /\ pc[r] = "import" => wire[r].slot = model[r].slot
    /\ pc[r] = "create" =>
         IF config[r].singleton THEN wire[r].op = "set" /\ wire[r].slot = Settings
                                ELSE wire[r].op = "add"
    /\ pc[r] = "update" => wire[r].op = "set" /\ wire[r].slot = state[r].slot
    /\ pc[r] = "delete" => wire[r].op = "del" /\ wire[r].slot = state[r].slot
    /\ pc[r] = "reconfigure" => wire[r].op = "apply"

\* A uuid in the reply to a create comes with success, and a delete that was
\* accepted has been executed.
Answered(r) ==
    /\ (pc[r] = "create" /\ reply[r].slot # None) =>
         reply[r].kind = "ok" /\ (reply[r].slot = Settings) = config[r].singleton
    /\ (pc[r] = "delete" /\ Accepted(reply[r])) => Gone(state[r].slot)

Linked(r) ==
    /\ pc[r] \in {"create", "import"} => state[r] = None
    /\ pc[r] \in {"create", "update", "delete"} => model[r] = None
    /\ pc[r] = "update" => Updates(r)
    /\ pc[r] = "delete" => state[r] # None /\ state[r].slot # Settings
    /\ (pc[r] = "reconfigure" /\ model[r] # None) => Configured(r)
    /\ (pc[r] = "reconfigure" /\ model[r] = None) => state[r] # None /\ Gone(state[r].slot)
    /\ wire[r] # None => Asked(r)
    /\ reply[r] # None => Answered(r)

\* At most one block declares the singleton.
OneSingleton ==
    \A q, r \in Resource :
        (config[q] # None /\ config[r] # None /\ config[q].singleton /\ config[r].singleton)
           => q = r

LinkInv == TypeInv /\ Ownership /\ OneSingleton /\ \A r \in Resource : Linked(r)

\* A handler that does not move keeps its links: what is gone stays gone.
LEMMA LinkedKept ==
    ASSUME LinkInv, [Next]_vars, NEW r \in Resource,
           UNCHANGED <<config[r], state[r], pc[r], model[r], wire[r], reply[r]>>
    PROVE  Linked(r)'
<1>1. (state[r] # None /\ Gone(state[r].slot)) => Gone(state[r].slot)'
  <2>1. TypeInv /\ (state[r] # None => state[r].slot \in Slot)
        BY DEF LinkInv, TypeInv, TypeOK, Model
  <2>2. ASSUME NEW s \in Slot, Gone(s) PROVE Gone(s)'
        BY <2>1, <2>2, GoneKept
  <2>3. state'[r] = state[r]
        OBVIOUS
  <2>4. QED BY <2>1, <2>2, <2>3 DEF Gone
<1>2. Updates(r)' = Updates(r)
      BY DEF Updates, Deletes, UpdateBody, PlannedBody, subsetMatches
<1>3. Linked(r)
      BY DEF LinkInv
<1>4. Configured(r)' = Configured(r) /\ Asked(r)' = Asked(r)
      BY DEF Configured, Asked
<1>5. (reply[r] # None /\ Linked(r)) => Answered(r)'
      BY <1>1, <1>3 DEF Linked, Answered, Gone, Accepted
<1>6. QED BY <1>1, <1>2, <1>3, <1>4, <1>5 DEF Linked, Gone

-----------------------------------------------------------------------------
(* Handlers keep their links.                                              *)

\* A handler that returns has nothing left to link.
LEMMA ReturnLinked ==
    ASSUME TypeInv, NEW r \in Resource, NEW new, NEW next \in {"idle", "planned"},
           Return(r, new, next)
    PROVE  Linked(r)'
<1>1. pc'[r] = next /\ wire'[r] = None /\ reply'[r] = None
      BY DEF Return, TypeInv, TypeOK
<1>2. QED BY <1>1 DEF Linked

\* One that applies its write has a model of its block to store, or has removed
\* its item.
LEMMA ReconfigureLinked ==
    ASSUME TypeInv, NEW r \in Resource, NEW new, NEW wanted, NEW next \in {"idle", "planned"},
           Reconfigure(r, new, wanted, next), UNCHANGED <<config, store, issued>>,
           new = None => state[r] # None /\ Gone(state[r].slot),
           new # None =>
             /\ config[r] # None /\ new # state[r]
             /\ (new.slot = Settings) = config[r].singleton
             /\ state[r] # None => new.slot = state[r].slot
    PROVE  Linked(r)'
<1>1. CASE wanted
  <2>1. /\ pc'[r] = "reconfigure" /\ model'[r] = new /\ UNCHANGED state
        /\ wire'[r] = Apply /\ reply'[r] = None
        BY <1>1 DEF Reconfigure, Send, TypeInv, TypeOK
  <2>2. wire'[r].op = "apply"
        BY <2>1 DEF Apply, Call
  <2>3. Asked(r)'
        BY <2>1, <2>2 DEF Asked
  <2>4. new # None => Configured(r)'
        BY <2>1 DEF Configured
  <2>5. QED BY <2>1, <2>3, <2>4 DEF Linked, Gone
<1>2. CASE ~wanted
      BY <1>2, ReturnLinked DEF Reconfigure
<1>3. QED BY <1>1, <1>2

\* A create or an update that does not fail has a model of its block to store.
LEMMA WriteLinked ==
    ASSUME LinkInv, NEW r \in Resource, CreateReturns(r) \/ UpdateReturns(r)
    PROVE  Linked(r)'
<1>1. TypeInv /\ Linked(r) /\ UNCHANGED <<config, store, issued>>
      BY DEF LinkInv, CreateReturns, UpdateReturns, device
<1>2. config[r] # None /\ config[r] \in Config
      BY <1>1 DEF CreateReturns, UpdateReturns, TypeInv, TypeOK, PhaseOK
<1>3. CASE Fail(r)
      BY <1>1, <1>3, ReturnLinked DEF Fail
<1>4. ASSUME NEW new \in Model, new # None, UpdateReturns(r), new.slot = state[r].slot,
             new.body = UpdateBody(r), new.reconfigure = config[r].reconfigure
      PROVE  new # state[r] /\ (new.slot = Settings) = config[r].singleton
  <2>1. Updates(r)
        BY <1>1, <1>4 DEF UpdateReturns, Linked
  <2>2. QED BY <1>2, <1>4, <2>1 DEF Updates, Deletes, Config
<1>5. ASSUME NEW new \in Model, new # None, CreateReturns(r), reply[r].slot # None \/ config[r].singleton,
             new.slot = IF config[r].singleton THEN Settings ELSE reply[r].slot
      PROVE  new # state[r] /\ (new.slot = Settings) = config[r].singleton /\ state[r] = None
  <2>1. state[r] = None /\ pc[r] = "create" /\ reply[r] # None /\ Answered(r)
        BY <1>1, <1>5 DEF CreateReturns, Linked
  <2>2. QED BY <1>2, <1>5, <2>1 DEF Answered, Config
<1>6. QED BY <1>1, <1>2, <1>3, <1>4, <1>5, WriteReturns, ReconfigureLinked

LEMMA HandlerLinked ==
    ASSUME LinkInv, NEW r \in Resource, Handler(r)
    PROVE  Linked(r)'
<1>0. TypeInv /\ Linked(r) /\ UNCHANGED <<config, store, issued>>
      BY DEF LinkInv, Handler, device, NoChange, InvalidBody, Create, CreateReturns, Update,
             UpdateReturns, Delete, DeleteReturns, ReconfigureReturns, ImportReturns
<1>1. AfterDelete(r) \in {"idle", "planned"}
      BY DEF AfterDelete
<1>2. ASSUME Fail(r) PROVE Linked(r)'
      BY <1>0, <1>2, ReturnLinked DEF Fail
<1>3. ASSUME pc[r] = "planned", NEW phase, NEW req, Send(r, phase, req), UNCHANGED <<state, model>>
      PROVE  /\ pc'[r] = phase /\ state'[r] = state[r] /\ model'[r] = None
             /\ wire'[r] = req /\ reply'[r] = None
      BY <1>0, <1>3 DEF Send, TypeInv, TypeOK, PhaseOK
<1>4. CASE NoChange(r) \/ InvalidBody(r)
      BY <1>2, <1>4 DEF NoChange, InvalidBody
<1>5. CASE Create(r)
  <2> DEFINE req == IF config[r].singleton THEN Call("set", Settings, config[r].body)
                                          ELSE Call("add", None, config[r].body)
  <2>1. /\ pc'[r] = "create" /\ state'[r] = None /\ model'[r] = None
        /\ wire'[r] = req /\ reply'[r] = None
        BY <1>3, <1>5 DEF Create, Creates
  <2>2. Asked(r)'
        BY <1>0, <2>1 DEF Asked, Call
  <2>3. QED BY <2>1, <2>2 DEF Linked
<1>6. CASE Update(r)
  <2>1. /\ pc'[r] = "update" /\ state'[r] = state[r] /\ model'[r] = None
        /\ wire'[r] = Call("set", state[r].slot, UpdateBody(r)) /\ reply'[r] = None
        BY <1>3, <1>6 DEF Update
  <2>2. Asked(r)'
        BY <2>1 DEF Asked, Call
  <2>3. Updates(r)'
        BY <1>0, <1>6, <2>1 DEF Update, Updates, Deletes, UpdateBody, PlannedBody, subsetMatches
  <2>4. QED BY <2>1, <2>2, <2>3 DEF Linked
<1>7. CASE CreateReturns(r) \/ UpdateReturns(r)
      BY <1>7, WriteLinked
<1>8. CASE Delete(r)
  <2>1. CASE state[r].slot = Settings
        BY <1>0, <1>1, <1>8, <2>1, ReturnLinked DEF Delete
  <2>2. CASE state[r].slot # Settings
    <3>1. /\ pc'[r] = "delete" /\ state'[r] = state[r] /\ model'[r] = None
          /\ wire'[r] = Call("del", state[r].slot, None) /\ reply'[r] = None
          BY <1>3, <1>8, <2>2 DEF Delete
    <3>2. state[r] # None
          BY <1>8 DEF Delete, Deletes
    <3>3. Asked(r)'
          BY <3>1 DEF Asked, Call
    <3>4. QED BY <2>2, <3>1, <3>2, <3>3 DEF Linked
  <2>3. QED BY <2>1, <2>2
<1>9. CASE DeleteReturns(r)
  <2>1. CASE reply[r].kind = "notFound"
        BY <1>0, <1>1, <1>9, <2>1, ReturnLinked DEF DeleteReturns, Accepted
  <2>2. CASE Accepted(reply[r])
    <3>1. Reconfigure(r, None, state[r].reconfigure, AfterDelete(r))
          BY <1>9, <2>2 DEF DeleteReturns, Accepted
    <3>2. state[r] # None /\ Gone(state[r].slot)
          BY <1>0, <1>9, <2>2 DEF DeleteReturns, Linked, Answered
    <3>3. QED BY <1>0, <1>1, <3>1, <3>2, ReconfigureLinked
  <2>3. CASE reply[r].kind # "notFound" /\ ~Accepted(reply[r])
        BY <1>2, <1>9, <2>3 DEF DeleteReturns
  <2>4. QED BY <2>1, <2>2, <2>3
<1>10. CASE ReconfigureReturns(r)
      BY <1>0, <1>1, <1>2, <1>10, ReturnLinked DEF ReconfigureReturns
<1>11. CASE ImportReturns(r)
      BY <1>0, <1>2, <1>11, ReturnLinked DEF ImportReturns
<1>12. QED BY <1>4, <1>5, <1>6, <1>7, <1>8, <1>9, <1>10, <1>11 DEF Handler

-----------------------------------------------------------------------------
(* So do runs, operators and answers.                                      *)

LEMMA RunLinked ==
    ASSUME LinkInv, StartRun \/ FinishRefresh \/ AbortRefresh \/ Crash, NEW r \in Resource
    PROVE  Linked(r)'
<1>1. CASE StartRun
  <2>1. /\ pc'[r] = "refresh" /\ UNCHANGED <<state, model, reply>>
        /\ wire'[r] = IF state[r] = None THEN None ELSE Get(state[r].slot)
        BY <1>1 DEF StartRun
  <2>2. reply[r] = None
        BY <1>1 DEF StartRun, AllIdle, LinkInv, TypeInv, PhaseOK
  <2>3. wire'[r] # None => Asked(r)'
        BY <2>1 DEF Asked, Get, Call
  <2>4. QED BY <2>1, <2>2, <2>3 DEF Linked
<1>2. CASE FinishRefresh \/ AbortRefresh \/ Crash
  <2>1. pc'[r] \in {"planned", "idle"} /\ wire'[r] = None /\ reply'[r] = None
    <3>1. ASSUME Refreshed(r) PROVE wire[r] = None
          BY <3>1 DEF Refreshed, LinkInv, TypeInv, PhaseOK
    <3>2. QED BY <1>2, <3>1 DEF FinishRefresh, AbortRefresh, Crash
  <2>2. QED BY <2>1 DEF Linked
<1>3. QED BY <1>1, <1>2

LEMMA OperatorLinked ==
    ASSUME LinkInv, NEW r \in Resource, Operator(r)
    PROVE  Linked(r)'
<1>1. TypeInv
      BY DEF LinkInv
<1>2. ASSUME NEW c, ConfigChange(r, c) PROVE Linked(r)'
  <2>1. pc'[r] = "idle" /\ wire'[r] = None /\ reply'[r] = None
        BY <1>1, <1>2 DEF ConfigChange, AllIdle, TypeInv, PhaseOK
  <2>2. QED BY <2>1 DEF Linked
<1>3. ASSUME NEW s, NEW hint, Import(r, s, hint) PROVE Linked(r)'
  <2>1. /\ pc'[r] = "import" /\ state'[r] = None /\ reply'[r] = None
        /\ wire'[r] = Get(s) /\ model'[r].slot = s
        BY <1>1, <1>3 DEF Import, Send, TypeInv, TypeOK
  <2>2. Asked(r)'
        BY <2>1 DEF Asked, Get, Call
  <2>3. QED BY <2>1, <2>2 DEF Linked
<1>4. QED BY <1>2, <1>3 DEF Operator

\* It is enough that the answer to a create or a delete is in order.
LEMMA RespondLinked ==
    ASSUME LinkInv, [Next]_vars, NEW r \in Resource, NEW a, Respond(r, a),
           UNCHANGED <<config, state, pc, model>>,
           (pc[r] = "create" /\ a.slot # None) =>
             a.kind = "ok" /\ (a.slot = Settings) = config[r].singleton,
           (pc[r] = "delete" /\ Accepted(a)) => Gone(state[r].slot)'
    PROVE  Linked(r)'
<1>1. wire'[r] = None /\ reply'[r] = a
      BY DEF Respond, LinkInv, TypeInv, TypeOK
<1>2. TypeInv /\ Linked(r)
      BY DEF LinkInv
<1>3. (state[r] # None /\ Gone(state[r].slot)) => Gone(state[r].slot)'
  <2>1. state[r] # None => state[r].slot \in Slot
        BY <1>2 DEF TypeInv, TypeOK, Model
  <2>2. ASSUME NEW s \in Slot, Gone(s) PROVE Gone(s)'
        BY <1>2, <2>2, GoneKept
  <2>3. QED BY <2>1, <2>2 DEF Gone
<1>4. Updates(r)' = Updates(r) /\ Configured(r)' = Configured(r)
      BY DEF Updates, Deletes, UpdateBody, PlannedBody, subsetMatches, Configured
<1>5. Answered(r)'
      BY <1>1 DEF Answered, Accepted
<1>6. QED BY <1>1, <1>2, <1>3, <1>4, <1>5 DEF Linked

\* A uuid in an answer to a create is a new one, and a del that got any other
\* answer than a refusal has been executed.
LEMMA FirewallLinked ==
    ASSUME LinkInv, NEW r \in Resource, Serve(r) \/ Network(r), [Next]_vars
    PROVE  Linked(r)'
<1> DEFINE req == wire[r]
<1>1. req # None /\ req \in Request /\ RequestOK(req) /\ TypeInv /\ Linked(r) /\ Asked(r)
      BY DEF Serve, Network, ServeUnheard, Refuse, Timeout, LinkInv, TypeInv, TypeOK, PhaseOK, Linked
<1>2. UNCHANGED <<config, state, pc, model>>
      BY DEF Serve, Network, ServeUnheard, Refuse, Timeout
<1>3. pc[r] = "delete" =>
        req.op = "del" /\ req.slot = state[r].slot /\ req.slot \in issued \union {Settings}
      BY <1>1 DEF Asked, Linked, LinkInv, Ownership, HeldIssued, Held
<1>4. ASSUME pc[r] = "delete", NEW u \in Choices(req), Effect(req, u)
      PROVE  Gone(state[r].slot)'
      BY <1>1, <1>2, <1>3, <1>4, DeletedGone DEF Gone
<1>5. \A kind : Answer(kind, None, None).slot = None /\ Answer(kind, None, None).kind = kind
      BY DEF Answer
<1>6. CASE Serve(r)
  <2>1. PICK u \in Choices(req) : Effect(req, u) /\ \E a \in Answers(req, u) : Respond(r, a)
        BY <1>6 DEF Serve
  <2>2. PICK a \in Answers(req, u) : Respond(r, a)
        BY <2>1
  <2>3. ASSUME pc[r] = "create", a.slot # None
        PROVE  a.kind = "ok" /\ (a.slot = Settings) = config[r].singleton
    <3>0. config[r] \in Config
          BY <1>1, <2>3 DEF TypeInv, TypeOK, PhaseOK
    <3>1. CASE config[r].singleton
      <4>1. req.op = "set" /\ req.slot = Settings
            BY <1>1, <2>3, <3>1 DEF Asked
      <4>2. a.kind = "ok" /\ a.slot = Settings
            BY <2>2, <2>3, <4>1 DEF Answers, Answer, MissingKinds
      <4>3. QED BY <3>0, <3>1, <4>2 DEF Config
    <3>2. CASE ~config[r].singleton
      <4>1. req.op = "add"
            BY <1>1, <2>3, <3>2 DEF Asked
      <4>2. Executable(req) /\ a.slot = u /\ a.kind = "ok"
            BY <2>2, <2>3, <4>1 DEF Answers, Answer
      <4>3. u \in Uuid
            BY <4>1, <4>2 DEF Choices
      <4>4. QED BY <3>0, <3>2, <4>2, <4>3, SettingsAssumption DEF Config
    <3>3. QED BY <3>1, <3>2
  <2>4. QED BY <1>2, <1>4, <2>1, <2>2, <2>3, RespondLinked
<1>7. CASE ServeUnheard(r)
  <2>1. PICK distortion \in Distortions(req.op) : Respond(r, Answer(distortion[2], None, None))
        BY <1>7 DEF ServeUnheard
  <2>2. PICK u \in Choices(req) : Effect(req, u)
        BY <1>7 DEF ServeUnheard
  <2>3. QED BY <1>2, <1>4, <1>5, <2>1, <2>2, RespondLinked
<1>8. CASE Refuse(r)
  <2>1. PICK refusal \in Refusals(req.op) : Respond(r, Answer(refusal[2], None, None))
        BY <1>8 DEF Refuse
  <2>2. refusal[2] \in {"error", "notFound", "rejected"}
        BY DEF Refusals
  <2>3. ~Accepted(Answer(refusal[2], None, None))
        BY <1>5, <2>2 DEF Accepted
  <2>4. QED BY <1>2, <1>5, <2>1, <2>3, RespondLinked
<1>9. CASE Timeout(r)
  <2>1. ~Accepted(Answer("error", None, None))
        BY <1>5 DEF Accepted
  <2>2. QED BY <1>2, <1>5, <1>9, <2>1, RespondLinked DEF Timeout
<1>10. QED BY <1>6, <1>7, <1>8, <1>9 DEF Network

\* A block changes between runs, and never to a second singleton.
LEMMA SingletonStep ==
    ASSUME TypeInv, OneSingleton, [Next]_vars
    PROVE  OneSingleton'
<1>1. ASSUME UNCHANGED config PROVE OneSingleton'
      BY <1>1 DEF OneSingleton
<1>2. ASSUME NEW r \in Resource, NEW c \in Configs \union {None}, ConfigChange(r, c)
      PROVE  OneSingleton'
  <2>1. config' = [config EXCEPT ![r] = c]
        BY <1>2 DEF ConfigChange
  <2>2. c # None /\ c.singleton =>
          \A q \in Resource \ {r} : config[q] # None => ~config[q].singleton
        BY <1>2 DEF ConfigChange
  <2>3. QED BY <2>1, <2>2 DEF OneSingleton, TypeInv, TypeOK
<1>3. ASSUME NEW r \in Resource, NEW s, NEW hint, Import(r, s, hint) PROVE UNCHANGED config
      BY <1>3 DEF Import
<1>4. ASSUME NEW r \in Resource, Handler(r) \/ Serve(r) \/ Network(r) PROVE UNCHANGED config
      BY <1>4 DEF Handler, NoChange, InvalidBody, Create, CreateReturns, Update, UpdateReturns,
         Delete, DeleteReturns, ReconfigureReturns, ImportReturns, Serve, Network,
         ServeUnheard, Refuse, Timeout
<1>5. CASE \/ StartRun \/ FinishRefresh \/ AbortRefresh \/ Crash \/ Administrator
           \/ (\E req \in late : ServeLate(req)) \/ UNCHANGED vars
      BY <1>1, <1>5 DEF StartRun, FinishRefresh, AbortRefresh, Crash, Administrator, AdminEdit,
         AdminDelete, ServeLate, vars, provider
<1>6. QED BY <1>1, <1>2, <1>3, <1>4, <1>5 DEF Next, Operator

\* Each request, reply and model belongs to the block and the item of its
\* resource, under every fault.
LEMMA LinkInit ==
    ASSUME Init
    PROVE  LinkInv
<1>1. OneSingleton /\ \A r \in Resource : Linked(r)
      BY DEF Init, OneSingleton, Linked
<1>2. QED BY <1>1, TypeInit, OwnershipInit DEF LinkInv

LEMMA LinkStep ==
    ASSUME LinkInv, [Next]_vars
    PROVE  LinkInv'
<1>1. TypeInv /\ Ownership /\ OneSingleton
      BY DEF LinkInv
<1>2. ASSUME NEW r \in Resource PROVE Linked(r)'
  <2>1. CASE StartRun \/ FinishRefresh \/ AbortRefresh \/ Crash
        BY <2>1, RunLinked
  <2>2. ASSUME NEW q \in Resource, Handler(q) \/ Operator(q) \/ Serve(q) \/ Network(q)
        PROVE  Linked(r)'
    <3>1. CASE q # r
          BY <1>1, <2>2, <3>1, OthersStill, LinkedKept
    <3>2. CASE q = r
          BY <2>2, <3>2, HandlerLinked, OperatorLinked, FirewallLinked
    <3>3. QED BY <3>1, <3>2
  <2>3. CASE (\E req \in late : ServeLate(req)) \/ Administrator \/ UNCHANGED vars
    <3>1. UNCHANGED provider
          BY <2>3 DEF ServeLate, Administrator, AdminEdit, AdminDelete, vars
    <3>2. QED BY <3>1, LinkedKept DEF provider
  <2>4. QED BY <2>1, <2>2, <2>3 DEF Next
<1>3. TypeInv' /\ Ownership' /\ OneSingleton'
      BY <1>1, TypeStep, OwnershipStep, SingletonStep
<1>4. QED BY <1>2, <1>3 DEF LinkInv

LEMMA LinkInvariant == Spec => []LinkInv
BY LinkInit, LinkStep, PTL DEF Spec
=============================================================================

---------------------- MODULE InterfaceAssignmentProofs ----------------------
(***************************************************************************)
(* Theorems about InterfaceAssignment for every number of resources,       *)
(* sections, devices, faults and edits.                                    *)
(***************************************************************************)
EXTENDS InterfaceAssignment, TLAPS

\* Only a block is applied.
ScriptOK(p) == p.op = "apply" => p.m.device \in Device

\* What a handler's phase tells of its variables: outside a handler nothing is
\* under way, a refresh reads what is tracked, and what a read finds is an
\* interface.
PhaseOK(r) ==
    /\ pc[r] \in {"idle", "planned"} => wire[r] = None /\ reply[r] = None
    /\ pc[r] \in {"import", "apply", "realize", "stop", "delete"} => model[r] # None
    /\ (pc[r] = "refresh" /\ state[r] = None) => wire[r] = None
    /\ wire[r] # None => reply[r] = None /\ ScriptOK(wire[r])
    /\ (wire[r] # None /\ pc[r] \in {"refresh", "import"}) => wire[r].op = "read"
    /\ (reply[r] # None /\ pc[r] \in {"refresh", "import"} /\ reply[r].kind = "ok") =>
         reply[r].section # None /\ reply[r].iface # None

TypeInv ==
    /\ TypeOK
    /\ \A r \in Resource : config[r] \in Blocks[r] \union {None}
    /\ \A p \in orphans : ScriptOK(p)
    /\ \A r \in Resource : PhaseOK(r)

-----------------------------------------------------------------------------
(* The scripts.                                                            *)

LEMMA AppliedType ==
    ASSUME NEW t \in Table, NEW s \in Section, NEW m \in Model, m.device \in Device
    PROVE  Applied(t, s, m) \in Table
<1>1. Text(m.descr) \in Descr \union {Blank} /\ Text(m.addr) \in Addr \union {Blank}
      BY DEF Text, Model
<1>2. [device |-> m.device, descr |-> Text(m.descr), addr |-> Text(m.addr)] \in Iface
      BY <1>1 DEF Iface
<1>3. QED BY <1>2 DEF Applied, Table

\* A script writes a table, and echoes a section or nothing.
LEMMA WrittenType ==
    ASSUME xml \in Table, NEW p \in Script, ScriptOK(p), p.seen # None, NEW w \in Written(p)
    PROVE  w[1] \in Table /\ w[2] \in Section \union {None}
<1>1. p.seen \in Table /\ p.m \in Model /\ p.m.section \in Section
      BY DEF Script, Model
<1>2. CASE p.op = "apply"
  <2>1. PICK s \in Resolve(p.seen, p.m) : w = <<Applied(p.seen, s, p.m), s>>
        BY <1>2 DEF Written
  <2>2. s \in Section
        BY <1>1 DEF Resolve, WithDevice, WithDescr
  <2>3. QED BY <1>1, <1>2, <2>1, <2>2, AppliedType DEF ScriptOK
<1>3. CASE p.op # "apply"
  <2>1. w = <<IF p.seen[p.m.section] = None THEN xml
              ELSE [p.seen EXCEPT ![p.m.section] = None], None>>
        BY <1>3 DEF Written
  <2>2. [p.seen EXCEPT ![p.m.section] = None] \in Table
        BY <1>1 DEF Table
  <2>3. QED BY <2>1, <2>2
<1>4. QED BY <1>2, <1>3

LEMMA CommandedType ==
    ASSUME xml \in Table, running \in Table, NEW p \in Script, Commands(p)
    PROVE  Commanded(p) \in Table
<1>1. p.m.section \in Section /\ p.op \in {"stop", "realize"}
      BY DEF Script, Model, Commands
<1>2. QED BY <1>1 DEF Commanded, Table

\* What a read locates is an interface.
LEMMA LocateType ==
    ASSUME NEW t \in Table, NEW m \in Model, NEW s \in Locate(t, m)
    PROVE  s \in Section /\ t[s] \in Iface /\ t[s] # None
BY DEF Locate, WithDevice, WithDescr, Table

\* The refreshed model is a model.
LEMMA ReadType ==
    ASSUME NEW m \in Model, NEW a \in Reply,
           a.kind = "ok" => a.section # None /\ a.iface # None
    PROVE  Read(m, a) \in Model \union {None}
BY DEF Read, Refreshed, Reply, Model, Iface

-----------------------------------------------------------------------------
(* Types.                                                                  *)

ProviderType ==
    /\ config \in [Resource -> Model \union {None}]
    /\ state \in [Resource -> Model \union {None}]
    /\ tainted \subseteq Resource
    /\ pc \in [Resource -> Phase]
    /\ model \in [Resource -> Model \union {None}]
    /\ wire \in [Resource -> Script \union {None}]
    /\ reply \in [Resource -> Reply \union {None}]
    /\ \A r \in Resource : config[r] \in Blocks[r] \union {None}
    /\ \A r \in Resource : PhaseOK(r)

DeviceType ==
    /\ orphans \subseteq Script
    /\ \A p \in orphans : ScriptOK(p)
    /\ xml \in Table
    /\ running \in Table
    /\ undone \in BOOLEAN

CountersType == faults \in 0..MaxFaults /\ edits \in 0..MaxEdits

LEMMA TypeParts == TypeInv <=> ProviderType /\ DeviceType /\ CountersType
BY DEF TypeInv, TypeOK, ProviderType, DeviceType, CountersType

LEMMA InitType == Init => TypeInv
<1> SUFFICES ASSUME Init PROVE TypeInv
    OBVIOUS
<1>1. \A r \in Resource : config[r] \in Blocks[r] \union {None} /\ config[r] \in Model \union {None}
      BY DataAssumption DEF Init
<1>2. config \in [Resource -> Model \union {None}]
      BY <1>1 DEF Init
<1>3. xml \in Table /\ running \in Table
      BY DataAssumption DEF Init
<1>4. ProviderType
      BY <1>1, <1>2 DEF Init, ProviderType, PhaseOK, Phase
<1>5. undone \in BOOLEAN
      BY DEF Init
<1>6. DeviceType
      BY <1>3, <1>5 DEF Init, DeviceType
<1>7. CountersType
      BY BoundAssumption DEF Init, CountersType
<1>8. QED BY <1>4, <1>6, <1>7, TypeParts

\* The phases of a handler that waits for a command of its own.
LEMMA RunType ==
    ASSUME ProviderType, NEW r \in Resource,
           NEW phase \in {"import", "apply", "realize", "stop", "delete"},
           NEW op \in Op, NEW m \in Model, Run(r, phase, op, m),
           phase = "import" => op = "read", op = "apply" => m.device \in Device,
           UNCHANGED <<config, state, tainted>>
    PROVE  ProviderType'
<1> DEFINE p == [op |-> op, m |-> m, seen |-> None]
<1>1. p \in Script /\ ScriptOK(p)
      BY DEF Script, ScriptOK
<1>2. p # None /\ m # None
      BY <1>1, SentinelAssumption
<1>3. phase \in Phase
      BY DEF Phase
<1>4. PhaseOK(r)'
      BY <1>1, <1>2 DEF Run, ProviderType, PhaseOK, ScriptOK
<1>5. \A q \in Resource \ {r} : PhaseOK(q)'
      BY DEF Run, ProviderType, PhaseOK, ScriptOK
<1>6. QED BY <1>1, <1>3, <1>4, <1>5 DEF Run, ProviderType

LEMMA ReturnType ==
    ASSUME ProviderType, NEW r \in Resource, NEW new \in Model \union {None},
           NEW next \in {"idle", "planned"}, Return(r, new, next),
           UNCHANGED config, tainted' \subseteq Resource
    PROVE  ProviderType'
<1>1. next \in Phase
      BY DEF Phase
<1>2. PhaseOK(r)'
      BY DEF Return, ProviderType, PhaseOK, ScriptOK
<1>3. \A q \in Resource \ {r} : PhaseOK(q)'
      BY DEF Return, ProviderType, PhaseOK, ScriptOK
<1>4. QED BY <1>1, <1>2, <1>3 DEF Return, ProviderType

LEMMA FailType ==
    ASSUME ProviderType, NEW r \in Resource, Fail(r), UNCHANGED config
    PROVE  ProviderType'
BY ReturnType DEF Fail, ProviderType

LEMMA RespondType ==
    ASSUME ProviderType, NEW r \in Resource, NEW a \in Reply, wire[r] # None, Respond(r, a),
           (pc[r] \in {"refresh", "import"} /\ a.kind = "ok") => a.section # None /\ a.iface # None,
           UNCHANGED <<config, state, tainted, pc, model>>
    PROVE  ProviderType'
<1>1. PhaseOK(r)'
      BY DEF Respond, ProviderType, PhaseOK, ScriptOK
<1>2. \A q \in Resource \ {r} : PhaseOK(q)'
      BY DEF Respond, ProviderType, PhaseOK, ScriptOK
<1>3. QED BY <1>1, <1>2 DEF Respond, ProviderType

LEMMA AnswerType ==
    ASSUME NEW kind \in {"ok", "absent", "error"}, NEW s \in Section \union {None},
           NEW f \in Iface \union {None}
    PROVE  Answer(kind, s, f) \in Reply
BY DEF Answer, Reply

LEMMA HandlerType ==
    ASSUME TypeInv, NEW r \in Resource, Handler(r)
    PROVE  ProviderType' /\ UNCHANGED <<device, faults, edits>>
<1>0. ProviderType /\ UNCHANGED <<device, faults, edits>> /\ UNCHANGED config
      BY TypeParts DEF Handler, NoChange, applyAssign, ApplyReturns, RealizeReturns, Delete,
         StopReturns, DeleteReturns, ImportReturns
<1>1. /\ state[r] \in Model \union {None} /\ model[r] \in Model \union {None}
      /\ reply[r] \in Reply \union {None} /\ PhaseOK(r)
      BY <1>0 DEF ProviderType
<1>2. CASE NoChange(r)
      BY <1>0, <1>2, FailType DEF NoChange
<1>3. CASE applyAssign(r)
  <2>1. config[r] \in Model /\ config[r].device \in Device
        BY <1>0, <1>3, DataAssumption DEF applyAssign, Creates, Updates, ProviderType
  <2>2. QED BY <1>0, <1>3, <2>1, RunType DEF applyAssign, Op
<1>4. CASE ApplyReturns(r)
  <2>1. CASE reply[r].kind = "error"
        BY <1>0, <1>4, <2>1, FailType DEF ApplyReturns
  <2>2. CASE reply[r].kind # "error"
    <3> DEFINE m == [model[r] EXCEPT !.section = IF reply[r].section = None THEN @ ELSE reply[r].section]
    <3>1. Run(r, "realize", "realize", m) /\ UNCHANGED <<config, state, tainted>>
          BY <1>0, <1>4, <2>2 DEF ApplyReturns
    <3>2. model[r] \in Model /\ reply[r].section \in Section \union {None}
          BY <1>1, <1>4 DEF ApplyReturns, PhaseOK, Reply
    <3>3. m \in Model
          BY <3>2 DEF Model
    <3> HIDE DEF m
    <3>4. QED BY <1>0, <3>1, <3>3, RunType DEF Op
  <2>3. QED BY <2>1, <2>2
<1>5. CASE RealizeReturns(r)
  <2>1. CASE reply[r].kind = "error"
        BY <1>0, <1>5, <2>1, FailType DEF RealizeReturns
  <2>2. CASE reply[r].kind # "error"
    <3>1. Return(r, model[r], "idle") /\ tainted' \subseteq Resource
          BY <1>0, <1>5, <2>2 DEF RealizeReturns, ProviderType
    <3>2. QED BY <1>0, <1>1, <3>1, ReturnType
  <2>3. QED BY <2>1, <2>2
<1>6. CASE Delete(r)
      BY <1>0, <1>1, <1>6, RunType DEF Delete, Deletes, Op
<1>7. CASE StopReturns(r)
      BY <1>0, <1>1, <1>7, RunType DEF StopReturns, PhaseOK, Op
<1>8. CASE DeleteReturns(r)
  <2>1. CASE reply[r].kind = "error"
        BY <1>0, <1>8, <2>1, FailType DEF DeleteReturns
  <2>2. CASE reply[r].kind # "error"
    <3>1. /\ Return(r, None, IF config[r] = None THEN "idle" ELSE "planned")
          /\ tainted' \subseteq Resource
          BY <1>0, <1>8, <2>2 DEF DeleteReturns, ProviderType
    <3>2. QED BY <1>0, <3>1, ReturnType
  <2>3. QED BY <2>1, <2>2
<1>9. CASE ImportReturns(r)
  <2>1. CASE reply[r].kind = "error"
        BY <1>0, <1>9, <2>1, FailType DEF ImportReturns
  <2>2. CASE reply[r].kind # "error"
    <3>1. Return(r, Read(model[r], reply[r]), "idle") /\ UNCHANGED tainted
          BY <1>9, <2>2 DEF ImportReturns
    <3>2. Read(model[r], reply[r]) \in Model \union {None}
          BY <1>1, <1>9, ReadType DEF ImportReturns, PhaseOK
    <3>3. QED BY <1>0, <3>1, <3>2, ReturnType DEF ProviderType
  <2>3. QED BY <2>1, <2>2
<1>10. QED BY <1>0, <1>2, <1>3, <1>4, <1>5, <1>6, <1>7, <1>8, <1>9 DEF Handler

LEMMA RunsType ==
    ASSUME TypeInv, StartRun \/ FinishRefresh \/ AbortRefresh
    PROVE  ProviderType' /\ UNCHANGED <<device, faults, edits>>
<1>0. ProviderType
      BY TypeParts
<1>1. CASE StartRun
  <2>1. \A r \in Resource : state[r] # None =>
          LET p == [op |-> "read", m |-> state[r], seen |-> None]
          IN  p \in Script /\ ScriptOK(p)
        BY <1>0 DEF ProviderType, Script, ScriptOK, Op
  <2>2. wire' \in [Resource -> Script \union {None}]
        BY <1>1, <2>1 DEF StartRun
  <2>3. \A r \in Resource : PhaseOK(r)'
        BY <1>0, <1>1, <2>1 DEF StartRun, AllIdle, ProviderType, PhaseOK, ScriptOK
  <2>4. QED BY <1>0, <1>1, <2>2, <2>3 DEF StartRun, ProviderType, Phase
<1>2. CASE FinishRefresh
  <2>1. \A r \in Resource : state[r] # None => Read(state[r], reply[r]) \in Model \union {None}
    <3>1. SUFFICES ASSUME NEW r \in Resource, state[r] # None
                   PROVE  Read(state[r], reply[r]) \in Model \union {None}
          OBVIOUS
    <3>2. state[r] \in Model /\ reply[r] \in Reply /\ pc[r] = "refresh" /\ PhaseOK(r)
          BY <1>0, <1>2, <3>1 DEF FinishRefresh, IsRefreshed, ProviderType
    <3>3. reply[r].kind = "ok" => reply[r].section # None /\ reply[r].iface # None
          BY <3>2, SentinelAssumption DEF PhaseOK
    <3>4. QED BY <3>2, <3>3, ReadType
  <2>2. state' \in [Resource -> Model \union {None}] /\ tainted' \subseteq Resource
        BY <1>0, <1>2, <2>1 DEF FinishRefresh, ProviderType
  <2>3. \A r \in Resource : PhaseOK(r)'
        BY <1>0, <1>2 DEF FinishRefresh, IsRefreshed, ProviderType, PhaseOK, ScriptOK
  <2>4. QED BY <1>0, <1>2, <2>2, <2>3 DEF FinishRefresh, ProviderType, Phase
<1>3. CASE AbortRefresh
  <2>1. \A r \in Resource : PhaseOK(r)'
        BY <1>0, <1>3 DEF AbortRefresh, IsRefreshed, ProviderType, PhaseOK, ScriptOK
  <2>2. QED BY <1>0, <1>3, <2>1 DEF AbortRefresh, ProviderType, Phase
<1>4. QED BY <1>1, <1>2, <1>3 DEF StartRun, FinishRefresh, AbortRefresh

LEMMA OperatorType ==
    ASSUME TypeInv, NEW r \in Resource, Operator(r)
    PROVE  ProviderType' /\ UNCHANGED <<device, faults>> /\ CountersType'
<1>0. ProviderType /\ CountersType
      BY TypeParts
<1>1. ASSUME NEW c \in Blocks[r] \union {None}, ConfigChange(r, c)
      PROVE  ProviderType' /\ UNCHANGED <<device, faults>> /\ CountersType'
  <2>1. c \in Model \union {None}
        BY <1>1, DataAssumption
  <2>2. \A q \in Resource : PhaseOK(q)'
        BY <1>0, <1>1 DEF ConfigChange, ProviderType, PhaseOK, ScriptOK
  <2>3. QED BY <1>0, <1>1, <2>1, <2>2, BoundAssumption
        DEF ConfigChange, ProviderType, CountersType
<1>2. ASSUME NEW s \in Section, ImportState(r, s)
      PROVE  ProviderType' /\ UNCHANGED <<device, faults>> /\ CountersType'
  <2> DEFINE m == [section |-> s, device |-> Blank, descr |-> None, addr |-> None]
  <2>1. m \in Model
        BY DEF Model
  <2>2. Run(r, "import", "read", m) /\ UNCHANGED <<config, state, tainted, device, faults>>
        BY <1>2 DEF ImportState
  <2>3. CountersType'
        BY <1>0, <1>2, BoundAssumption DEF ImportState, CountersType
  <2> HIDE DEF m
  <2>4. ProviderType'
        BY <1>0, <2>1, <2>2, RunType DEF Op
  <2>5. QED BY <2>2, <2>3, <2>4
<1>3. QED BY <1>1, <1>2 DEF Operator

\* What p wrote, or commanded, is well typed.
LEMMA WriteConfigType ==
    ASSUME DeviceType, NEW p \in Script, ScriptOK(p), p.seen # None, NEW w \in Written(p),
           WriteConfig(p, w[1])
    PROVE  xml' \in Table /\ undone' \in BOOLEAN /\ w[2] \in Section \union {None}
<1>1. w[1] \in Table /\ w[2] \in Section \union {None}
      BY WrittenType DEF DeviceType
<1>2. undone' \in BOOLEAN
      BY DEF WriteConfig
<1>3. QED BY <1>1, <1>2 DEF WriteConfig

\* A script that has read config.xml, or starts over, is a script.
LEMMA SeenType ==
    ASSUME NEW p \in Script, ScriptOK(p), NEW t \in Table \union {None}
    PROVE  /\ [p EXCEPT !.seen = t] \in Script /\ ScriptOK([p EXCEPT !.seen = t])
           /\ [p EXCEPT !.seen = t] # None
<1>1. [p EXCEPT !.seen = t] \in Script
      BY DEF Script
<1>2. QED BY <1>1, SentinelAssumption DEF ScriptOK, Script

LEMMA AbandonType ==
    ASSUME DeviceType, NEW S \in SUBSET Script, \A p \in S : ScriptOK(p), Abandon(S),
           UNCHANGED <<xml, running, undone>>
    PROVE  DeviceType'
BY DEF Abandon, DeviceType

\* r's command is replaced by the same one, with what it has read.
LEMMA RewireType ==
    ASSUME ProviderType, NEW r \in Resource, wire[r] # None, NEW t \in Table \union {None},
           wire' = [wire EXCEPT ![r].seen = t],
           UNCHANGED <<config, state, tainted, pc, model, reply>>
    PROVE  ProviderType'
<1> DEFINE p == [wire[r] EXCEPT !.seen = t]
<1>1. wire[r] \in Script /\ ScriptOK(wire[r])
      BY DEF ProviderType, PhaseOK
<1>2. p \in Script /\ ScriptOK(p) /\ p # None /\ p.op = wire[r].op
      BY <1>1, SeenType DEF Script
<1>3. wire' = [wire EXCEPT ![r] = p]
      OBVIOUS
<1> HIDE DEF p
<1>4. PhaseOK(r)'
      BY <1>2, <1>3 DEF ProviderType, PhaseOK, ScriptOK
<1>5. \A q \in Resource \ {r} : PhaseOK(q)'
      BY <1>3 DEF ProviderType, PhaseOK, ScriptOK
<1>6. QED BY <1>2, <1>3, <1>4, <1>5 DEF ProviderType

LEMMA ServeType ==
    ASSUME TypeInv, NEW r \in Resource, Serve(r)
    PROVE  ProviderType' /\ DeviceType' /\ UNCHANGED <<faults, edits>>
<1>0. ProviderType /\ DeviceType
      BY TypeParts
<1>1. wire[r] # None /\ wire[r] \in Script /\ ScriptOK(wire[r]) /\ PhaseOK(r)
      BY <1>0 DEF Serve, ServeRead, Parse, Write, Configctl, ProviderType, PhaseOK
<1>2. CASE ServeRead(r)
  <2>1. UNCHANGED <<config, state, tainted, pc, model, device, faults, edits>>
        BY <1>2 DEF ServeRead
  <2>2. DeviceType'
        BY <1>0, <2>1 DEF DeviceType, device
  <2>3. CASE Locate(xml, wire[r].m) = {}
    <3>1. Respond(r, Answer("absent", None, None))
          BY <1>2, <2>3 DEF ServeRead
    <3>2. Answer("absent", None, None).kind = "absent"
          BY DEF Answer
    <3>3. QED BY <1>0, <1>1, <2>1, <2>2, <3>1, <3>2, AnswerType, RespondType
  <2>4. CASE Locate(xml, wire[r].m) # {}
    <3>1. PICK s \in Locate(xml, wire[r].m) : Respond(r, Answer("ok", s, xml[s]))
          BY <1>2, <2>4 DEF ServeRead
    <3>2. s \in Section /\ xml[s] \in Iface /\ xml[s] # None /\ s # None
          BY <1>0, <1>1, LocateType, SentinelAssumption DEF DeviceType, Script
    <3>3. Answer("ok", s, xml[s]).section = s /\ Answer("ok", s, xml[s]).iface = xml[s]
          BY DEF Answer
    <3>4. QED BY <1>0, <1>1, <2>1, <2>2, <3>1, <3>2, <3>3, AnswerType, RespondType
  <2>5. QED BY <2>1, <2>3, <2>4
<1>3. CASE Parse(r)
  <2>1. xml \in Table \union {None} /\ wire' = [wire EXCEPT ![r].seen = xml]
        /\ UNCHANGED <<config, state, tainted, pc, model, reply, device, faults, edits>>
        BY <1>0, <1>3 DEF Parse, DeviceType
  <2>2. DeviceType'
        BY <1>0, <2>1 DEF DeviceType, device
  <2>3. QED BY <1>0, <1>1, <2>1, <2>2, RewireType
<1>4. CASE Write(r)
  <2>1. /\ wire[r].seen # None /\ Writes(wire[r])
        /\ UNCHANGED <<config, state, tainted, pc, model, orphans, running, faults, edits>>
        BY <1>4 DEF Write
  <2>2. PICK w \in Written(wire[r]) :
          WriteConfig(wire[r], w[1]) /\ Respond(r, Answer("ok", w[2], None))
        BY <1>4 DEF Write
  <2>3. xml' \in Table /\ undone' \in BOOLEAN /\ w[2] \in Section \union {None}
        BY <1>0, <1>1, <2>1, <2>2, WriteConfigType
  <2>4. DeviceType'
        BY <1>0, <2>1, <2>3 DEF DeviceType
  <2>5. pc[r] \notin {"refresh", "import"}
        BY <1>1, <2>1 DEF PhaseOK, Writes
  <2>6. QED BY <1>0, <1>1, <2>1, <2>2, <2>3, <2>4, <2>5, AnswerType, RespondType
<1>5. CASE Configctl(r)
  <2>1. /\ Commands(wire[r]) /\ running' = Commanded(wire[r])
        /\ Respond(r, Answer("ok", None, None))
        /\ UNCHANGED <<config, state, tainted, pc, model, orphans, xml, undone, faults, edits>>
        BY <1>5 DEF Configctl
  <2>2. running' \in Table
        BY <1>0, <1>1, <2>1, CommandedType DEF DeviceType
  <2>3. DeviceType'
        BY <1>0, <2>1, <2>2 DEF DeviceType
  <2>4. pc[r] \notin {"refresh", "import"}
        BY <1>1, <2>1 DEF PhaseOK, Commands
  <2>5. QED BY <1>0, <1>1, <2>1, <2>3, <2>4, AnswerType, RespondType
<1>6. QED BY <1>2, <1>3, <1>4, <1>5 DEF Serve

LEMMA NetworkType ==
    ASSUME TypeInv, NEW r \in Resource, Network(r)
    PROVE  ProviderType' /\ DeviceType' /\ CountersType'
<1>0. ProviderType /\ DeviceType /\ CountersType
      BY TypeParts
<1>1. wire[r] # None /\ wire[r] \in Script /\ ScriptOK(wire[r]) /\ PhaseOK(r)
      BY <1>0 DEF Network, Break, Retry, Silent, ProviderType, PhaseOK
<1>2. CountersType'
      BY <1>0, BoundAssumption DEF CountersType, Network, Break, Retry, Silent, Fault
<1>3. CASE Break(r)
  <2>1. /\ Abandon({wire[r]}) /\ Respond(r, Answer("error", None, None))
        /\ UNCHANGED <<config, state, tainted, pc, model, xml, running, undone>>
        BY <1>3 DEF Break
  <2>2. DeviceType'
        BY <1>0, <1>1, <2>1, AbandonType
  <2>3. Answer("error", None, None).kind = "error"
        BY DEF Answer
  <2>4. QED BY <1>0, <1>1, <1>2, <2>1, <2>2, <2>3, AnswerType, RespondType
<1>4. CASE Retry(r)
  <2>1. /\ Abandon({wire[r]}) /\ wire' = [wire EXCEPT ![r].seen = None]
        /\ UNCHANGED <<config, state, tainted, pc, model, reply, xml, running, undone>>
        BY <1>4 DEF Retry
  <2>2. DeviceType'
        BY <1>0, <1>1, <2>1, AbandonType
  <2>3. QED BY <1>0, <1>1, <1>2, <2>1, <2>2, RewireType
<1>5. CASE Silent(r)
  <2>1. UNCHANGED <<config, state, tainted, pc, model, orphans, running>>
        BY <1>5 DEF Silent
  <2>2. CASE Respond(r, Answer("absent", None, None)) /\ UNCHANGED <<xml, undone>>
    <3>1. Answer("absent", None, None).kind = "absent"
          BY DEF Answer
    <3>2. DeviceType'
          BY <1>0, <2>1, <2>2 DEF DeviceType
    <3>3. QED BY <1>0, <1>1, <1>2, <2>1, <2>2, <3>1, <3>2, AnswerType, RespondType
  <2>3. CASE /\ wire[r].op = "apply" /\ wire[r].seen # None
             /\ \E w \in Written(wire[r]) : WriteConfig(wire[r], w[1])
             /\ Respond(r, Answer("ok", None, None))
    <3>1. xml' \in Table /\ undone' \in BOOLEAN
          BY <1>0, <1>1, <2>3, WriteConfigType
    <3>2. DeviceType'
          BY <1>0, <2>1, <3>1 DEF DeviceType
    <3>3. pc[r] \notin {"refresh", "import"}
          BY <1>1, <2>3 DEF PhaseOK
    <3>4. QED BY <1>0, <1>1, <1>2, <2>1, <2>3, <3>2, <3>3, AnswerType, RespondType
  <2>4. QED BY <1>5, <2>2, <2>3 DEF Silent
<1>6. QED BY <1>3, <1>4, <1>5 DEF Network

LEMMA WorldType ==
    ASSUME TypeInv, (\E p \in orphans : OrphanStep(p)) \/ Crash \/ Administrator
    PROVE  ProviderType' /\ DeviceType' /\ CountersType'
<1>0. ProviderType /\ DeviceType /\ CountersType
      BY TypeParts
<1>1. ASSUME UNCHANGED provider PROVE ProviderType'
      BY <1>0, <1>1 DEF provider, ProviderType, PhaseOK, ScriptOK
<1>2. ASSUME NEW p \in orphans, OrphanStep(p) PROVE DeviceType'
  <2>1. p \in Script /\ ScriptOK(p)
        BY <1>0, <1>2 DEF DeviceType
  <2>2. CASE /\ orphans' = (orphans \ {p}) \union {[p EXCEPT !.seen = xml]}
             /\ UNCHANGED <<xml, running, undone>>
    <3>1. [p EXCEPT !.seen = xml] \in Script /\ ScriptOK([p EXCEPT !.seen = xml])
          BY <1>0, <2>1, SeenType DEF DeviceType
    <3>2. QED BY <1>0, <2>2, <3>1 DEF DeviceType
  <2>3. CASE /\ p.seen # None /\ \E w \in Written(p) : WriteConfig(p, w[1])
             /\ orphans' = orphans \ {p} /\ UNCHANGED running
    <3>1. xml' \in Table /\ undone' \in BOOLEAN
          BY <1>0, <2>1, <2>3, WriteConfigType
    <3>2. QED BY <1>0, <2>3, <3>1 DEF DeviceType
  <2>4. CASE /\ Commands(p) /\ running' = Commanded(p)
             /\ orphans' = orphans \ {p} /\ UNCHANGED <<xml, undone>>
    <3>1. running' \in Table
          BY <1>0, <2>1, <2>4, CommandedType DEF DeviceType
    <3>2. QED BY <1>0, <2>4, <3>1 DEF DeviceType
  <2>5. QED BY <1>2, <2>2, <2>3, <2>4 DEF OrphanStep
<1>3. CASE \E p \in orphans : OrphanStep(p)
      BY <1>0, <1>1, <1>2, <1>3 DEF OrphanStep, CountersType
<1>4. CASE Crash
  <2>1. Abandon({wire[r] : r \in Resource} \ {None}) /\ UNCHANGED <<xml, running, undone>>
        BY <1>4 DEF Crash
  <2>2. \A p \in {wire[r] : r \in Resource} \ {None} : p \in Script /\ ScriptOK(p)
        BY <1>0 DEF ProviderType, PhaseOK
  <2>3. {wire[r] : r \in Resource} \ {None} \in SUBSET Script
        BY <2>2
  <2>4. DeviceType'
        BY <1>0, <2>1, <2>2, <2>3, AbandonType
  <2>5. \A r \in Resource : PhaseOK(r)'
        BY <1>4 DEF Crash, PhaseOK
  <2>6. ProviderType'
        BY <1>0, <1>4, <2>5 DEF Crash, ProviderType, Phase
  <2>7. CountersType'
        BY <1>0, <1>4, BoundAssumption DEF Crash, Fault, CountersType
  <2>8. QED BY <2>4, <2>6, <2>7
<1>5. CASE Administrator
  <2>1. CountersType' /\ UNCHANGED <<provider, orphans, undone>>
        BY <1>0, <1>5, BoundAssumption DEF Administrator, AdminEdit, AdminDelete, CountersType
  <2>2. xml' \in Table /\ running' \in Table
    <3>1. ASSUME NEW s \in Admin, AdminDelete(s) PROVE xml' \in Table /\ running' \in Table
          BY <1>0, <3>1, DataAssumption DEF AdminDelete, DeviceType, Table
    <3>2. ASSUME NEW s \in Admin, NEW a \in Addr, AdminEdit(s, a)
          PROVE  xml' \in Table /\ running' \in Table
      <4> DEFINE f == [xml[s] EXCEPT !.addr = a]
      <4>1. s \in Section /\ xml[s] \in Iface
            BY <1>0, <3>2, DataAssumption DEF AdminEdit, DeviceType, Table
      <4>2. f \in Iface
            BY <4>1 DEF Iface
      <4>3. xml' = [xml EXCEPT ![s] = f] /\ running' = [running EXCEPT ![s] = xml'[s]]
            BY <3>2 DEF AdminEdit
      <4> HIDE DEF f
      <4>4. QED BY <1>0, <4>1, <4>2, <4>3 DEF DeviceType, Table
    <3>3. QED BY <1>5, <3>1, <3>2 DEF Administrator
  <2>3. DeviceType'
        BY <1>0, <2>1, <2>2 DEF DeviceType
  <2>4. QED BY <1>1, <2>1, <2>3
<1>6. QED BY <1>3, <1>4, <1>5

LEMMA TypeStep == TypeInv /\ [Next]_vars => TypeInv'
<1> SUFFICES ASSUME TypeInv, [Next]_vars PROVE TypeInv'
    OBVIOUS
<1>0. ProviderType /\ DeviceType /\ CountersType
      BY TypeParts
<1>1. TypeInv' <=> ProviderType' /\ DeviceType' /\ CountersType'
      BY TypeParts DEF TypeInv, TypeOK, ProviderType, DeviceType, CountersType
<1>2. ASSUME UNCHANGED device PROVE DeviceType'
      BY <1>0, <1>2 DEF DeviceType, device
<1>3. ASSUME UNCHANGED <<faults, edits>> PROVE CountersType'
      BY <1>0, <1>3 DEF CountersType
<1>4. CASE StartRun \/ FinishRefresh \/ AbortRefresh
      BY <1>1, <1>2, <1>3, <1>4, RunsType
<1>5. ASSUME NEW r \in Resource, Handler(r) PROVE TypeInv'
      BY <1>1, <1>2, <1>3, <1>5, HandlerType
<1>6. ASSUME NEW r \in Resource, Operator(r) PROVE TypeInv'
      BY <1>1, <1>2, <1>6, OperatorType
<1>7. ASSUME NEW r \in Resource, Serve(r) PROVE TypeInv'
      BY <1>1, <1>3, <1>7, ServeType
<1>8. ASSUME NEW r \in Resource, Network(r) PROVE TypeInv'
      BY <1>1, <1>8, NetworkType
<1>9. CASE (\E p \in orphans : OrphanStep(p)) \/ Crash \/ Administrator
      BY <1>1, <1>9, WorldType
<1>10. CASE UNCHANGED vars
  <2>1. ProviderType'
        BY <1>0, <1>10 DEF vars, provider, ProviderType, PhaseOK, ScriptOK
  <2>2. QED BY <1>1, <1>2, <1>3, <1>10, <2>1 DEF vars
<1>11. QED BY <1>4, <1>5, <1>6, <1>7, <1>8, <1>9, <1>10 DEF Next

LEMMA TypeInvariant == Spec => []TypeInv
BY InitType, TypeStep, PTL DEF Spec

\* Every variable keeps its type: an apply that ends without an echo still has
\* a section, a refresh finds an interface or nothing, and whatever scripts
\* overlap or go on unattended, config.xml stays a table of interfaces.
THEOREM TypeCorrect == Spec => []TypeOK
<1>1. TypeInv => TypeOK
      BY DEF TypeInv
<1>2. QED BY <1>1, TypeInvariant, PTL

-----------------------------------------------------------------------------
(* The commands on the firewall and the tables they have read.             *)

Scripts == orphans \union ({wire[r] : r \in Resource} \ {None})
Tables  == {xml} \union ({p.seen : p \in Scripts} \ {None})

\* p was started by this step: it has read nothing, and carries r's model, or
\* what is tracked when it is a refresh.
Started(p, r) ==
    /\ p.seen = None
    /\ \/ p.m = model'[r] /\ model'[r] # None /\ (p.op = "read") = (pc'[r] = "import")
       \/ p.m = state[r] /\ state[r] # None /\ p.op = "read"

\* A command is an earlier one, with what it has read, or was started.
LEMMA ScriptsStep ==
    ASSUME TypeInv, [Next]_vars, NEW p \in Scripts'
    PROVE  \/ p \in Scripts
           \/ \E q \in Scripts : \E t \in {None, xml} : p = [q EXCEPT !.seen = t]
           \/ \E r \in Resource : Started(p, r)
<1>0. ProviderType /\ DeviceType
      BY TypeParts
<1>1. ASSUME UNCHANGED <<orphans, wire>> PROVE p \in Scripts
      BY <1>1 DEF Scripts
<1>2. ASSUME NEW r \in Resource, wire' = [wire EXCEPT ![r] = None], orphans' \subseteq Scripts
      PROVE  p \in Scripts
      BY <1>0, <1>2 DEF Scripts, ProviderType
<1>3. ASSUME NEW r \in Resource, NEW phase, NEW op, NEW m, Run(r, phase, op, m),
             UNCHANGED orphans, m # None, (op = "read") = (phase = "import")
      PROVE  p \in Scripts \/ Started(p, r)
  <2>1. p \in Scripts \/ p = wire'[r]
        BY <1>0, <1>3 DEF Scripts, Run, ProviderType
  <2>2. wire'[r] = [op |-> op, m |-> m, seen |-> None] /\ model'[r] = m /\ pc'[r] = phase
        BY <1>0, <1>3 DEF Run, ProviderType
  <2>3. QED BY <1>3, <2>1, <2>2 DEF Started
<1>4. ASSUME NEW r \in Resource, NEW t \in {None, xml}, wire[r] # None,
             wire' = [wire EXCEPT ![r].seen = t], orphans' \subseteq Scripts
      PROVE  p \in Scripts \/ \E q \in Scripts : p = [q EXCEPT !.seen = t]
  <2>1. wire[r] \in Scripts
        BY <1>4 DEF Scripts
  <2>2. p \in Scripts \/ p = [wire[r] EXCEPT !.seen = t]
        BY <1>0, <1>4 DEF Scripts, ProviderType
  <2>3. QED BY <2>1, <2>2
<1>5. ASSUME NEW S \in SUBSET Scripts, Abandon(S) PROVE orphans' \subseteq Scripts
      BY <1>5 DEF Abandon, Scripts
<1>6. \A r \in Resource : wire[r] # None => wire[r] \in Scripts
      BY DEF Scripts
<1>7. CASE StartRun
      BY <1>0, <1>7 DEF StartRun, Scripts, Started, device
<1>8. CASE FinishRefresh \/ AbortRefresh \/ Administrator \/ UNCHANGED vars
      BY <1>1, <1>8 DEF FinishRefresh, AbortRefresh, Administrator, AdminEdit, AdminDelete,
         vars, provider, device
<1>9. ASSUME NEW r \in Resource, Handler(r) PROVE p \in Scripts \/ Started(p, r)
  <2>1. UNCHANGED orphans /\ orphans \subseteq Scripts
        BY <1>9, HandlerType DEF device, Scripts
  <2>2. ASSUME NEW new, NEW next, Return(r, new, next) PROVE p \in Scripts
        BY <1>2, <2>1, <2>2 DEF Return
  <2>3. ASSUME Fail(r) PROVE p \in Scripts
        BY <2>2, <2>3 DEF Fail
  <2>4. CASE NoChange(r)
        BY <2>3, <2>4 DEF NoChange
  <2>5. CASE applyAssign(r)
        BY <1>3, <2>1, <2>5 DEF applyAssign, Creates, Updates
  <2>6. CASE ApplyReturns(r)
    <3>1. CASE reply[r].kind = "error"
          BY <2>3, <2>6, <3>1 DEF ApplyReturns
    <3>2. CASE reply[r].kind # "error"
      <4> DEFINE m == [model[r] EXCEPT !.section = IF reply[r].section = None THEN @ ELSE reply[r].section]
      <4>1. Run(r, "realize", "realize", m)
            BY <2>6, <3>2 DEF ApplyReturns
      <4>2. model[r] \in Model /\ reply[r].section \in Section \union {None}
            BY <1>0, <2>6 DEF ApplyReturns, ProviderType, PhaseOK, Reply
      <4>3. m \in Model
            BY <4>2 DEF Model
      <4> HIDE DEF m
      <4>4. QED BY <1>3, <2>1, <4>1, <4>3, SentinelAssumption
    <3>3. QED BY <3>1, <3>2
  <2>7. CASE RealizeReturns(r)
        BY <2>2, <2>3, <2>7 DEF RealizeReturns
  <2>8. CASE Delete(r)
        BY <1>3, <2>1, <2>8 DEF Delete, Deletes
  <2>9. CASE StopReturns(r)
    <3>1. model[r] # None
          BY <1>0, <2>9 DEF StopReturns, ProviderType, PhaseOK
    <3>2. QED BY <1>3, <2>1, <2>9, <3>1 DEF StopReturns
  <2>10. CASE DeleteReturns(r)
        BY <2>2, <2>3, <2>10 DEF DeleteReturns
  <2>11. CASE ImportReturns(r)
        BY <2>2, <2>3, <2>11 DEF ImportReturns
  <2>12. QED BY <1>9, <2>4, <2>5, <2>6, <2>7, <2>8, <2>9, <2>10, <2>11 DEF Handler
<1>10. ASSUME NEW r \in Resource, Operator(r) PROVE p \in Scripts \/ Started(p, r)
  <2>1. ASSUME NEW c, ConfigChange(r, c) PROVE p \in Scripts
        BY <1>1, <2>1 DEF ConfigChange, device
  <2>2. ASSUME NEW s \in Section, ImportState(r, s) PROVE p \in Scripts \/ Started(p, r)
    <3> DEFINE m == [section |-> s, device |-> Blank, descr |-> None, addr |-> None]
    <3>1. m \in Model
          BY DEF Model
    <3>2. Run(r, "import", "read", m) /\ UNCHANGED orphans
          BY <2>2 DEF ImportState, device
    <3> HIDE DEF m
    <3>3. QED BY <1>3, <3>1, <3>2, SentinelAssumption
  <2>3. QED BY <1>10, <2>1, <2>2 DEF Operator
<1>11. ASSUME NEW r \in Resource, Serve(r)
       PROVE  p \in Scripts \/ \E q \in Scripts : p = [q EXCEPT !.seen = xml]
  <2>1. UNCHANGED orphans /\ orphans \subseteq Scripts
        BY <1>11 DEF Serve, ServeRead, Parse, Write, Configctl, device, Scripts
  <2>2. CASE Parse(r)
        BY <1>4, <2>1, <2>2 DEF Parse
  <2>3. CASE ServeRead(r) \/ Write(r) \/ Configctl(r)
    <3>1. wire' = [wire EXCEPT ![r] = None]
          BY <2>3 DEF ServeRead, Write, Configctl, Respond
    <3>2. QED BY <1>2, <2>1, <3>1
  <2>4. QED BY <1>11, <2>2, <2>3 DEF Serve
<1>12. ASSUME NEW r \in Resource, Network(r)
       PROVE  p \in Scripts \/ \E q \in Scripts : p = [q EXCEPT !.seen = None]
  <2>1. wire[r] # None /\ {wire[r]} \subseteq Scripts /\ orphans \subseteq Scripts
        BY <1>6, <1>12 DEF Network, Break, Retry, Silent, Scripts
  <2>2. CASE Break(r) \/ Silent(r)
    <3>1. wire' = [wire EXCEPT ![r] = None] /\ orphans' \subseteq Scripts
          BY <1>5, <2>1, <2>2 DEF Break, Silent, Respond
    <3>2. QED BY <1>2, <3>1
  <2>3. CASE Retry(r)
        BY <1>4, <1>5, <2>1, <2>3 DEF Retry
  <2>4. QED BY <1>12, <2>2, <2>3 DEF Network
<1>13. ASSUME NEW o \in orphans, OrphanStep(o)
       PROVE  p \in Scripts \/ \E q \in Scripts : p = [q EXCEPT !.seen = xml]
  <2>1. o \in Scripts /\ wire' = wire
        BY <1>13 DEF OrphanStep, provider, Scripts
  <2>2. orphans' \subseteq orphans \union {[o EXCEPT !.seen = xml]}
        BY <1>13 DEF OrphanStep
  <2>3. QED BY <2>1, <2>2 DEF Scripts
<1>14. CASE Crash
  <2>1. orphans' \subseteq Scripts
    <3>1. ({wire[r] : r \in Resource} \ {None}) \in SUBSET Scripts
          BY DEF Scripts
    <3>2. QED BY <1>5, <1>14, <3>1 DEF Crash
  <2>2. \A r \in Resource : wire'[r] = None
        BY <1>14 DEF Crash
  <2>3. QED BY <2>1, <2>2 DEF Scripts
<1>15. QED BY <1>7, <1>8, <1>9, <1>10, <1>11, <1>12, <1>13, <1>14 DEF Next

\* config.xml is what it was, or what a script or an administrator made of a
\* table; a script that had read another one undoes a change.
LEMMA XmlStep ==
    ASSUME TypeInv, [Next]_vars
    PROVE  \/ xml' = xml
           \/ \E p \in Scripts : /\ p.seen # None /\ Writes(p) /\ \E w \in Written(p) : xml' = w[1]
                                 /\ (p.seen # xml /\ xml' # xml) => undone'
           \/ \E s \in Admin : /\ xml[s] # None /\ edits' # edits
                               /\ \/ xml' = [xml EXCEPT ![s] = None]
                                  \/ \E a \in Addr : xml' = [xml EXCEPT ![s].addr = a]
<1>1. CASE StartRun \/ FinishRefresh \/ AbortRefresh \/ Crash \/ UNCHANGED vars
      BY <1>1 DEF StartRun, FinishRefresh, AbortRefresh, Crash, vars, device
<1>2. ASSUME NEW r \in Resource, Handler(r) \/ Operator(r) PROVE xml' = xml
      BY <1>2, HandlerType, OperatorType DEF device
<1>3. ASSUME NEW r \in Resource, Serve(r) \/ Network(r)
      PROVE  \/ xml' = xml
             \/ \E p \in Scripts : /\ p.seen # None /\ Writes(p) /\ \E w \in Written(p) : xml' = w[1]
                                   /\ (p.seen # xml /\ xml' # xml) => undone'
  <2>1. wire[r] \in Scripts
        BY <1>3 DEF Serve, ServeRead, Parse, Write, Configctl, Network, Break, Retry, Silent, Scripts
  <2>2. QED BY <1>3, <2>1 DEF Serve, ServeRead, Parse, Write, Configctl, Network, Break, Retry,
           Silent, WriteConfig, Writes, device
<1>4. ASSUME NEW p \in orphans, OrphanStep(p)
      PROVE  \/ xml' = xml
             \/ /\ p.seen # None /\ Writes(p) /\ \E w \in Written(p) : xml' = w[1]
                /\ (p.seen # xml /\ xml' # xml) => undone'
      BY <1>4 DEF OrphanStep, WriteConfig
<1>5. CASE Administrator
  <2>1. edits \in Nat
        BY TypeParts DEF CountersType
  <2>2. QED BY <1>5, <2>1 DEF Administrator, AdminEdit, AdminDelete
<1>6. QED BY <1>1, <1>2, <1>3, <1>4, <1>5 DEF Next, Scripts

\* A property of tables holds of all of them if it holds of config.xml and of
\* what the commands had read before the step.
LEMMA TablesStep ==
    ASSUME TypeInv, [Next]_vars, NEW t \in Tables'
    PROVE  t = xml' \/ t \in Tables
<1>1. SUFFICES ASSUME NEW p \in Scripts', p.seen # None, t = p.seen
               PROVE  t \in Tables
      BY DEF Tables
<1>2. ASSUME p \in Scripts PROVE t \in Tables
      BY <1>1, <1>2 DEF Tables
<1>3. ASSUME NEW q \in Scripts, NEW u \in {None, xml}, p = [q EXCEPT !.seen = u]
      PROVE  t \in Tables
  <2>1. q \in Script
        BY TypeParts DEF Scripts, ProviderType, DeviceType
  <2>2. p.seen = u
        BY <1>3, <2>1 DEF Script
  <2>3. QED BY <1>1, <2>2 DEF Tables
<1>4. ASSUME NEW r \in Resource, Started(p, r) PROVE t \in Tables
      BY <1>1, <1>4 DEF Started
<1>5. QED BY <1>2, <1>3, <1>4, ScriptsStep

-----------------------------------------------------------------------------
(* A device is bound once.                                                 *)

BoundInv == TypeInv /\ \A t \in Tables : Unambiguous(t)

\* An apply works on the section that binds its device, if there is one.
LEMMA AppliedUnambiguous ==
    ASSUME NEW t \in Table, Unambiguous(t), NEW m \in Model, NEW s \in Resolve(t, m)
    PROVE  Unambiguous(Applied(t, s, m))
<1>1. s \in Section
      BY DEF Resolve, WithDevice, WithDescr, Model
<1>2. \A s1 \in Section \ {s} : t[s1] # None => t[s1].device # m.device
  <2>1. CASE WithDevice(t, m.device) # {}
        BY <1>1, <2>1 DEF Resolve, WithDevice, Unambiguous
  <2>2. CASE WithDevice(t, m.device) = {}
        BY <2>2 DEF WithDevice
  <2>3. QED BY <2>1, <2>2
<1>3. \A s1 \in Section : Applied(t, s, m)[s1] =
        IF s1 = s THEN [device |-> m.device, descr |-> Text(m.descr), addr |-> Text(m.addr)]
                  ELSE t[s1]
      BY <1>1 DEF Applied, Table
<1>4. QED BY <1>2, <1>3 DEF Unambiguous

\* Taking a section away, or changing its address, binds nothing.
LEMMA LessUnambiguous ==
    ASSUME NEW t \in Table, Unambiguous(t), NEW s \in Section, NEW u,
           \/ u = [t EXCEPT ![s] = None]
           \/ t[s] # None /\ \E a : u = [t EXCEPT ![s].addr = a]
    PROVE  Unambiguous(u)
<1>1. CASE u = [t EXCEPT ![s] = None]
      BY <1>1 DEF Unambiguous, Table
<1>2. ASSUME NEW a, t[s] # None, u = [t EXCEPT ![s].addr = a] PROVE Unambiguous(u)
  <2>1. t[s] \in Iface
        BY <1>2 DEF Table
  <2>2. \A s1 \in Section : u[s1] = IF s1 = s THEN [t[s] EXCEPT !.addr = a] ELSE t[s1]
        BY <1>2 DEF Table
  <2>3. [t[s] EXCEPT !.addr = a].device = t[s].device
        BY <2>1 DEF Iface
  <2>4. QED BY <1>2, <2>2, <2>3 DEF Unambiguous
<1>3. QED BY <1>1, <1>2

LEMMA BoundStep == BoundInv /\ TypeInv' /\ [Next]_vars => BoundInv'
<1> SUFFICES ASSUME BoundInv, TypeInv', [Next]_vars PROVE BoundInv'
    OBVIOUS
<1>1. TypeInv /\ xml \in Tables /\ Unambiguous(xml) /\ xml \in Table
      BY DEF BoundInv, Tables, TypeInv, TypeOK
<1>2. Unambiguous(xml')
  <2>1. CASE xml' = xml
        BY <1>1, <2>1
  <2>2. ASSUME NEW p \in Scripts, p.seen # None, Writes(p), NEW w \in Written(p), xml' = w[1]
        PROVE  Unambiguous(xml')
    <3>1. p \in Script /\ p.seen \in Table /\ p.m \in Model
          BY <1>1, <2>2, TypeParts DEF Scripts, ProviderType, DeviceType, Script
    <3>2. Unambiguous(p.seen)
          BY <2>2 DEF BoundInv, Tables
    <3>3. CASE p.op = "apply"
      <4>1. PICK s \in Resolve(p.seen, p.m) : w = <<Applied(p.seen, s, p.m), s>>
            BY <2>2, <3>3 DEF Written
      <4>2. QED BY <2>2, <3>1, <3>2, <4>1, AppliedUnambiguous
    <3>4. CASE p.op # "apply"
      <4>1. xml' = (IF p.seen[p.m.section] = None THEN xml
                    ELSE [p.seen EXCEPT ![p.m.section] = None])
            BY <2>2, <3>4 DEF Written
      <4>2. p.m.section \in Section
            BY <3>1 DEF Model
      <4>3. QED BY <1>1, <3>1, <3>2, <4>1, <4>2, LessUnambiguous
    <3>5. QED BY <3>3, <3>4
  <2>3. ASSUME NEW s \in Admin, xml[s] # None,
               \/ xml' = [xml EXCEPT ![s] = None]
               \/ \E a \in Addr : xml' = [xml EXCEPT ![s].addr = a]
        PROVE  Unambiguous(xml')
        BY <1>1, <2>3, DataAssumption, LessUnambiguous
  <2>4. QED BY <1>1, <2>1, <2>2, <2>3, XmlStep
<1>3. \A t \in Tables' : Unambiguous(t)
      BY <1>1, <1>2, TablesStep DEF BoundInv
<1>4. (\A t \in Tables : Unambiguous(t))'
      BY <1>3 DEF Unambiguous
<1>5. QED BY <1>4 DEF BoundInv

\* If no device is bound twice to begin with, none ever is: overlapping writes
\* of config.xml, retried applies and commands that go on after their
\* connection broke only ever write tables in which every device has one
\* section.
THEOREM BoundOnce ==
    ASSUME \A t \in Existing : Unambiguous(t)
    PROVE  Spec => []DeviceBoundOnce
<1>1. Init => \A t \in Tables : Unambiguous(t)
  <2>1. Init => Tables \subseteq {xml}
        BY DEF Init, Tables, Scripts
  <2>2. QED BY <2>1 DEF Init
<1>2. BoundInv => DeviceBoundOnce
      BY DEF BoundInv, DeviceBoundOnce, Tables
<1>3. QED BY <1>1, <1>2, InitType, TypeInvariant, BoundStep, PTL DEF Spec, BoundInv

-----------------------------------------------------------------------------
(* Interfaces no block has to do with.                                     *)

\* A search for m's device or description finds none of t's foreign sections.
Apart(t, m) ==
    \A s \in Foreign : t[s] # None =>
        /\ t[s].device # m.device
        /\ Text(m.descr) # Blank => t[s].descr # Text(m.descr)

\* No foreign section of t binds the device, or has the description, of another
\* section.
Separate(t) == \A s \in Section \ Foreign : t[s] # None => Apart(t, t[s])

\* Of t0's foreign sections t has some, with the device and the description
\* they had; the others are apart from them.
Preserves(t0, t) ==
    /\ \A s \in Foreign : t[s] # None =>
          t0[s] # None /\ t[s].device = t0[s].device /\ t[s].descr = t0[s].descr
    /\ \A s \in Section \ Foreign : t[s] # None => Apart(t0, t[s])

\* A model that is stored or acted upon has a section of its own, and neither
\* it nor an answer leads to a foreign one.
Clear(t0, m) == m.section \notin Foreign /\ Apart(t0, m)
ResourceClear(t0, r) ==
    /\ state[r] # None => Clear(t0, state[r])
    /\ model[r] # None => Apart(t0, model[r]) /\ (pc[r] # "import" => Clear(t0, model[r]))
    /\ reply[r] # None => /\ reply[r].section \notin Foreign
                          /\ reply[r].iface # None => Apart(t0, reply[r].iface)

ForeignInv(t0) ==
    /\ TypeInv
    /\ \A t \in Tables : Preserves(t0, t)
    /\ \A p \in Scripts : Apart(t0, p.m) /\ (p.op # "read" => Clear(t0, p.m))
    /\ \A r \in Resource : ResourceClear(t0, r)

LEMMA BlocksClear ==
    ASSUME NEW t0 \in Existing, NEW r \in Resource, NEW b \in Blocks[r]
    PROVE  Clear(t0, b)
<1>1. \A s \in Section :
         s = b.section \/ s \in WithDevice(t0, b.device) \/ s \in WithDescr(t0, b.descr)
           => s \notin Foreign
      BY DEF Foreign, Own, Territory
<1>2. b.section \in Section /\ b \in Model
      BY DataAssumption DEF Model
<1>3. Foreign \subseteq Section
      BY DEF Foreign
<1>4. Text(b.descr) # Blank => Text(b.descr) = b.descr
      BY DEF Text
<1>5. QED BY <1>1, <1>2, <1>3, <1>4 DEF Clear, Apart, WithDevice, WithDescr

\* What is looked for is found outside the foreign sections.
LEMMA FoundClear ==
    ASSUME NEW t0, NEW t \in Table, Preserves(t0, t), NEW m \in Model, Apart(t0, m), NEW s,
           s \in WithDevice(t, m.device) \/ s \in WithDescr(t, m.descr)
    PROVE  s \in Section \ Foreign /\ Apart(t0, t[s])
<1>1. Text(m.descr) # Blank => Text(m.descr) = m.descr
      BY DEF Text
<1>2. s \in Section /\ t[s] # None
      BY DEF WithDevice, WithDescr
<1>3. s \notin Foreign
      BY <1>1, <1>2 DEF Apart, Preserves, WithDevice, WithDescr
<1>4. QED BY <1>2, <1>3 DEF Preserves

LEMMA ReadClear ==
    ASSUME NEW t0, NEW m \in Model, NEW a \in Reply, a.kind = "ok" => a.section # None /\ a.iface # None,
           a.section \notin Foreign, a.iface # None => Apart(t0, a.iface), Read(m, a) # None
    PROVE  Clear(t0, Read(m, a))
<1>1. a.kind = "ok" /\ Read(m, a) = Refreshed(m, a.section, a.iface)
      BY DEF Read
<1>2. a.iface \in Iface /\ Apart(t0, a.iface)
      BY <1>1 DEF Reply
<1>3. a.iface.descr # None
      BY <1>2, SentinelAssumption DEF Iface
<1>4. Refreshed(m, a.section, a.iface).section = a.section
      /\ Refreshed(m, a.section, a.iface).device = a.iface.device
      /\ Refreshed(m, a.section, a.iface).descr \in {None, a.iface.descr}
      BY DEF Refreshed
<1>5. QED BY <1>1, <1>2, <1>3, <1>4 DEF Clear, Apart, Text

\* A model that is run, or stored, has to be clear.
LEMMA RunClear ==
    ASSUME ProviderType, NEW t0, NEW r \in Resource, NEW phase, NEW op, NEW m,
           Run(r, phase, op, m), UNCHANGED state, state[r] # None => Clear(t0, state[r]),
           Apart(t0, m), phase # "import" => Clear(t0, m)
    PROVE  ResourceClear(t0, r)'
<1>1. model'[r] = m /\ pc'[r] = phase /\ reply'[r] = None /\ state'[r] = state[r]
      BY DEF Run, ProviderType
<1>2. QED BY <1>1 DEF ResourceClear, Clear, Apart

LEMMA ReturnClear ==
    ASSUME ProviderType, NEW t0, NEW r \in Resource, NEW new, NEW next, Return(r, new, next),
           new # None => Clear(t0, new)
    PROVE  ResourceClear(t0, r)'
<1>1. model'[r] = None /\ reply'[r] = None /\ state'[r] = new
      BY DEF Return, ProviderType
<1>2. QED BY <1>1 DEF ResourceClear, Clear, Apart

LEMMA HandlerClear ==
    ASSUME NEW t0 \in Existing, ForeignInv(t0), NEW r \in Resource, Handler(r)
    PROVE  ResourceClear(t0, r)'
<1>0. ProviderType /\ ResourceClear(t0, r) /\ PhaseOK(r)
      BY TypeParts DEF ForeignInv, ProviderType
<1>1. /\ state[r] \in Model \union {None} /\ model[r] \in Model \union {None}
      /\ reply[r] \in Reply \union {None} /\ config[r] \in Blocks[r] \union {None}
      /\ state[r] # None => Clear(t0, state[r])
      BY <1>0 DEF ProviderType, ResourceClear
<1>2. ASSUME Fail(r) PROVE ResourceClear(t0, r)'
      BY <1>0, <1>1, <1>2, ReturnClear DEF Fail
<1>3. CASE NoChange(r)
      BY <1>2, <1>3 DEF NoChange
<1>4. CASE applyAssign(r)
  <2>1. Clear(t0, config[r]) /\ Apart(t0, config[r])
        BY <1>1, <1>4, BlocksClear DEF applyAssign, Creates, Updates, Clear
  <2>2. QED BY <1>0, <1>1, <1>4, <2>1, RunClear DEF applyAssign
<1>5. CASE ApplyReturns(r)
  <2>1. CASE reply[r].kind = "error"
        BY <1>2, <1>5, <2>1 DEF ApplyReturns
  <2>2. CASE reply[r].kind # "error"
    <3> DEFINE m == [model[r] EXCEPT !.section = IF reply[r].section = None THEN @ ELSE reply[r].section]
    <3>1. Run(r, "realize", "realize", m) /\ UNCHANGED state
          BY <1>5, <2>2 DEF ApplyReturns
    <3>2. /\ model[r] \in Model /\ Clear(t0, model[r]) /\ reply[r].section \notin Foreign
          BY <1>0, <1>1, <1>5 DEF ApplyReturns, PhaseOK, ResourceClear
    <3>3. m.device = model[r].device /\ m.descr = model[r].descr
          /\ m.section \in {model[r].section, reply[r].section}
          BY <3>2 DEF Model
    <3> HIDE DEF m
    <3>4. Clear(t0, m) /\ Apart(t0, m)
          BY <3>2, <3>3 DEF Clear, Apart
    <3>5. QED BY <1>0, <1>1, <3>1, <3>4, RunClear
  <2>3. QED BY <2>1, <2>2
<1>6. CASE RealizeReturns(r)
  <2>1. model[r] # None => Clear(t0, model[r])
        BY <1>0, <1>6 DEF RealizeReturns, ResourceClear
  <2>2. QED BY <1>0, <1>2, <1>6, <2>1, ReturnClear DEF RealizeReturns
<1>7. CASE Delete(r)
  <2>1. Clear(t0, state[r]) /\ Apart(t0, state[r])
        BY <1>1, <1>7 DEF Delete, Deletes, Clear
  <2>2. QED BY <1>0, <1>1, <1>7, <2>1, RunClear DEF Delete
<1>8. CASE StopReturns(r)
  <2>1. Clear(t0, model[r]) /\ Apart(t0, model[r])
        BY <1>0, <1>8 DEF StopReturns, PhaseOK, ResourceClear, Clear
  <2>2. QED BY <1>0, <1>1, <1>8, <2>1, RunClear DEF StopReturns
<1>9. CASE DeleteReturns(r)
      BY <1>0, <1>2, <1>9, ReturnClear DEF DeleteReturns
<1>10. CASE ImportReturns(r)
  <2>1. CASE reply[r].kind = "error"
        BY <1>2, <1>10, <2>1 DEF ImportReturns
  <2>2. CASE reply[r].kind # "error"
    <3>1. Return(r, Read(model[r], reply[r]), "idle")
          BY <1>10, <2>2 DEF ImportReturns
    <3>2. Read(model[r], reply[r]) # None => Clear(t0, Read(model[r], reply[r]))
      <4>1. model[r] \in Model /\ reply[r] \in Reply
            BY <1>0, <1>1, <1>10 DEF ImportReturns, PhaseOK
      <4>2. /\ reply[r].kind = "ok" => reply[r].section # None /\ reply[r].iface # None
            /\ reply[r].section \notin Foreign
            /\ reply[r].iface # None => Apart(t0, reply[r].iface)
            BY <1>0, <1>10 DEF ImportReturns, PhaseOK, ResourceClear
      <4>3. QED BY <4>1, <4>2, ReadClear
    <3>3. QED BY <1>0, <3>1, <3>2, ReturnClear
  <2>3. QED BY <2>1, <2>2
<1>11. QED BY <1>3, <1>4, <1>5, <1>6, <1>7, <1>8, <1>9, <1>10 DEF Handler

LEMMA RespondClear ==
    ASSUME ProviderType, NEW t0, NEW r \in Resource, ResourceClear(t0, r), NEW a, Respond(r, a),
           UNCHANGED <<state, pc, model>>, a.section \notin Foreign,
           a.iface # None => Apart(t0, a.iface)
    PROVE  ResourceClear(t0, r)'
<1>1. reply'[r] = a
      BY DEF Respond, ProviderType
<1>2. QED BY <1>1 DEF ResourceClear, Clear, Apart

LEMMA ServeClear ==
    ASSUME NEW t0 \in Existing, ForeignInv(t0), NEW r \in Resource, Serve(r) \/ Network(r)
    PROVE  ResourceClear(t0, r)'
<1>0. ProviderType /\ DeviceType /\ ResourceClear(t0, r)
      BY TypeParts DEF ForeignInv
<1>1. wire[r] # None /\ wire[r] \in Scripts /\ wire[r] \in Script
      BY <1>0 DEF Serve, ServeRead, Parse, Write, Configctl, Network, Break, Retry, Silent, Scripts,
         ProviderType
<1>2. wire[r].m \in Model /\ Apart(t0, wire[r].m) /\ (wire[r].op # "read" => Clear(t0, wire[r].m))
      BY <1>1 DEF ForeignInv, Script
<1>3. \A kind, s, f : Answer(kind, s, f).section = s /\ Answer(kind, s, f).iface = f
      BY DEF Answer
<1>4. None \notin Foreign
      BY SentinelAssumption DEF Foreign
<1>5. CASE ServeRead(r)
  <2>1. UNCHANGED <<state, pc, model>>
        BY <1>5 DEF ServeRead
  <2>2. CASE Locate(xml, wire[r].m) = {}
        BY <1>0, <1>3, <1>4, <1>5, <2>1, <2>2, RespondClear DEF ServeRead
  <2>3. CASE Locate(xml, wire[r].m) # {}
    <3>1. PICK s \in Locate(xml, wire[r].m) : Respond(r, Answer("ok", s, xml[s]))
          BY <1>5, <2>3 DEF ServeRead
    <3>2. s \in WithDevice(xml, wire[r].m.device) \/ s \in WithDescr(xml, wire[r].m.descr)
          BY DEF Locate
    <3>3. Preserves(t0, xml) /\ xml \in Table
          BY <1>0 DEF ForeignInv, Tables, DeviceType
    <3>4. s \notin Foreign /\ Apart(t0, xml[s])
          BY <1>2, <3>2, <3>3, FoundClear
    <3>5. QED BY <1>0, <1>3, <2>1, <3>1, <3>4, RespondClear
  <2>4. QED BY <2>2, <2>3
<1>6. CASE Parse(r) \/ Retry(r)
      BY <1>0, <1>6 DEF Parse, Retry, ResourceClear, Clear, Apart
<1>7. CASE Write(r)
  <2>1. PICK w \in Written(wire[r]) : Respond(r, Answer("ok", w[2], None))
        BY <1>7 DEF Write
  <2>2. w[2] \notin Foreign
    <3>1. CASE wire[r].op = "apply"
      <4>1. PICK s \in Resolve(wire[r].seen, wire[r].m) : w[2] = s
            BY <3>1 DEF Written
      <4>2. /\ wire[r].seen \in Table /\ Preserves(t0, wire[r].seen)
            BY <1>1, <1>7 DEF Write, Script, ForeignInv, Tables
      <4>3. QED BY <1>2, <3>1, <4>1, <4>2, FoundClear DEF Resolve, Clear
    <3>2. CASE wire[r].op # "apply"
          BY <1>4, <3>2 DEF Written
    <3>3. QED BY <3>1, <3>2
  <2>3. QED BY <1>0, <1>3, <1>7, <2>1, <2>2, RespondClear DEF Write
<1>8. CASE Configctl(r)
      BY <1>0, <1>3, <1>4, <1>8, RespondClear DEF Configctl
<1>9. CASE Break(r) \/ Silent(r)
      BY <1>0, <1>3, <1>4, <1>9, RespondClear DEF Break, Silent
<1>10. QED BY <1>5, <1>6, <1>7, <1>8, <1>9 DEF Serve, Network

LEMMA RunsClear ==
    ASSUME NEW t0 \in Existing, ForeignInv(t0), StartRun \/ FinishRefresh \/ AbortRefresh \/ Crash,
           NEW r \in Resource
    PROVE  ResourceClear(t0, r)'
<1>0. ProviderType /\ ResourceClear(t0, r) /\ PhaseOK(r)
      BY TypeParts DEF ForeignInv, ProviderType
<1>1. CASE StartRun
  <2>1. pc[r] = "idle" /\ reply[r] = None
        BY <1>0, <1>1 DEF StartRun, AllIdle, PhaseOK
  <2>2. QED BY <1>0, <1>1, <2>1 DEF StartRun, ResourceClear, Clear, Apart
<1>2. CASE FinishRefresh
  <2>1. /\ reply'[r] = None /\ model' = model /\ pc[r] = "refresh" /\ pc'[r] = "planned"
        /\ state'[r] = IF state[r] = None THEN None ELSE Read(state[r], reply[r])
        BY <1>2 DEF FinishRefresh, IsRefreshed
  <2>2. state'[r] # None => Clear(t0, state'[r])
    <3>1. SUFFICES ASSUME state'[r] # None PROVE Clear(t0, state'[r])
          OBVIOUS
    <3>2. state[r] \in Model /\ reply[r] \in Reply /\ state'[r] = Read(state[r], reply[r])
          BY <1>0, <1>2, <2>1, <3>1 DEF FinishRefresh, IsRefreshed, ProviderType
    <3>3. /\ reply[r].kind = "ok" => reply[r].section # None /\ reply[r].iface # None
          /\ reply[r].section \notin Foreign
          /\ reply[r].iface # None => Apart(t0, reply[r].iface)
          BY <1>0, <2>1, <3>2, SentinelAssumption DEF PhaseOK, ResourceClear
    <3>4. QED BY <3>1, <3>2, <3>3, ReadClear
  <2>3. QED BY <1>0, <2>1, <2>2 DEF ResourceClear, Clear, Apart
<1>3. CASE AbortRefresh
      BY <1>0, <1>3 DEF AbortRefresh, IsRefreshed, ResourceClear, Clear, Apart
<1>4. CASE Crash
      BY <1>0, <1>4 DEF Crash, ResourceClear, Clear, Apart
<1>5. QED BY <1>1, <1>2, <1>3, <1>4

\* A step of one resource leaves the others' variables alone.
LEMMA OthersStill ==
    ASSUME ProviderType, NEW q \in Resource, Handler(q) \/ Operator(q) \/ Serve(q) \/ Network(q),
           NEW r \in Resource, r # q
    PROVE  UNCHANGED <<state[r], pc[r], model[r], wire[r], reply[r]>>
<1>1. ASSUME NEW new, NEW next, Return(q, new, next) PROVE UNCHANGED <<state[r], pc[r], model[r], wire[r], reply[r]>>
      BY <1>1 DEF Return, ProviderType
<1>2. ASSUME Fail(q) PROVE UNCHANGED <<state[r], pc[r], model[r], wire[r], reply[r]>>
      BY <1>1, <1>2 DEF Fail
<1>3. ASSUME NEW phase, NEW op, NEW m, Run(q, phase, op, m), UNCHANGED state
      PROVE  UNCHANGED <<state[r], pc[r], model[r], wire[r], reply[r]>>
      BY <1>3 DEF Run, ProviderType
<1>4. ASSUME NEW a, Respond(q, a), UNCHANGED <<state, pc, model>>
      PROVE  UNCHANGED <<state[r], pc[r], model[r], wire[r], reply[r]>>
      BY <1>4 DEF Respond, ProviderType
<1>5. ASSUME UNCHANGED <<state, pc, model, wire, reply>>
      PROVE  UNCHANGED <<state[r], pc[r], model[r], wire[r], reply[r]>>
      BY <1>5
<1>6. ASSUME NEW t, wire' = [wire EXCEPT ![q].seen = t], UNCHANGED <<state, pc, model, reply>>
      PROVE  UNCHANGED <<state[r], pc[r], model[r], wire[r], reply[r]>>
      BY <1>6 DEF ProviderType
<1>7. CASE Handler(q)
  <2>1. CASE NoChange(q) \/ RealizeReturns(q) \/ DeleteReturns(q) \/ ImportReturns(q)
        BY <1>1, <1>2, <2>1 DEF NoChange, RealizeReturns, DeleteReturns, ImportReturns
  <2>2. CASE applyAssign(q) \/ ApplyReturns(q) \/ Delete(q) \/ StopReturns(q)
        BY <1>2, <1>3, <2>2 DEF applyAssign, ApplyReturns, Delete, StopReturns
  <2>3. QED BY <1>7, <2>1, <2>2 DEF Handler
<1>8. CASE Operator(q)
      BY <1>3, <1>5, <1>8 DEF Operator, ConfigChange, ImportState
<1>9. CASE Serve(q) \/ Network(q)
      BY <1>4, <1>6, <1>9 DEF Serve, ServeRead, Parse, Write, Configctl, Network, Break, Retry, Silent
<1>10. QED BY <1>7, <1>8, <1>9

LEMMA ResourcesClear ==
    ASSUME NEW t0 \in Existing, ForeignInv(t0), [Next]_vars, NEW r \in Resource
    PROVE  ResourceClear(t0, r)'
<1>0. ProviderType /\ ResourceClear(t0, r)
      BY TypeParts DEF ForeignInv
<1>1. ASSUME UNCHANGED <<state[r], pc[r], model[r], reply[r]>> PROVE ResourceClear(t0, r)'
      BY <1>0, <1>1 DEF ResourceClear, Clear, Apart
<1>2. ASSUME UNCHANGED provider PROVE ResourceClear(t0, r)'
      BY <1>1, <1>2 DEF provider
<1>3. ASSUME NEW q \in Resource, Handler(q) \/ Operator(q) \/ Serve(q) \/ Network(q)
      PROVE  ResourceClear(t0, r)'
  <2>1. CASE q # r
        BY <1>0, <1>1, <1>3, <2>1, OthersStill
  <2>2. ASSUME NEW c, ConfigChange(r, c) PROVE ResourceClear(t0, r)'
        BY <1>1, <2>2 DEF ConfigChange
  <2>3. ASSUME NEW s \in Section, ImportState(r, s) PROVE ResourceClear(t0, r)'
    <3> DEFINE m == [section |-> s, device |-> Blank, descr |-> None, addr |-> None]
    <3>1. Run(r, "import", "read", m) /\ UNCHANGED state
          BY <2>3 DEF ImportState
    <3>2. Apart(t0, m)
      <4>1. t0 \in Table /\ Foreign \subseteq Section
            BY DataAssumption DEF Foreign
      <4>2. \A s1 \in Foreign : t0[s1] # None => t0[s1].device \in Device
            BY <4>1 DEF Table, Iface
      <4>3. QED BY <4>2, SentinelAssumption DEF Apart, Text
    <3>3. state[r] # None => Clear(t0, state[r])
          BY <1>0 DEF ResourceClear
    <3> HIDE DEF m
    <3>4. QED BY <1>0, <3>1, <3>2, <3>3, RunClear
  <2>4. QED BY <1>3, <2>1, <2>2, <2>3, HandlerClear, ServeClear DEF Operator
<1>4. CASE (\E p \in orphans : OrphanStep(p)) \/ Administrator \/ UNCHANGED vars
      BY <1>2, <1>4 DEF OrphanStep, Administrator, AdminEdit, AdminDelete, vars
<1>5. QED BY <1>3, <1>4, RunsClear DEF Next

LEMMA ScriptsClear ==
    ASSUME NEW t0 \in Existing, ForeignInv(t0), [Next]_vars,
           \A r \in Resource : ResourceClear(t0, r)', NEW p \in Scripts'
    PROVE  Apart(t0, p.m) /\ (p.op # "read" => Clear(t0, p.m))
<1>0. ProviderType /\ DeviceType
      BY TypeParts DEF ForeignInv
<1>1. CASE p \in Scripts
      BY <1>1 DEF ForeignInv
<1>2. ASSUME NEW q \in Scripts, NEW t \in {None, xml}, p = [q EXCEPT !.seen = t]
      PROVE  Apart(t0, p.m) /\ (p.op # "read" => Clear(t0, p.m))
  <2>1. q \in Script
        BY <1>0 DEF Scripts, ProviderType, DeviceType
  <2>2. p.m = q.m /\ p.op = q.op
        BY <1>2, <2>1 DEF Script
  <2>3. QED BY <2>2 DEF ForeignInv
<1>3. ASSUME NEW r \in Resource, Started(p, r)
      PROVE  Apart(t0, p.m) /\ (p.op # "read" => Clear(t0, p.m))
  <2>1. CASE p.m = model'[r] /\ model'[r] # None /\ (p.op = "read") = (pc'[r] = "import")
        BY <2>1 DEF ResourceClear, Clear, Apart
  <2>2. CASE p.m = state[r] /\ state[r] # None /\ p.op = "read"
        BY <2>2 DEF ForeignInv, ResourceClear, Clear
  <2>3. QED BY <1>3, <2>1, <2>2 DEF Started
<1>4. TypeInv
      BY DEF ForeignInv
<1>5. QED BY <1>1, <1>2, <1>3, <1>4, ScriptsStep

\* What a script writes of a foreign section is what it had read.
LEMMA ForeignWritten ==
    ASSUME NEW t0 \in Existing, ForeignInv(t0), NEW p \in Scripts, p.seen # None, Writes(p),
           NEW w \in Written(p), xml' = w[1], NEW s \in Foreign
    PROVE  xml'[s] \in {p.seen[s], xml[s]}
<1>1. p \in Script /\ p.seen \in Table /\ p.m \in Model /\ p.m.section \in Section
      BY TypeParts DEF ForeignInv, Scripts, ProviderType, DeviceType, Script, Model
<1>2. Preserves(t0, p.seen) /\ Clear(t0, p.m) /\ s \in Section
      BY DEF ForeignInv, Tables, Writes, Foreign
<1>3. CASE p.op = "apply"
  <2>1. PICK s1 \in Resolve(p.seen, p.m) : w = <<Applied(p.seen, s1, p.m), s1>>
        BY <1>3 DEF Written
  <2>2. s1 \in Section \ Foreign
        BY <1>1, <1>2, FoundClear DEF Resolve, Clear
  <2>3. QED BY <1>1, <1>2, <2>1, <2>2 DEF Applied, Table
<1>4. CASE p.op # "apply"
  <2>1. xml' = (IF p.seen[p.m.section] = None THEN xml
                ELSE [p.seen EXCEPT ![p.m.section] = None])
        BY <1>4 DEF Written
  <2>2. p.m.section # s
        BY <1>2 DEF Clear
  <2>3. QED BY <1>1, <1>2, <2>1, <2>2 DEF Table
<1>5. QED BY <1>3, <1>4

\* What a command writes keeps the foreign sections.
LEMMA XmlPreserved ==
    ASSUME NEW t0 \in Existing, ForeignInv(t0), [Next]_vars
    PROVE  Preserves(t0, xml')
<1>0. TypeInv /\ DeviceType /\ ProviderType /\ xml \in Table /\ Preserves(t0, xml)
      BY TypeParts DEF ForeignInv, Tables, DeviceType
<1>1. CASE xml' = xml
      BY <1>0, <1>1
<1>2. ASSUME NEW p \in Scripts, p.seen # None, Writes(p), NEW w \in Written(p), xml' = w[1]
      PROVE  Preserves(t0, xml')
  <2>1. p \in Script /\ p.seen \in Table /\ p.m \in Model /\ p.m.section \in Section
        BY <1>0, <1>2 DEF Scripts, ProviderType, DeviceType, Script, Model
  <2>2. Preserves(t0, p.seen) /\ Clear(t0, p.m)
        BY <1>2 DEF ForeignInv, Tables, Writes
  <2>3. CASE p.op = "apply"
    <3>1. PICK s \in Resolve(p.seen, p.m) : w = <<Applied(p.seen, s, p.m), s>>
          BY <1>2, <2>3 DEF Written
    <3> DEFINE f == [device |-> p.m.device, descr |-> Text(p.m.descr), addr |-> Text(p.m.addr)]
    <3>2. s \in Section \ Foreign
          BY <2>1, <2>2, FoundClear DEF Resolve, Clear
    <3>3. \A s1 \in Section : xml'[s1] = IF s1 = s THEN f ELSE p.seen[s1]
          BY <1>2, <2>1, <3>1 DEF Applied, Table
    <3>4. Text(f.descr) = Text(p.m.descr)
          BY DEF Text
    <3>5. Apart(t0, f)
          BY <2>2, <3>4 DEF Apart, Clear
    <3> HIDE DEF f
    <3>6. Foreign \subseteq Section
          BY DEF Foreign
    <3>7. QED BY <2>2, <3>2, <3>3, <3>5, <3>6 DEF Preserves
  <2>4. CASE p.op # "apply"
    <3>1. xml' = (IF p.seen[p.m.section] = None THEN xml
                  ELSE [p.seen EXCEPT ![p.m.section] = None])
          BY <1>2, <2>4 DEF Written
    <3>2. p.m.section \notin Foreign /\ Foreign \subseteq Section
          BY <2>2 DEF Clear, Foreign
    <3>3. QED BY <1>0, <2>1, <2>2, <3>1, <3>2 DEF Preserves, Table
  <2>5. QED BY <2>3, <2>4
<1>3. ASSUME NEW s \in Admin, xml[s] # None,
             \/ xml' = [xml EXCEPT ![s] = None]
             \/ \E a \in Addr : xml' = [xml EXCEPT ![s].addr = a]
      PROVE  Preserves(t0, xml')
  <2>1. s \in Section /\ Foreign \subseteq Section /\ xml[s] \in Iface
        BY <1>0, <1>3, DataAssumption DEF Foreign, Table
  <2>2. CASE xml' = [xml EXCEPT ![s] = None]
        BY <1>0, <2>1, <2>2 DEF Preserves, Table
  <2>3. ASSUME NEW a \in Addr, xml' = [xml EXCEPT ![s].addr = a] PROVE Preserves(t0, xml')
    <3> DEFINE f == [xml[s] EXCEPT !.addr = a]
    <3>1. f.device = xml[s].device /\ f.descr = xml[s].descr
          BY <2>1 DEF Iface
    <3>2. s \notin Foreign => Apart(t0, f)
          BY <1>0, <1>3, <2>1, <3>1 DEF Preserves, Apart
    <3>3. \A s1 \in Section : xml'[s1] = IF s1 = s THEN f ELSE xml[s1]
          BY <1>0, <2>1, <2>3 DEF Table
    <3> HIDE DEF f
    <3>4. QED BY <1>0, <1>3, <2>1, <3>1, <3>2, <3>3 DEF Preserves
  <2>4. QED BY <1>3, <2>2, <2>3
<1>4. QED BY <1>0, <1>1, <1>2, <1>3, XmlStep

LEMMA ForeignStep ==
    ASSUME NEW t0 \in Existing, ForeignInv(t0), TypeInv', [Next]_vars
    PROVE  ForeignInv(t0)'
<1>1. TypeInv
      BY DEF ForeignInv
<1>2. \A r \in Resource : ResourceClear(t0, r)'
      BY ResourcesClear
<1>3. \A p \in Scripts' : Apart(t0, p.m) /\ (p.op # "read" => Clear(t0, p.m))
      BY <1>2, ScriptsClear
<1>4. \A t \in Tables' : Preserves(t0, t)
      BY <1>1, TablesStep, XmlPreserved DEF ForeignInv
<1>5. (\A t \in Tables : Preserves(t0, t))'
      BY <1>4 DEF Preserves, Apart
<1>6. (\A p \in Scripts : Apart(t0, p.m) /\ (p.op # "read" => Clear(t0, p.m)))'
      BY <1>3 DEF Clear, Apart
<1>7. QED BY <1>2, <1>5, <1>6 DEF ForeignInv

\* A foreign section changes by an administrator, or a write that undoes that.
LEMMA ForeignXml ==
    ASSUME NEW t0 \in Existing, ForeignInv(t0), [Next]_vars, NEW s \in Foreign,
           xml'[s] # xml[s], edits' = edits
    PROVE  undone' /\ xml'[s] \in Recalled(s)
<1>1. PICK p \in Scripts : /\ p.seen # None /\ Writes(p) /\ \E w \in Written(p) : xml' = w[1]
                           /\ (p.seen # xml /\ xml' # xml) => undone'
      BY XmlStep DEF ForeignInv
<1>2. xml'[s] = p.seen[s]
  <2>1. PICK w \in Written(p) : xml' = w[1]
        BY <1>1
  <2>2. QED BY <1>1, <2>1, ForeignWritten
<1>3. p \in (orphans \union {wire[r] : r \in Resource}) \ {None}
  <2>1. None \notin orphans
        BY TypeParts, SentinelAssumption DEF ForeignInv, DeviceType
  <2>2. QED BY <1>1, <2>1 DEF Scripts
<1>4. QED BY <1>1, <1>2, <1>3 DEF Recalled

\* Nothing is stopped or reconfigured but sections of one's own.
LEMMA RunningStill ==
    ASSUME NEW t0 \in Existing, ForeignInv(t0), [Next]_vars, NEW s \in Foreign, edits' = edits
    PROVE  running'[s] = running[s]
<1>0. ProviderType /\ DeviceType /\ CountersType /\ TypeInv /\ s \in Section
      BY TypeParts DEF ForeignInv, Foreign
<1>1. ASSUME NEW p \in Scripts, Commands(p), running' = Commanded(p)
      PROVE  running'[s] = running[s]
  <2>1. p.m.section \notin Foreign
        BY <1>1 DEF ForeignInv, Commands, Clear
  <2>2. QED BY <1>0, <1>1, <2>1 DEF Commands, Commanded, DeviceType, Table
<1>2. CASE StartRun \/ FinishRefresh \/ AbortRefresh \/ Crash \/ UNCHANGED vars
      BY <1>2 DEF StartRun, FinishRefresh, AbortRefresh, Crash, vars, device
<1>3. ASSUME NEW r \in Resource, Handler(r) \/ Operator(r) PROVE running' = running
      BY <1>0, <1>3, HandlerType, OperatorType DEF device
<1>4. ASSUME NEW r \in Resource, Serve(r) \/ Network(r)
      PROVE  running' = running \/ \E p \in Scripts : Commands(p) /\ running' = Commanded(p)
  <2>1. wire[r] \in Scripts
        BY <1>4 DEF Serve, ServeRead, Parse, Write, Configctl, Network, Break, Retry, Silent, Scripts
  <2>2. QED BY <1>4, <2>1 DEF Serve, ServeRead, Parse, Write, Configctl, Network, Break, Retry,
           Silent, device
<1>5. ASSUME NEW p \in orphans, OrphanStep(p)
      PROVE  running' = running \/ (Commands(p) /\ running' = Commanded(p))
      BY <1>5 DEF OrphanStep
<1>6. ~Administrator
      BY <1>0 DEF Administrator, AdminEdit, AdminDelete, CountersType
<1>7. QED BY <1>1, <1>2, <1>3, <1>4, <1>5, <1>6 DEF Next, Scripts

\* For any interfaces the firewall starts from, as long as those no block has
\* to do with are told apart from the others by device and description: no
\* script sets them, drops them or brings them down.  Their sections change by
\* an administrator, or back to what a script had read before the administrator's
\* change, which its write of the whole file undoes.
THEOREM ForeignSafe ==
    ASSUME \A t \in Existing : Separate(t)
    PROVE  Spec => ForeignUntouched
<1>1. Init => \E t0 \in Existing : ForeignInv(t0)
  <2> SUFFICES ASSUME Init PROVE \E t0 \in Existing : ForeignInv(t0)
      OBVIOUS
  <2>1. xml \in Existing /\ TypeInv
        BY InitType DEF Init
  <2>2. Scripts = {} /\ Tables = {xml}
        BY <2>1, DataAssumption, SentinelAssumption DEF Init, Scripts, Tables
  <2>3. Preserves(xml, xml)
        BY <2>1 DEF Preserves, Separate
  <2>4. \A r \in Resource : ResourceClear(xml, r)
        BY DEF Init, ResourceClear
  <2>5. QED BY <2>1, <2>2, <2>3, <2>4 DEF ForeignInv
<1>2. (\E t0 \in Existing : ForeignInv(t0)) /\ TypeInv' /\ [Next]_vars
        => (\E t0 \in Existing : ForeignInv(t0))'
      BY ForeignStep
<1>3. (\E t0 \in Existing : ForeignInv(t0)) /\ [Next]_vars
        => [\A s \in Foreign :
              /\ xml'[s] # xml[s] => edits' # edits \/ (undone' /\ xml'[s] \in Recalled(s))
              /\ running'[s] # running[s] => edits' # edits]_vars
      BY ForeignXml, RunningStill
<1>4. QED BY <1>1, <1>2, <1>3, TypeInvariant, PTL DEF Spec, ForeignUntouched
-----------------------------------------------------------------------------
(* The sections a block has to do with.                                    *)

\* What r's blocks find in t, and what it may then be found by: their devices
\* and descriptions and those of what they find.
Found(r, t) ==
    {s \in Section : \E b \in Blocks[r] :
        s \in WithDevice(t, b.device) \/ s \in WithDescr(t, b.descr)}
Devices(r, t) == {b.device : b \in Blocks[r]} \union {t[s].device : s \in Found(r, t)}
Descrs(r, t) ==
    ({Text(b.descr) : b \in Blocks[r]} \union {t[s].descr : s \in Found(r, t)}) \ {Blank}

\* A section bound to a device of r's, or with a description of r's.
Concerns(t0, r, f) == f.device \in Devices(r, t0) \/ f.descr \in Descrs(r, t0)

\* Whatever in t concerns r its own blocks find, and no other resource declares
\* a device or a description that does.
Distinct(t) ==
    \A r \in Resource :
        /\ \A s \in Section : t[s] # None /\ Concerns(t, r, t[s]) => s \in Found(r, t)
        /\ \A q \in Resource \ {r} : \A b \in Blocks[q] :
             b.device \notin Devices(r, t) /\ Text(b.descr) \notin Descrs(r, t)

\* m finds nothing but what concerns r.
Leads(t0, r, m) ==
    /\ m.device \in Devices(r, t0) \union {Blank}
    /\ Text(m.descr) \in Descrs(r, t0) \union {Blank}

\* What concerns r in t is in a section of r's own.
Respects(t0, r, t) ==
    \A s \in Section : t[s] # None /\ Concerns(t0, r, t[s]) => s \in Territory(r, t0) /\ Leads(t0, r, t[s])

\* Only a block of r's is applied for r, and only r's sections are recorded,
\* echoed or acted upon.
ResourceOwn(t0, r) ==
    /\ state[r] # None => state[r].section \in Territory(r, t0) /\ Leads(t0, r, state[r])
    /\ model[r] # None => Leads(t0, r, model[r]) /\ (pc[r] # "import" => model[r].section \in Territory(r, t0))
    /\ wire[r] # None => /\ Leads(t0, r, wire[r].m)
                         /\ wire[r].op = "apply" => wire[r].m \in Blocks[r]
    /\ reply[r] # None => /\ reply[r].section \in Territory(r, t0) \union {None}
                          /\ reply[r].iface # None => Leads(t0, r, reply[r].iface)

OwnInv(t0) ==
    /\ TypeInv
    /\ \A t \in Tables : \A r \in Resource : Respects(t0, r, t)
    /\ \A p \in orphans : p.op = "apply" => \E r \in Resource : p.m \in Blocks[r]
    /\ \A r \in Resource : ResourceOwn(t0, r)

LEMMA OwnTerritory ==
    ASSUME NEW t0 \in Existing, NEW r \in Resource
    PROVE  Territory(r, t0) \subseteq Own[r]
BY DEF Own

LEMMA BlocksOwn ==
    ASSUME NEW t0 \in Existing, NEW r \in Resource, NEW b \in Blocks[r]
    PROVE  b.section \in Territory(r, t0) /\ Leads(t0, r, b) /\ b.device \in Devices(r, t0)
<1>1. b.section \in Section
      BY DataAssumption DEF Model
<1>2. b.section \in Territory(r, t0)
      BY <1>1 DEF Territory
<1>3. b.device \in Devices(r, t0) /\ Text(b.descr) \in Descrs(r, t0) \union {Blank}
      BY DEF Devices, Descrs
<1>4. QED BY <1>2, <1>3 DEF Leads

\* What a block finds in the first table is its own, and leads to no more.
LEMMA FirstRespects ==
    ASSUME NEW t0 \in Existing, Distinct(t0), NEW r \in Resource
    PROVE  Respects(t0, r, t0)
<1>1. SUFFICES ASSUME NEW s \in Section, t0[s] # None, Concerns(t0, r, t0[s])
               PROVE  s \in Territory(r, t0) /\ Leads(t0, r, t0[s])
      BY DEF Respects
<1>2. s \in Found(r, t0)
      BY <1>1 DEF Distinct
<1>3. s \in Territory(r, t0)
      BY <1>2 DEF Found, Territory
<1>4. t0[s].device \in Devices(r, t0) /\ t0[s].descr \in Descrs(r, t0) \union {Blank}
      BY <1>2 DEF Devices, Descrs
<1>5. t0[s].descr # None
  <2>1. t0[s] \in Iface
        BY <1>1, DataAssumption DEF Table
  <2>2. QED BY <2>1, SentinelAssumption DEF Iface
<1>6. QED BY <1>3, <1>4, <1>5 DEF Leads, Text

\* A search by what leads to r finds a section of r's.
LEMMA FoundOwn ==
    ASSUME NEW t0, NEW r \in Resource, NEW t \in Table, Respects(t0, r, t),
           NEW m \in Model, Leads(t0, r, m), NEW s,
           s \in WithDevice(t, m.device) \/ s \in WithDescr(t, m.descr)
    PROVE  s \in Territory(r, t0) /\ Leads(t0, r, t[s])
<1>1. s \in Section /\ t[s] # None /\ t[s] \in Iface
      BY DEF WithDevice, WithDescr, Table
<1>2. CASE s \in WithDevice(t, m.device)
  <2>1. t[s].device = m.device /\ m.device # Blank
        BY <1>1, <1>2, SentinelAssumption DEF WithDevice, Iface
  <2>2. Concerns(t0, r, t[s])
        BY <2>1 DEF Concerns, Leads
  <2>3. QED BY <1>1, <2>2 DEF Respects
<1>3. CASE s \in WithDescr(t, m.descr)
  <2>1. Text(m.descr) # Blank /\ t[s].descr = m.descr
        BY <1>3 DEF WithDescr
  <2>2. Text(m.descr) = m.descr
        BY <2>1 DEF Text
  <2>3. Concerns(t0, r, t[s])
        BY <2>1, <2>2 DEF Concerns, Leads
  <2>4. QED BY <1>1, <2>3 DEF Respects
<1>4. QED BY <1>2, <1>3

\* A block is applied to a section of its resource's.
LEMMA ResolveOwn ==
    ASSUME NEW t0 \in Existing, NEW r \in Resource, NEW t \in Table, Respects(t0, r, t),
           NEW b \in Blocks[r], NEW s \in Resolve(t, b)
    PROVE  s \in Territory(r, t0)
<1>1. b.section \in Territory(r, t0) /\ Leads(t0, r, b) /\ b \in Model
      BY BlocksOwn, DataAssumption
<1>2. s \in WithDevice(t, b.device) \/ s \in WithDescr(t, b.descr) \/ s = b.section
      BY DEF Resolve
<1>3. QED BY <1>1, <1>2, FoundOwn

LEMMA RunOwn ==
    ASSUME ProviderType, NEW t0, NEW r \in Resource, ResourceOwn(t0, r), NEW phase, NEW op, NEW m,
           Run(r, phase, op, m), UNCHANGED state, Leads(t0, r, m),
           phase # "import" => m.section \in Territory(r, t0), op = "apply" => m \in Blocks[r]
    PROVE  ResourceOwn(t0, r)'
<1>1. /\ model'[r] = m /\ pc'[r] = phase /\ reply'[r] = None /\ state'[r] = state[r]
      /\ wire'[r].m = m /\ wire'[r].op = op
      BY DEF Run, ProviderType
<1>2. QED BY <1>1 DEF ResourceOwn, Leads, Territory, Devices, Descrs, Found, WithDevice, WithDescr

LEMMA ReturnOwn ==
    ASSUME ProviderType, NEW t0, NEW r \in Resource, NEW new, NEW next, Return(r, new, next),
           new # None => new.section \in Territory(r, t0) /\ Leads(t0, r, new)
    PROVE  ResourceOwn(t0, r)'
<1>1. model'[r] = None /\ wire'[r] = None /\ reply'[r] = None /\ state'[r] = new
      BY DEF Return, ProviderType
<1>2. QED BY <1>1 DEF ResourceOwn, Leads, Territory, Devices, Descrs, Found, WithDevice, WithDescr

LEMMA RespondOwn ==
    ASSUME ProviderType, NEW t0, NEW r \in Resource, ResourceOwn(t0, r), NEW a, Respond(r, a),
           UNCHANGED <<state, pc, model>>, a.section \in Territory(r, t0) \union {None},
           a.iface # None => Leads(t0, r, a.iface)
    PROVE  ResourceOwn(t0, r)'
<1>1. reply'[r] = a /\ wire'[r] = None
      BY DEF Respond, ProviderType
<1>2. QED BY <1>1 DEF ResourceOwn, Leads, Territory, Devices, Descrs, Found, WithDevice, WithDescr

\* What is refreshed, or imported, is the section an answer tells of.
LEMMA ReadOwn ==
    ASSUME NEW t0, NEW r \in Resource, NEW m \in Model, NEW a \in Reply,
           a.kind = "ok" => a.section # None /\ a.iface # None,
           a.section \in Territory(r, t0) \union {None}, a.iface # None => Leads(t0, r, a.iface),
           Read(m, a) # None
    PROVE  Read(m, a).section \in Territory(r, t0) /\ Leads(t0, r, Read(m, a))
<1>1. a.kind = "ok" /\ Read(m, a) = Refreshed(m, a.section, a.iface)
      BY DEF Read
<1>2. a.iface \in Iface /\ Leads(t0, r, a.iface) /\ a.section \in Territory(r, t0)
      BY <1>1 DEF Reply
<1>3. a.iface.descr # None
      BY <1>2, SentinelAssumption DEF Iface
<1>4. Refreshed(m, a.section, a.iface).section = a.section
      /\ Refreshed(m, a.section, a.iface).device = a.iface.device
      /\ Refreshed(m, a.section, a.iface).descr \in {None, a.iface.descr}
      BY DEF Refreshed
<1>5. QED BY <1>1, <1>2, <1>3, <1>4 DEF Leads, Text

LEMMA HandlerOwn ==
    ASSUME NEW t0 \in Existing, OwnInv(t0), NEW r \in Resource, Handler(r)
    PROVE  ResourceOwn(t0, r)'
<1>0. ProviderType /\ ResourceOwn(t0, r) /\ PhaseOK(r)
      BY TypeParts DEF OwnInv, ProviderType
<1>1. /\ state[r] \in Model \union {None} /\ model[r] \in Model \union {None}
      /\ reply[r] \in Reply \union {None} /\ config[r] \in Blocks[r] \union {None}
      /\ state[r] # None => state[r].section \in Territory(r, t0) /\ Leads(t0, r, state[r])
      /\ model[r] # None /\ pc[r] # "import" => model[r].section \in Territory(r, t0) /\ Leads(t0, r, model[r])
      BY <1>0 DEF ProviderType, ResourceOwn
<1>2. ASSUME Fail(r) PROVE ResourceOwn(t0, r)'
      BY <1>0, <1>1, <1>2, ReturnOwn DEF Fail
<1>3. CASE NoChange(r)
      BY <1>2, <1>3 DEF NoChange
<1>4. CASE applyAssign(r)
  <2>1. config[r] \in Blocks[r] /\ Run(r, "apply", "apply", config[r]) /\ UNCHANGED state
        BY <1>1, <1>4 DEF applyAssign, Creates, Updates
  <2>2. config[r].section \in Territory(r, t0) /\ Leads(t0, r, config[r])
        BY <2>1, BlocksOwn
  <2>3. QED BY <1>0, <2>1, <2>2, RunOwn
<1>5. CASE ApplyReturns(r)
  <2>1. CASE reply[r].kind = "error"
        BY <1>2, <1>5, <2>1 DEF ApplyReturns
  <2>2. CASE reply[r].kind # "error"
    <3> DEFINE m == [model[r] EXCEPT !.section = IF reply[r].section = None THEN @ ELSE reply[r].section]
    <3>1. Run(r, "realize", "realize", m) /\ UNCHANGED state
          BY <1>5, <2>2 DEF ApplyReturns
    <3>2. /\ model[r] \in Model /\ model[r].section \in Territory(r, t0) /\ Leads(t0, r, model[r])
          /\ reply[r].section \in Territory(r, t0) \union {None}
          BY <1>0, <1>1, <1>5 DEF ApplyReturns, PhaseOK, ResourceOwn
    <3>3. m.device = model[r].device /\ m.descr = model[r].descr /\ m.section \in Territory(r, t0)
          BY <3>2 DEF Model
    <3> HIDE DEF m
    <3>4. Leads(t0, r, m)
          BY <3>2, <3>3 DEF Leads
    <3>5. QED BY <1>0, <3>1, <3>3, <3>4, RunOwn
  <2>3. QED BY <2>1, <2>2
<1>6. CASE RealizeReturns(r)
      BY <1>0, <1>1, <1>2, <1>6, ReturnOwn DEF RealizeReturns
<1>7. CASE Delete(r)
      BY <1>0, <1>1, <1>7, RunOwn DEF Delete, Deletes
<1>8. CASE StopReturns(r)
  <2>1. model[r].section \in Territory(r, t0) /\ Leads(t0, r, model[r])
        BY <1>0, <1>1, <1>8 DEF StopReturns, PhaseOK
  <2>2. QED BY <1>0, <1>8, <2>1, RunOwn DEF StopReturns
<1>9. CASE DeleteReturns(r)
      BY <1>0, <1>2, <1>9, ReturnOwn DEF DeleteReturns
<1>10. CASE ImportReturns(r)
  <2>1. CASE reply[r].kind = "error"
        BY <1>2, <1>10, <2>1 DEF ImportReturns
  <2>2. CASE reply[r].kind # "error"
    <3>1. Return(r, Read(model[r], reply[r]), "idle") /\ model[r] \in Model /\ reply[r] \in Reply
          BY <1>0, <1>1, <1>10, <2>2 DEF ImportReturns, PhaseOK
    <3>2. /\ reply[r].kind = "ok" => reply[r].section # None /\ reply[r].iface # None
          /\ reply[r].section \in Territory(r, t0) \union {None}
          /\ reply[r].iface # None => Leads(t0, r, reply[r].iface)
          BY <1>0, <1>10 DEF ImportReturns, PhaseOK, ResourceOwn
    <3>3. QED BY <1>0, <3>1, <3>2, ReadOwn, ReturnOwn
  <2>3. QED BY <2>1, <2>2
<1>11. QED BY <1>3, <1>4, <1>5, <1>6, <1>7, <1>8, <1>9, <1>10 DEF Handler

LEMMA ServeOwn ==
    ASSUME NEW t0 \in Existing, OwnInv(t0), NEW r \in Resource, Serve(r) \/ Network(r)
    PROVE  ResourceOwn(t0, r)'
<1>0. ProviderType /\ DeviceType /\ ResourceOwn(t0, r)
      BY TypeParts DEF OwnInv
<1>1. wire[r] # None /\ wire[r] \in Scripts /\ wire[r] \in Script
      BY <1>0 DEF Serve, ServeRead, Parse, Write, Configctl, Network, Break, Retry, Silent, Scripts,
         ProviderType
<1>2. /\ wire[r].m \in Model /\ Leads(t0, r, wire[r].m)
      /\ wire[r].op = "apply" => wire[r].m \in Blocks[r]
      BY <1>0, <1>1 DEF ResourceOwn, Script
<1>3. \A kind, s, f : Answer(kind, s, f).section = s /\ Answer(kind, s, f).iface = f
      BY DEF Answer
<1>4. ASSUME NEW a, Respond(r, a), UNCHANGED <<state, pc, model>>, a.section = None, a.iface = None
      PROVE  ResourceOwn(t0, r)'
      BY <1>0, <1>4, RespondOwn
<1>5. CASE ServeRead(r)
  <2>1. UNCHANGED <<state, pc, model>>
        BY <1>5 DEF ServeRead
  <2>2. CASE Locate(xml, wire[r].m) = {}
        BY <1>3, <1>4, <1>5, <2>1, <2>2 DEF ServeRead
  <2>3. CASE Locate(xml, wire[r].m) # {}
    <3>1. PICK s \in Locate(xml, wire[r].m) : Respond(r, Answer("ok", s, xml[s]))
          BY <1>5, <2>3 DEF ServeRead
    <3>2. s \in WithDevice(xml, wire[r].m.device) \/ s \in WithDescr(xml, wire[r].m.descr)
          BY DEF Locate
    <3>3. Respects(t0, r, xml) /\ xml \in Table
          BY <1>0 DEF OwnInv, Tables, DeviceType
    <3>4. s \in Territory(r, t0) /\ Leads(t0, r, xml[s])
          BY <1>2, <3>2, <3>3, FoundOwn
    <3>5. QED BY <1>0, <1>3, <2>1, <3>1, <3>4, RespondOwn
  <2>4. QED BY <2>2, <2>3
<1>6. CASE Parse(r) \/ Retry(r)
  <2>1. PICK t : wire' = [wire EXCEPT ![r].seen = t]
        BY <1>6 DEF Parse, Retry
  <2>2. wire'[r].m = wire[r].m /\ wire'[r].op = wire[r].op
        BY <1>0, <1>1, <2>1 DEF ProviderType, Script
  <2>3. UNCHANGED <<state, pc, model, reply>>
        BY <1>6 DEF Parse, Retry
  <2>4. QED BY <1>0, <1>2, <2>2, <2>3
        DEF ResourceOwn, Leads, Territory, Devices, Descrs, Found, WithDevice, WithDescr
<1>7. CASE Write(r)
  <2>1. PICK w \in Written(wire[r]) : Respond(r, Answer("ok", w[2], None))
        BY <1>7 DEF Write
  <2>2. w[2] \in Territory(r, t0) \union {None}
    <3>1. CASE wire[r].op = "apply"
      <4>1. PICK s \in Resolve(wire[r].seen, wire[r].m) : w[2] = s
            BY <3>1 DEF Written
      <4>2. /\ wire[r].seen \in Table /\ Respects(t0, r, wire[r].seen)
            BY <1>1, <1>7 DEF Write, Script, OwnInv, Tables
      <4>3. QED BY <1>2, <3>1, <4>1, <4>2, ResolveOwn
    <3>2. CASE wire[r].op # "apply"
          BY <3>2 DEF Written
    <3>3. QED BY <3>1, <3>2
  <2>3. QED BY <1>0, <1>3, <1>7, <2>1, <2>2, RespondOwn DEF Write
<1>8. CASE Configctl(r)
      BY <1>3, <1>4, <1>8 DEF Configctl
<1>9. CASE Break(r) \/ Silent(r)
      BY <1>3, <1>4, <1>9 DEF Break, Silent
<1>10. QED BY <1>5, <1>6, <1>7, <1>8, <1>9 DEF Serve, Network

LEMMA RunsOwn ==
    ASSUME NEW t0 \in Existing, OwnInv(t0), StartRun \/ FinishRefresh \/ AbortRefresh \/ Crash,
           NEW r \in Resource
    PROVE  ResourceOwn(t0, r)'
<1> USE DEF ResourceOwn
<1>0. ProviderType /\ ResourceOwn(t0, r) /\ PhaseOK(r) /\ OwnInv(t0)
      BY TypeParts DEF OwnInv, ProviderType
<1>1. (\A m : Leads(t0, r, m))' <=> \A m : Leads(t0, r, m)
      BY DEF Leads, Territory, Devices, Descrs, Found, WithDevice, WithDescr
<1>2. CASE StartRun
  <2>1. pc[r] = "idle" /\ reply[r] = None
        BY <1>0, <1>2 DEF StartRun, AllIdle, PhaseOK
  <2>2. wire'[r] # None => wire'[r].op = "read" /\ wire'[r].m = state[r] /\ state[r] # None
        BY <1>2 DEF StartRun
  <2>3. QED BY <1>0, <1>2, <2>1, <2>2
        DEF StartRun, Leads, Territory, Devices, Descrs, Found, WithDevice, WithDescr
<1>3. CASE FinishRefresh
  <2>1. /\ reply'[r] = None /\ model' = model /\ wire' = wire
        /\ pc[r] = "refresh" /\ pc'[r] = "planned"
        /\ state'[r] = IF state[r] = None THEN None ELSE Read(state[r], reply[r])
        BY <1>3 DEF FinishRefresh, IsRefreshed
  <2>2. state'[r] # None => state'[r].section \in Territory(r, t0) /\ Leads(t0, r, state'[r])
    <3>1. SUFFICES ASSUME state'[r] # None
                   PROVE  state'[r].section \in Territory(r, t0) /\ Leads(t0, r, state'[r])
          OBVIOUS
    <3>2. state[r] \in Model /\ reply[r] \in Reply /\ state'[r] = Read(state[r], reply[r])
          BY <1>0, <1>3, <2>1, <3>1 DEF FinishRefresh, IsRefreshed, ProviderType
    <3>3. /\ reply[r].kind = "ok" => reply[r].section # None /\ reply[r].iface # None
          /\ reply[r].section \in Territory(r, t0) \union {None}
          /\ reply[r].iface # None => Leads(t0, r, reply[r].iface)
          BY <1>0, <2>1, <3>2, SentinelAssumption DEF PhaseOK
    <3>4. QED BY <3>1, <3>2, <3>3, ReadOwn
  <2>3. QED BY <1>0, <2>1, <2>2 DEF Leads, Territory, Devices, Descrs, Found, WithDevice, WithDescr
<1>4. CASE AbortRefresh
      BY <1>0, <1>4 DEF AbortRefresh, IsRefreshed, Leads, Territory, Devices, Descrs, Found, WithDevice, WithDescr
<1>5. CASE Crash
      BY <1>0, <1>5 DEF Crash, Leads, Territory, Devices, Descrs, Found, WithDevice, WithDescr
<1>6. QED BY <1>2, <1>3, <1>4, <1>5

LEMMA ResourcesOwn ==
    ASSUME NEW t0 \in Existing, OwnInv(t0), [Next]_vars, NEW r \in Resource
    PROVE  ResourceOwn(t0, r)'
<1>0. ProviderType /\ ResourceOwn(t0, r)
      BY TypeParts DEF OwnInv
<1>1. ASSUME UNCHANGED <<state[r], pc[r], model[r], wire[r], reply[r]>> PROVE ResourceOwn(t0, r)'
      BY <1>0, <1>1 DEF ResourceOwn, Leads, Territory, Devices, Descrs, Found, WithDevice, WithDescr
<1>2. ASSUME UNCHANGED provider PROVE ResourceOwn(t0, r)'
      BY <1>1, <1>2 DEF provider
<1>3. ASSUME NEW q \in Resource, Handler(q) \/ Operator(q) \/ Serve(q) \/ Network(q)
      PROVE  ResourceOwn(t0, r)'
  <2>1. CASE q # r
        BY <1>0, <1>1, <1>3, <2>1, OthersStill
  <2>2. ASSUME NEW c, ConfigChange(r, c) PROVE ResourceOwn(t0, r)'
        BY <1>1, <2>2 DEF ConfigChange
  <2>3. ASSUME NEW s \in Section, ImportState(r, s) PROVE ResourceOwn(t0, r)'
    <3> DEFINE m == [section |-> s, device |-> Blank, descr |-> None, addr |-> None]
    <3>1. Run(r, "import", "read", m) /\ UNCHANGED state
          BY <2>3 DEF ImportState
    <3>2. Leads(t0, r, m)
          BY DEF Leads, Text
    <3> HIDE DEF m
    <3>3. QED BY <1>0, <3>1, <3>2, RunOwn
  <2>4. QED BY <1>3, <2>1, <2>2, <2>3, HandlerOwn, ServeOwn DEF Operator
<1>4. CASE (\E p \in orphans : OrphanStep(p)) \/ Administrator \/ UNCHANGED vars
      BY <1>2, <1>4 DEF OrphanStep, Administrator, AdminEdit, AdminDelete, vars
<1>5. QED BY <1>3, <1>4, RunsOwn DEF Next

\* A command that applies a model, awaited or not, applies somebody's block.
LEMMA ScriptsOwn ==
    ASSUME NEW t0, OwnInv(t0), NEW p \in Scripts, p.op = "apply"
    PROVE  \E r \in Resource : p.m \in Blocks[r]
BY DEF Scripts, OwnInv, ResourceOwn

\* An abandoned command was a command before.
LEMMA OrphansOwn ==
    ASSUME NEW t0, OwnInv(t0), [Next]_vars, NEW p \in orphans', p.op = "apply"
    PROVE  \E r \in Resource : p.m \in Blocks[r]
<1>0. TypeInv /\ ProviderType /\ DeviceType
      BY TypeParts DEF OwnInv
<1>1. \A q \in Scripts : q \in Script
      BY <1>0 DEF Scripts, ProviderType, DeviceType
<1>2. ASSUME NEW S \in SUBSET Scripts, Abandon(S) PROVE p \in Scripts
      BY <1>2 DEF Abandon, Scripts
<1>3. ASSUME UNCHANGED orphans PROVE p \in Scripts
      BY <1>3 DEF Scripts
<1>4. ASSUME NEW r \in Resource, Network(r) PROVE p \in Scripts
  <2>1. {wire[r]} \in SUBSET Scripts
        BY <1>4 DEF Network, Break, Retry, Silent, Scripts
  <2>2. QED BY <1>2, <1>4, <2>1 DEF Network, Break, Retry, Silent, Scripts
<1>5. ASSUME NEW o \in orphans, OrphanStep(o)
      PROVE  \E q \in Scripts : p.op = q.op /\ p.m = q.m
  <2>1. o \in Scripts /\ o \in Script
        BY <1>1 DEF Scripts
  <2>2. p \in Scripts \/ p = [o EXCEPT !.seen = xml]
        BY <1>5 DEF OrphanStep, Scripts
  <2>3. QED BY <2>1, <2>2 DEF Script
<1>6. ASSUME Crash PROVE p \in Scripts
  <2>1. ({wire[r] : r \in Resource} \ {None}) \in SUBSET Scripts
        BY DEF Scripts
  <2>2. QED BY <1>2, <1>6, <2>1 DEF Crash
<1>7. ASSUME StartRun \/ FinishRefresh \/ AbortRefresh \/ Administrator \/ UNCHANGED vars
      PROVE  p \in Scripts
      BY <1>3, <1>7 DEF StartRun, FinishRefresh, AbortRefresh, Administrator, AdminEdit,
         AdminDelete, vars, device
<1>8. ASSUME NEW r \in Resource, Handler(r) \/ Operator(r) \/ Serve(r)
      PROVE  p \in Scripts
      BY <1>0, <1>3, <1>8, HandlerType, OperatorType
      DEF Serve, ServeRead, Parse, Write, Configctl, device
<1>9. \E q \in Scripts : p.op = q.op /\ p.m = q.m
      BY <1>4, <1>5, <1>6, <1>7, <1>8 DEF Next
<1>10. QED BY <1>9, ScriptsOwn

\* What a command, or an administrator, makes of config.xml keeps what concerns
\* a resource in its sections.
LEMMA XmlRespects ==
    ASSUME NEW t0 \in Existing, Distinct(t0), OwnInv(t0), [Next]_vars, NEW r \in Resource
    PROVE  Respects(t0, r, xml')
<1>0. TypeInv /\ DeviceType /\ ProviderType /\ xml \in Table /\ Respects(t0, r, xml)
      BY TypeParts DEF OwnInv, Tables, DeviceType
<1>1. CASE xml' = xml
      BY <1>0, <1>1
<1>2. ASSUME NEW p \in Scripts, p.seen # None, Writes(p), NEW w \in Written(p), xml' = w[1]
      PROVE  Respects(t0, r, xml')
  <2>1. p \in Script /\ p.seen \in Table /\ p.m \in Model /\ p.m.section \in Section
        BY <1>0, <1>2 DEF Scripts, ProviderType, DeviceType, Script, Model
  <2>2. \A q \in Resource : Respects(t0, q, p.seen)
        BY <1>2 DEF OwnInv, Tables
  <2>3. CASE p.op = "apply"
    <3>1. PICK s \in Resolve(p.seen, p.m) : w = <<Applied(p.seen, s, p.m), s>>
          BY <1>2, <2>3 DEF Written
    <3>2. PICK q \in Resource : p.m \in Blocks[q]
          BY <1>2, <2>3, ScriptsOwn
    <3>3. s \in Territory(q, t0) /\ s \in Section
          BY <2>1, <2>2, <3>1, <3>2, ResolveOwn DEF Resolve, WithDevice, WithDescr
    <3> DEFINE f == [device |-> p.m.device, descr |-> Text(p.m.descr), addr |-> Text(p.m.addr)]
    <3>4. \A s1 \in Section : xml'[s1] = IF s1 = s THEN f ELSE p.seen[s1]
          BY <1>2, <2>1, <3>1, <3>3 DEF Applied, Table
    <3>5. f.device = p.m.device /\ f.descr = Text(p.m.descr) /\ Text(f.descr) = f.descr
          BY DEF Text
    <3> HIDE DEF f
    <3>6. CASE q = r
      <4>1. Leads(t0, r, f)
            BY <3>2, <3>5, <3>6, BlocksOwn DEF Leads
      <4>2. QED BY <2>2, <3>3, <3>4, <3>6, <4>1 DEF Respects
    <3>7. CASE q # r
      <4>1. ~Concerns(t0, r, f)
            BY <3>2, <3>5, <3>7 DEF Concerns, Distinct
      <4>2. QED BY <2>2, <3>4, <4>1 DEF Respects
    <3>8. QED BY <3>6, <3>7
  <2>4. CASE p.op # "apply"
    <3>1. xml' = (IF p.seen[p.m.section] = None THEN xml
                  ELSE [p.seen EXCEPT ![p.m.section] = None])
          BY <1>2, <2>4 DEF Written
    <3>2. QED BY <1>0, <2>1, <2>2, <3>1 DEF Respects, Table
  <2>5. QED BY <2>3, <2>4
<1>3. ASSUME NEW s \in Admin, xml[s] # None,
             \/ xml' = [xml EXCEPT ![s] = None]
             \/ \E a \in Addr : xml' = [xml EXCEPT ![s].addr = a]
      PROVE  Respects(t0, r, xml')
  <2>1. s \in Section /\ xml[s] \in Iface
        BY <1>0, <1>3, DataAssumption DEF Table
  <2>2. CASE xml' = [xml EXCEPT ![s] = None]
        BY <1>0, <2>1, <2>2 DEF Respects, Table
  <2>3. ASSUME NEW a \in Addr, xml' = [xml EXCEPT ![s].addr = a] PROVE Respects(t0, r, xml')
    <3> DEFINE f == [xml[s] EXCEPT !.addr = a]
    <3>1. f.device = xml[s].device /\ f.descr = xml[s].descr
          BY <2>1 DEF Iface
    <3>2. \A s1 \in Section : xml'[s1] = IF s1 = s THEN f ELSE xml[s1]
          BY <1>0, <2>1, <2>3 DEF Table
    <3> HIDE DEF f
    <3>3. QED BY <1>0, <1>3, <2>1, <3>1, <3>2 DEF Respects, Concerns, Leads
  <2>4. QED BY <1>3, <2>2, <2>3
<1>4. QED BY <1>0, <1>1, <1>2, <1>3, XmlStep

LEMMA OwnStep ==
    ASSUME NEW t0 \in Existing, Distinct(t0), OwnInv(t0), TypeInv', [Next]_vars
    PROVE  OwnInv(t0)'
<1>1. TypeInv
      BY DEF OwnInv
<1>2. \A r \in Resource : ResourceOwn(t0, r)'
      BY ResourcesOwn
<1>3. \A p \in orphans' : p.op = "apply" => \E r \in Resource : p.m \in Blocks[r]
      BY OrphansOwn
<1>4. \A t \in Tables' : \A r \in Resource : Respects(t0, r, t)
      BY <1>1, TablesStep, XmlRespects DEF OwnInv
<1>5. (\A t \in Tables : \A r \in Resource : Respects(t0, r, t))'
      BY <1>4 DEF Respects, Concerns, Leads, Territory, Devices, Descrs, Found, WithDevice, WithDescr
<1>6. QED BY <1>2, <1>3, <1>5 DEF OwnInv

LEMMA InitOwn ==
    ASSUME Init, Distinct(xml)
    PROVE  OwnInv(xml)
<1>1. xml \in Existing /\ TypeInv
      BY InitType DEF Init
<1>2. Tables = {xml} /\ orphans = {}
      BY <1>1, DataAssumption, SentinelAssumption DEF Init, Scripts, Tables
<1>3. \A r \in Resource : Respects(xml, r, xml)
      BY <1>1, FirstRespects
<1>4. \A r \in Resource : ResourceOwn(xml, r)
      BY DEF Init, ResourceOwn
<1>5. QED BY <1>1, <1>2, <1>3, <1>4 DEF OwnInv

\* For any interfaces the firewall starts from, as long as what shares a device
\* or a description with a block is found by its resource's blocks alone: the
\* section a block has recorded or is about to stop, realise or remove is one
\* it names or was bound to its device or description, whatever scripts
\* overlap, are repeated or go on unattended.
THEOREM OwnSections ==
    ASSUME \A t \in Existing : Distinct(t)
    PROVE  Spec => []OwnSectionsOnly
<1>1. Init => \E t0 \in Existing : OwnInv(t0)
      BY InitOwn DEF Init
<1>2. (\E t0 \in Existing : OwnInv(t0)) /\ TypeInv' /\ [Next]_vars
        => (\E t0 \in Existing : OwnInv(t0))'
      BY OwnStep
<1>3. (\E t0 \in Existing : OwnInv(t0)) => OwnSectionsOnly
      BY OwnTerritory DEF OwnInv, ResourceOwn, OwnSectionsOnly
<1>4. QED BY <1>1, <1>2, <1>3, TypeInvariant, PTL DEF Spec
-----------------------------------------------------------------------------
(* Successes.                                                              *)

\* No two resources declare the same section.
SectionsApart ==
    \A r, q \in Resource : \A b \in Blocks[r] : \A c \in Blocks[q] :
        b.section = c.section => r = q

\* A handler waits for the command of its phase, and applies or realises a
\* block of its own.
Busy(r) ==
    /\ wire[r] # None /\ pc[r] \in {"apply", "realize", "stop", "delete"} =>
         wire[r].op = pc[r] /\ wire[r].m = model[r]
    /\ pc[r] \in {"apply", "realize"} => model[r] \in Blocks[r]

\* Once the apply is answered the section is stored as declared, and one that
\* is gone again does not run; once it is realised it runs.
Stored(s, m) == (s \in Admin \/ Carries(xml[s], m)) /\ (xml[s] = None => running[s] = None)
Landed(r) ==
    /\ pc[r] = "apply" /\ reply[r] # None /\ reply[r].kind # "error" =>
         Stored(model[r].section, model[r])
    /\ pc[r] = "realize" => Stored(model[r].section, model[r])
    /\ Succeeds(r) => running[model[r].section] = xml[model[r].section]

PlaceInv(t0) ==
    /\ OwnInv(t0)
    /\ \A r \in Resource : Busy(r) /\ (undone \/ Landed(r))

\* A block of r's is all that is in r's territory.
LEMMA HomeAlone ==
    ASSUME NEW t0 \in Aligned, NEW r \in Resource, NEW b \in Blocks[r]
    PROVE  Territory(r, t0) = {b.section}
BY DEF Aligned

LEMMA TerritoriesApart ==
    ASSUME SectionsApart, NEW t0 \in Aligned, NEW r \in Resource, NEW q \in Resource, r # q,
           NEW s \in Territory(r, t0)
    PROVE  s \notin Territory(q, t0)
<1>1. SUFFICES ASSUME s \in Territory(q, t0) PROVE FALSE
      OBVIOUS
<1>2. PICK b \in Blocks[r], c \in Blocks[q] : TRUE
      BY <1>1 DEF Territory
<1>3. s = b.section /\ s = c.section
      BY <1>1, HomeAlone
<1>4. QED BY <1>3 DEF SectionsApart

\* The section that is echoed is the declared one.
LEMMA EchoIsDeclared ==
    ASSUME NEW t0 \in Aligned, PlaceInv(t0), NEW r \in Resource, ApplyReturns(r),
           reply[r].kind # "error"
    PROVE  Run(r, "realize", "realize", model[r]) /\ UNCHANGED state
<1>0. ProviderType /\ PhaseOK(r) /\ ResourceOwn(t0, r) /\ Busy(r)
      BY TypeParts DEF PlaceInv, OwnInv, ProviderType
<1>1. pc[r] = "apply" /\ reply[r] # None /\ model[r] \in Blocks[r] /\ model[r] \in Model
      BY <1>0, DataAssumption DEF ApplyReturns, Busy
<1>2. reply[r].section \in {model[r].section, None}
      BY <1>0, <1>1, HomeAlone DEF ResourceOwn
<1>3. [model[r] EXCEPT !.section = IF reply[r].section = None THEN @ ELSE reply[r].section] = model[r]
      BY <1>1, <1>2 DEF Model
<1>4. QED BY <1>3 DEF ApplyReturns

LEMMA RunBusy ==
    ASSUME ProviderType, NEW r \in Resource, NEW phase, NEW op, NEW m, Run(r, phase, op, m),
           phase # "import" => op = phase, phase \in {"apply", "realize"} => m \in Blocks[r]
    PROVE  Busy(r)'
<1>1. /\ model'[r] = m /\ pc'[r] = phase
      /\ wire'[r].m = m /\ wire'[r].op = op
      BY DEF Run, ProviderType
<1>2. QED BY <1>1 DEF Busy

LEMMA ReturnBusy ==
    ASSUME ProviderType, NEW r \in Resource, NEW new, NEW next \in {"idle", "planned"},
           Return(r, new, next)
    PROVE  Busy(r)'
<1>1. pc'[r] = next
      BY DEF Return, ProviderType
<1>2. QED BY <1>1 DEF Busy

LEMMA HandlerBusy ==
    ASSUME NEW t0 \in Aligned, PlaceInv(t0), NEW r \in Resource, Handler(r)
    PROVE  Busy(r)'
<1>0. ProviderType /\ config[r] \in Blocks[r] \union {None}
      BY TypeParts DEF PlaceInv, OwnInv, ProviderType
<1>1. ASSUME Fail(r) PROVE Busy(r)'
      BY <1>0, <1>1, ReturnBusy DEF Fail
<1>2. CASE NoChange(r)
      BY <1>1, <1>2 DEF NoChange
<1>3. CASE applyAssign(r)
      BY <1>0, <1>3, RunBusy DEF applyAssign, Creates, Updates
<1>4. CASE ApplyReturns(r)
  <2>1. model[r] \in Blocks[r]
        BY <1>4 DEF PlaceInv, Busy, ApplyReturns
  <2>2. CASE reply[r].kind = "error"
        BY <1>1, <1>4, <2>2 DEF ApplyReturns
  <2>3. CASE reply[r].kind # "error"
        BY <1>0, <1>4, <2>1, <2>3, EchoIsDeclared, RunBusy
  <2>4. QED BY <2>2, <2>3
<1>5. CASE Delete(r) \/ StopReturns(r)
      BY <1>0, <1>5, RunBusy DEF Delete, StopReturns
<1>6. CASE RealizeReturns(r) \/ DeleteReturns(r) \/ ImportReturns(r)
      BY <1>0, <1>1, <1>6, ReturnBusy DEF RealizeReturns, DeleteReturns, ImportReturns
<1>7. QED BY <1>2, <1>3, <1>4, <1>5, <1>6 DEF Handler

\* The firewall does not change which command a handler waits for.
LEMMA ServeBusy ==
    ASSUME ProviderType, NEW r \in Resource, Busy(r), Serve(r) \/ Network(r)
    PROVE  Busy(r)'
<1>1. UNCHANGED <<pc, model>>
      BY DEF Serve, ServeRead, Parse, Write, Configctl, Network, Break, Retry, Silent
<1>2. ASSUME NEW a, Respond(r, a) PROVE Busy(r)'
  <2>1. wire'[r] = None
        BY <1>2 DEF Respond, ProviderType
  <2>2. QED BY <1>1, <2>1 DEF Busy
<1>3. ASSUME NEW t, wire[r] # None, wire' = [wire EXCEPT ![r].seen = t] PROVE Busy(r)'
  <2>1. wire'[r].m = wire[r].m /\ wire'[r].op = wire[r].op
        BY <1>3 DEF ProviderType, Script
  <2>2. QED BY <1>1, <1>3, <2>1 DEF Busy
<1>4. QED BY <1>2, <1>3 DEF Serve, ServeRead, Parse, Write, Configctl, Network, Break, Retry, Silent

LEMMA BusyStep ==
    ASSUME NEW t0 \in Aligned, PlaceInv(t0), [Next]_vars, NEW r \in Resource
    PROVE  Busy(r)'
<1>0. ProviderType /\ Busy(r)
      BY TypeParts DEF PlaceInv, OwnInv
<1>1. ASSUME UNCHANGED <<pc[r], model[r], wire[r]>> PROVE Busy(r)'
      BY <1>0, <1>1 DEF Busy
<1>2. ASSUME NEW q \in Resource, Handler(q) \/ Operator(q) \/ Serve(q) \/ Network(q)
      PROVE  Busy(r)'
  <2>1. CASE q # r
        BY <1>0, <1>1, <1>2, <2>1, OthersStill
  <2>2. CASE Operator(r)
        BY <1>0, <1>1, <2>2, RunBusy DEF Operator, ConfigChange, ImportState
  <2>3. QED BY <1>0, <1>2, <2>1, <2>2, HandlerBusy, ServeBusy
<1>3. ASSUME pc'[r] \in {"idle", "refresh", "planned"} PROVE Busy(r)'
      BY <1>3 DEF Busy
<1>4. CASE StartRun \/ FinishRefresh \/ AbortRefresh \/ Crash
      BY <1>3, <1>4 DEF StartRun, FinishRefresh, AbortRefresh, Crash
<1>5. CASE (\E p \in orphans : OrphanStep(p)) \/ Administrator \/ UNCHANGED vars
      BY <1>1, <1>5 DEF OrphanStep, Administrator, AdminEdit, AdminDelete, vars, provider
<1>6. QED BY <1>2, <1>4, <1>5 DEF Next

\* Once a write has undone a change, the history keeps it.
LEMMA UndoneStays ==
    ASSUME [Next]_vars, TypeInv, undone
    PROVE  undone'
<1>1. ASSUME NEW p, NEW t, WriteConfig(p, t) PROVE undone'
      BY <1>1 DEF WriteConfig
<1>2. ASSUME NEW r \in Resource, Handler(r) \/ Operator(r) PROVE undone'
      BY <1>2, HandlerType, OperatorType DEF device
<1>3. ASSUME NEW r \in Resource, Serve(r) \/ Network(r) PROVE undone'
      BY <1>1, <1>3 DEF Serve, ServeRead, Parse, Write, Configctl, Network, Break, Retry, Silent, device
<1>4. QED BY <1>1, <1>2, <1>3 DEF Next, StartRun, FinishRefresh, AbortRefresh, Crash, OrphanStep,
         Administrator, AdminEdit, AdminDelete, vars, device

\* An apply writes the resource's own section, and another command that writes
\* leaves it as it was read.
LEMMA WrittenHome ==
    ASSUME NEW t0 \in Aligned, OwnInv(t0), NEW r \in Resource, wire[r] # None, wire[r].seen # None,
           wire[r].op = "apply", NEW w \in Written(wire[r])
    PROVE  w[1] = Applied(wire[r].seen, wire[r].m.section, wire[r].m)
<1>0. ProviderType /\ t0 \in Existing
      BY TypeParts DEF OwnInv, Aligned
<1>1. wire[r] \in Script /\ wire[r] \in Scripts /\ wire[r].seen \in Table /\ wire[r].seen \in Tables
      BY <1>0 DEF ProviderType, Script, Scripts, Tables
<1>2. wire[r].m \in Blocks[r] /\ Respects(t0, r, wire[r].seen)
      BY <1>1 DEF OwnInv, ResourceOwn
<1>3. PICK s \in Resolve(wire[r].seen, wire[r].m) : w = <<Applied(wire[r].seen, s, wire[r].m), s>>
      BY DEF Written
<1>4. s = wire[r].m.section
      BY <1>0, <1>1, <1>2, ResolveOwn, HomeAlone
<1>5. QED BY <1>3, <1>4

\* What a handler writes leaves the territory of the others as it was, or
\* undoes a change.
LEMMA WrittenElsewhere ==
    ASSUME SectionsApart, NEW t0 \in Aligned, PlaceInv(t0), NEW q \in Resource, wire[q] # None,
           wire[q].seen # None, Writes(wire[q]), NEW w \in Written(wire[q]),
           WriteConfig(wire[q], w[1]), ~undone',
           NEW r \in Resource, r # q, NEW s \in Territory(r, t0)
    PROVE  xml'[s] = xml[s]
<1>0. ProviderType /\ OwnInv(t0) /\ s \in Section
      BY TypeParts DEF PlaceInv, OwnInv, Territory
<1>1. wire[q] \in Script /\ wire[q].seen \in Table /\ wire[q].m \in Model
      BY <1>0 DEF ProviderType, Script
<1>2. xml' = w[1] /\ (wire[q].seen = xml \/ w[1] = xml)
      BY DEF WriteConfig
<1>3. CASE wire[q].op = "apply"
  <2>1. w[1] = Applied(wire[q].seen, wire[q].m.section, wire[q].m)
        BY <1>0, <1>3, WrittenHome
  <2>2. wire[q].m.section \in Territory(q, t0)
        BY <1>0, <1>3, HomeAlone DEF OwnInv, ResourceOwn
  <2>3. s # wire[q].m.section
        BY <2>2, TerritoriesApart
  <2>4. w[1][s] = wire[q].seen[s]
        BY <1>0, <1>1, <2>1, <2>3 DEF Applied, Table
  <2>5. QED BY <1>2, <2>4
<1>4. CASE wire[q].op = "delete"
  <2>1. pc[q] = "delete" /\ wire[q].m = model[q] /\ model[q] # None
    <3>1. pc[q] \notin {"idle", "planned", "refresh", "import"}
          BY <1>0, <1>4 DEF ProviderType, PhaseOK
    <3>2. pc[q] \in {"apply", "realize", "stop", "delete"}
          BY <1>0, <3>1 DEF ProviderType, Phase
    <3>3. QED BY <1>0, <1>4, <3>2 DEF PlaceInv, Busy, ProviderType, PhaseOK
  <2>2. wire[q].m.section \in Territory(q, t0)
        BY <1>0, <2>1 DEF OwnInv, ResourceOwn
  <2>3. s # wire[q].m.section
        BY <2>2, TerritoriesApart
  <2>4. w[1] \in {xml, [wire[q].seen EXCEPT ![wire[q].m.section] = None]}
        BY <1>4 DEF Written
  <2>5. w[1] = xml \/ w[1][s] = wire[q].seen[s]
        BY <1>0, <1>1, <2>3, <2>4 DEF Table
  <2>6. QED BY <1>2, <2>5
<1>5. QED BY <1>3, <1>4 DEF Writes

\* Nor does it stop or reconfigure one of theirs.
LEMMA CommandedElsewhere ==
    ASSUME SectionsApart, NEW t0 \in Aligned, PlaceInv(t0), NEW q \in Resource, wire[q] # None,
           Commands(wire[q]), running' = Commanded(wire[q]),
           NEW r \in Resource, r # q, NEW s \in Territory(r, t0)
    PROVE  running'[s] = running[s]
<1>0. ProviderType /\ DeviceType /\ OwnInv(t0) /\ s \in Section
      BY TypeParts DEF PlaceInv, OwnInv, Territory
<1>1. wire[q].op \in {"stop", "realize"}
      BY DEF Commands
<1>2. pc[q] \notin {"idle", "planned", "refresh", "import"}
      BY <1>0, <1>1 DEF ProviderType, PhaseOK
<1>3. pc[q] \in {"apply", "realize", "stop", "delete"}
      BY <1>0, <1>2 DEF ProviderType, Phase
<1>4. wire[q].m = model[q] /\ model[q] # None
      BY <1>0, <1>3 DEF PlaceInv, Busy, ProviderType, PhaseOK
<1>5. wire[q].m.section \in Territory(q, t0)
      BY <1>0, <1>3, <1>4 DEF OwnInv, ResourceOwn
<1>6. s # wire[q].m.section
      BY <1>5, TerritoriesApart
<1>7. QED BY <1>0, <1>1, <1>6 DEF Commanded, DeviceType, Table

\* What others may do to a section on the way to a success.
LEMMA LandedKept ==
    ASSUME NEW r \in Resource, Landed(r), UNCHANGED <<pc[r], model[r], reply[r]>>,
           pc[r] \in {"apply", "realize"} =>
             LET s == model[r].section
             IN  \/ xml'[s] = xml[s] /\ running'[s] = running[s]
                 \/ s \in Admin /\ running'[s] = xml'[s]
    PROVE  Landed(r)'
<1> DEFINE s == model[r].section
<1>1. CASE pc[r] \in {"apply", "realize"}
  <2>1. CASE xml'[s] = xml[s] /\ running'[s] = running[s]
        BY <1>1, <2>1 DEF Landed, Stored, Succeeds, Carries
  <2>2. CASE s \in Admin /\ running'[s] = xml'[s]
        BY <1>1, <2>2 DEF Landed, Stored, Succeeds, Carries
  <2>3. QED BY <1>1, <2>1, <2>2
<1>2. CASE pc[r] \notin {"apply", "realize"}
      BY <1>2 DEF Landed, Succeeds
<1>3. QED BY <1>1, <1>2

LEMMA OthersLanded ==
    ASSUME SectionsApart, NEW t0 \in Aligned, PlaceInv(t0), ~undone', NEW r \in Resource, Landed(r),
           NEW q \in Resource, r # q, Handler(q) \/ Operator(q) \/ Serve(q) \/ Network(q)
    PROVE  Landed(r)'
<1>0. ProviderType /\ TypeInv
      BY TypeParts DEF PlaceInv, OwnInv
<1>1. UNCHANGED <<pc[r], model[r], reply[r]>>
      BY <1>0, OthersStill
<1>2. SUFFICES ASSUME pc[r] \in {"apply", "realize"}
               PROVE  LET s == model[r].section
                      IN  xml'[s] = xml[s] /\ running'[s] = running[s]
      BY <1>1, LandedKept
<1> DEFINE s == model[r].section
<1>3. model[r] # None
      BY <1>0, <1>2 DEF ProviderType, PhaseOK
<1>4. s \in Territory(r, t0)
      BY <1>2, <1>3 DEF PlaceInv, OwnInv, ResourceOwn
<1> HIDE DEF s
<1>5. CASE Handler(q) \/ Operator(q)
      BY <1>0, <1>5, HandlerType, OperatorType DEF s, device
<1>6. ASSUME wire[q] # None, wire[q].seen # None, Writes(wire[q]), NEW w \in Written(wire[q]),
             WriteConfig(wire[q], w[1]), UNCHANGED running
      PROVE  xml'[s] = xml[s] /\ running'[s] = running[s]
      BY <1>4, <1>6, WrittenElsewhere
<1>7. CASE Write(q)
      BY <1>6, <1>7 DEF Write, s
<1>8. CASE Configctl(q)
      BY <1>4, <1>8, CommandedElsewhere DEF Configctl, s
<1>9. CASE ServeRead(q) \/ Parse(q) \/ Break(q) \/ Retry(q)
      BY <1>9 DEF ServeRead, Parse, Break, Retry, device, s
<1>10. CASE Silent(q)
       BY <1>6, <1>10 DEF Silent, Writes, s
<1>11. QED BY <1>5, <1>7, <1>8, <1>9, <1>10 DEF Serve, Network

\* The apply script stores the block, configctl has it run.
LEMMA ServeLanded ==
    ASSUME NEW t0 \in Aligned, PlaceInv(t0), NEW r \in Resource, Landed(r), Serve(r) \/ Network(r)
    PROVE  Landed(r)'
<1>0. ProviderType /\ DeviceType /\ OwnInv(t0) /\ Busy(r) /\ PhaseOK(r)
      BY TypeParts DEF PlaceInv, OwnInv, ProviderType
<1>1. wire[r] # None /\ wire[r] \in Script /\ reply[r] = None /\ UNCHANGED <<pc, model>>
      BY <1>0 DEF Serve, ServeRead, Parse, Write, Configctl, Network, Break, Retry, Silent,
         ProviderType, PhaseOK
<1>2. pc[r] \in {"apply", "realize"} =>
        /\ wire[r].op = pc[r] /\ wire[r].m = model[r]
        /\ model[r] \in Blocks[r] /\ model[r] \in Model /\ model[r].section \in Section
      BY <1>0, <1>1, DataAssumption DEF Busy, Model
<1>3. CASE pc[r] \notin {"apply", "realize"}
      BY <1>1, <1>3 DEF Landed, Succeeds
<1>4. CASE pc[r] = "apply"
  <2>1. CASE reply'[r] = None \/ reply'[r].kind = "error"
        BY <1>1, <1>4, <2>1 DEF Landed, Succeeds
  <2>2. ASSUME wire[r].seen # None, NEW w \in Written(wire[r]), WriteConfig(wire[r], w[1])
        PROVE  Landed(r)'
    <3>1. xml' = Applied(wire[r].seen, model[r].section, model[r]) /\ wire[r].seen \in Table
          BY <1>0, <1>1, <1>2, <1>4, <2>2, WrittenHome DEF WriteConfig, Script
    <3>2. xml'[model[r].section] = [device |-> model[r].device, descr |-> Text(model[r].descr),
                                    addr |-> Text(model[r].addr)]
          BY <1>2, <1>4, <3>1 DEF Applied, Table
    <3>3. xml'[model[r].section] \in Iface
      <4>1. xml' \in Table /\ [device |-> model[r].device, descr |-> Text(model[r].descr),
                               addr |-> Text(model[r].addr)] \in Iface
            BY <1>2, <1>4, <3>1, DataAssumption DEF Iface, Model, Text, Applied, Table
      <4>2. QED BY <3>2, <4>1
    <3>4. Carries(xml'[model[r].section], model[r]) /\ xml'[model[r].section] # None
          BY <3>2, <3>3, SentinelAssumption DEF Carries, Text
    <3>5. QED BY <1>1, <1>4, <3>4 DEF Landed, Stored, Succeeds, Carries
  <2>3. CASE ServeRead(r) \/ Configctl(r)
        BY <1>2, <1>4, <2>3 DEF ServeRead, Configctl, Commands
  <2>4. CASE Parse(r) \/ Retry(r)
        BY <1>1, <2>1, <2>4 DEF Parse, Retry
  <2>5. CASE Write(r)
        BY <2>2, <2>5 DEF Write
  <2>6. CASE Break(r)
    <3>1. reply'[r] = Answer("error", None, None)
          BY <1>0, <2>6 DEF Break, Respond, ProviderType
    <3>2. QED BY <2>1, <3>1 DEF Answer
  <2>7. CASE Silent(r)
        BY <1>2, <1>4, <2>2, <2>7 DEF Silent
  <2>8. QED BY <2>3, <2>4, <2>5, <2>6, <2>7 DEF Serve, Network
<1>5. CASE pc[r] = "realize"
  <2>1. CASE ServeRead(r) \/ Parse(r) \/ Write(r) \/ Silent(r)
        BY <1>2, <1>5, <2>1 DEF ServeRead, Parse, Write, Silent, Writes
  <2>2. CASE Configctl(r)
    <3>1. running'[model[r].section] = xml'[model[r].section] /\ xml' = xml
          BY <1>0, <1>2, <1>5, <2>2 DEF Configctl, Commanded, Landed, Stored, DeviceType, Table
    <3>2. QED BY <1>1, <1>5, <3>1 DEF Landed, Stored, Succeeds, Carries
  <2>3. CASE Break(r)
    <3>1. reply'[r] = Answer("error", None, None)
          BY <1>0, <2>3 DEF Break, Respond, ProviderType
    <3>2. QED BY <1>1, <1>5, <2>3, <3>1 DEF Break, Answer, Landed, Stored, Succeeds, Carries
  <2>4. CASE Retry(r)
        BY <1>1, <1>5, <2>4 DEF Retry, Landed, Stored, Succeeds, Carries
  <2>5. QED BY <2>1, <2>2, <2>3, <2>4 DEF Serve, Network
<1>6. QED BY <1>3, <1>4, <1>5

LEMMA HandlerLanded ==
    ASSUME NEW t0 \in Aligned, PlaceInv(t0), NEW r \in Resource, Landed(r), Handler(r) \/ Operator(r)
    PROVE  Landed(r)'
<1>0. ProviderType /\ TypeInv /\ UNCHANGED <<xml, running>>
      BY TypeParts, HandlerType, OperatorType DEF PlaceInv, OwnInv, device
<1>1. ASSUME pc'[r] \notin {"apply", "realize"} PROVE Landed(r)'
      BY <1>1 DEF Landed, Succeeds
<1>2. ASSUME NEW new, NEW next \in {"idle", "planned"}, Return(r, new, next) PROVE Landed(r)'
      BY <1>0, <1>1, <1>2 DEF Return, ProviderType
<1>3. ASSUME Fail(r) PROVE Landed(r)'
      BY <1>2, <1>3 DEF Fail
<1>4. ASSUME NEW phase, NEW op, NEW m, Run(r, phase, op, m)
      PROVE  pc'[r] = phase /\ model'[r] = m /\ reply'[r] = None
      BY <1>0, <1>4 DEF Run, ProviderType
<1>5. CASE applyAssign(r)
      BY <1>4, <1>5 DEF applyAssign, Landed, Succeeds
<1>6. CASE ApplyReturns(r)
  <2>1. CASE reply[r].kind = "error"
        BY <1>3, <1>6, <2>1 DEF ApplyReturns
  <2>2. CASE reply[r].kind # "error"
    <3>1. pc'[r] = "realize" /\ model'[r] = model[r] /\ reply'[r] = None
          BY <1>4, <1>6, <2>2, EchoIsDeclared
    <3>2. Stored(model[r].section, model[r])
          BY <1>6, <2>2 DEF ApplyReturns, Landed
    <3>3. QED BY <1>0, <3>1, <3>2 DEF Landed, Stored, Succeeds, Carries
  <2>3. QED BY <2>1, <2>2
<1>7. CASE Delete(r) \/ StopReturns(r)
      BY <1>1, <1>4, <1>7 DEF Delete, StopReturns
<1>8. CASE NoChange(r) \/ RealizeReturns(r) \/ DeleteReturns(r) \/ ImportReturns(r)
      BY <1>2, <1>3, <1>8 DEF NoChange, RealizeReturns, DeleteReturns, ImportReturns
<1>9. CASE Operator(r)
  <2>1. ASSUME NEW c, ConfigChange(r, c) PROVE Landed(r)'
        BY <1>1, <2>1 DEF ConfigChange, AllIdle
  <2>2. ASSUME NEW s, ImportState(r, s) PROVE Landed(r)'
        BY <1>1, <1>4, <2>2 DEF ImportState
  <2>3. QED BY <1>9, <2>1, <2>2 DEF Operator
<1>10. QED BY <1>5, <1>6, <1>7, <1>8, <1>9 DEF Handler

LEMMA LandedStep ==
    ASSUME SectionsApart, NEW t0 \in Aligned, PlaceInv(t0), orphans = {}, [Next]_vars, ~undone',
           NEW r \in Resource
    PROVE  Landed(r)'
<1>0. ProviderType /\ DeviceType /\ TypeInv
      BY TypeParts DEF PlaceInv, OwnInv
<1>1. Landed(r)
      BY <1>0, UndoneStays DEF PlaceInv
<1>2. ASSUME NEW q \in Resource, Handler(q) \/ Operator(q) \/ Serve(q) \/ Network(q)
      PROVE  Landed(r)'
      BY <1>1, <1>2, OthersLanded, HandlerLanded, ServeLanded
<1>3. ASSUME pc'[r] \in {"idle", "refresh", "planned"} PROVE Landed(r)'
      BY <1>3 DEF Landed, Succeeds
<1>4. CASE StartRun \/ FinishRefresh \/ AbortRefresh \/ Crash
      BY <1>3, <1>4 DEF StartRun, FinishRefresh, AbortRefresh, Crash
<1>5. CASE Administrator
  <2>1. PICK s \in Admin : AdminDelete(s) \/ \E a \in Addr : AdminEdit(s, a)
        BY <1>5 DEF Administrator
  <2>2. s \in Section /\ UNCHANGED <<pc[r], model[r], reply[r]>>
        BY <2>1, DataAssumption DEF AdminDelete, AdminEdit, provider
  <2>3. running'[s] = xml'[s]
        BY <1>0, <2>1, <2>2 DEF AdminDelete, AdminEdit, DeviceType, Table
  <2>4. \A o \in Section \ {s} : xml'[o] = xml[o] /\ running'[o] = running[o]
        BY <1>0, <2>1, <2>2 DEF AdminDelete, AdminEdit, DeviceType, Table
  <2>5. pc[r] \in {"apply", "realize"} => model[r].section \in Section
        BY DataAssumption DEF PlaceInv, Busy, Model
  <2>6. QED BY <1>1, <2>2, <2>3, <2>4, <2>5, LandedKept
<1>6. CASE UNCHANGED vars
      BY <1>1, <1>6, LandedKept DEF vars, provider, device
<1>7. QED BY <1>2, <1>4, <1>5, <1>6 DEF Next

\* For any interfaces the firewall starts from with which every block names
\* one section that only its resource finds, whatever faults there are but
\* abandoned commands: a create or update that is about to succeed has its
\* section as declared and running, until a write undoes another change.
THEOREM SuccessInPlace ==
    ASSUME \A t \in Aligned : Distinct(t), SectionsApart
    PROVE  Spec => SuccessMeansInPlace
<1> DEFINE PlaceKept == \E t0 \in Aligned : PlaceInv(t0)
           Landing   == \A r \in Resource :
                          Succeeds(r) => undone \/ TakenEffect(model[r].section, model[r])
<1>1. Init /\ xml \in Aligned => PlaceKept
  <2> SUFFICES ASSUME Init, xml \in Aligned PROVE PlaceInv(xml)
      OBVIOUS
  <2>1. xml \in Existing /\ Distinct(xml) /\ OwnInv(xml)
        BY InitOwn DEF Aligned
  <2>2. \A r \in Resource : Busy(r) /\ Landed(r)
        BY DEF Init, Busy, Landed, Succeeds
  <2>3. QED BY <2>1, <2>2 DEF PlaceInv
<1>2. PlaceKept /\ TypeInv' /\ [Next]_vars => orphans # {} \/ PlaceKept'
  <2> SUFFICES ASSUME NEW t0 \in Aligned, PlaceInv(t0), TypeInv', orphans = {}, [Next]_vars
               PROVE  PlaceInv(t0)'
      OBVIOUS
  <2>1. OwnInv(t0)'
        BY OwnStep DEF PlaceInv, Aligned
  <2>2. \A r \in Resource : Busy(r)'
        BY BusyStep
  <2>3. \A r \in Resource : undone' \/ Landed(r)'
        BY LandedStep
  <2>4. QED BY <2>1, <2>2, <2>3 DEF PlaceInv
<1>3. PlaceKept => Landing
  <2> SUFFICES ASSUME NEW t0 \in Aligned, PlaceInv(t0), NEW r \in Resource, Succeeds(r), ~undone
               PROVE  TakenEffect(model[r].section, model[r])
      OBVIOUS
  <2>1. QED BY DEF PlaceInv, Landed, Stored, Succeeds, TakenEffect
<1>4. QED BY <1>1, <1>2, <1>3, TypeInvariant, PTL DEF Spec, SuccessMeansInPlace
=============================================================================

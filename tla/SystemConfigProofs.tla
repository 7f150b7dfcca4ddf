-------------------------- MODULE SystemConfigProofs --------------------------
(***************************************************************************)
(* Theorems about SystemConfig for any blocks, settings, and numbers of    *)
(* faults, abandoned commands and edits.                                   *)
(***************************************************************************)
EXTENDS SystemConfig, TLAPS

\* A command of an apply carries a block that needs it.
ScriptOK(p) == p.op # "read" => p.m # None /\ Needed(p.op, p.m)

\* What the handler's phase tells of its variables: nothing is under way
\* outside of it, a read reports config.xml, and an apply waits for the answer
\* to the command it is at.
HandlerOK ==
    /\ pc \in {"idle", "planned"} => wire = None /\ reply = None
    /\ pc = "refresh" => state # None
    /\ pc \in Step => model # None /\ Needed(pc, model)
    /\ wire # None => reply = None /\ ScriptOK(wire)
    /\ (wire # None /\ pc \in {"refresh", "import"}) => wire.op = "read"
    /\ (wire # None /\ pc \in Step) => wire.op = pc /\ wire.m = model
    /\ (reply # None /\ pc \in {"refresh", "import"} /\ reply.kind = "ok") => reply.seen # None

ProviderType ==
    /\ config \in Model \union {None}
    /\ state \in Model \union {None}
    /\ pc \in Phase
    /\ model \in Model \union {None}
    /\ wire \in Script \union {None}
    /\ reply \in Reply \union {None}
    /\ HandlerOK

FailedType ==
    /\ failed \in BOOLEAN
    /\ failed => pc \in {"sysctl", "syslog", "users", "sshd", "trap", "snmp"}

DeviceType ==
    /\ orphans \subseteq Script
    /\ \A p \in orphans : ScriptOK(p)
    /\ stored \in Settings
    /\ running \in Settings

CountersType == faults \in 0..MaxFaults /\ edits \in 0..MaxEdits

HistoryType == erred \subseteq Op /\ overtaken \subseteq Attr

TypeInv == ProviderType /\ FailedType /\ DeviceType /\ HistoryType /\ CountersType

-----------------------------------------------------------------------------
(* The series of commands.                                                 *)

LEMMA OrderValues ==
    /\ Order[1] = "write"  /\ Order[2] = "ntpd"  /\ Order[3] = "sysctl" /\ Order[4] = "syslog"
    /\ Order[5] = "users"  /\ Order[6] = "sshd"  /\ Order[7] = "trap"   /\ Order[8] = "snmp"
BY DEF Order

LEMMA Positions == 1..8 = {1, 2, 3, 4, 5, 6, 7, 8}
OBVIOUS

LEMMA StepValues ==
    Step = {"write", "ntpd", "sysctl", "syslog", "users", "sshd", "trap", "snmp"}
BY OrderValues, Positions DEF Step

\* No command comes twice.
LEMMA OrderInjective ==
    ASSUME NEW i \in 1..8, NEW j \in 1..8, Order[i] = Order[j]
    PROVE  i = j
BY OrderValues, Positions

\* What is left to do is what is needed further on.
LEMMA LaterAre ==
    ASSUME NEW j \in 1..8, NEW m
    PROVE  Later(Order[j], m) = {i \in (j + 1)..8 : Needed(Order[i], m)}
<1>1. ASSUME NEW i \in Later(Order[j], m) PROVE i \in (j + 1)..8 /\ Needed(Order[i], m)
  <2>1. i \in 1..8 /\ Needed(Order[i], m) /\ \E k \in 1..(i - 1) : Order[k] = Order[j]
        BY DEF Later
  <2>2. PICK k \in 1..(i - 1) : Order[k] = Order[j]
        BY <2>1
  <2>3. k \in 1..8
        BY <2>1
  <2>4. k = j
        BY <2>2, <2>3, OrderInjective
  <2>5. QED BY <2>1, <2>4
<1>2. ASSUME NEW i \in (j + 1)..8, Needed(Order[i], m) PROVE i \in Later(Order[j], m)
  <2>1. i \in 1..8 /\ j \in 1..(i - 1)
        OBVIOUS
  <2>2. QED BY <1>2, <2>1 DEF Later
<1>3. QED BY <1>1, <1>2

\* An attribute that is set in config.xml has a value.
LEMMA EmittedValue ==
    ASSUME NEW m \in Model, NEW a \in Emitted(m)
    PROVE  a \in InXml /\ m[a] \in Value /\ m[a] # None /\ a \in Declared(m)
<1>1. a \in InXml /\ m[a] # None /\ a \in Attr \ {"trap"}
      BY DEF Emitted, InXml, Attr
<1>2. m[a] \in Value /\ m[a] # Empty
      BY <1>1 DEF Model
<1>3. QED BY <1>1, <1>2 DEF Declared

LEMMA NeededValue ==
    ASSUME NEW m \in Model
    PROVE  /\ Needed("sysctl", m) => m["tunable"] \in Value
           /\ Needed("users", m) => m["users"] \in Value
           /\ Needed("trap", m) => m["trap"] \in Value
BY DEF Needed, Model, Attr, InXml

-----------------------------------------------------------------------------
(* What commands do.                                                       *)

LEMMA TheXmlType == stored \in Settings => TheXml \in Xml
BY DEF TheXml, Xml, Settings

LEMMA WrittenType ==
    ASSUME stored \in Settings, NEW p \in Script, p.m # None, p.seen # None
    PROVE  Written(p) \in Settings
<1>1. p.m \in Model /\ p.seen \in Xml
      BY DEF Script
<1>2. \A a \in Emitted(p.m) : p.m[a] \in Value /\ a \in InXml
      BY <1>1, EmittedValue
<1>3. \A a \in InXml : Written(p)[a] \in Value
      BY <1>1, <1>2 DEF Written, Xml, Attr
<1>4. \A a \in Attr \ InXml : Written(p)[a] = stored[a]
      BY <1>2 DEF Written
<1>5. "users" \in Attr \ InXml /\ "trap" \in Attr \ InXml /\ InXml \subseteq Attr
      BY DEF Attr, InXml
<1>6. DOMAIN Written(p) = Attr /\ Written(p) = [a \in Attr |-> Written(p)[a]]
      BY DEF Written
<1>7. \A a \in Attr : Written(p)[a] \in Value \union {None} \union AllowUsersConf
      BY <1>3, <1>4 DEF Settings
<1>8. QED BY <1>3, <1>4, <1>5, <1>6, <1>7 DEF Settings

\* A drop-in file may be replaced, or go.
LEMMA DropInType ==
    ASSUME NEW b \in Settings
    PROVE  /\ \A v \in AllowUsersConf \union {None} : [b EXCEPT !["users"] = v] \in Settings
           /\ \A v \in Value \union {None} : [b EXCEPT !["trap"] = v] \in Settings
           /\ \A a \in InXml, v \in Value : [b EXCEPT ![a] = v] \in Settings
<1>1. "users" \in Attr \ InXml /\ "trap" \in Attr \ InXml /\ InXml \subseteq Attr
      BY DEF Attr, InXml
<1>2. ASSUME NEW v \in AllowUsersConf \union {None} PROVE [b EXCEPT !["users"] = v] \in Settings
      BY <1>1 DEF Settings
<1>3. ASSUME NEW v \in Value \union {None} PROVE [b EXCEPT !["trap"] = v] \in Settings
      BY <1>1 DEF Settings
<1>4. ASSUME NEW a \in InXml, NEW v \in Value PROVE [b EXCEPT ![a] = v] \in Settings
      BY <1>1 DEF Settings
<1>5. QED BY <1>2, <1>3, <1>4

LEMMA ActsType ==
    ASSUME stored \in Settings, running \in Settings, NEW p \in Script, ScriptOK(p),
           p.op # "read", Acts(p)
    PROVE  stored' \in Settings /\ running' \in Settings
<1>1. p.m \in Model /\ Needed(p.op, p.m)
      BY DEF Script, ScriptOK
<1>2. stored' \in Settings
  <2>1. CASE p.op = "write"
        BY <1>1, <2>1, WrittenType DEF Acts, ScriptOK
  <2>2. CASE p.op = "users"
    <3>1. AllowUsers(p.m["users"]) \in AllowUsersConf
          BY <1>1, <2>2, NeededValue DEF AllowUsers, AllowUsersConf
    <3>2. QED BY <2>2, <3>1, DropInType DEF Acts
  <2>3. CASE p.op = "trap"
        BY <1>1, <2>3, NeededValue, DropInType DEF Acts
  <2>4. CASE p.op \notin {"write", "users", "trap"}
        BY <2>4 DEF Acts
  <2>5. QED BY <2>1, <2>2, <2>3, <2>4
<1>3. running' = [a \in Attr |-> CASE a \in Loads(p)                    -> stored'[a]
                                   [] a = "tunable" /\ p.op = "sysctl" -> p.m[a]
                                   [] OTHER                            -> running[a]]
      BY DEF Acts
<1>4. \A a \in Attr : running'[a] \in {stored'[a], running[a]}
                      \/ (a = "tunable" /\ running'[a] \in Value)
      BY <1>1, <1>3, NeededValue
<1>5. "users" \in Attr \ InXml /\ "trap" \in Attr \ InXml /\ InXml \subseteq Attr
      BY DEF Attr, InXml
<1>6. "tunable" \notin {"users", "trap"}
      OBVIOUS
<1>7. running' = [a \in Attr |-> running'[a]]
      BY <1>3
<1>8. QED BY <1>2, <1>4, <1>5, <1>6, <1>7 DEF Settings

-----------------------------------------------------------------------------
(* Types.                                                                  *)

LEMMA RunType ==
    ASSUME ProviderType, NEW phase \in Phase, NEW op \in Op, NEW m \in Model \union {None},
           Run(phase, op, m), UNCHANGED config, state' \in Model \union {None},
           model' \in Model \union {None},
           \/ phase \in {"refresh", "import"} /\ op = "read" /\ (phase = "refresh" => state' # None)
           \/ phase \in Step /\ op = phase /\ m # None /\ Needed(op, m) /\ model' = m
    PROVE  ProviderType'
<1> DEFINE p == [op |-> op, m |-> m, seen |-> None]
<1>1. p \in Script /\ p # None
      BY SentinelAssumption DEF Script
<1>2. wire' = p /\ reply' = None /\ pc' = phase
      BY DEF Run
<1>3. phase \in Step => op # "read" /\ phase \notin {"idle", "planned", "refresh", "import"}
      BY StepValues
<1>4. phase \in {"refresh", "import"} => phase \notin Step \union {"idle", "planned"}
      BY StepValues
<1>5. ScriptOK(p)
      BY <1>3 DEF ScriptOK
<1>6. HandlerOK'
      BY <1>1, <1>2, <1>3, <1>4, <1>5 DEF HandlerOK, ScriptOK
<1>7. QED BY <1>1, <1>2, <1>6 DEF ProviderType

LEMMA ReturnType ==
    ASSUME ProviderType, NEW new \in Model \union {None}, NEW next \in {"idle", "planned"},
           Return(new, next), UNCHANGED config
    PROVE  ProviderType' /\ FailedType'
<1>1. next \notin Step /\ next \in Phase
      BY StepValues DEF Phase
<1>2. HandlerOK'
      BY <1>1 DEF Return, HandlerOK
<1>3. FailedType'
      BY DEF Return, FailedType
<1>4. QED BY <1>1, <1>2, <1>3 DEF Return, ProviderType

\* What is refreshed is a block again.
LEMMA RefreshedType ==
    ASSUME NEW m \in Model, NEW x \in Xml
    PROVE  Refreshed(m, x) \in Model
<1>1. ReadBack \subseteq InXml /\ InXml \subseteq Attr \ {"trap"}
      BY DEF ReadBack, InXml, Attr
<1>2. \A a \in ReadBack : x[a] \in Value /\ x[a] # Empty
      BY <1>1, SentinelAssumption DEF Xml
<1>3. QED BY <1>1, <1>2 DEF Refreshed, Model

LEMMA NoBlock == [a \in Attr |-> None] \in Model
BY SentinelAssumption DEF Model

\* The answer to r's command, whatever it says.
LEMMA RespondType ==
    ASSUME ProviderType, NEW a \in Reply, Respond(a),
           (pc \in {"refresh", "import"} /\ a.kind = "ok") => a.seen # None,
           wire # None, UNCHANGED <<config, state, pc, model>>
    PROVE  ProviderType'
<1>1. HandlerOK'
      BY DEF Respond, ProviderType, HandlerOK
<1>2. QED BY <1>1 DEF Respond, ProviderType

LEMMA RewireType ==
    ASSUME ProviderType, wire # None, NEW t \in Xml \union {None},
           wire' = [wire EXCEPT !.seen = t],
           UNCHANGED <<config, state, pc, model, reply>>
    PROVE  ProviderType'
<1>1. wire \in Script
      BY DEF ProviderType
<1>2. wire' \in Script /\ wire'.op = wire.op /\ wire'.m = wire.m /\ wire' # None
      BY <1>1, SentinelAssumption DEF Script
<1>3. HandlerOK'
      BY <1>2 DEF ProviderType, HandlerOK, ScriptOK
<1>4. QED BY <1>2, <1>3 DEF ProviderType

LEMMA AbandonType ==
    ASSUME DeviceType, NEW p \in Script, ScriptOK(p), Abandon(p), UNCHANGED <<stored, running>>
    PROVE  DeviceType'
BY DEF Abandon, DeviceType

\* The end of an apply, or its next command.
LEMMA ApplyReturnsType ==
    ASSUME ProviderType, FailedType, ApplyReturns
    PROVE  ProviderType' /\ FailedType'
<1> DEFINE error == failed \/ (reply.kind = "error" /\ pc \in Ends \union Noted)
           todo  == IF reply.kind = "error" /\ pc \in Ends THEN {} ELSE Later(pc, model)
<1>1. pc \in Step /\ model \in Model /\ model # None /\ UNCHANGED config
      BY DEF ApplyReturns, ProviderType, HandlerOK
<1>2. PICK k \in 1..8 : pc = Order[k]
      BY <1>1 DEF Step
<1>3. CASE todo = {}
  <2>1. Return(IF error THEN state ELSE model, "idle")
        BY <1>3 DEF ApplyReturns
  <2>2. QED BY <1>1, <2>1, ReturnType DEF ProviderType
<1>4. CASE todo # {}
  <2>1. PICK i \in todo : Run(Order[i], Order[i], model)
        BY <1>4 DEF ApplyReturns
  <2>2. failed' = error /\ UNCHANGED <<state, model>>
        BY <1>4 DEF ApplyReturns
  <2>3. i \in (k + 1)..8 /\ Needed(Order[i], model)
        BY <1>2, <2>1, LaterAre
  <2>4. Order[i] \in Step /\ Order[i] \in Op /\ Order[i] \in Phase
        BY <2>3 DEF Step, Op, Phase
  <2>5. ProviderType'
        BY <1>1, <2>1, <2>2, <2>3, <2>4, RunType DEF ProviderType
  <2>6. pc' = Order[i]
        BY <2>1 DEF Run
  <2>7. error => i \in 3..8
    <3>1. CASE failed
      <4>1. k \in 3..8
            BY <1>2, <3>1, OrderValues, Positions DEF FailedType
      <4>2. QED BY <2>3, <4>1
    <3>2. CASE reply.kind = "error" /\ pc \in Ends \union Noted
      <4>1. pc \in {"ntpd", "syslog"}
            BY <1>4, <3>2 DEF Noted
      <4>2. k \in {2, 4}
            BY <1>2, <4>1, OrderValues, Positions
      <4>3. QED BY <2>3, <4>2
    <3>3. QED BY <3>1, <3>2
  <2>8. i \in 3..8 => Order[i] \in {"sysctl", "syslog", "users", "sshd", "trap", "snmp"}
        BY OrderValues
  <2>9. FailedType'
    <3>1. failed' \in BOOLEAN
          BY <2>2 DEF FailedType
    <3>2. failed' => pc' \in {"sysctl", "syslog", "users", "sshd", "trap", "snmp"}
          BY <2>2, <2>6, <2>7, <2>8
    <3>3. QED BY <3>1, <3>2 DEF FailedType
  <2>10. QED BY <2>5, <2>9
<1>5. QED BY <1>3, <1>4

LEMMA HandlerType ==
    ASSUME ProviderType, FailedType, Handler
    PROVE  ProviderType' /\ FailedType' /\ UNCHANGED <<device, faults, edits>>
<1>0. /\ config \in Model \union {None} /\ state \in Model \union {None}
      /\ UNCHANGED <<config, device, faults, edits>>
      BY DEF Handler, StartRun, FinishRefresh, NoChange, apply, ApplyReturns, ImportReturns,
         ProviderType
<1>1. CASE StartRun
  <2>1. ~failed /\ UNCHANGED <<failed, state, model>> /\ pc = "idle"
        BY <1>1 DEF StartRun, FailedType
  <2>2. FailedType'
        BY <2>1 DEF FailedType
  <2>3. CASE state = None
    <3>1. pc' = "planned" /\ UNCHANGED <<wire, reply>>
          BY <1>1, <2>3 DEF StartRun
    <3>2. HandlerOK'
          BY <2>1, <3>1, StepValues DEF ProviderType, HandlerOK, ScriptOK
    <3>3. QED BY <1>0, <2>1, <2>2, <3>1, <3>2 DEF ProviderType, Phase
  <2>4. CASE state # None
    <3>1. Run("refresh", "read", None)
          BY <1>1, <2>4 DEF StartRun
    <3>2. ProviderType'
          BY <1>0, <2>1, <2>4, <3>1, RunType DEF ProviderType, Op, Phase
    <3>3. QED BY <1>0, <2>2, <3>2
  <2>5. QED BY <2>3, <2>4
<1>2. CASE FinishRefresh
  <2>1. CASE reply.kind = "error"
        BY <1>0, <1>2, <2>1, ReturnType DEF FinishRefresh
  <2>2. CASE reply.kind # "error"
    <3>1. Return(Refreshed(state, reply.seen), "planned")
          BY <1>2, <2>2 DEF FinishRefresh
    <3>2. reply \in Reply /\ state # None /\ pc = "refresh"
          BY <1>2 DEF FinishRefresh, ProviderType, HandlerOK
    <3>3. reply.seen \in Xml
          BY <2>2, <3>2, SentinelAssumption DEF ProviderType, HandlerOK, Reply
    <3>4. Refreshed(state, reply.seen) \in Model
          BY <1>0, <3>2, <3>3, RefreshedType
    <3>5. QED BY <1>0, <3>1, <3>4, ReturnType
  <2>3. QED BY <2>1, <2>2
<1>3. CASE NoChange
      BY <1>0, <1>3, ReturnType DEF NoChange
<1>4. CASE apply
  <2>1. /\ Run("write", "write", config) /\ model' = config /\ UNCHANGED <<state, failed>>
        /\ config # None /\ pc = "planned"
        BY <1>4 DEF apply, Creates, Updates
  <2>2. "write" \in Step /\ "write" \in Op /\ "write" \in Phase /\ Needed("write", config)
        BY StepValues DEF Op, Phase, Needed
  <2>3. ProviderType'
        BY <1>0, <2>1, <2>2, RunType
  <2>4. FailedType'
        BY <2>1 DEF FailedType
  <2>5. QED BY <1>0, <2>3, <2>4
<1>5. CASE ApplyReturns
      BY <1>0, <1>5, ApplyReturnsType
<1>6. CASE ImportReturns
  <2>1. CASE reply.kind = "error"
        BY <1>0, <1>6, <2>1, ReturnType DEF ImportReturns
  <2>2. CASE reply.kind # "error"
    <3>1. Return(Refreshed([a \in Attr |-> None], reply.seen), "idle")
          BY <1>6, <2>2 DEF ImportReturns
    <3>2. reply \in Reply /\ pc = "import" /\ reply # None
          BY <1>6 DEF ImportReturns, ProviderType
    <3>3. reply.seen \in Xml
          BY <2>2, <3>2 DEF ProviderType, HandlerOK, Reply
    <3>4. Refreshed([a \in Attr |-> None], reply.seen) \in Model
          BY <3>3, NoBlock, RefreshedType
    <3>5. QED BY <1>0, <3>1, <3>4, ReturnType
  <2>3. QED BY <2>1, <2>2
<1>7. QED BY <1>1, <1>2, <1>3, <1>4, <1>5, <1>6 DEF Handler

LEMMA FirewallType ==
    ASSUME ProviderType, DeviceType, Firewall
    PROVE  /\ ProviderType' /\ DeviceType'
           /\ UNCHANGED <<pc, failed, faults, edits>>
<1>0. wire # None /\ wire \in Script /\ ScriptOK(wire) /\ TheXml \in Xml
      BY TheXmlType DEF Firewall, ServeRead, Parse, Serve, ProviderType, HandlerOK, DeviceType
<1>1. CASE ServeRead
  <2>1. UNCHANGED <<config, state, pc, model, failed, device, faults, edits>>
        /\ Respond([kind |-> "ok", seen |-> TheXml])
        BY <1>1 DEF ServeRead
  <2>2. [kind |-> "ok", seen |-> TheXml] \in Reply /\ TheXml # None
        BY <1>0, SentinelAssumption DEF Reply
  <2>3. ProviderType'
        BY <1>0, <2>1, <2>2, RespondType
  <2>4. QED BY <2>1, <2>3 DEF device, DeviceType
<1>2. CASE Parse
  <2>1. UNCHANGED <<config, state, pc, model, failed, reply, device, faults, edits>>
        /\ wire' = [wire EXCEPT !.seen = TheXml]
        BY <1>2 DEF Parse
  <2>2. ProviderType'
        BY <1>0, <2>1, RewireType
  <2>3. QED BY <2>1, <2>2 DEF device, DeviceType
<1>3. CASE Serve
  <2>1. /\ UNCHANGED <<config, state, pc, model, failed, orphans, faults, edits>>
        /\ Respond([kind |-> "ok", seen |-> None]) /\ Acts(wire) /\ wire.op # "read"
        BY <1>3 DEF Serve
  <2>2. [kind |-> "ok", seen |-> None] \in Reply
        BY DEF Reply
  <2>3. pc \notin {"refresh", "import"}
        BY <1>0, <2>1 DEF ProviderType, HandlerOK
  <2>4. ProviderType'
        BY <1>0, <2>1, <2>2, <2>3, RespondType
  <2>5. DeviceType'
        BY <1>0, <2>1, ActsType DEF DeviceType
  <2>6. QED BY <2>1, <2>4, <2>5
<1>4. QED BY <1>1, <1>2, <1>3 DEF Firewall

LEMMA NetworkType ==
    ASSUME ProviderType, FailedType, DeviceType, CountersType, Network
    PROVE  ProviderType' /\ FailedType' /\ DeviceType' /\ CountersType'
<1>0. CountersType'
      BY BoundAssumption DEF CountersType, Network, Break, Retry, Refuse, Crash, Fault
<1>1. wire # None => wire \in Script /\ ScriptOK(wire)
      BY DEF ProviderType, HandlerOK
<1>2. [kind |-> "error", seen |-> None] \in Reply
      BY DEF Reply
<1>3. ASSUME UNCHANGED <<pc, failed>> PROVE FailedType'
      BY <1>3 DEF FailedType
<1>4. CASE Break
  <2>1. /\ wire # None /\ (Abandon(wire) \/ UNCHANGED orphans)
        /\ Respond([kind |-> "error", seen |-> None])
        /\ UNCHANGED <<config, state, pc, model, failed, stored, running, overtaken, edits>>
        BY <1>4 DEF Break
  <2>2. DeviceType'
        BY <1>1, <2>1, AbandonType DEF DeviceType
  <2>3. QED BY <1>0, <1>2, <1>3, <2>1, <2>2, RespondType
<1>5. CASE Retry
  <2>1. /\ wire # None /\ Abandon(wire) /\ wire' = [wire EXCEPT !.seen = None]
        /\ UNCHANGED <<config, state, pc, model, failed, reply, stored, running, overtaken, edits>>
        BY <1>5 DEF Retry
  <2>2. DeviceType'
        BY <1>1, <2>1, AbandonType
  <2>3. QED BY <1>0, <1>3, <2>1, <2>2, RewireType
<1>6. CASE Refuse
  <2>1. /\ wire # None /\ Respond([kind |-> "error", seen |-> None])
        /\ UNCHANGED <<config, state, pc, model, failed, orphans, running, edits>>
        BY <1>6 DEF Refuse
  <2>2. stored' \in Settings
    <3>1. CASE UNCHANGED stored
          BY <3>1 DEF DeviceType
    <3>2. CASE wire.op = "write" /\ wire.seen # None /\ stored' = Written(wire)
      <4>1. wire.m # None
            BY <1>1, <2>1, <3>2 DEF ScriptOK
      <4>2. QED BY <1>1, <2>1, <3>2, <4>1, WrittenType DEF DeviceType
    <3>3. CASE wire.op \in {"users", "trap"} /\ stored' = [stored EXCEPT ![wire.op] = None]
          BY <3>3, DropInType DEF DeviceType
    <3>4. QED BY <1>6, <3>1, <3>2, <3>3 DEF Refuse
  <2>3. DeviceType'
        BY <2>1, <2>2 DEF DeviceType
  <2>4. ProviderType'
        BY <1>2, <2>1, RespondType
  <2>5. FailedType'
        BY <1>3, <2>1
  <2>6. QED BY <1>0, <2>3, <2>4, <2>5
<1>7. CASE Crash
  <2>1. /\ Return(state, "idle") /\ (wire = None => UNCHANGED orphans)
        /\ (wire # None => Abandon(wire))
        /\ UNCHANGED <<config, stored, running, overtaken, edits>>
        BY <1>7 DEF Crash
  <2>2. DeviceType'
        BY <1>1, <2>1, AbandonType DEF DeviceType
  <2>3. QED BY <1>0, <2>1, <2>2, ReturnType DEF ProviderType
<1>8. QED BY <1>4, <1>5, <1>6, <1>7 DEF Network

LEMMA OrphanType ==
    ASSUME DeviceType, NEW p \in orphans, OrphanStep(p)
    PROVE  DeviceType' /\ UNCHANGED <<provider, faults, edits>>
<1>0. p \in Script /\ ScriptOK(p) /\ TheXml \in Xml
      BY TheXmlType DEF DeviceType
<1>1. CASE /\ orphans' = (orphans \ {p}) \union {[p EXCEPT !.seen = TheXml]}
           /\ UNCHANGED <<provider, stored, running, overtaken, faults, edits>>
  <2>1. [p EXCEPT !.seen = TheXml] \in Script /\ ScriptOK([p EXCEPT !.seen = TheXml])
        BY <1>0 DEF Script, ScriptOK
  <2>2. QED BY <1>1, <2>1 DEF DeviceType
<1>2. CASE Acts(p) /\ orphans' = orphans \ {p} /\ UNCHANGED <<provider, faults, edits>>
  <2>1. stored' \in Settings /\ running' \in Settings
    <3>1. CASE p.op # "read"
          BY <1>0, <1>2, <3>1, ActsType DEF DeviceType
    <3>2. CASE p.op = "read"
      <4>1. stored' = stored
            BY <1>2, <3>2 DEF Acts
      <4>2. running' = [a \in Attr |-> running[a]]
            BY <1>2, <3>2 DEF Acts, Loads
      <4>3. QED BY <4>1, <4>2 DEF DeviceType, Settings
    <3>3. QED BY <3>1, <3>2
  <2>2. QED BY <1>2, <2>1 DEF DeviceType
<1>3. QED BY <1>1, <1>2 DEF OrphanStep

LEMMA OperatorType ==
    ASSUME ProviderType, FailedType, CountersType, Operator
    PROVE  ProviderType' /\ FailedType' /\ CountersType' /\ UNCHANGED device
<1>1. UNCHANGED <<failed, device>> /\ pc = "idle" /\ ~failed
      BY DEF Operator, ImportState, ConfigChange, FailedType
<1>2. FailedType' /\ CountersType'
  <2>1. FailedType'
        BY <1>1 DEF FailedType
  <2>2. CountersType'
        BY BoundAssumption DEF Operator, ImportState, ConfigChange, CountersType
  <2>3. QED BY <2>1, <2>2
<1>3. CASE ImportState
  <2>1. Run("import", "read", None) /\ UNCHANGED <<config, state, model>>
        BY <1>3 DEF ImportState
  <2>2. ProviderType'
        BY <2>1, RunType DEF ProviderType, Op, Phase
  <2>3. QED BY <1>1, <1>2, <2>2
<1>4. ASSUME NEW c \in Configs \union {None}, ConfigChange(c) PROVE ProviderType'
  <2>1. config' \in Model \union {None} /\ UNCHANGED <<state, pc, model, wire, reply>>
        BY <1>4, DataAssumption DEF ConfigChange
  <2>2. QED BY <2>1 DEF ProviderType, HandlerOK
<1>5. QED BY <1>1, <1>2, <1>3, <1>4 DEF Operator

LEMMA AdministratorType ==
    ASSUME DeviceType, CountersType, Administrator
    PROVE  DeviceType' /\ CountersType' /\ UNCHANGED provider
<1>1. PICK a \in Drift, v \in Value : AdminEdit(a, v)
      BY DEF Administrator
<1>2. a \in InXml
      BY DataAssumption
<1>3. stored' \in Settings /\ running' \in Settings
      BY <1>1, <1>2, DropInType DEF AdminEdit, DeviceType
<1>4. CountersType'
      BY <1>1, BoundAssumption DEF AdminEdit, CountersType
<1>5. QED BY <1>1, <1>3, <1>4 DEF AdminEdit, DeviceType

LEMMA HistoryStep ==
    ASSUME ProviderType, DeviceType, HistoryType, [Next]_vars
    PROVE  HistoryType'
<1>1. erred' \subseteq Op
  <2>1. wire # None => wire.op \in Op
        BY DEF ProviderType, Script
  <2>2. erred' \in {erred, {}} \/ (wire # None /\ erred' = erred \union {wire.op})
    <3>1. CASE Handler \/ Operator
          BY <3>1 DEF Handler, StartRun, FinishRefresh, NoChange, apply, ApplyReturns,
             ImportReturns, Operator, ImportState, ConfigChange, Return
    <3>2. CASE Firewall \/ Network
          BY <3>2 DEF Firewall, ServeRead, Parse, Serve, Network, Break, Retry, Refuse, Crash,
             Return
    <3>3. CASE Administrator \/ (\E p \in orphans : OrphanStep(p)) \/ UNCHANGED vars
          BY <3>3 DEF Administrator, AdminEdit, OrphanStep, vars, provider
    <3>4. QED BY <3>1, <3>2, <3>3 DEF Next
  <2>3. QED BY <2>1, <2>2 DEF HistoryType
<1>2. overtaken' \subseteq Attr
  <2>1. CASE Handler \/ Operator
        BY <2>1 DEF Handler, StartRun, FinishRefresh, NoChange, apply, ApplyReturns,
           ImportReturns, Operator, ImportState, ConfigChange, HistoryType, device
  <2>2. CASE Firewall \/ Network
        BY <2>2 DEF Firewall, ServeRead, Parse, Serve, Network, Break, Retry, Refuse, Crash,
           HistoryType, device
  <2>3. ASSUME NEW p \in orphans, OrphanStep(p) PROVE overtaken' \subseteq Attr
        BY <2>3 DEF OrphanStep, HistoryType, Attr, InXml
  <2>4. CASE Administrator
    <3>1. PICK a \in Drift, v \in Value : AdminEdit(a, v)
          BY <2>4 DEF Administrator
    <3>2. QED BY <3>1, DataAssumption DEF AdminEdit, HistoryType, Attr
  <2>5. CASE UNCHANGED vars
        BY <2>5 DEF vars, device, HistoryType
  <2>6. QED BY <2>1, <2>2, <2>3, <2>4, <2>5 DEF Next
<1>3. QED BY <1>1, <1>2 DEF HistoryType

LEMMA InitType == Init => TypeInv
<1> SUFFICES ASSUME Init PROVE TypeInv
    OBVIOUS
<1>1. config \in Model \union {None} /\ stored \in Settings /\ running \in Settings
      BY DataAssumption DEF Init
<1>2. HandlerOK
      BY StepValues DEF Init, HandlerOK
<1>3. ProviderType
      BY <1>1, <1>2 DEF Init, ProviderType, Phase
<1>4. FailedType /\ HistoryType
      BY DEF Init, FailedType, HistoryType
<1>5. DeviceType
      BY <1>1 DEF Init, DeviceType
<1>6. CountersType
      BY BoundAssumption DEF Init, CountersType
<1>7. QED BY <1>3, <1>4, <1>5, <1>6 DEF TypeInv

LEMMA TypeStep == TypeInv /\ [Next]_vars => TypeInv'
<1> SUFFICES ASSUME TypeInv, [Next]_vars PROVE TypeInv'
    OBVIOUS
<1>0. /\ ProviderType /\ FailedType /\ DeviceType /\ CountersType
      /\ HistoryType'
      BY HistoryStep DEF TypeInv
<1>1. ASSUME UNCHANGED device PROVE DeviceType'
      BY <1>0, <1>1 DEF DeviceType, device
<1>2. ASSUME UNCHANGED provider PROVE ProviderType' /\ FailedType'
  <2>1. ProviderType'
        BY <1>0, <1>2 DEF provider, ProviderType, HandlerOK, ScriptOK
  <2>2. FailedType'
        BY <1>0, <1>2 DEF provider, FailedType
  <2>3. QED BY <2>1, <2>2
<1>3. ASSUME UNCHANGED <<faults, edits>> PROVE CountersType'
      BY <1>0, <1>3 DEF CountersType
<1>4. CASE Handler
      BY <1>0, <1>1, <1>3, <1>4, HandlerType DEF TypeInv
<1>5. CASE Operator
      BY <1>0, <1>1, <1>5, OperatorType DEF TypeInv
<1>6. CASE Firewall
  <2>1. FailedType'
        BY <1>0, <1>6, FirewallType DEF FailedType
  <2>2. QED BY <1>0, <1>3, <1>6, <2>1, FirewallType DEF TypeInv
<1>7. CASE Network
      BY <1>0, <1>7, NetworkType DEF TypeInv
<1>8. ASSUME NEW p \in orphans, OrphanStep(p) PROVE TypeInv'
      BY <1>0, <1>2, <1>3, <1>8, OrphanType DEF TypeInv
<1>9. CASE Administrator
      BY <1>0, <1>2, <1>9, AdministratorType DEF TypeInv
<1>10. CASE UNCHANGED vars
      BY <1>0, <1>1, <1>2, <1>3, <1>10 DEF vars, TypeInv
<1>11. QED BY <1>4, <1>5, <1>6, <1>7, <1>8, <1>9, <1>10 DEF Next

LEMMA TypeInvariant == Spec => []TypeInv
BY InitType, TypeStep, PTL DEF Spec

\* Every variable keeps its type, and no handler is left with the error of an
\* earlier apply: the diagnostics hold one only between the failed restart of
\* a service and the end of that apply.
THEOREM TypeCorrect == Spec => []TypeOK
<1>1. TypeInv => TypeOK
      BY DEF TypeInv, ProviderType, FailedType, DeviceType, HistoryType, CountersType, TypeOK
<1>2. QED BY <1>1, TypeInvariant, PTL

-----------------------------------------------------------------------------
(* What is not declared.                                                   *)

\* A command on the firewall carries a block that is being applied.
LEMMA WireApplies ==
    ASSUME TypeInv, wire # None, wire.op # "read"
    PROVE  wire \in Script /\ ScriptOK(wire) /\ wire.m \in Applying /\ wire.m = model /\ pc \in Step
<1>1. wire \in Script /\ ScriptOK(wire) /\ pc \in Phase
      BY DEF TypeInv, ProviderType, HandlerOK
<1>2. pc \in Step
      BY <1>1 DEF TypeInv, ProviderType, HandlerOK, Phase
<1>3. wire.m = model /\ model # None
      BY <1>2 DEF TypeInv, ProviderType, HandlerOK
<1>4. QED BY <1>1, <1>2, <1>3 DEF Applying

LEMMA OrphanApplies ==
    ASSUME TypeInv, NEW p \in orphans, p.op # "read"
    PROVE  p \in Script /\ ScriptOK(p) /\ p.m \in Applying
BY DEF TypeInv, DeviceType, ScriptOK, Applying

\* A write of the whole file changes what is declared, or sets what had been
\* read.
LEMMA WrittenUndeclared ==
    ASSUME TypeInv, NEW p \in (orphans \union {wire}) \ {None}, p \in Script,
           p.m \in Applying, p.m # None, p.seen # None, stored' = Written(p),
           NEW a \in Attr, stored'[a] # stored[a]
    PROVE  \/ \E m \in Applying : a \in Declared(m)
           \/ a \in InXml /\ stored'[a] \in Recalled(a)
<1>1. p.m \in Model
      BY DEF Script
<1>2. CASE a \in Emitted(p.m)
      BY <1>1, <1>2, EmittedValue
<1>3. CASE a \in InXml \ Emitted(p.m)
  <2>1. stored'[a] = p.seen[a]
        BY <1>3 DEF Written
  <2>2. QED BY <1>3, <2>1 DEF Recalled
<1>4. CASE a \notin InXml /\ a \notin Emitted(p.m)
      BY <1>4 DEF Written
<1>5. QED BY <1>2, <1>3, <1>4

LEMMA ActsUndeclared ==
    ASSUME TypeInv, NEW p \in (orphans \union {wire}) \ {None}, p \in Script, ScriptOK(p),
           p.op # "read", p.m \in Applying, Acts(p),
           NEW a \in Attr, stored'[a] # stored[a]
    PROVE  \/ \E m \in Applying : a \in Declared(m)
           \/ a \in InXml /\ stored'[a] \in Recalled(a)
<1>1. p.m \in Model /\ p.m # None /\ Needed(p.op, p.m) /\ stored \in Settings
      BY DEF Script, ScriptOK, TypeInv, DeviceType
<1>2. CASE p.op = "write"
      BY <1>1, <1>2, WrittenUndeclared DEF Acts
<1>3. CASE p.op = "users"
  <2>1. a = "users"
        BY <1>1, <1>3 DEF Acts, Settings
  <2>2. p.m["users"] \in Value /\ p.m["users"] # None /\ p.m["users"] # Empty
        BY <1>1, <1>3, NeededValue, SentinelAssumption
  <2>3. QED BY <2>1, <2>2 DEF Declared
<1>4. CASE p.op = "trap"
  <2>1. a = "trap"
        BY <1>1, <1>4 DEF Acts, Settings
  <2>2. p.m["trap"] \in Value /\ p.m["trap"] # None /\ p.m["trap"] # Empty
        BY <1>1, <1>4, NeededValue, SentinelAssumption
  <2>3. QED BY <2>1, <2>2 DEF Declared
<1>5. CASE p.op \notin {"write", "users", "trap"}
      BY <1>5 DEF Acts
<1>6. QED BY <1>2, <1>3, <1>4, <1>5

\* The setting a changes for one of the three reasons.
Justified(a) ==
    \/ \E m \in Applying : a \in Declared(m)
    \/ a \in InXml /\ stored'[a] \in Recalled(a)
    \/ edits' # edits

LEMMA ServeUndeclared ==
    ASSUME TypeInv, Serve, NEW a \in Attr, stored'[a] # stored[a]
    PROVE  Justified(a)
<1>1. wire # None /\ wire.op # "read" /\ Acts(wire)
      BY DEF Serve
<1>2. QED BY <1>1, WireApplies, ActsUndeclared DEF Justified

\* A command that fails may have got as far as the write.
LEMMA RefuseUndeclared ==
    ASSUME TypeInv, Refuse, NEW a \in Attr, stored'[a] # stored[a]
    PROVE  Justified(a)
<1>1. wire # None
      BY DEF Refuse
<1>2. CASE wire.op = "write" /\ wire.seen # None /\ stored' = Written(wire)
  <2>1. wire.m # None
        BY <1>1, <1>2, WireApplies DEF ScriptOK
  <2>2. QED BY <1>1, <1>2, <2>1, WireApplies, WrittenUndeclared DEF Justified
<1>3. CASE wire.op \in {"users", "trap"} /\ stored' = [stored EXCEPT ![wire.op] = None]
  <2>1. a = wire.op
        BY <1>3 DEF TypeInv, DeviceType, Settings
  <2>2. wire.m \in Model /\ wire.m \in Applying /\ Needed(wire.op, wire.m)
        BY <1>1, <1>3, WireApplies DEF Script, ScriptOK
  <2>3. wire.m[a] \in Value /\ wire.m[a] # None /\ wire.m[a] # Empty
        BY <1>3, <2>1, <2>2, NeededValue, SentinelAssumption
  <2>4. QED BY <2>2, <2>3 DEF Declared, Justified
<1>4. QED BY <1>2, <1>3 DEF Refuse

LEMMA OrphanUndeclared ==
    ASSUME TypeInv, NEW p \in orphans, OrphanStep(p), NEW a \in Attr, stored'[a] # stored[a]
    PROVE  Justified(a)
<1>1. Acts(p)
      BY DEF OrphanStep
<1>2. p.op # "read" /\ p # None
      BY <1>1, SentinelAssumption DEF Acts, TypeInv, DeviceType
<1>3. QED BY <1>1, <1>2, OrphanApplies, ActsUndeclared DEF Justified

\* A setting that no block declares is changed only by an administrator, or
\* back to what a script had read.
THEOREM UndeclaredSafe == Spec => UndeclaredUntouched
<1>1. ASSUME TypeInv, [Next]_vars, NEW a \in Attr, stored'[a] # stored[a]
      PROVE  Justified(a)
  <2>1. CASE Handler \/ Operator
    <3>1. UNCHANGED device
          BY <1>1, <2>1, HandlerType, OperatorType DEF TypeInv
    <3>2. QED BY <1>1, <3>1 DEF device
  <2>2. CASE Firewall
    <3>1. CASE Serve
          BY <1>1, <3>1, ServeUndeclared
    <3>2. CASE ServeRead \/ Parse
          BY <1>1, <3>2 DEF ServeRead, Parse, device
    <3>3. QED BY <2>2, <3>1, <3>2 DEF Firewall
  <2>3. CASE Network
    <3>1. CASE Refuse
          BY <1>1, <3>1, RefuseUndeclared
    <3>2. CASE Break \/ Retry \/ Crash
          BY <1>1, <3>2 DEF Break, Retry, Crash
    <3>3. QED BY <2>3, <3>1, <3>2 DEF Network
  <2>4. ASSUME NEW p \in orphans, OrphanStep(p) PROVE Justified(a)
        BY <1>1, <2>4, OrphanUndeclared
  <2>5. CASE Administrator
    <3>1. edits' = edits + 1 /\ edits \in Nat
          BY <1>1, <2>5 DEF Administrator, AdminEdit, TypeInv, CountersType
    <3>2. QED BY <3>1 DEF Justified
  <2>6. CASE UNCHANGED vars
        BY <1>1, <2>6 DEF vars, device
  <2>7. QED BY <1>1, <2>1, <2>2, <2>3, <2>4, <2>5, <2>6 DEF Next
<1>2. TypeInv /\ [Next]_vars =>
        [\A a \in Attr : stored'[a] # stored[a] =>
          \/ \E m \in Applying : a \in Declared(m)
          \/ a \in InXml /\ stored'[a] \in Recalled(a)
          \/ edits' # edits]_vars
      BY <1>1 DEF Justified
<1>3. QED BY <1>2, TypeInvariant, PTL DEF Spec, UndeclaredUntouched

-----------------------------------------------------------------------------
(* What an apply has done.                                                 *)

\* The handler has the answer to op, or is further on.
Passed(op) ==
    \E j \in 1..8 : \E k \in 1..8 :
        /\ Order[j] = op /\ Order[k] = pc
        /\ j < k \/ (j = k /\ reply # None)

Done(op) == Passed(op) /\ op \notin erred

\* Once its two commands are done, setting a is stored and in effect.
DoneFor(a) ==
    /\ Done(Writer(a)) => stored[a] = Wanted(model, a)
    /\ Done(Restart(a)) => running[a] = stored[a]

DoneInv == pc \in Step => \A a \in Applied(model) \ overtaken : DoneFor(a)

\* The errors of an apply are behind the handler: one that ends the apply is
\* the answer it has, and one that is noted is in its diagnostics.
ErredInv ==
    /\ pc \in {"idle", "planned"} => erred = {}
    /\ pc \in Step => \A op \in erred :
          /\ Passed(op)
          /\ op = pc => reply # None /\ reply.kind = "error"
          /\ op \in Ends => op = pc
          /\ op \in Noted => op = pc \/ failed

\* The two commands of a setting are in this order, and are one for general.
LEMMA WriterFirst ==
    ASSUME NEW a \in Attr
    PROVE  \E i \in 1..8 : \E j \in i..8 : Order[i] = Writer(a) /\ Order[j] = Restart(a)
<1>1. CASE a = "general"
      BY <1>1, OrderValues DEF Writer, Restart, InXml
<1>2. CASE a \in {"ntp", "lan"}
      BY <1>2, OrderValues DEF Writer, Restart, InXml
<1>3. CASE a = "tunable"
      BY <1>3, OrderValues DEF Writer, Restart, InXml
<1>4. CASE a = "log"
      BY <1>4, OrderValues DEF Writer, Restart, InXml
<1>5. CASE a = "users"
      BY <1>5, OrderValues DEF Writer, Restart, InXml
<1>6. CASE a = "trap"
      BY <1>6, OrderValues DEF Writer, Restart, InXml
<1>7. QED BY <1>1, <1>2, <1>3, <1>4, <1>5, <1>6 DEF Attr, InXml

\* An apply needs the two commands of whatever it is to put into effect.
LEMMA AppliedNeeds ==
    ASSUME NEW m, NEW a \in Applied(m)
    PROVE  a \in Attr /\ Needed(Writer(a), m) /\ Needed(Restart(a), m)
<1>1. CASE a \in Emitted(m)
      BY <1>1 DEF Emitted, InXml, Attr, Writer, Restart, Needed
<1>2. CASE a \in {"users", "trap"} /\ Needed(a, m)
      BY <1>2 DEF InXml, Attr, Writer, Restart, Needed
<1>3. QED BY <1>1, <1>2 DEF Applied

\* A handler that gets the answer to its command has passed nothing else.
LEMMA PassedAnswer ==
    ASSUME NEW op, pc' = pc, Passed(op)', op # pc
    PROVE  Passed(op)
<1>1. PICK j \in 1..8, k \in 1..8 : Order[j] = op /\ Order[k] = pc /\ (j < k \/ j = k)
      BY DEF Passed
<1>2. j < k
      BY <1>1
<1>3. QED BY <1>1, <1>2 DEF Passed

\* A handler at the command that stores a has not passed the restart for it.
LEMMA RestartAfter ==
    ASSUME NEW a \in Attr, Writer(a) = pc, Passed(Restart(a))
    PROVE  Restart(a) = pc
<1>1. PICK i \in 1..8 : \E j \in i..8 : Order[i] = Writer(a) /\ Order[j] = Restart(a)
      BY WriterFirst
<1>2. PICK j \in i..8 : Order[i] = Writer(a) /\ Order[j] = Restart(a)
      BY <1>1
<1>3. PICK n \in 1..8, k \in 1..8 : Order[n] = Restart(a) /\ Order[k] = pc /\ n <= k
      BY DEF Passed
<1>4. j \in 1..8 /\ n = j /\ k = i
      BY <1>2, <1>3, OrderInjective
<1>5. QED BY <1>2, <1>3, <1>4

\* What a command does to a setting.
LEMMA ActsOn ==
    ASSUME stored \in Settings, NEW p \in Script, Acts(p), NEW a \in Attr
    PROVE  /\ Writer(a) # p.op => stored'[a] = stored[a]
           /\ Writer(a) = p.op /\ a \in Applied(p.m) => stored'[a] = Wanted(p.m, a)
           /\ Restart(a) = p.op /\ a \in Applied(p.m) =>
                running'[a] = IF a = "tunable" THEN p.m[a] ELSE stored'[a]
           /\ (a = "tunable" => p.op # "sysctl") => running'[a] \in {running[a], stored'[a]}
<1>1. stored = [b \in Attr |-> stored[b]] /\ "users" \in Attr \ InXml /\ "trap" \in Attr \ InXml
      BY DEF Settings, Attr, InXml
<1>2. a \in Attr \ InXml <=> a \in {"users", "trap"}
      BY DEF Attr, InXml
<1>3. (Writer(a) # p.op => stored'[a] = stored[a])
      /\ (Writer(a) = p.op /\ a \in Applied(p.m) => stored'[a] = Wanted(p.m, a))
  <2>1. CASE p.op = "write"
    <3>1. stored' = Written(p)
          BY <2>1 DEF Acts
    <3>2. Writer(a) = "write" <=> a \in InXml
          BY <1>2 DEF Writer
    <3>3. Emitted(p.m) \subseteq InXml
          BY DEF Emitted
    <3>4. a \in InXml /\ a \in Applied(p.m) => a \in Emitted(p.m) /\ Wanted(p.m, a) = p.m[a]
          BY <1>2 DEF Applied, Wanted
    <3>5. QED BY <2>1, <3>1, <3>2, <3>3, <3>4 DEF Written
  <2>2. CASE p.op = "users"
    <3>1. stored' = [stored EXCEPT !["users"] = AllowUsers(p.m["users"])]
          BY <2>2 DEF Acts
    <3>2. Writer(a) = "users" <=> a = "users"
          BY <1>2 DEF Writer
    <3>3. QED BY <1>1, <2>2, <3>1, <3>2 DEF Wanted
  <2>3. CASE p.op = "trap"
    <3>1. stored' = [stored EXCEPT !["trap"] = p.m["trap"]]
          BY <2>3 DEF Acts
    <3>2. Writer(a) = "trap" <=> a = "trap"
          BY <1>2 DEF Writer
    <3>3. QED BY <1>1, <2>3, <3>1, <3>2 DEF Wanted
  <2>4. CASE p.op \notin {"write", "users", "trap"}
        BY <1>2, <2>4 DEF Acts, Writer
  <2>5. QED BY <2>1, <2>2, <2>3, <2>4
<1>4. running'[a] = CASE a \in Loads(p)                    -> stored'[a]
                      [] a = "tunable" /\ p.op = "sysctl" -> p.m[a]
                      [] OTHER                            -> running[a]
      BY DEF Acts
<1>5. "tunable" \notin Loads(p)
      BY DEF Loads
<1>6. Restart(a) = p.op /\ a \in Applied(p.m) => a \in Loads(p) \/ (a = "tunable" /\ p.op = "sysctl")
  <2>1. CASE a = "general"
        BY <1>2, <2>1 DEF Restart, Loads, Applied
  <2>2. CASE a # "general"
        BY <1>2, <2>2 DEF Restart, Loads, Attr, InXml
  <2>3. QED BY <2>1, <2>2
<1>7. Restart(a) = p.op /\ a \in Applied(p.m) =>
         running'[a] = IF a = "tunable" THEN p.m[a] ELSE stored'[a]
      BY <1>4, <1>5, <1>6
<1>8. (a = "tunable" => p.op # "sysctl") => running'[a] \in {running[a], stored'[a]}
      BY <1>4
<1>9. QED BY <1>3, <1>7, <1>8

-----------------------------------------------------------------------------
(* Answers.                                                                *)

LEMMA ServeErred ==
    ASSUME TypeInv, ErredInv, Serve
    PROVE  ErredInv'
<1>1. /\ pc \in Step /\ reply = None /\ UNCHANGED <<pc, erred, failed>>
      /\ reply' = [kind |-> "ok", seen |-> None] /\ reply' # None
      BY WireApplies, SentinelAssumption DEF Serve, Respond, TypeInv, ProviderType, HandlerOK, Reply
<1>2. ASSUME NEW op \in erred PROVE Passed(op)' /\ op # pc
      BY <1>1, <1>2 DEF ErredInv, Passed
<1>3. pc' \notin {"idle", "planned"}
      BY <1>1, StepValues
<1>4. QED BY <1>1, <1>2, <1>3 DEF ErredInv

LEMMA ServeDone ==
    ASSUME TypeInv, ErredInv, DoneInv, Serve
    PROVE  DoneInv'
<1>1. /\ wire # None /\ wire.op # "read" /\ Acts(wire) /\ UNCHANGED <<pc, model, erred>>
      /\ overtaken' = overtaken \ {a \in Applied(wire.m) : Writer(a) = wire.op}
      BY DEF Serve
<1>2. /\ wire \in Script /\ wire.m = model /\ model # None /\ pc \in Step /\ wire.op = pc
      /\ stored \in Settings
      BY <1>1, WireApplies DEF TypeInv, ProviderType, HandlerOK, DeviceType
<1> SUFFICES ASSUME NEW a \in Applied(model), a \notin overtaken' PROVE DoneFor(a)'
    BY <1>1 DEF DoneInv
<1>3. a \in Attr
      BY AppliedNeeds
<1>4. /\ Writer(a) # pc => stored'[a] = stored[a]
      /\ Writer(a) = pc => stored'[a] = Wanted(model, a)
      /\ Restart(a) = pc => running'[a] = IF a = "tunable" THEN model[a] ELSE stored'[a]
      /\ (a = "tunable" => pc # "sysctl") => running'[a] \in {running[a], stored'[a]}
      BY <1>1, <1>2, <1>3, ActsOn
<1>5. CASE Writer(a) = pc
  <2>1. Passed(Restart(a))' => Restart(a) = pc
        BY <1>1, <1>3, <1>5, RestartAfter, PassedAnswer
  <2>2. a = "tunable" => Restart(a) # pc
        BY <1>5 DEF Restart, Writer, InXml
  <2>3. QED BY <1>1, <1>4, <1>5, <2>1, <2>2 DEF DoneFor, Done
<1>6. CASE Writer(a) # pc
  <2>1. DoneFor(a)
        BY <1>1, <1>2, <1>6 DEF DoneInv
  <2>2. Done(Writer(a))' => stored'[a] = Wanted(model, a)
        BY <1>1, <1>4, <1>6, <2>1, PassedAnswer DEF DoneFor, Done
  <2>3. CASE Restart(a) = pc
    <3>1. CASE a # "tunable"
          BY <1>1, <1>4, <2>2, <2>3, <3>1 DEF DoneFor
    <3>2. CASE a = "tunable"
      <4>1. Writer(a) = "write" /\ pc = "sysctl" /\ Wanted(model, a) = model[a]
            BY <2>3, <3>2 DEF Writer, Restart, InXml, Wanted
      <4>2. Passed("write")
            BY <4>1, OrderValues DEF Passed
      <4>3. "write" \notin erred
            BY <1>2, <4>1 DEF ErredInv, Ends
      <4>4. stored[a] = model[a]
            BY <2>1, <4>1, <4>2, <4>3 DEF DoneFor, Done
      <4>5. QED BY <1>1, <1>4, <1>6, <2>2, <2>3, <3>2, <4>4 DEF DoneFor
    <3>3. QED BY <3>1, <3>2
  <2>4. CASE Restart(a) # pc
    <3>1. a = "tunable" => pc # "sysctl"
          BY <2>4 DEF Restart
    <3>2. Done(Restart(a))' => running[a] = stored[a]
          BY <1>1, <2>1, <2>4, PassedAnswer DEF DoneFor, Done
    <3>3. QED BY <1>1, <1>4, <1>6, <2>2, <3>1, <3>2 DEF DoneFor
  <2>5. QED BY <2>3, <2>4
<1>7. QED BY <1>5, <1>6

\* The command the handler waits for ends in an error, maybe half done.
LEMMA ErrorErred ==
    ASSUME TypeInv, ErredInv, Break \/ Refuse
    PROVE  ErredInv'
<1>1. /\ wire # None /\ reply = None /\ UNCHANGED <<pc, failed>>
      /\ reply' = [kind |-> "error", seen |-> None] /\ reply' # None
      /\ erred' = erred \union {wire.op}
      BY SentinelAssumption DEF Break, Refuse, Respond, TypeInv, ProviderType, HandlerOK, Reply
<1>2. pc' \notin {"idle", "planned"}
      BY <1>1 DEF TypeInv, ProviderType, HandlerOK
<1> SUFFICES ASSUME pc \in Step, NEW op \in erred \union {wire.op}
             PROVE  /\ Passed(op)'
                    /\ op = pc => reply' # None /\ reply'.kind = "error"
                    /\ op \in Ends => op = pc
                    /\ op \in Noted => op = pc \/ failed
    BY <1>1, <1>2 DEF ErredInv
<1>3. wire.op = pc
      BY <1>1 DEF TypeInv, ProviderType, HandlerOK
<1>4. CASE op = pc
  <2>1. PICK k \in 1..8 : pc = Order[k]
        BY DEF Step
  <2>2. Passed(op)'
        BY <1>1, <1>4, <2>1 DEF Passed
  <2>3. QED BY <1>1, <1>4, <2>2
<1>5. CASE op # pc
  <2>1. op \in erred
        BY <1>3, <1>5
  <2>2. Passed(op)'
        BY <1>1, <2>1 DEF ErredInv, Passed
  <2>3. QED BY <1>1, <1>5, <2>1, <2>2 DEF ErredInv
<1>6. QED BY <1>4, <1>5

LEMMA ErrorDone ==
    ASSUME TypeInv, DoneInv, Break \/ Refuse
    PROVE  DoneInv'
<1>1. /\ wire # None /\ UNCHANGED <<pc, model, running, overtaken>>
      /\ erred' = erred \union {wire.op}
      BY DEF Break, Refuse
<1> SUFFICES ASSUME pc \in Step, NEW a \in Applied(model), a \notin overtaken PROVE DoneFor(a)'
    BY <1>1 DEF DoneInv
<1>2. wire.op = pc
      BY <1>1 DEF TypeInv, ProviderType, HandlerOK
<1>3. a \in Attr /\ DoneFor(a) /\ stored \in Settings
      BY AppliedNeeds DEF DoneInv, TypeInv, DeviceType
<1>4. \A op : Done(op)' => Done(op) /\ op # pc
      BY <1>1, <1>2, PassedAnswer DEF Done
<1>5. CASE Writer(a) = pc
  <2>1. ~Done(Writer(a))'
        BY <1>4, <1>5
  <2>2. ~Done(Restart(a))'
        BY <1>3, <1>4, <1>5, RestartAfter DEF Done
  <2>3. QED BY <2>1, <2>2 DEF DoneFor
<1>6. CASE Writer(a) # pc
  <2>1. stored'[a] = stored[a]
    <3>1. CASE UNCHANGED stored
          BY <3>1
    <3>2. CASE wire.op = "write" /\ stored' = Written(wire)
      <4>1. a \notin InXml /\ Emitted(wire.m) \subseteq InXml
            BY <1>2, <1>6, <3>2 DEF Writer, Emitted
      <4>2. QED BY <1>3, <3>2, <4>1 DEF Written
    <3>3. CASE wire.op \in {"users", "trap"} /\ stored' = [stored EXCEPT ![wire.op] = None]
      <4>1. a # wire.op
            BY <1>2, <1>6, <3>3 DEF Writer, InXml
      <4>2. QED BY <1>3, <3>3, <4>1 DEF Settings
    <3>4. QED BY <3>1, <3>2, <3>3 DEF Break, Refuse
  <2>2. QED BY <1>1, <1>3, <1>4, <2>1 DEF DoneFor
<1>7. QED BY <1>5, <1>6

-----------------------------------------------------------------------------
(* The rest of an apply.                                                   *)

\* The handler goes on: a command it leaves out is not needed.
LEMMA PassedNeeded ==
    ASSUME pc \in Step, reply # None, NEW i \in Later(pc, model),
           \A j \in Later(pc, model) : i <= j,
           pc' = Order[i], reply' = None, NEW op, Passed(op)', Needed(op, model)
    PROVE  Passed(op)
<1>1. PICK k \in 1..8 : pc = Order[k]
      BY DEF Step
<1>2. PICK j \in 1..8, n \in 1..8 : Order[j] = op /\ Order[n] = pc' /\ j < n
      BY DEF Passed
<1>3. i \in (k + 1)..8 /\ Later(pc, model) = {l \in (k + 1)..8 : Needed(Order[l], model)}
      BY <1>1, LaterAre
<1>4. i \in 1..8 /\ n = i
      BY <1>2, <1>3, OrderInjective
<1>5. j <= k
      BY <1>2, <1>3, <1>4
<1>6. QED BY <1>1, <1>2, <1>5 DEF Passed

LEMMA ApplyReturnsKeeps ==
    ASSUME TypeInv, ErredInv, DoneInv, ApplyReturns
    PROVE  ErredInv' /\ DoneInv'
<1> DEFINE error == failed \/ (reply.kind = "error" /\ pc \in Ends \union Noted)
           todo  == IF reply.kind = "error" /\ pc \in Ends THEN {} ELSE Later(pc, model)
<1>1. pc \in Step /\ reply # None /\ UNCHANGED device
      BY DEF ApplyReturns
<1>2. CASE todo = {}
  <2>1. pc' = "idle" /\ erred' = {}
        BY <1>2 DEF ApplyReturns, Return
  <2>2. QED BY <2>1, StepValues DEF ErredInv, DoneInv
<1>3. CASE todo # {}
  <2>1. PICK i \in todo : (\A j \in todo : i <= j) /\ Run(Order[i], Order[i], model)
        BY <1>3 DEF ApplyReturns
  <2>2. failed' = error /\ UNCHANGED <<model, erred>>
        BY <1>3 DEF ApplyReturns
  <2>3. pc' = Order[i] /\ reply' = None /\ todo = Later(pc, model)
        BY <1>3, <2>1 DEF Run
  <2>4. PICK k \in 1..8 : pc = Order[k]
        BY <1>1 DEF Step
  <2>5. i \in (k + 1)..8 /\ i \in 1..8
        BY <2>1, <2>3, <2>4, LaterAre
  <2>6. ErredInv'
    <3>1. pc' \notin {"idle", "planned"}
          BY <2>3, <2>5, StepValues DEF Step
    <3> SUFFICES ASSUME NEW op \in erred
                 PROVE  Passed(op)' /\ op # pc' /\ op \notin Ends /\ (op \in Noted => failed')
        BY <2>2, <3>1 DEF ErredInv
    <3>2. PICK j \in 1..8, l \in 1..8 : Order[j] = op /\ Order[l] = pc /\ j <= l
          BY <1>1 DEF ErredInv, Passed
    <3>3. l = k /\ j < i
          BY <2>4, <2>5, <3>2, OrderInjective
    <3>4. Passed(op)'
          BY <2>3, <2>5, <3>2, <3>3 DEF Passed
    <3>5. op # pc'
          BY <2>3, <2>5, <3>2, <3>3, OrderInjective
    <3>6. op \notin Ends
          BY <1>1, <1>3 DEF ErredInv
    <3>7. op \in Noted => failed'
          BY <1>1, <2>2 DEF ErredInv
    <3>8. QED BY <3>4, <3>5, <3>6, <3>7
  <2>7. DoneInv'
    <3> SUFFICES ASSUME NEW a \in Applied(model), a \notin overtaken PROVE DoneFor(a)'
        BY <1>1, <2>2 DEF DoneInv, device
    <3>1. Needed(Writer(a), model) /\ Needed(Restart(a), model) /\ DoneFor(a)
          BY <1>1, AppliedNeeds DEF DoneInv
    <3>2. \A op : Done(op)' /\ Needed(op, model) => Done(op)
          BY <1>1, <2>1, <2>2, <2>3, PassedNeeded DEF Done
    <3>3. QED BY <1>1, <2>2, <3>1, <3>2 DEF DoneFor, device
  <2>8. QED BY <2>6, <2>7
<1>4. QED BY <1>2, <1>3

\* Outside of the series nothing is done.
LEMMA NothingDone ==
    ASSUME \/ pc' \in {"idle", "planned"} /\ erred' = {}
           \/ pc' \in {"refresh", "import"}
    PROVE  ErredInv' /\ DoneInv'
<1>1. pc' \notin Step
      BY StepValues
<1>2. QED BY <1>1 DEF ErredInv, DoneInv

\* What others do: what they change is overtaken.
LEMMA OthersKeep ==
    ASSUME ErredInv, DoneInv, UNCHANGED <<pc, model, failed, reply, erred>>,
           overtaken \subseteq overtaken',
           \A a \in Applied(model) \ overtaken' :
              stored'[a] = stored[a] /\ running'[a] \in {running[a], stored'[a]}
    PROVE  ErredInv' /\ DoneInv'
<1>1. \A op : Passed(op)' <=> Passed(op)
      BY DEF Passed
<1>2. ErredInv'
      BY <1>1 DEF ErredInv
<1>3. ASSUME pc \in Step, NEW a \in Applied(model), a \notin overtaken' PROVE DoneFor(a)'
  <2>1. DoneFor(a) /\ stored'[a] = stored[a] /\ running'[a] \in {running[a], stored'[a]}
        BY <1>3 DEF DoneInv
  <2>2. QED BY <1>1, <2>1 DEF DoneFor, Done
<1>4. QED BY <1>2, <1>3 DEF DoneInv

LEMMA HandlerKeeps ==
    ASSUME TypeInv, ErredInv, DoneInv, Handler \/ Operator
    PROVE  ErredInv' /\ DoneInv'
<1>1. CASE ApplyReturns
      BY <1>1, ApplyReturnsKeeps
<1>2. CASE apply
  <2>1. pc' = "write" /\ reply' = None /\ erred' = {}
        BY <1>2 DEF apply, Run, ErredInv
  <2>2. \A op : ~Passed(op)'
    <3>1. ASSUME NEW k \in 1..8, Order[k] = pc' PROVE k = 1
          BY <2>1, <3>1, OrderValues, OrderInjective
    <3>2. QED BY <2>1, <3>1 DEF Passed
  <2>3. QED BY <2>1, <2>2 DEF ErredInv, DoneInv, DoneFor, Done
<1>3. CASE StartRun \/ FinishRefresh \/ NoChange \/ ImportReturns \/ Operator
      BY <1>3, NothingDone DEF StartRun, FinishRefresh, NoChange, ImportReturns, Operator,
         ImportState, ConfigChange, Run, Return, ErredInv
<1>4. QED BY <1>1, <1>2, <1>3 DEF Handler

LEMMA FirewallKeeps ==
    ASSUME TypeInv, ErredInv, DoneInv, Firewall \/ Network
    PROVE  ErredInv' /\ DoneInv'
<1>1. CASE Serve
      BY <1>1, ServeErred, ServeDone
<1>2. CASE ServeRead
  <2>1. wire # None /\ wire.op = "read" /\ UNCHANGED pc
        BY <1>2 DEF ServeRead
  <2>2. pc' \in {"refresh", "import"}
        BY <2>1, StepValues DEF TypeInv, ProviderType, HandlerOK, Phase
  <2>3. QED BY <2>2, NothingDone
<1>3. CASE Parse \/ Retry
  <2>1. UNCHANGED <<pc, model, failed, reply, erred, stored, running, overtaken>>
        BY <1>3 DEF Parse, Retry, device
  <2>2. QED BY <2>1, OthersKeep
<1>4. CASE Break \/ Refuse
      BY <1>4, ErrorErred, ErrorDone
<1>5. CASE Crash
      BY <1>5, NothingDone DEF Crash, Return
<1>6. QED BY <1>1, <1>2, <1>3, <1>4, <1>5 DEF Firewall, Network

LEMMA OrphanKeeps ==
    ASSUME TypeInv, ErredInv, DoneInv, NEW p \in orphans, OrphanStep(p)
    PROVE  ErredInv' /\ DoneInv'
<1>1. UNCHANGED <<pc, model, failed, reply, erred>> /\ p \in Script /\ stored \in Settings
      BY DEF OrphanStep, provider, TypeInv, DeviceType
<1>2. CASE UNCHANGED <<stored, running, overtaken>>
      BY <1>1, <1>2, OthersKeep
<1>3. CASE /\ Acts(p)
           /\ overtaken' = overtaken \union {a \in Attr : stored'[a] # stored[a]}
                             \union (IF p.op = "sysctl" THEN {"tunable"} ELSE {})
  <2>1. ASSUME NEW a \in Applied(model), a \notin overtaken'
        PROVE  stored'[a] = stored[a] /\ running'[a] \in {running[a], stored'[a]}
    <3>1. a \in Attr
          BY AppliedNeeds
    <3>2. stored'[a] = stored[a] /\ (a = "tunable" => p.op # "sysctl")
          BY <1>3, <2>1, <3>1
    <3>3. QED BY <1>1, <1>3, <3>1, <3>2, ActsOn
  <2>2. overtaken \subseteq overtaken'
        BY <1>3
  <2>3. QED BY <1>1, <2>1, <2>2, OthersKeep
<1>4. QED BY <1>2, <1>3 DEF OrphanStep

LEMMA AdministratorKeeps ==
    ASSUME TypeInv, ErredInv, DoneInv, Administrator
    PROVE  ErredInv' /\ DoneInv'
<1>1. PICK a \in Drift, v \in Value : AdminEdit(a, v)
      BY DEF Administrator
<1>2. /\ UNCHANGED <<pc, model, failed, reply, erred>> /\ overtaken' = overtaken \union {a}
      /\ stored \in Settings /\ running \in Settings
      BY <1>1 DEF AdminEdit, provider, TypeInv, DeviceType
<1>3. ASSUME NEW b \in Applied(model), b \notin overtaken'
      PROVE  stored'[b] = stored[b] /\ running'[b] = running[b]
      BY <1>1, <1>2, <1>3, AppliedNeeds DEF AdminEdit, Settings
<1>4. QED BY <1>2, <1>3, OthersKeep

LEMMA DoneInvariant == Spec => [](ErredInv /\ DoneInv)
<1>1. Init => ErredInv /\ DoneInv
      BY StepValues DEF Init, ErredInv, DoneInv
<1>2. TypeInv /\ ErredInv /\ DoneInv /\ [Next]_vars => ErredInv' /\ DoneInv'
  <2> SUFFICES ASSUME TypeInv, ErredInv, DoneInv, [Next]_vars PROVE ErredInv' /\ DoneInv'
      OBVIOUS
  <2>1. CASE Handler \/ Operator
        BY <2>1, HandlerKeeps
  <2>2. CASE Firewall \/ Network
        BY <2>2, FirewallKeeps
  <2>3. ASSUME NEW p \in orphans, OrphanStep(p) PROVE ErredInv' /\ DoneInv'
        BY <2>3, OrphanKeeps
  <2>4. CASE Administrator
        BY <2>4, AdministratorKeeps
  <2>5. CASE UNCHANGED vars
        BY <2>5, OthersKeep DEF vars, provider, device
  <2>6. QED BY <2>1, <2>2, <2>3, <2>4, <2>5 DEF Next
<1>3. QED BY <1>1, <1>2, TypeInvariant, PTL DEF Spec

-----------------------------------------------------------------------------
(* Success.                                                                *)

\* An apply that is about to succeed has done everything, but for the errors
\* it may ignore.
LEMMA SuccessStep ==
    ASSUME TypeInv, ErredInv, DoneInv, [Next]_vars,
           state' # state, pc \in Step, pc' = "idle"
    PROVE  /\ erred \subseteq {"sysctl", "sshd", "snmp"}
           /\ \A a \in Applied(model) \ overtaken :
                /\ stored[a] = Wanted(model, a)
                /\ Restart(a) \in erred \/ running[a] = stored[a]
<1> DEFINE error == failed \/ (reply.kind = "error" /\ pc \in Ends \union Noted)
           todo  == IF reply.kind = "error" /\ pc \in Ends THEN {} ELSE Later(pc, model)
<1>1. ApplyReturns
  <2>1. ~(StartRun \/ FinishRefresh \/ NoChange \/ apply \/ ImportReturns \/ Operator)
        BY StepValues DEF StartRun, FinishRefresh, NoChange, apply, ImportReturns, Operator,
           ImportState, ConfigChange
  <2>2. ~(Firewall \/ Network \/ Administrator \/ UNCHANGED vars)
        BY DEF Firewall, ServeRead, Parse, Serve, Network, Break, Retry, Refuse, Crash, Return,
           Administrator, AdminEdit, vars, provider
  <2>3. ~\E p \in orphans : OrphanStep(p)
        BY DEF OrphanStep, provider
  <2>4. QED BY <2>1, <2>2, <2>3 DEF Next, Handler
<1>2. todo = {} /\ ~error
  <2>1. CASE todo # {}
    <3>1. UNCHANGED state
          BY <1>1, <2>1 DEF ApplyReturns
    <3>2. QED BY <3>1
  <2>2. CASE todo = {}
        BY <1>1, <2>2 DEF ApplyReturns, Return
  <2>3. QED BY <2>1, <2>2
<1>3. ~failed /\ Later(pc, model) = {} /\ reply # None
      /\ (pc \in Ends \union Noted => reply.kind # "error")
      BY <1>1, <1>2 DEF ApplyReturns
<1>4. PICK k \in 1..8 : pc = Order[k]
      BY DEF Step
<1>5. erred \subseteq {"sysctl", "sshd", "snmp"}
  <2> SUFFICES ASSUME NEW op \in erred PROVE op \in {"sysctl", "sshd", "snmp"}
      OBVIOUS
  <2>1. op \in Step
        BY DEF ErredInv, Passed, Step
  <2>2. op \notin Ends \union Noted
        BY <1>3 DEF ErredInv
  <2>3. QED BY <2>1, <2>2, StepValues DEF Ends, Noted
<1>6. ASSUME NEW op \in Step, Needed(op, model) PROVE Passed(op)
  <2>1. PICK j \in 1..8 : op = Order[j]
        BY DEF Step
  <2>2. j \notin (k + 1)..8
        BY <1>3, <1>4, <1>6, <2>1, LaterAre
  <2>3. QED BY <1>3, <1>4, <2>1, <2>2 DEF Passed
<1>7. ASSUME NEW a \in Applied(model), a \notin overtaken
      PROVE  stored[a] = Wanted(model, a) /\ (Restart(a) \in erred \/ running[a] = stored[a])
  <2>1. a \in Attr /\ Needed(Writer(a), model) /\ Needed(Restart(a), model) /\ DoneFor(a)
        BY <1>7, AppliedNeeds DEF DoneInv
  <2>2. Writer(a) \in Step /\ Restart(a) \in Step
    <3>1. PICK i \in 1..8 : \E j \in i..8 : Order[i] = Writer(a) /\ Order[j] = Restart(a)
          BY <2>1, WriterFirst
    <3>2. QED BY <3>1 DEF Step
  <2>3. Writer(a) \in {"write", "users", "trap"}
        BY <2>1 DEF Writer, Attr
  <2>4. Done(Writer(a))
        BY <1>5, <1>6, <2>1, <2>2, <2>3 DEF Done
  <2>5. Restart(a) \in erred \/ Done(Restart(a))
        BY <1>6, <2>1, <2>2 DEF Done
  <2>6. QED BY <2>1, <2>4, <2>5 DEF DoneFor
<1>8. QED BY <1>5, <1>7

\* An apply that succeeds has stored whatever it declares and puts into effect,
\* and each service runs with it, except where the restart of sshd or netsnmp
\* or the sysctl command has failed and apply has ignored that, or where an
\* administrator or an abandoned command has changed the setting since.
THEOREM SuccessSafe == Spec => SuccessMeansApplied
<1>1. TypeInv /\ ErredInv /\ DoneInv /\ [Next]_vars =>
        [state' # state /\ pc \in Step /\ pc' = "idle" =>
          /\ erred \subseteq {"sysctl", "sshd", "snmp"}
          /\ \A a \in Applied(model) \ overtaken :
               /\ stored[a] = Wanted(model, a)
               /\ Restart(a) \in erred \/ running[a] = stored[a]]_vars
      BY SuccessStep
<1>2. QED BY <1>1, TypeInvariant, DoneInvariant, PTL DEF Spec, SuccessMeansApplied
=============================================================================

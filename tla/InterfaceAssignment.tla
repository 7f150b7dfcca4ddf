------------------------- MODULE InterfaceAssignment -------------------------
(***************************************************************************)
(* The opnsense_interface_assignment resource                              *)
(* (internal/provider/interface_assignment_resource.go) driven by OpenTofu *)
(* runs over the SSH client.                                               *)
(*                                                                         *)
(* A handler feeds PHP scripts to the firewall.  A script that writes      *)
(* reads the whole of config.xml, changes one section of it and writes the *)
(* whole back, in two steps between which other scripts act.  What the     *)
(* interfaces run with changes only by configctl, for one section at a     *)
(* time.  A script goes on when the connection that started it breaks.     *)
(*                                                                         *)
(* A section's enable and gateway entries are written with fixed values    *)
(* and never read; they are left out.  The address and prefix attributes   *)
(* are handled alike and stand together as addr.                           *)
(***************************************************************************)
EXTENDS Integers, FiniteSets

CONSTANTS
    Resource,     \* resource addresses in the configuration
    Section,      \* names of logical interfaces
    Device,       \* interface devices
    Descr, Addr,  \* descriptions and addresses
    Blank,        \* the empty string
    None,         \* absence of a section, an attribute or a record
    Blocks,       \* Blocks[r]: the blocks an operator may declare for r
    Existing,     \* the tables of interfaces there may be before the first run
    Faults,       \* the kinds of fault of this instance
    Admin,        \* the sections an administrator works on
    MaxFaults,    \* bound on the number of faults
    MaxOrphans,   \* bound on the abandoned commands that are still to act
    MaxEdits      \* bound on configuration changes, imports and admin actions

\* What config.xml and the services keep of a section.
Iface == [device: Device, descr: Descr \union {Blank}, addr: Addr \union {Blank}]
Table == [Section -> Iface \union {None}]

\* ifaceAssignModel.  Id and section are one: every handler that stores a
\* model has given both the section it found.  An imported model has no device.
Model == [section: Section, device: Device \union {Blank},
          descr: Descr \union {Blank, None}, addr: Addr \union {Blank, None}]

\* A command given to SSHClient.Run, with the config.xml it has read.
Op     == {"read", "apply", "realize", "stop", "delete"}
Script == [op: Op, m: Model, seen: Table \union {None}]

\* "absent" is the empty object, "ok" with a section what the scripts echo.
Reply == [kind: {"ok", "absent", "error"}, section: Section \union {None},
          iface: Iface \union {None}]

Phase == {"idle", "import", "refresh", "planned", "apply", "realize", "stop", "delete"}

FaultKind == {"broken", "retried", "silent", "crash"}

ASSUME SentinelAssumption ==
    /\ Blank \notin Device
    /\ None \notin Section \union Descr \union Addr \union {Blank}
    /\ None \notin Iface
    /\ None \notin Table
    /\ None \notin Model
    /\ None \notin Script
    /\ None \notin Reply
ASSUME DataAssumption ==
    /\ Blocks \in [Resource -> SUBSET Model]
    /\ \A r \in Resource : \A b \in Blocks[r] : b.device \in Device
    /\ Existing \subseteq Table
    /\ Admin \subseteq Section
ASSUME BoundAssumption ==
    /\ Faults \subseteq FaultKind
    /\ MaxFaults \in Nat
    /\ MaxOrphans \in Nat
    /\ MaxEdits \in Nat

VARIABLES
    config,   \* config[r]: the declared block of r, or None
    state,    \* state[r]: what the state file records for r, or None
    tainted,  \* resources whose state is marked for replacement
    pc,       \* pc[r]: how far r's handler is
    model,    \* model[r]: the handler's m, or None
    wire,     \* wire[r]: the command r's handler waits for, or None
    reply,    \* reply[r]: the answer r's handler has not handled, or None
    orphans,  \* commands on the firewall that nobody waits for
    xml,      \* config.xml's interfaces
    running,  \* what the interfaces run with
    undone,   \* history: a write has undone a change made since its read
    faults, edits

provider == <<config, state, tainted, pc, model, wire, reply>>
device   == <<orphans, xml, running, undone>>
vars     == <<provider, device, faults, edits>>

-----------------------------------------------------------------------------
(* The PHP scripts, as functions of the config.xml they have read.         *)

Text(v) == IF v = None THEN Blank ELSE v

WithDevice(t, d) == {s \in Section : t[s] # None /\ t[s].device = d}

\* Mutant: an empty description matches the sections without one.
WithAnyDescr(t, n) == {s \in Section : t[s] # None /\ t[s].descr = Text(n)}

WithDescr(t, n) ==
    {s \in Section : Text(n) # Blank /\ t[s] # None /\ t[s].descr = n}

\* Mutant: the device is not looked for.
ResolvePositional(t, m) ==
    IF WithDescr(t, m.descr) # {} THEN WithDescr(t, m.descr) ELSE {m.section}

\* Mutant: the variable of the loop is used although nothing matched.
ResolveLeaked(t, m) ==
    IF WithDevice(t, m.device) # {} THEN WithDevice(t, m.device)
    ELSE IF WithDescr(t, m.descr) # {} THEN WithDescr(t, m.descr)
    ELSE {s \in Section : t[s] # None} \union {m.section}

\* The section an apply works on: by device, then by description, then the
\* declared name.  The order of the sections in the file is left open.
Resolve(t, m) ==
    IF WithDevice(t, m.device) # {} THEN WithDevice(t, m.device)
    ELSE IF WithDescr(t, m.descr) # {} THEN WithDescr(t, m.descr)
    ELSE {m.section}

\* The section a read reports, if any.
Locate(t, m) ==
    IF m.section \in WithDevice(t, m.device) THEN {m.section}
    ELSE IF WithDevice(t, m.device) # {} THEN WithDevice(t, m.device)
    ELSE WithDescr(t, m.descr)

\* Mutant: a section that exists keeps its device.
AppliedKeepsDevice(t, s, m) ==
    [t EXCEPT ![s] = [device |-> IF @ = None THEN m.device ELSE @.device,
                      descr |-> Text(m.descr), addr |-> Text(m.addr)]]

Applied(t, s, m) ==
    [t EXCEPT ![s] = [device |-> m.device, descr |-> Text(m.descr), addr |-> Text(m.addr)]]

\* What script p may write back, with the section it echoes.
Written(p) ==
    IF p.op = "apply"
    THEN {<<Applied(p.seen, s, p.m), s>> : s \in Resolve(p.seen, p.m)}
    ELSE {<<IF p.seen[p.m.section] = None THEN xml
            ELSE [p.seen EXCEPT ![p.m.section] = None], None>>}

\* The interfaces after configctl has stopped or reconfigured a section.
Commanded(p) ==
    CASE p.op = "stop" -> [running EXCEPT ![p.m.section] = None]
      [] p.op = "realize" ->
           IF xml[p.m.section] = None THEN running
           ELSE [running EXCEPT ![p.m.section] = xml[p.m.section]]

\* Mutant: every attribute is refreshed, declared or not.
RefreshedAll(m, s, f) == [section |-> s, device |-> f.device, descr |-> f.descr, addr |-> f.addr]

\* Subset refresh: attributes that are null stay null.
Refreshed(m, s, f) ==
    [section |-> s, device |-> f.device,
     descr   |-> IF m.descr = None THEN None ELSE f.descr,
     addr    |-> IF m.addr = None THEN None ELSE f.addr]

-----------------------------------------------------------------------------
(* Planning and the frame of a handler.                                    *)

AllIdle == \A r \in Resource : pc[r] = "idle"

\* A tainted resource is deleted and created again.
Creates(r) == state[r] = None /\ config[r] # None
Deletes(r) == state[r] # None /\ (config[r] = None \/ r \in tainted)
Updates(r) == state[r] # None /\ config[r] # None /\ r \notin tainted /\ config[r] # state[r]
Settled(r) == ~Creates(r) /\ ~Deletes(r) /\ ~Updates(r)

\* SSHClient.Run of a command with m as its argument.
Run(r, phase, op, m) ==
    /\ pc' = [pc EXCEPT ![r] = phase]
    /\ model' = [model EXCEPT ![r] = m]
    /\ wire' = [wire EXCEPT ![r] = [op |-> op, m |-> m, seen |-> None]]
    /\ reply' = [reply EXCEPT ![r] = None]

\* r's handler returns; new is the state it leaves, next r's phase.
Return(r, new, next) ==
    /\ state' = [state EXCEPT ![r] = new]
    /\ pc' = [pc EXCEPT ![r] = next]
    /\ model' = [model EXCEPT ![r] = None]
    /\ wire' = [wire EXCEPT ![r] = None]
    /\ reply' = [reply EXCEPT ![r] = None]

\* r's handler returns with a diagnostic: its state is what it was.
Fail(r) == Return(r, state[r], "idle") /\ UNCHANGED tainted

-----------------------------------------------------------------------------
(* Runs: refresh, plan, apply.                                             *)

\* Read of every tracked resource begins.
StartRun ==
    /\ AllIdle
    /\ pc' = [r \in Resource |-> "refresh"]
    /\ wire' = [r \in Resource |->
                  IF state[r] = None THEN None
                  ELSE [op |-> "read", m |-> state[r], seen |-> None]]
    /\ UNCHANGED <<config, state, tainted, model, reply, device, faults, edits>>

\* Mutant: a missing interface stays in the state.
ReadKeeps(m, a) == IF a.kind = "ok" THEN Refreshed(m, a.section, a.iface) ELSE m

\* What Read makes of its answer: the empty object removes the resource.
Read(m, a) == IF a.kind = "ok" THEN Refreshed(m, a.section, a.iface) ELSE None

IsRefreshed(r) == pc[r] = "refresh" /\ (state[r] = None \/ reply[r] # None)

FinishRefresh ==
    /\ \A r \in Resource : IsRefreshed(r)
    /\ \A r \in Resource : state[r] # None => reply[r].kind # "error"
    /\ state' = [r \in Resource |->
                    IF state[r] = None THEN None ELSE Read(state[r], reply[r])]
    /\ tainted' = {r \in tainted : state'[r] # None}
    /\ pc' = [r \in Resource |-> "planned"]
    /\ reply' = [r \in Resource |-> None]
    /\ UNCHANGED <<config, model, wire, device, faults, edits>>

\* A read failed: the run stops and the state file is not written.
AbortRefresh ==
    /\ \A r \in Resource : IsRefreshed(r)
    /\ \E r \in Resource : state[r] # None /\ reply[r].kind = "error"
    /\ pc' = [r \in Resource |-> "idle"]
    /\ reply' = [r \in Resource |-> None]
    /\ UNCHANGED <<config, state, tainted, model, wire, device, faults, edits>>

NoChange(r) ==
    /\ pc[r] = "planned"
    /\ Settled(r)
    /\ Fail(r)
    /\ UNCHANGED <<config, device, faults, edits>>

\* Create and Update run the same script.
applyAssign(r) ==
    /\ pc[r] = "planned"
    /\ Creates(r) \/ Updates(r)
    /\ Run(r, "apply", "apply", config[r])
    /\ UNCHANGED <<config, state, tainted, device, faults, edits>>

\* Mutant: the section is taken from the echo even when there is none.
ApplyReturnsTrusting(r) ==
    /\ pc[r] = "apply"
    /\ reply[r] # None
    /\ IF reply[r].kind = "error"
       THEN Fail(r)
       ELSE /\ Run(r, "realize", "realize", [model[r] EXCEPT !.section = reply[r].section])
            /\ UNCHANGED <<state, tainted>>
    /\ UNCHANGED <<config, device, faults, edits>>

\* Mutant: an update is stored without being realised.
ApplyReturnsUnrealised(r) ==
    /\ pc[r] = "apply"
    /\ reply[r] # None
    /\ CASE reply[r].kind = "error" -> Fail(r)
         [] reply[r].kind # "error" /\ state[r] # None ->
              /\ Return(r, model[r], "idle")
              /\ UNCHANGED tainted
         [] OTHER ->
              /\ Run(r, "realize", "realize",
                     [model[r] EXCEPT !.section =
                         IF reply[r].section = None THEN @ ELSE reply[r].section])
              /\ UNCHANGED <<state, tainted>>
    /\ UNCHANGED <<config, device, faults, edits>>

\* The echoed section, or the declared one without an echo, is realised.
ApplyReturns(r) ==
    /\ pc[r] = "apply"
    /\ reply[r] # None
    /\ IF reply[r].kind = "error"
       THEN Fail(r)
       ELSE /\ Run(r, "realize", "realize",
                   [model[r] EXCEPT !.section =
                       IF reply[r].section = None THEN @ ELSE reply[r].section])
            /\ UNCHANGED <<state, tainted>>
    /\ UNCHANGED <<config, device, faults, edits>>

\* The state is stored.  A created one is tainted when its section is not the
\* declared one, for OpenTofu reports an inconsistent result.
RealizeReturns(r) ==
    /\ pc[r] = "realize"
    /\ reply[r] # None
    /\ IF reply[r].kind = "error"
       THEN Fail(r)
       ELSE /\ Return(r, model[r], "idle")
            /\ tainted' = IF state[r] = None /\ model[r].section # config[r].section
                          THEN tainted \union {r} ELSE tainted
    /\ UNCHANGED <<config, device, faults, edits>>

\* The interface of the recorded section is stopped, then the section removed.
Delete(r) ==
    /\ pc[r] = "planned"
    /\ Deletes(r)
    /\ Run(r, "stop", "stop", state[r])
    /\ UNCHANGED <<config, state, tainted, device, faults, edits>>

\* Whether the stop worked does not matter.
StopReturns(r) ==
    /\ pc[r] = "stop"
    /\ reply[r] # None
    /\ Run(r, "delete", "delete", model[r])
    /\ UNCHANGED <<config, state, tainted, device, faults, edits>>

\* A replacement goes on to its create.
DeleteReturns(r) ==
    /\ pc[r] = "delete"
    /\ reply[r] # None
    /\ IF reply[r].kind = "error"
       THEN Fail(r)
       ELSE /\ Return(r, None, IF config[r] = None THEN "idle" ELSE "planned")
            /\ tainted' = tainted \ {r}
    /\ UNCHANGED <<config, device, faults, edits>>

-----------------------------------------------------------------------------
(* The operator: configuration changes and imports between runs.           *)

ConfigChange(r, c) ==
    /\ AllIdle
    /\ edits < MaxEdits
    /\ c # config[r]
    /\ config' = [config EXCEPT ![r] = c]
    /\ edits' = edits + 1
    /\ UNCHANGED <<state, tainted, pc, model, wire, reply, device, faults>>

\* ImportState sets the section alone; the Read after it has no device.
ImportState(r, s) ==
    /\ AllIdle
    /\ edits < MaxEdits
    /\ config[r] # None
    /\ state[r] = None
    /\ Run(r, "import", "read", [section |-> s, device |-> Blank, descr |-> None, addr |-> None])
    /\ edits' = edits + 1
    /\ UNCHANGED <<config, state, tainted, device, faults>>

ImportReturns(r) ==
    /\ pc[r] = "import"
    /\ reply[r] # None
    /\ IF reply[r].kind = "error" THEN Fail(r)
       ELSE Return(r, Read(model[r], reply[r]), "idle") /\ UNCHANGED tainted
    /\ UNCHANGED <<config, device, faults, edits>>

-----------------------------------------------------------------------------
(* The firewall.                                                           *)

Answer(kind, s, f) == [kind |-> kind, section |-> s, iface |-> f]

Respond(r, a) ==
    /\ wire' = [wire EXCEPT ![r] = None]
    /\ reply' = [reply EXCEPT ![r] = a]

\* A read looks at config.xml once.
ServeRead(r) ==
    /\ wire[r] # None /\ wire[r].op = "read"
    /\ IF Locate(xml, wire[r].m) = {}
       THEN Respond(r, Answer("absent", None, None))
       ELSE \E s \in Locate(xml, wire[r].m) : Respond(r, Answer("ok", s, xml[s]))
    /\ UNCHANGED <<config, state, tainted, pc, model, device, faults, edits>>

Writes(p)   == p.op \in {"apply", "delete"}
Commands(p) == p.op \in {"stop", "realize"}

\* A script that writes reads config.xml ...
Parse(r) ==
    /\ wire[r] # None /\ Writes(wire[r]) /\ wire[r].seen = None
    /\ wire' = [wire EXCEPT ![r].seen = xml]
    /\ UNCHANGED <<config, state, tainted, pc, model, reply, device, faults, edits>>

\* write_config of the table t by script p.
WriteConfig(p, t) ==
    /\ xml' = t
    /\ undone' = (undone \/ (p.seen # xml /\ t # xml))

\* ... and writes it back as it was then, but for its section.
Write(r) ==
    /\ wire[r] # None /\ Writes(wire[r]) /\ wire[r].seen # None
    /\ \E w \in Written(wire[r]) :
         /\ WriteConfig(wire[r], w[1])
         /\ Respond(r, Answer("ok", w[2], None))
    /\ UNCHANGED <<config, state, tainted, pc, model, orphans, running, faults, edits>>

\* configctl acts on one interface.
Configctl(r) ==
    /\ wire[r] # None /\ Commands(wire[r])
    /\ running' = Commanded(wire[r])
    /\ Respond(r, Answer("ok", None, None))
    /\ UNCHANGED <<config, state, tainted, pc, model, orphans, xml, undone, faults, edits>>

Serve(r) == ServeRead(r) \/ Parse(r) \/ Write(r) \/ Configctl(r)

Fault(kind) ==
    /\ kind \in Faults
    /\ faults < MaxFaults
    /\ faults' = faults + 1

\* Nobody waits for the commands of S any more; some of them go on.
Abandon(S) ==
    \E on \in SUBSET {p \in S : p.op # "read"} :
        /\ orphans' = orphans \union on
        /\ on # {} => Cardinality(orphans') <= MaxOrphans

\* The connection breaks, or the deadline expires.
Break(r) ==
    /\ wire[r] # None
    /\ Fault("broken")
    /\ Abandon({wire[r]})
    /\ Respond(r, Answer("error", None, None))
    /\ UNCHANGED <<config, state, tainted, pc, model, xml, running, undone, edits>>

\* A transient failure: SSHClient.Run starts the command again.
Retry(r) ==
    /\ wire[r] # None /\ wire[r].op # "read"
    /\ Fault("retried")
    /\ Abandon({wire[r]})
    /\ wire' = [wire EXCEPT ![r].seen = None]
    /\ UNCHANGED <<config, state, tainted, pc, model, reply, xml, running, undone, edits>>

\* A script ends without a line of output.
Silent(r) ==
    /\ wire[r] # None
    /\ Fault("silent")
    /\ \/ /\ wire[r].op = "read"
          /\ Respond(r, Answer("absent", None, None))
          /\ UNCHANGED <<xml, undone>>
       \/ /\ wire[r].op = "apply" /\ wire[r].seen # None
          /\ \E w \in Written(wire[r]) : WriteConfig(wire[r], w[1])
          /\ Respond(r, Answer("ok", None, None))
    /\ UNCHANGED <<config, state, tainted, pc, model, orphans, running, edits>>

\* An abandoned command takes its steps without anybody waiting.
OrphanStep(p) ==
    /\ \/ /\ Writes(p) /\ p.seen = None
          /\ orphans' = (orphans \ {p}) \union {[p EXCEPT !.seen = xml]}
          /\ UNCHANGED <<xml, running, undone>>
       \/ /\ Writes(p) /\ p.seen # None
          /\ \E w \in Written(p) : WriteConfig(p, w[1])
          /\ orphans' = orphans \ {p}
          /\ UNCHANGED running
       \/ /\ Commands(p)
          /\ running' = Commanded(p)
          /\ orphans' = orphans \ {p}
          /\ UNCHANGED <<xml, undone>>
    /\ UNCHANGED <<provider, faults, edits>>

\* The run is killed.
Crash ==
    /\ Fault("crash")
    /\ Abandon({wire[r] : r \in Resource} \ {None})
    /\ pc' = [r \in Resource |-> "idle"]
    /\ model' = [r \in Resource |-> None]
    /\ wire' = [r \in Resource |-> None]
    /\ reply' = [r \in Resource |-> None]
    /\ UNCHANGED <<config, state, tainted, xml, running, undone, edits>>

\* An administrator changes an address, or removes an interface, in the web
\* interface, which applies the change.
AdminEdit(s, a) ==
    /\ edits < MaxEdits
    /\ xml[s] # None
    /\ xml[s].addr # a
    /\ xml' = [xml EXCEPT ![s].addr = a]
    /\ running' = [running EXCEPT ![s] = xml'[s]]
    /\ edits' = edits + 1
    /\ UNCHANGED <<provider, orphans, undone, faults>>

AdminDelete(s) ==
    /\ edits < MaxEdits
    /\ xml[s] # None
    /\ xml' = [xml EXCEPT ![s] = None]
    /\ running' = [running EXCEPT ![s] = None]
    /\ edits' = edits + 1
    /\ UNCHANGED <<provider, orphans, undone, faults>>

-----------------------------------------------------------------------------
Init ==
    /\ config \in [Resource -> UNION {Blocks[r] : r \in Resource} \union {None}]
    /\ \A r \in Resource : config[r] \in Blocks[r] \union {None}
    /\ state = [r \in Resource |-> None]
    /\ tainted = {}
    /\ pc = [r \in Resource |-> "idle"]
    /\ model = [r \in Resource |-> None]
    /\ wire = [r \in Resource |-> None]
    /\ reply = [r \in Resource |-> None]
    /\ orphans = {}
    /\ xml \in Existing
    /\ running = xml
    /\ undone = FALSE
    /\ faults = 0
    /\ edits = 0

Handler(r) ==
    \/ NoChange(r)
    \/ applyAssign(r) \/ ApplyReturns(r) \/ RealizeReturns(r)
    \/ Delete(r) \/ StopReturns(r) \/ DeleteReturns(r)
    \/ ImportReturns(r)

Operator(r) ==
    \/ \E c \in Blocks[r] \union {None} : ConfigChange(r, c)
    \/ \E s \in Section : ImportState(r, s)

Network(r) == Break(r) \/ Retry(r) \/ Silent(r)

Administrator ==
    \E s \in Admin : AdminDelete(s) \/ \E a \in Addr : AdminEdit(s, a)

Next ==
    \/ StartRun \/ FinishRefresh \/ AbortRefresh
    \/ \E r \in Resource : Handler(r) \/ Operator(r) \/ Serve(r) \/ Network(r)
    \/ \E p \in orphans : OrphanStep(p)
    \/ Crash
    \/ Administrator

Spec == Init /\ [][Next]_vars

\* A pipeline that keeps re-running the apply, handlers that go on when their
\* answer is there, and commands that end: each has a deadline.
Fairness ==
    /\ WF_vars(StartRun \/ FinishRefresh \/ AbortRefresh)
    /\ \A r \in Resource : WF_vars(Handler(r) \/ Serve(r))

FairSpec == Spec /\ Fairness

-----------------------------------------------------------------------------
(* Properties.                                                             *)

\* Every variable has its type: a model always names a section, a command
\* carries a model, and config.xml is a table of interfaces.
TypeOK ==
    /\ config \in [Resource -> Model \union {None}]
    /\ state \in [Resource -> Model \union {None}]
    /\ tainted \subseteq Resource
    /\ pc \in [Resource -> Phase]
    /\ model \in [Resource -> Model \union {None}]
    /\ wire \in [Resource -> Script \union {None}]
    /\ reply \in [Resource -> Reply \union {None}]
    /\ orphans \subseteq Script
    /\ xml \in Table
    /\ running \in Table
    /\ undone \in BOOLEAN
    /\ faults \in 0..MaxFaults
    /\ edits \in 0..MaxEdits

\* No two sections of t bind the same device.
Unambiguous(t) ==
    \A s1, s2 \in Section :
        t[s1] # None /\ t[s2] # None /\ t[s1].device = t[s2].device => s1 = s2

\* A device is bound by one logical interface: whatever scripts overlap, are
\* repeated or go on unattended, config.xml never binds one twice.
DeviceBoundOnce == Unambiguous(xml)

\* The sections r's blocks name, or find by device or description in t.
Territory(r, t) ==
    {s \in Section : \E b \in Blocks[r] :
        s = b.section \/ s \in WithDevice(t, b.device) \/ s \in WithDescr(t, b.descr)}

\* The sections r may have to do with, whatever the firewall started from.
Own == [r \in Resource |-> UNION {Territory(r, t) : t \in Existing}]

Foreign == Section \ UNION {Own[r] : r \in Resource}

\* What a command on the firewall had read of s.
Recalled(s) ==
    {p.seen[s] : p \in {q \in (orphans \union {wire[r] : r \in Resource}) \ {None} : q.seen # None}}

\* An interface no block has to do with is left alone: no script sets it,
\* drops it or brings it down.  But every write replaces the whole file, so its
\* section of config.xml may go back to what a script had read of it before an
\* administrator changed it; the write is then one that has undone a change.
\* What the interface runs with changes only by an administrator.
ForeignUntouched ==
    [][\A s \in Foreign :
          /\ xml'[s] # xml[s] => edits' # edits \/ (undone' /\ xml'[s] \in Recalled(s))
          /\ running'[s] # running[s] => edits' # edits]_vars

\* The section a block has recorded or is about to stop, realise or remove is
\* one it names or was bound to its device or description: a section found
\* through any other match would be taken from another block.
OwnSectionsOnly ==
    \A r \in Resource :
        /\ state[r] # None => state[r].section \in Own[r]
        /\ model[r] # None /\ pc[r] # "import" => model[r].section \in Own[r]

\* The tables with which every block names one section, and its device and
\* description are bound nowhere else.
Aligned == {t \in Existing :
                \A r \in Resource : \A b \in Blocks[r] : Territory(r, t) = {b.section}}

\* Once faults and edits stop, config.xml has every declared block as
\* declared, although parallel writes may drop each other's sections; what is
\* not declared is not tracked.
Carries(f, m) ==
    /\ f # None
    /\ f.device = m.device
    /\ m.descr # None => f.descr = m.descr
    /\ m.addr # None => f.addr = m.addr
InPlace(r) ==
    IF config[r] = None
    THEN state[r] = None
    ELSE state[r] = config[r] /\ Carries(xml[config[r].section], config[r])
Converges == xml \in Aligned => <>[](\A r \in Resource : InPlace(r))

\* Once faults and edits stop, runs become no-ops.
EventuallyQuiet ==
    xml \in Aligned => <>[](\A r \in Resource : pc[r] \in {"idle", "refresh", "planned"})

\* Without faults and as long as no write undid another change, a declared
\* interface ends up running with what config.xml says of it, whatever the
\* order of the parallel writes, removals and administrator's actions.
Realised ==
    xml \in Aligned =>
        <>[](\/ faults > 0 \/ undone
             \/ \A r \in Resource :
                  config[r] # None => running[config[r].section] = xml[config[r].section])

\* A create or update that is about to succeed has its section in place as
\* declared and running, although the other blocks, or an administrator, have
\* acted in between.  This is so until a write undoes another change, and as
\* long as no abandoned command goes on; what an administrator works on may
\* have changed, but runs.
Succeeds(r) == pc[r] = "realize" /\ reply[r] # None /\ reply[r].kind # "error"
TakenEffect(s, m) == (s \in Admin \/ Carries(xml[s], m)) /\ running[s] = xml[s]
SuccessMeansInPlace ==
    xml \in Aligned =>
        \/ <>(orphans # {})
        \/ [](\A r \in Resource :
                  Succeeds(r) => undone \/ TakenEffect(model[r].section, model[r]))
=============================================================================

----------------------------- MODULE SystemConfig -----------------------------
(***************************************************************************)
(* The opnsense_system_config resource                                     *)
(* (internal/provider/system_config_resource.go) driven by OpenTofu runs   *)
(* over the SSH client.  There is one block at most: the settings exist    *)
(* once per firewall.                                                      *)
(*                                                                         *)
(* An apply is a fixed series of commands of which the declared attributes *)
(* select some.  The first, a PHP script, changes config.xml; it reads the *)
(* whole file and writes the whole back.  The others restart services and  *)
(* write drop-in files.  Some errors end the series, some only fail the    *)
(* apply in the end, some are ignored.                                     *)
(*                                                                         *)
(* hostname, domain, timezone and dns_servers, which their script also     *)
(* puts into effect, stand together as general.  ntp stands for            *)
(* ntp_servers, lan for ntp_serve_lan, tunable for one entry of tunables.  *)
(***************************************************************************)
EXTENDS Integers, FiniteSets

CONSTANTS
    Value,       \* values of attributes
    Listing,     \* lists of users with the provider's own SSH user on them
    Empty,       \* the empty snmp_trap_target
    None,        \* absence of an attribute, a file, a record
    Configs,     \* the blocks an operator may declare
    Existing,    \* the settings there may be before the first run
    Drift,       \* the settings an administrator changes
    Faults,      \* the kinds of fault of this instance
    MaxFaults,   \* bound on the number of faults
    MaxOrphans,  \* bound on the abandoned commands that are still to act
    MaxEdits     \* bound on configuration changes, imports and admin actions

InXml    == {"general", "ntp", "lan", "tunable", "log"}
Attr     == InXml \union {"users", "trap"}

\* What Read asks the firewall for.
ReadBack == {"general", "ntp", "lan"}

\* systemConfigModel: an attribute that is not declared is null.
Model == {m \in [Attr -> Value \union {None, Empty}] : \A a \in Attr \ {"trap"} : m[a] # Empty}

\* allow_users.conf: the declared list, and whether the provider's own user is
\* on the line.
AllowUsersConf == [list: Value \union {None}, own: BOOLEAN]

\* What the firewall holds under each attribute; a drop-in file may be missing.
Settings ==
    {b \in [Attr -> Value \union {None} \union AllowUsersConf] :
        /\ \A a \in InXml : b[a] \in Value
        /\ b["users"] \in AllowUsersConf \union {None}
        /\ b["trap"] \in Value \union {None}}
Xml == [InXml -> Value]

\* The commands of an apply in their order, and the script of a read.
Order == <<"write", "ntpd", "sysctl", "syslog", "users", "sshd", "trap", "snmp">>
Step  == {Order[i] : i \in 1..8}
Op    == Step \union {"read"}

\* A command given to SSHClient.Run, with the config.xml it has read.
Script == [op: Op, m: Model \union {None}, seen: Xml \union {None}]
Reply  == [kind: {"ok", "error"}, seen: Xml \union {None}]

Phase == {"idle", "import", "refresh", "planned"} \union Step

FaultKind == {"broken", "retried", "failed", "crash"}

ASSUME SentinelAssumption ==
    /\ None \notin Value \union AllowUsersConf \union {Empty}
    /\ Empty \notin Value \union AllowUsersConf
    /\ None \notin Model
    /\ None \notin Xml
    /\ None \notin Script
    /\ None \notin Reply
ASSUME DataAssumption ==
    /\ Listing \subseteq Value
    /\ Configs \subseteq Model
    /\ Existing \subseteq Settings
    /\ \A b \in Existing : b["users"] = None
    /\ Drift \subseteq InXml
ASSUME BoundAssumption ==
    /\ Faults \subseteq FaultKind
    /\ MaxFaults \in Nat
    /\ MaxOrphans \in Nat
    /\ MaxEdits \in Nat

VARIABLES
    config,     \* the declared block, or None
    state,      \* what the state file records, or None
    pc,         \* the command the handler is at
    model,      \* the handler's m, or None
    failed,     \* the handler's diagnostics hold an error
    wire,       \* the command the handler waits for, or None
    reply,      \* the answer the handler has not handled, or None
    orphans,    \* commands on the firewall that nobody waits for
    stored,     \* config.xml and the drop-in files
    running,    \* what the services run with
    erred,      \* history: the commands of this call that ended in an error
    overtaken,  \* history: what others have changed since an apply stored it
    faults, edits

provider == <<config, state, pc, model, failed, wire, reply, erred>>
device   == <<orphans, stored, running, overtaken>>
vars     == <<provider, device, faults, edits>>

-----------------------------------------------------------------------------
(* What an apply consists of.                                              *)

\* The settings the script of m sets in config.xml.
Emitted(m) == {a \in InXml : m[a] # None /\ (a = "lan" => m["ntp"] # None)}

\* The commands an apply of m consists of.
Needed(op, m) ==
    CASE op = "write"             -> TRUE
      [] op = "ntpd"              -> m["ntp"] # None
      [] op = "sysctl"            -> m["tunable"] # None
      [] op = "syslog"            -> m["log"] # None
      [] op \in {"users", "sshd"} -> m["users"] # None
      [] op \in {"trap", "snmp"}  -> m["trap"] \notin {None, Empty}

\* The settings an apply of m is to store and put into effect ...
Applied(m) == Emitted(m) \union {a \in {"users", "trap"} : Needed(a, m)}

\* ... the command that stores a, and the one that has its service load it.
Writer(a) == IF a \in InXml THEN "write" ELSE a

Restart(a) ==
    CASE a = "general"       -> "write"
      [] a \in {"ntp", "lan"} -> "ntpd"
      [] a = "tunable"       -> "sysctl"
      [] a = "log"           -> "syslog"
      [] a = "users"         -> "sshd"
      [] a = "trap"          -> "snmp"

\* The positions in Order of what is left to do for m after op.
Later(op, m) ==
    {i \in 1..8 : Needed(Order[i], m) /\ \E j \in 1..(i - 1) : Order[j] = op}

\* Mutant: the error of the last step is ignored like that of its restart.
EndsButTrap == {"write", "users"}

\* An error of the first kind ends the apply; one of the second fails it in the
\* end; others are ignored.
Ends == {"write", "users", "trap"}

Noted == {"ntpd", "syslog"}

\* Mutant: the list is written as declared.
AllowDeclared(u) == [list |-> u, own |-> u \in Listing]

\* buildAllowUsersConf: the provider's own user is appended.
AllowUsers(u) == [list |-> u, own |-> TRUE]

\* What is stored for attribute a of m.
Wanted(m, a) == IF a = "users" THEN AllowUsers(m[a]) ELSE m[a]

\* Mutant: the interface entry is written whenever ntp_servers is declared.
WrittenServing(p) ==
    [a \in Attr |-> CASE a \in Emitted(p.m)                     -> p.m[a]
                      [] a = "lan" /\ "ntp" \in Emitted(p.m)    -> p.m["ntp"]
                      [] a \in (InXml \ {"lan"}) \ Emitted(p.m) -> p.seen[a]
                      [] OTHER                                  -> stored[a]]

\* The settings after the write of script p.
Written(p) ==
    [a \in Attr |-> CASE a \in Emitted(p.m)         -> p.m[a]
                      [] a \in InXml \ Emitted(p.m) -> p.seen[a]
                      [] OTHER                      -> stored[a]]

\* The services after p: a restarted service loads what is stored.
Loads(p) ==
    CASE p.op = "write"  -> {"general"} \intersect Emitted(p.m)
      [] p.op = "ntpd"   -> {"ntp", "lan"}
      [] p.op = "syslog" -> {"log"}
      [] p.op = "sshd"   -> {"users"}
      [] p.op = "snmp"   -> {"trap"}
      [] OTHER           -> {}

\* Mutant: attributes that are not declared are refreshed too.
RefreshedAll(m, x) == [a \in Attr |-> IF a \in ReadBack THEN x[a] ELSE m[a]]

\* Subset refresh: of what is declared, what the read reports.
Refreshed(m, x) ==
    [a \in Attr |-> IF a \in ReadBack /\ m[a] # None THEN x[a] ELSE m[a]]

-----------------------------------------------------------------------------
(* The frame of a handler.                                                 *)

Creates == state = None /\ config # None
Updates == state # None /\ config # None /\ config # state

Run(phase, op, m) ==
    /\ pc' = phase
    /\ wire' = [op |-> op, m |-> m, seen |-> None]
    /\ reply' = None

\* Mutant: the diagnostics are carried over to the next call.
ReturnWithDiags(new, next) ==
    /\ state' = new
    /\ pc' = next
    /\ model' = None
    /\ wire' = None
    /\ reply' = None
    /\ UNCHANGED <<failed, erred>>

\* The handler returns; new is the state it leaves.
Return(new, next) ==
    /\ state' = new
    /\ pc' = next
    /\ model' = None
    /\ failed' = FALSE
    /\ erred' = {}
    /\ wire' = None
    /\ reply' = None

-----------------------------------------------------------------------------
(* Runs: refresh, plan, apply.                                             *)

StartRun ==
    /\ pc = "idle"
    /\ IF state = None
       THEN pc' = "planned" /\ UNCHANGED <<wire, reply>>
       ELSE Run("refresh", "read", None)
    /\ UNCHANGED <<config, state, model, failed, erred, device, faults, edits>>

\* Read: a failed one ends the run and leaves the state as it was.
FinishRefresh ==
    /\ pc = "refresh"
    /\ reply # None
    /\ IF reply.kind = "error" THEN Return(state, "idle")
       ELSE Return(Refreshed(state, reply.seen), "planned")
    /\ UNCHANGED <<config, device, faults, edits>>

NoChange ==
    /\ pc = "planned"
    /\ ~Creates /\ ~Updates
    /\ Return(IF config = None THEN None ELSE state, "idle")   \* Delete is a no-op
    /\ UNCHANGED <<config, device, faults, edits>>

\* Create and Update are alike.
apply ==
    /\ pc = "planned"
    /\ Creates \/ Updates
    /\ Run("write", "write", config)
    /\ model' = config
    /\ UNCHANGED <<config, state, failed, erred, device, faults, edits>>

\* Mutant: an error that does not end the apply is forgotten.
ApplyReturnsDeaf ==
    /\ pc \in Step
    /\ reply # None
    /\ LET ends == reply.kind = "error" /\ pc \in Ends
           todo == Later(pc, model)
       IN  CASE ends                -> Return(state, "idle")
             [] ~ends /\ todo = {}  -> Return(model, "idle")
             [] ~ends /\ todo # {}  ->
                  /\ \E i \in todo : (\A j \in todo : i <= j) /\ Run(Order[i], Order[i], model)
                  /\ UNCHANGED <<state, model, failed, erred>>
    /\ UNCHANGED <<config, device, faults, edits>>

\* The next command follows, or the apply ends: without an error the plan
\* becomes the state.
ApplyReturns ==
    /\ pc \in Step
    /\ reply # None
    /\ LET error == failed \/ (reply.kind = "error" /\ pc \in Ends \union Noted)
           todo  == IF reply.kind = "error" /\ pc \in Ends THEN {} ELSE Later(pc, model)
       IN  IF todo = {}
           THEN Return(IF error THEN state ELSE model, "idle")
           ELSE /\ \E i \in todo : (\A j \in todo : i <= j) /\ Run(Order[i], Order[i], model)
                /\ failed' = error
                /\ UNCHANGED <<state, model, erred>>
    /\ UNCHANGED <<config, device, faults, edits>>

-----------------------------------------------------------------------------
(* The operator.                                                           *)

ConfigChange(c) ==
    /\ pc = "idle"
    /\ edits < MaxEdits
    /\ c # config
    /\ config' = c
    /\ edits' = edits + 1
    /\ UNCHANGED <<state, pc, model, failed, wire, reply, erred, device, faults>>

\* Only the id is set, so the Read after it has nothing to refresh.
ImportState ==
    /\ pc = "idle"
    /\ edits < MaxEdits
    /\ config # None
    /\ state = None
    /\ Run("import", "read", None)
    /\ edits' = edits + 1
    /\ UNCHANGED <<config, state, model, failed, erred, device, faults>>

ImportReturns ==
    /\ pc = "import"
    /\ reply # None
    /\ Return(IF reply.kind = "error" THEN None
              ELSE Refreshed([a \in Attr |-> None], reply.seen), "idle")
    /\ UNCHANGED <<config, device, faults, edits>>

-----------------------------------------------------------------------------
(* The firewall.                                                           *)

\* sshd lets the provider in.
LetIn == running["users"] # None => running["users"].own

Respond(a) == wire' = None /\ reply' = a

TheXml == [a \in InXml |-> stored[a]]

ServeRead ==
    /\ LetIn
    /\ wire # None /\ wire.op = "read"
    /\ Respond([kind |-> "ok", seen |-> TheXml])
    /\ UNCHANGED <<config, state, pc, model, failed, erred, device, faults, edits>>

\* The script that writes has read config.xml.
Parse ==
    /\ LetIn
    /\ wire # None /\ wire.op = "write" /\ wire.seen = None
    /\ wire' = [wire EXCEPT !.seen = TheXml]
    /\ UNCHANGED <<config, state, pc, model, failed, reply, erred, device, faults, edits>>

\* What command p does when it acts.
Acts(p) ==
    /\ p.op = "write" => p.seen # None
    /\ stored' = CASE p.op = "write" -> Written(p)
                   [] p.op = "users" -> [stored EXCEPT !["users"] = AllowUsers(p.m["users"])]
                   [] p.op = "trap"  -> [stored EXCEPT !["trap"] = p.m["trap"]]
                   [] OTHER          -> stored
    /\ running' = [a \in Attr |-> CASE a \in Loads(p)                    -> stored'[a]
                                    [] a = "tunable" /\ p.op = "sysctl" -> p.m[a]
                                    [] OTHER                            -> running[a]]

Serve ==
    /\ LetIn
    /\ wire # None /\ wire.op # "read"
    /\ Acts(wire)
    /\ overtaken' = overtaken \ {a \in Applied(wire.m) : Writer(a) = wire.op}
    /\ Respond([kind |-> "ok", seen |-> None])
    /\ UNCHANGED <<config, state, pc, model, failed, erred, orphans, faults, edits>>

Fault(kind) ==
    /\ kind \in Faults
    /\ faults < MaxFaults
    /\ faults' = faults + 1

\* Nobody waits for command p any more; it may go on.
Abandon(p) ==
    \/ UNCHANGED orphans
    \/ /\ p.op # "read"
       /\ orphans' = orphans \union {p}
       /\ Cardinality(orphans') <= MaxOrphans

\* sshd refuses the connection, it breaks, or the deadline expires.
Break ==
    /\ wire # None
    /\ IF LetIn THEN Fault("broken") /\ Abandon(wire) ELSE UNCHANGED <<orphans, faults>>
    /\ Respond([kind |-> "error", seen |-> None])
    /\ erred' = erred \union {wire.op}
    /\ UNCHANGED <<config, state, pc, model, failed, stored, running, overtaken, edits>>

\* A transient failure: SSHClient.Run starts the command again.
Retry ==
    /\ wire # None /\ wire.op # "read"
    /\ Fault("retried")
    /\ Abandon(wire)
    /\ wire' = [wire EXCEPT !.seen = None]
    /\ UNCHANGED <<config, state, pc, model, failed, reply, erred, stored, running, overtaken, edits>>

\* The command fails: without an effect; in the script that writes, after
\* write_config and before the services are configured; in one that replaces
\* a drop-in file, with the old content gone.
Refuse ==
    /\ wire # None
    /\ Fault("failed")
    /\ \/ UNCHANGED stored
       \/ wire.op = "write" /\ wire.seen # None /\ stored' = Written(wire)
       \/ wire.op \in {"users", "trap"} /\ stored' = [stored EXCEPT ![wire.op] = None]
    /\ Respond([kind |-> "error", seen |-> None])
    /\ erred' = erred \union {wire.op}
    /\ UNCHANGED <<config, state, pc, model, failed, orphans, running, overtaken, edits>>

\* An abandoned command takes its steps without anybody waiting.
OrphanStep(p) ==
    \/ /\ p.op = "write" /\ p.seen = None
       /\ orphans' = (orphans \ {p}) \union {[p EXCEPT !.seen = TheXml]}
       /\ UNCHANGED <<provider, stored, running, overtaken, faults, edits>>
    \/ /\ Acts(p)
       /\ orphans' = orphans \ {p}
       /\ overtaken' = overtaken \union {a \in Attr : stored'[a] # stored[a]}
                         \union (IF p.op = "sysctl" THEN {"tunable"} ELSE {})
       /\ UNCHANGED <<provider, faults, edits>>

\* The run is killed.
Crash ==
    /\ pc # "idle"
    /\ Fault("crash")
    /\ IF wire = None THEN UNCHANGED orphans ELSE Abandon(wire)
    /\ Return(state, "idle")
    /\ UNCHANGED <<config, stored, running, overtaken, edits>>

\* An administrator changes a setting in the web interface, which applies it.
AdminEdit(a, v) ==
    /\ edits < MaxEdits
    /\ stored[a] # v
    /\ stored' = [stored EXCEPT ![a] = v]
    /\ running' = [running EXCEPT ![a] = v]
    /\ overtaken' = overtaken \union {a}
    /\ edits' = edits + 1
    /\ UNCHANGED <<provider, orphans, faults>>

-----------------------------------------------------------------------------
Init ==
    /\ config \in Configs \union {None}
    /\ state = None
    /\ pc = "idle"
    /\ model = None
    /\ failed = FALSE
    /\ wire = None
    /\ reply = None
    /\ orphans = {}
    /\ stored \in Existing
    /\ running = stored
    /\ erred = {}
    /\ overtaken = {}
    /\ faults = 0
    /\ edits = 0

Handler == StartRun \/ FinishRefresh \/ NoChange \/ apply \/ ApplyReturns \/ ImportReturns

Operator == ImportState \/ \E c \in Configs \union {None} : ConfigChange(c)

Firewall == ServeRead \/ Parse \/ Serve

Network == Break \/ Retry \/ Refuse \/ Crash

Administrator == \E a \in Drift, v \in Value : AdminEdit(a, v)

Next ==
    \/ Handler \/ Operator \/ Firewall \/ Network
    \/ \E p \in orphans : OrphanStep(p)
    \/ Administrator

Spec == Init /\ [][Next]_vars

\* A pipeline that keeps re-running the apply, and commands that end: each has
\* a deadline.
Fairness == WF_vars(Handler \/ Firewall)

FairSpec == Spec /\ Fairness

-----------------------------------------------------------------------------
(* Properties.                                                             *)

\* Every variable has its type, and the diagnostics hold an error only between
\* the failed restart of a service and the end of that apply.
TypeOK ==
    /\ config \in Model \union {None}
    /\ state \in Model \union {None}
    /\ pc \in Phase
    /\ model \in Model \union {None}
    /\ failed \in BOOLEAN
    /\ failed => pc \in {"sysctl", "syslog", "users", "sshd", "trap", "snmp"}
    /\ wire \in Script \union {None}
    /\ reply \in Reply \union {None}
    /\ orphans \subseteq Script
    /\ stored \in Settings
    /\ running \in Settings
    /\ erred \subseteq Op
    /\ overtaken \subseteq Attr
    /\ faults \in 0..MaxFaults
    /\ edits \in 0..MaxEdits

\* The blocks being applied, those of abandoned commands included.
Applying == ({model} \union {p.m : p \in orphans}) \ {None}

Declared(m) == {a \in Attr : m[a] \notin {None, Empty}}

\* What a command on the firewall had read under a.
Recalled(a) ==
    {p.seen[a] : p \in {q \in (orphans \union {wire}) \ {None} : q.seen # None}}

\* A setting that is not declared is left alone, although the whole of
\* config.xml is written: it changes only by an administrator, or back to what
\* a script had read before it was changed.
UndeclaredUntouched ==
    [][\A a \in Attr : stored'[a] # stored[a] =>
          \/ \E m \in Applying : a \in Declared(m)
          \/ a \in InXml /\ stored'[a] \in Recalled(a)
          \/ edits' # edits]_vars

\* An apply that succeeds has stored what it declares and put it into effect,
\* whatever failed, was run twice or went on before.  The errors it may have met
\* are those of three commands: where sysctl, or the restart of sshd or of
\* netsnmp, has failed, the value is stored and the service need not run with
\* it.  The other exception is a setting that an administrator or an abandoned
\* command has changed since the apply stored it.
SuccessMeansApplied ==
    [][state' # state /\ pc \in Step /\ pc' = "idle" =>
          /\ erred \subseteq {"sysctl", "sshd", "snmp"}
          /\ \A a \in Applied(model) \ overtaken :
               /\ stored[a] = Wanted(model, a)
               /\ Restart(a) \in erred \/ running[a] = stored[a]]_vars

\* ntp_serve_lan is declared without ntp_servers, and no script writes it.
LanAlone == config # None /\ config["lan"] # None /\ config["ntp"] = None

\* Once faults and edits stop, what is declared and read back is stored as
\* declared, drift corrected, scripts of killed runs notwithstanding.
Converges ==
    <>[](config # None =>
           \A a \in ReadBack : a \in Emitted(config) => stored[a] = config[a])

\* What is declared and not read back is stored as declared in the end if
\* there are only faults: while the apply has not succeeded, the state keeps
\* the plan from being empty.
UnreadConverges ==
    <>[](config # None /\ edits = 0 =>
           /\ \A a \in Emitted(config) : stored[a] = config[a]
           /\ config["users"] # None => stored["users"] = AllowUsers(config["users"])
           /\ config["trap"] \in Value => stored["trap"] = config["trap"])

\* Once faults and edits stop, runs become no-ops, but for LanAlone.
EventuallyQuiet == <>[](LanAlone \/ pc \in {"idle", "refresh", "planned"})
=============================================================================

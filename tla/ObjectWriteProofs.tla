-------------------------- MODULE ObjectWriteProofs --------------------------
(***************************************************************************)
(* What the writes of opnsense_object do to the firewall.  They leave      *)
(* fields alone that no configuration declares, as long as the other       *)
(* attributes of a block do not change: then every write carries the       *)
(* declared body, and never the object last read.  And one that reports    *)
(* success has been applied, as long as nobody else writes.                *)
(***************************************************************************)
EXTENDS ObjectResourceProofs

\* hint is the value of reconfigure in every configuration and import id.
OneHint(hint) ==
    /\ \A c \in Configs : c.reconfigure = hint
    /\ ImportHints \subseteq {hint}

DeclaredOnly(body) == \A k \in Undeclared : body[k] = None
WriteOK(req) == req.op \in {"add", "set"} => DeclaredOnly(req.body)

Declared == \A r \in Resource : config[r] \in Configs \union {None}
Hints(hint) ==
    \A r \in Resource :
        /\ state[r] # None => state[r].reconfigure = hint
        /\ model[r] # None => model[r].reconfigure = hint
Writes ==
    /\ \A r \in Resource : wire[r] # None => WriteOK(wire[r])
    /\ \A req \in late : WriteOK(req)
\* Whatever exists was assigned by the firewall.
Known == \A s \in Slot : store[s] # None => s \in issued \union {Settings}

Keep(hint) == TypeInv /\ Declared /\ Hints(hint) /\ Writes /\ Known

\* The undeclared fields of the objects that stay are as they were.
Untouched ==
    \A s \in Slot : \A k \in Undeclared :
        (store[s] # None /\ store'[s] # None) => store'[s][k] = store[s][k]

-----------------------------------------------------------------------------
(* What a write carries and what it does.                                  *)

\* A valid block declares nothing undeclared.
LEMMA BlockDeclared ==
    ASSUME NEW c \in Configs, c.body # Malformed
    PROVE  DeclaredOnly(c.body)
BY DEF DeclaredOnly, Undeclared

\* With the hint unchanged, an update is due to the body, and carries the
\* declared one.
LEMMA UpdateDeclared ==
    ASSUME NEW hint, OneHint(hint), Keep(hint), NEW r \in Resource, Updates(r),
           config[r].body # Malformed
    PROVE  DeclaredOnly(UpdateBody(r))
<1>1. config[r] \in Configs /\ config[r].reconfigure = hint
      BY DEF Keep, Declared, OneHint, Updates
<1>2. state[r].reconfigure = hint
      BY DEF Keep, Hints, Updates
<1>3. UpdateBody(r) # state[r].body
      BY <1>1, <1>2 DEF Updates
<1>4. UpdateBody(r) = config[r].body
      BY <1>3 DEF UpdateBody, PlannedBody
<1>5. QED BY <1>1, <1>4, BlockDeclared

\* An executed write leaves undeclared fields as they are.
LEMMA EffectKeeps ==
    ASSUME TypeInv, Known, NEW req \in Request, RequestOK(req), WriteOK(req),
           NEW u \in Choices(req), Effect(req, u)
    PROVE  Known' /\ Untouched
<1>0. \A k \in Undeclared : k \in Key
      BY DEF Undeclared
<1>1. CASE req.op = "add" /\ Executable(req)
  <2>1. u \in Uuid \ issued
        BY <1>1 DEF Choices
  <2>2. /\ store' = [store EXCEPT ![u] = Merge(Default, req.body)]
        /\ issued' = issued \union {u}
        BY <1>1 DEF Effect
  <2>3. store[u] = None
        BY <2>1, SettingsAssumption DEF Known, Slot
  <2>4. QED BY <2>1, <2>2, <2>3 DEF Known, Untouched, TypeInv, TypeOK
<1>2. CASE req.op = "set" /\ store[req.slot] # None
  <2>1. /\ store' = [store EXCEPT ![req.slot] = Merge(store[req.slot], req.body)]
        /\ issued' = issued
        BY <1>2 DEF Effect
  <2>2. ASSUME NEW k \in Undeclared PROVE Merge(store[req.slot], req.body)[k] = store[req.slot][k]
        BY <1>0, <1>2, <2>2 DEF Merge, WriteOK, DeclaredOnly
  <2>3. req.slot \in Slot
        BY <1>2 DEF RequestOK
  <2>4. ASSUME NEW s \in Slot, NEW k \in Undeclared, store[s] # None
        PROVE  store'[s][k] = store[s][k]
    <3>1. CASE s = req.slot
          BY <2>1, <2>2, <2>3, <2>4, <3>1 DEF TypeInv, TypeOK
    <3>2. CASE s # req.slot
          BY <2>1, <2>3, <2>4, <3>2 DEF TypeInv, TypeOK
    <3>3. QED BY <3>1, <3>2
  <2>5. Known'
        BY <1>2, <2>1, <2>3 DEF Known, TypeInv, TypeOK
  <2>6. QED BY <2>4, <2>5 DEF Untouched
<1>3. CASE req.op = "del"
      BY <1>3 DEF Effect, Known, Untouched, TypeInv, TypeOK
<1>4. CASE req.op = "apply"
      BY <1>4 DEF Effect, Known, Untouched
<1>5. CASE ~(req.op = "add" /\ Executable(req)) /\ ~(req.op = "set" /\ store[req.slot] # None)
           /\ req.op # "del" /\ req.op # "apply"
      BY <1>5 DEF Effect, Known, Untouched
<1>6. QED BY <1>1, <1>2, <1>3, <1>4, <1>5

-----------------------------------------------------------------------------
(* Handlers.                                                               *)

LEMMA ReturnKeeps ==
    ASSUME NEW hint, Keep(hint), NEW r \in Resource, NEW new, NEW next, Return(r, new, next),
           new # None => new.reconfigure = hint, UNCHANGED late
    PROVE  Hints(hint)' /\ Writes'
<1>1. Hints(hint)'
      BY DEF Keep, Hints, Return, TypeInv, TypeOK
<1>2. Writes'
      BY DEF Keep, Writes, WriteOK, DeclaredOnly, Return, TypeInv, TypeOK
<1>3. QED BY <1>1, <1>2

LEMMA SendKeeps ==
    ASSUME NEW hint, Keep(hint), NEW r \in Resource, NEW phase, NEW req, Send(r, phase, req),
           WriteOK(req), UNCHANGED late
    PROVE  Writes'
BY DEF Keep, Writes, WriteOK, DeclaredOnly, Send, TypeInv, TypeOK

LEMMA ReconfigureKeeps ==
    ASSUME NEW hint, Keep(hint), NEW r \in Resource, NEW new, NEW wanted, NEW next,
           Reconfigure(r, new, wanted, next),
           new # None => new.reconfigure = hint, UNCHANGED late
    PROVE  Hints(hint)' /\ Writes'
<1>1. CASE wanted
  <2>1. WriteOK(Apply)
        BY DEF WriteOK, Apply, Call
  <2>2. Writes'
        BY <1>1, <2>1, SendKeeps DEF Reconfigure
  <2>3. Hints(hint)'
        BY <1>1 DEF Reconfigure, Keep, Hints, TypeInv, TypeOK
  <2>4. QED BY <2>2, <2>3
<1>2. CASE ~wanted
      BY <1>2, ReturnKeeps DEF Reconfigure
<1>3. QED BY <1>1, <1>2

LEMMA HandlerKeeps ==
    ASSUME NEW hint, OneHint(hint), Keep(hint), NEW r \in Resource, Handler(r)
    PROVE  Hints(hint)' /\ Writes'
<1>0. UNCHANGED late
      BY DEF Handler, device, NoChange, InvalidBody, Create, CreateReturns, Update,
             UpdateReturns, Delete, DeleteReturns, ReconfigureReturns, ImportReturns
<1>1. ASSUME Fail(r) PROVE Hints(hint)' /\ Writes'
      BY <1>0, <1>1, ReturnKeeps DEF Fail, Keep, Hints
<1>2. ASSUME NEW phase, NEW req, Send(r, phase, req), WriteOK(req), UNCHANGED <<state, model>>
      PROVE  Hints(hint)' /\ Writes'
      BY <1>0, <1>2, SendKeeps DEF Keep, Hints
<1>3. \A op, slot, body : WriteOK(Call(op, slot, body)) <=> (op \in {"add", "set"} => DeclaredOnly(body))
      BY DEF WriteOK, Call
<1>4. CASE NoChange(r) \/ InvalidBody(r)
      BY <1>1, <1>4 DEF NoChange, InvalidBody
<1>5. CASE Create(r)
  <2>1. DeclaredOnly(config[r].body)
        BY <1>5, BlockDeclared DEF Create, Creates, Keep, Declared
  <2>2. QED BY <1>2, <1>3, <1>5, <2>1 DEF Create
<1>6. CASE Update(r)
  <2>1. DeclaredOnly(UpdateBody(r))
        BY <1>6, UpdateDeclared DEF Update
  <2>2. QED BY <1>2, <1>3, <1>6, <2>1 DEF Update
<1>7. CASE CreateReturns(r) \/ UpdateReturns(r)
  <2>1. CASE Fail(r)
        BY <1>1, <2>1
  <2>2. ASSUME NEW new \in Model, new.reconfigure = config[r].reconfigure,
               Reconfigure(r, new, new.reconfigure, "idle")
        PROVE  Hints(hint)' /\ Writes'
    <3>1. config[r] # None
          BY <1>7 DEF CreateReturns, UpdateReturns, Keep, TypeInv, PhaseOK
    <3>2. new.reconfigure = hint
          BY <2>2, <3>1 DEF Keep, Declared, OneHint
    <3>3. QED BY <1>0, <2>2, <3>2, ReconfigureKeeps
  <2>3. TypeInv
        BY DEF Keep
  <2>4. QED BY <1>7, <2>1, <2>2, <2>3, WriteReturns
<1>8. CASE Delete(r)
  <2>1. CASE state[r].slot = Settings
        BY <1>0, <1>8, <2>1, ReturnKeeps DEF Delete
  <2>2. CASE state[r].slot # Settings
        BY <1>2, <1>3, <1>8, <2>2 DEF Delete
  <2>3. QED BY <2>1, <2>2
<1>9. CASE DeleteReturns(r)
      BY <1>0, <1>1, <1>9, ReturnKeeps, ReconfigureKeeps DEF DeleteReturns
<1>10. CASE ReconfigureReturns(r)
      BY <1>0, <1>1, <1>10, ReturnKeeps DEF ReconfigureReturns, Keep, Hints
<1>11. CASE ImportReturns(r)
  <2>1. CASE ReadFails(reply[r])
        BY <1>1, <1>11, <2>1 DEF ImportReturns
  <2>2. CASE ~ReadFails(reply[r])
    <3>1. model[r] \in Model /\ model[r].reconfigure = hint
          BY <1>11 DEF ImportReturns, Keep, Hints, TypeInv, TypeOK, PhaseOK
    <3>2. Read(model[r], reply[r]) # None => Read(model[r], reply[r]).reconfigure = hint
          BY <3>1 DEF Read, Model
    <3>3. QED BY <1>0, <1>11, <2>2, <3>2, ReturnKeeps DEF ImportReturns
  <2>3. QED BY <2>1, <2>2
<1>12. QED BY <1>4, <1>5, <1>6, <1>7, <1>8, <1>9, <1>10, <1>11 DEF Handler

\* Handlers, runs and operators do not touch the store by themselves.
LEMMA ProviderKeeps ==
    ASSUME NEW hint, OneHint(hint), Keep(hint),
           \/ \E r \in Resource : Handler(r) \/ Operator(r)
           \/ StartRun \/ FinishRefresh \/ AbortRefresh \/ Crash
    PROVE  Declared' /\ Hints(hint)' /\ Writes' /\ UNCHANGED <<store, issued>>
<1>1. ASSUME NEW r \in Resource, Handler(r)
      PROVE  Declared' /\ Hints(hint)' /\ Writes' /\ UNCHANGED <<store, issued>>
  <2>1. UNCHANGED <<config, store, issued>>
        BY <1>1 DEF Handler, device, NoChange, InvalidBody, Create, CreateReturns, Update,
             UpdateReturns, Delete, DeleteReturns, ReconfigureReturns, ImportReturns
  <2>2. QED BY <1>1, <2>1, HandlerKeeps DEF Keep, Declared
<1>2. ASSUME NEW r \in Resource, NEW c \in Configs \union {None}, ConfigChange(r, c)
      PROVE  Declared' /\ Hints(hint)' /\ Writes' /\ UNCHANGED <<store, issued>>
      BY <1>2 DEF ConfigChange, device, Keep, Declared, Hints, Writes, WriteOK, DeclaredOnly,
                  TypeInv, TypeOK
<1>3. ASSUME NEW r \in Resource, NEW s, NEW h \in ImportHints, Import(r, s, h)
      PROVE  Declared' /\ Hints(hint)' /\ Writes' /\ UNCHANGED <<store, issued>>
  <2>1. WriteOK(Get(s)) /\ h = hint
        BY DEF WriteOK, Get, Call, OneHint
  <2>2. Writes'
        BY <1>3, <2>1, SendKeeps DEF Import, device
  <2>3. QED BY <1>3, <2>1, <2>2 DEF Import, device, Keep, Declared, Hints, TypeInv, TypeOK
<1>4. CASE StartRun
  <2>1. \A s : WriteOK(Get(s))
        BY DEF WriteOK, Get, Call
  <2>2. Writes'
        BY <1>4, <2>1 DEF StartRun, device, Keep, Writes, WriteOK, DeclaredOnly
  <2>3. QED BY <1>4, <2>2 DEF StartRun, device, Keep, Declared, Hints
<1>5. CASE FinishRefresh
  <2>1. ASSUME NEW r \in Resource, state[r] # None
        PROVE  Read(state[r], reply[r]) # None => Read(state[r], reply[r]).reconfigure = hint
        BY <2>1 DEF Read, Model, Keep, Hints, TypeInv, TypeOK
  <2>2. Hints(hint)'
        BY <1>5, <2>1 DEF FinishRefresh, Keep, Hints
  <2>3. QED BY <1>5, <2>2 DEF FinishRefresh, device, Keep, Declared, Writes, WriteOK, DeclaredOnly
<1>6. CASE AbortRefresh
      BY <1>6 DEF AbortRefresh, device, Keep, Declared, Hints, Writes, WriteOK, DeclaredOnly
<1>7. CASE Crash
  <2>1. \A req \in late' : WriteOK(req)
        BY <1>7 DEF Crash, Keep, Writes
  <2>2. Writes'
        BY <1>7, <2>1 DEF Crash, Writes, WriteOK, DeclaredOnly
  <2>3. QED BY <1>7, <2>2 DEF Crash, Keep, Declared, Hints
<1>8. QED BY <1>1, <1>2, <1>3, <1>4, <1>5, <1>6, <1>7 DEF Operator

-----------------------------------------------------------------------------
(* The firewall and its administrators.                                    *)

LEMMA FirewallKeeps ==
    ASSUME NEW hint, Keep(hint),
           \/ \E r \in Resource : Serve(r) \/ Network(r)
           \/ \E req \in late : ServeLate(req)
    PROVE  Declared' /\ Hints(hint)' /\ Writes' /\ Known' /\ Untouched
<1>1. ASSUME NEW r \in Resource, wire[r] # None
      PROVE  wire[r] \in Request /\ RequestOK(wire[r]) /\ WriteOK(wire[r]) /\ TypeInv /\ Known
      BY <1>1 DEF Keep, TypeInv, TypeOK, PhaseOK, Writes
<1>2. ASSUME NEW r \in Resource, NEW a, Respond(r, a), UNCHANGED <<config, state, model>>,
             \A req \in late' : WriteOK(req)
      PROVE  Declared' /\ Hints(hint)' /\ Writes'
      BY <1>2 DEF Respond, Keep, Declared, Hints, Writes, WriteOK, DeclaredOnly, TypeInv, TypeOK
<1>3. \A req \in late : WriteOK(req)
      BY DEF Keep, Writes
<1>4. ASSUME NEW r \in Resource, Serve(r)
      PROVE  Declared' /\ Hints(hint)' /\ Writes' /\ Known' /\ Untouched
      BY <1>1, <1>2, <1>3, <1>4, EffectKeeps DEF Serve
<1>5. ASSUME NEW r \in Resource, ServeUnheard(r)
      PROVE  Declared' /\ Hints(hint)' /\ Writes' /\ Known' /\ Untouched
      BY <1>1, <1>2, <1>3, <1>5, EffectKeeps DEF ServeUnheard
<1>6. ASSUME UNCHANGED <<store, issued>> PROVE Known' /\ Untouched
      BY <1>6 DEF Keep, Known, Untouched
<1>7. ASSUME NEW r \in Resource, Refuse(r)
      PROVE  Declared' /\ Hints(hint)' /\ Writes' /\ Known' /\ Untouched
      BY <1>2, <1>3, <1>6, <1>7 DEF Refuse, device
<1>8. ASSUME NEW r \in Resource, Timeout(r)
      PROVE  Declared' /\ Hints(hint)' /\ Writes' /\ Known' /\ Untouched
      BY <1>1, <1>2, <1>3, <1>6, <1>8 DEF Timeout
<1>9. ASSUME NEW req \in late, ServeLate(req)
      PROVE  Declared' /\ Hints(hint)' /\ Writes' /\ Known' /\ Untouched
  <2>1. req \in Request /\ RequestOK(req) /\ WriteOK(req) /\ TypeInv /\ Known
        BY DEF Keep, TypeInv, TypeOK, Writes
  <2>2. Known' /\ Untouched
        BY <1>9, <2>1, EffectKeeps DEF ServeLate
  <2>3. Declared' /\ Hints(hint)' /\ Writes'
        BY <1>3, <1>9 DEF ServeLate, provider, Keep, Declared, Hints, Writes, WriteOK, DeclaredOnly
  <2>4. QED BY <2>2, <2>3
<1>10. QED BY <1>4, <1>5, <1>7, <1>8, <1>9 DEF Network

\* An administrator's edit is the one step that changes such a field.
LEMMA AdministratorKeeps ==
    ASSUME NEW hint, Keep(hint), Administrator
    PROVE  Declared' /\ Hints(hint)' /\ Writes' /\ Known' /\ edits' # edits
<1>1. UNCHANGED <<provider, late, issued>> /\ edits' = edits + 1
      BY DEF Administrator, AdminEdit, AdminDelete
<1>2. \A s \in Slot : store[s] = None => store'[s] = None
      BY DEF Administrator, AdminEdit, AdminDelete, Keep, TypeInv, TypeOK, Slot
<1>3. Known'
      BY <1>1, <1>2 DEF Keep, Known
<1>4. Declared' /\ Hints(hint)' /\ Writes'
      BY <1>1 DEF provider, Keep, Declared, Hints, Writes, WriteOK, DeclaredOnly
<1>5. edits' # edits
      BY <1>1, BoundAssumption DEF Keep, TypeInv, TypeOK
<1>6. QED BY <1>3, <1>4, <1>5

LEMMA StepKeeps ==
    ASSUME NEW hint, OneHint(hint), Keep(hint), [Next]_vars
    PROVE  /\ Declared' /\ Hints(hint)' /\ Writes' /\ Known'
           /\ Untouched \/ edits' # edits
<1>1. ASSUME UNCHANGED <<store, issued>> PROVE Known' /\ Untouched
      BY <1>1 DEF Keep, Known, Untouched
<1>2. CASE \/ \E r \in Resource : Handler(r) \/ Operator(r)
           \/ StartRun \/ FinishRefresh \/ AbortRefresh \/ Crash
      BY <1>1, <1>2, ProviderKeeps
<1>3. CASE (\E r \in Resource : Serve(r) \/ Network(r)) \/ \E req \in late : ServeLate(req)
      BY <1>3, FirewallKeeps
<1>4. CASE Administrator
      BY <1>4, AdministratorKeeps
<1>5. CASE UNCHANGED vars
      BY <1>1, <1>5 DEF vars, provider, device, Keep, Declared, Hints, Writes, WriteOK, DeclaredOnly
<1>6. QED BY <1>2, <1>3, <1>4, <1>5 DEF Next

LEMMA KeepInit ==
    ASSUME NEW hint, Init
    PROVE  Keep(hint)
BY TypeInit DEF Init, Keep, Declared, Hints, Writes, Known, Slot

LEMMA KeepStep ==
    ASSUME NEW hint, OneHint(hint), Keep(hint), [Next]_vars
    PROVE  Keep(hint)'
BY StepKeeps, TypeStep DEF Keep

LEMMA KeepInvariant ==
    ASSUME NEW hint, OneHint(hint)
    PROVE  Spec => []Keep(hint)
BY KeepInit, KeepStep, PTL DEF Spec

-----------------------------------------------------------------------------
\* The provider never clobbers fields nobody declares, whatever is lost, late
\* or killed and whenever an administrator edits, if reconfigure is the same in
\* every configuration and every import id.
THEOREM UndeclaredKept ==
    ASSUME NEW hint, OneHint(hint)
    PROVE  Spec => UndeclaredUntouched
<1>1. Keep(hint) /\ [Next]_vars =>
        [\A s \in Slot : \A k \in Undeclared :
            (store[s] # None /\ store'[s] # None /\ store'[s][k] # store[s][k])
               => edits' # edits]_vars
      BY StepKeeps DEF Untouched
<1>2. QED BY <1>1, KeepInvariant, PTL DEF Spec, UndeclaredUntouched

-----------------------------------------------------------------------------
(* A write that reports success has been applied.                          *)

\* Once the apply command of r's write has been answered without an error, the
\* services run with what is stored in r's slot.
Ran(r) ==
    (pc[r] = "reconfigure" /\ model[r] # None /\ reply[r] # None /\ ~Failed(reply[r])) =>
        live[model[r].slot] = store[model[r].slot]

RanInv == LinkInv /\ \A r \in Resource : Ran(r)

\* A request that another resource has on the wire is about another slot than
\* the one r has just written.
LEMMA RequestsApart ==
    ASSUME LinkInv, NEW r \in Resource, pc[r] = "reconfigure", model[r] # None,
           NEW q \in Resource, q # r, wire[q] # None, wire[q].op \in {"set", "del"}
    PROVE  wire[q].slot # model[r].slot
<1>1. /\ TypeInv /\ Linked(q) /\ Linked(r) /\ Asked(q) /\ Configured(r)
      /\ Held(q) \intersect Held(r) \subseteq {Settings}
      BY DEF LinkInv, Linked, Ownership, TrackedDistinct
<1>2. config[r] # None /\ config[r] \in Config /\ config[r].singleton \in BOOLEAN
      BY <1>1 DEF Configured, TypeInv, TypeOK, Config
<1>3. model[r].slot \in Held(r)
      BY DEF Held
<1>4. pc[q] \in {"create", "update", "delete"}
      BY <1>1 DEF Asked, TypeInv, TypeOK, PhaseOK, Phase
<1>5. CASE pc[q] = "create"
  <2>1. config[q] # None /\ config[q].singleton /\ wire[q].slot = Settings
        BY <1>1, <1>5 DEF Asked, TypeInv, PhaseOK
  <2>2. ~config[r].singleton
        BY <1>2, <2>1 DEF LinkInv, OneSingleton
  <2>3. QED BY <1>1, <2>1, <2>2 DEF Configured
<1>6. CASE pc[q] = "update"
  <2>1. wire[q].slot = state[q].slot /\ Updates(q)
        BY <1>1, <1>6 DEF Asked, Linked
  <2>2. state[q] # None /\ config[q] # None /\ config[q].singleton = (state[q].slot = Settings)
        BY <2>1 DEF Updates, Deletes
  <2>3. state[q].slot \in Held(q)
        BY <2>2 DEF Held
  <2>4. CASE state[q].slot = Settings
    <3>1. ~config[r].singleton
          BY <1>2, <2>2, <2>4 DEF LinkInv, OneSingleton
    <3>2. QED BY <1>1, <2>1, <2>4, <3>1 DEF Configured
  <2>5. CASE state[q].slot # Settings
        BY <1>1, <1>3, <2>1, <2>3, <2>5
  <2>6. QED BY <2>4, <2>5
<1>7. CASE pc[q] = "delete"
  <2>1. wire[q].slot = state[q].slot /\ state[q] # None /\ state[q].slot # Settings
        BY <1>1, <1>7 DEF Asked, Linked
  <2>2. state[q].slot \in Held(q)
        BY <2>1 DEF Held
  <2>3. QED BY <1>1, <1>3, <2>1, <2>2
<1>8. QED BY <1>4, <1>5, <1>6, <1>7

\* So executing it leaves what r wrote as it is, or applies it once more.
LEMMA EffectApart ==
    ASSUME TypeInv, NEW s \in issued \union {Settings}, live[s] = store[s],
           NEW req \in Request, RequestOK(req), NEW u \in Choices(req), Effect(req, u),
           req.op \in {"set", "del"} => req.slot # s
    PROVE  live'[s] = store'[s]
<1>1. s \in Slot
      BY DEF TypeInv, TypeOK, Slot
<1>2. CASE req.op = "add" /\ Executable(req)
  <2>1. u \in Uuid \ issued /\ u # s
        BY <1>2, SettingsAssumption DEF Choices
  <2>2. QED BY <1>1, <1>2, <2>1 DEF Effect, TypeInv, TypeOK, Slot
<1>3. CASE req.op = "set" /\ store[req.slot] # None
      BY <1>1, <1>3 DEF Effect, RequestOK, TypeInv, TypeOK
<1>4. CASE req.op = "del"
      BY <1>1, <1>4 DEF Effect, RequestOK, TypeInv, TypeOK
<1>5. CASE req.op = "apply"
      BY <1>5 DEF Effect
<1>6. CASE ~(req.op = "add" /\ Executable(req)) /\ ~(req.op = "set" /\ store[req.slot] # None)
           /\ req.op # "del" /\ req.op # "apply"
      BY <1>6 DEF Effect
<1>7. QED BY <1>2, <1>3, <1>4, <1>5, <1>6

\* An apply command that is answered without an error has been executed.
LEMMA AppliesRun ==
    ASSUME LinkInv, NEW r \in Resource, Serve(r) \/ Network(r), "applyRejected" \notin Faults
    PROVE  Ran(r)'
<1>1. SUFFICES ASSUME pc'[r] = "reconfigure", model'[r] # None, ~Failed(reply'[r])
               PROVE  live' = store'
      BY DEF Ran
<1>2. pc[r] = "reconfigure" /\ wire[r] # None
      BY <1>1 DEF Serve, Network, ServeUnheard, Refuse, Timeout
<1>3. TypeInv /\ wire[r].op = "apply"
      BY <1>2 DEF LinkInv, Linked, Asked
<1>4. \A a : Respond(r, a) => reply'[r] = a
      BY <1>3 DEF Respond, TypeInv, TypeOK
<1>5. \A kind : Answer(kind, None, None).kind = kind
      BY DEF Answer
<1>6. CASE Serve(r) \/ ServeUnheard(r)
      BY <1>3, <1>6 DEF Serve, ServeUnheard, Effect
<1>7. CASE Refuse(r)
  <2>1. PICK refusal \in Refusals(wire[r].op) :
          Fault(refusal[1]) /\ Respond(r, Answer(refusal[2], None, None))
        BY <1>7 DEF Refuse
  <2>2. refusal[2] \in {"error", "notFound"}
        BY <1>3, <2>1 DEF Refusals, Fault
  <2>3. QED BY <1>1, <1>4, <1>5, <2>1, <2>2 DEF Failed
<1>8. CASE Timeout(r)
      BY <1>1, <1>4, <1>5, <1>8 DEF Timeout, Failed
<1>9. QED BY <1>6, <1>7, <1>8 DEF Network

LEMMA RanStep ==
    ASSUME RanInv, [Next]_vars, late = {}, Admin = {}, "applyRejected" \notin Faults,
           NEW r \in Resource
    PROVE  Ran(r)'
<1>1. LinkInv /\ TypeInv /\ Ran(r)
      BY DEF RanInv, LinkInv
<1>2. ASSUME reply'[r] = None PROVE Ran(r)'
      BY <1>2 DEF Ran
<1>3. CASE StartRun \/ FinishRefresh \/ AbortRefresh \/ Crash \/ Handler(r) \/ Operator(r)
      BY <1>1, <1>2, <1>3, AsksAnew
<1>4. CASE Serve(r) \/ Network(r)
      BY <1>1, <1>4, AppliesRun
<1>5. ASSUME NEW q \in Resource, q # r, Handler(q) \/ Operator(q) \/ Serve(q) \/ Network(q)
      PROVE  Ran(r)'
  <2>1. UNCHANGED <<pc[r], model[r], reply[r]>>
        BY <1>1, <1>5, OthersStill
  <2>2. SUFFICES ASSUME pc[r] = "reconfigure", model[r] # None, live[model[r].slot] = store[model[r].slot]
                 PROVE  live'[model[r].slot] = store'[model[r].slot]
        BY <1>1, <2>1 DEF Ran
  <2>3. model[r].slot \in issued \union {Settings}
        BY <1>1, <2>2 DEF LinkInv, Ownership, HeldIssued, Held
  <2>4. CASE Handler(q) \/ Operator(q) \/ Refuse(q) \/ Timeout(q)
    <3>1. UNCHANGED <<store, live>>
          BY <2>4 DEF Handler, NoChange, InvalidBody, Create, CreateReturns, Update, UpdateReturns,
             Delete, DeleteReturns, ReconfigureReturns, ImportReturns, Operator, ConfigChange,
             Import, Refuse, Timeout, device
    <3>2. QED BY <2>2, <3>1
  <2>5. CASE Serve(q) \/ ServeUnheard(q)
    <3>1. wire[q] # None /\ wire[q] \in Request /\ RequestOK(wire[q])
          BY <1>1, <2>5 DEF Serve, ServeUnheard, TypeInv, TypeOK, PhaseOK
    <3>2. PICK u \in Choices(wire[q]) : Effect(wire[q], u)
          BY <2>5 DEF Serve, ServeUnheard
    <3>3. wire[q].op \in {"set", "del"} => wire[q].slot # model[r].slot
          BY <1>1, <1>5, <2>2, <3>1, RequestsApart
    <3>4. QED BY <1>1, <2>2, <2>3, <3>1, <3>2, <3>3, EffectApart
  <2>6. QED BY <1>5, <2>4, <2>5 DEF Network
<1>6. CASE (\E req \in late : ServeLate(req)) \/ Administrator
      BY <1>6 DEF Administrator, AdminEdit, AdminDelete
<1>7. CASE UNCHANGED vars
      BY <1>1, <1>7 DEF vars, provider, device, Ran, Failed
<1>8. QED BY <1>3, <1>4, <1>5, <1>6, <1>7 DEF Next

\* A model is stored by the handler that has seen its apply command return.
LEMMA StoredRan ==
    ASSUME RanInv, [Next]_vars, NEW r \in Resource,
           pc[r] = "reconfigure", model[r] # None, state'[r] = model[r]
    PROVE  live[model[r].slot] = store[model[r].slot]
<1>1. TypeInv /\ Linked(r) /\ Ran(r)
      BY DEF RanInv, LinkInv
<1>2. state'[r] # state[r]
      BY <1>1 DEF Linked, Configured
<1>3. ~FinishRefresh
      BY DEF FinishRefresh, Refreshed
<1>4. Handler(r)
      BY <1>1, <1>2, <1>3, StateStill
<1>5. ReconfigureReturns(r)
      BY <1>4 DEF Handler, NoChange, InvalidBody, Create, CreateReturns, Update, UpdateReturns,
         Delete, DeleteReturns, ImportReturns
<1>6. CASE Failed(reply[r])
      BY <1>1, <1>2, <1>5, <1>6 DEF ReconfigureReturns, Fail, Return, TypeInv, TypeOK
<1>7. CASE ~Failed(reply[r])
      BY <1>1, <1>5, <1>7 DEF ReconfigureReturns, Ran
<1>8. QED BY <1>6, <1>7

\* Create and Update that report success after their apply command leave the
\* services running with what is stored, as long as applies do not fail in a
\* 200, no administrator writes, and no request is executed after its client
\* has given it up: other blocks, lost replies, refusals and kills do not
\* matter.
THEOREM SuccessApplied ==
    ASSUME Admin = {}, "applyRejected" \notin Faults
    PROVE  Spec /\ [](late = {}) => SuccessMeansApplied
<1>1. Init => RanInv
      BY LinkInit DEF Init, RanInv, Ran
<1>2. RanInv /\ late = {} /\ [Next]_vars => RanInv'
      BY RanStep, LinkStep DEF RanInv
<1>3. RanInv /\ [Next]_vars =>
        [\A r \in Resource :
            (pc[r] = "reconfigure" /\ model[r] # None /\ state'[r] = model[r])
               => live[model[r].slot] = store[model[r].slot]]_vars
      BY StoredRan
<1>4. QED BY <1>1, <1>2, <1>3, PTL DEF Spec, SuccessMeansApplied
=============================================================================

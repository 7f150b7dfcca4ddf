------------------------- MODULE ObjectLifecycleProofs -------------------------
(***************************************************************************)
(* What becomes of the items of the opnsense_object resources: how many    *)
(* of them faults leave behind; and, in a network where no answer hides an *)
(* item that exists (of the faults, "garbled", a 200 that does not decode, *)
(* and "missing", a 404 for the route, are left out), that a resource lets *)
(* go of an item only when it is gone, and that the resources implement    *)
(* ObjectLifecycle.                                                        *)
(***************************************************************************)
EXTENDS ObjectResourceProofs, FiniteSetTheorems

-----------------------------------------------------------------------------
(* What answers tell of an item.                                           *)

\* An answer that makes r's handler let go of its item is true.
Truth(r) ==
    /\ (pc[r] = "refresh" /\ state[r] # None /\ reply[r] # None
          /\ reply[r].kind \notin {"ok", "error"}) => Gone(state[r].slot)
    /\ (pc[r] = "delete" /\ reply[r] # None /\ reply[r].kind = "notFound") =>
         Gone(state[r].slot)

DropInv == LinkInv /\ \A r \in Resource : Truth(r)

\* A handler that does not move keeps its conclusions.
LEMMA TruthKept ==
    ASSUME DropInv, [Next]_vars, NEW r \in Resource, UNCHANGED <<state[r], pc[r], reply[r]>>
    PROVE  Truth(r)'
<1>1. (state[r] # None /\ Gone(state[r].slot)) => Gone(state[r].slot)'
  <2>1. TypeInv /\ (state[r] # None => state[r].slot \in Slot)
        BY DEF DropInv, LinkInv, TypeInv, TypeOK, Model
  <2>2. ASSUME NEW s \in Slot, Gone(s) PROVE Gone(s)'
        BY <2>1, <2>2, GoneKept
  <2>3. state'[r] = state[r]
        OBVIOUS
  <2>4. QED BY <2>1, <2>2, <2>3 DEF Gone
<1>2. Truth(r) /\ (pc[r] = "delete" => state[r] # None)
      BY DEF DropInv, LinkInv, Linked
<1>3. QED BY <1>1, <1>2 DEF Truth, Gone

-----------------------------------------------------------------------------
(* Answers tell the truth about the item a handler lets go of.             *)

LEMMA FirewallTruth ==
    ASSUME DropInv, NEW r \in Resource, Serve(r) \/ Network(r),
           "garbled" \notin Faults, "missing" \notin Faults
    PROVE  Truth(r)'
<1> DEFINE req == wire[r]
<1>1. /\ req # None /\ req \in Request /\ RequestOK(req) /\ Asked(r)
      /\ TypeInv /\ Linked(r) /\ Ownership
      BY DEF Serve, Network, ServeUnheard, Refuse, Timeout, DropInv, LinkInv, TypeInv, TypeOK,
             PhaseOK, Linked
<1>2. UNCHANGED <<state, pc>>
      BY DEF Serve, Network, ServeUnheard, Refuse, Timeout
<1>3. pc[r] = "refresh" /\ state[r] # None =>
        req.op = "get" /\ req.slot = state[r].slot /\ req.slot \in issued \union {Settings}
      BY <1>1 DEF TypeInv, PhaseOK, Asked, Ownership, HeldIssued, Held
<1>4. pc[r] = "delete" =>
        req.op = "del" /\ req.slot = state[r].slot /\ req.slot \in issued \union {Settings}
      BY <1>1 DEF Linked, Asked, Ownership, HeldIssued, Held
<1>5. ASSUME NEW a, Respond(r, a), a.kind \in {"ok", "error", "empty", "rejected"},
             (pc[r] = "refresh" /\ state[r] # None) => a.kind \in {"ok", "error"}
      PROVE  Truth(r)'
  <2>1. reply'[r] = a
        BY <1>1, <1>5 DEF Respond, TypeInv, TypeOK
  <2>2. QED BY <1>2, <1>5, <2>1 DEF Truth
<1>6. \A kind : Answer(kind, None, None).kind = kind
      BY DEF Answer
<1>7. CASE Serve(r)
  <2>1. PICK u \in Choices(req) : Effect(req, u) /\ \E a \in Answers(req, u) : Respond(r, a)
        BY <1>7 DEF Serve
  <2>2. PICK a \in Answers(req, u) : Respond(r, a)
        BY <2>1
  <2>3. reply'[r] = a
        BY <1>1, <2>2 DEF Respond, TypeInv, TypeOK
  <2>4. ASSUME pc[r] = "refresh", state[r] # None, a.kind \notin {"ok", "error"}
        PROVE  Gone(state[r].slot)'
    <3>1. store[req.slot] = None
          BY <1>3, <2>2, <2>4 DEF Answers, Answer
    <3>2. UNCHANGED <<store, issued>>
          BY <1>3, <2>1, <2>4 DEF Effect
    <3>3. QED BY <1>2, <1>3, <2>4, <3>1, <3>2 DEF Gone
  <2>5. ASSUME pc[r] = "delete" PROVE Gone(state[r].slot)'
        BY <1>1, <1>2, <1>4, <2>1, <2>5, DeletedGone DEF Gone
  <2>6. QED BY <1>2, <2>3, <2>4, <2>5 DEF Truth
<1>8. CASE ServeUnheard(r)
  <2>1. PICK distortion \in Distortions(req.op) :
          Fault(distortion[1]) /\ Respond(r, Answer(distortion[2], None, None))
        BY <1>8 DEF ServeUnheard
  <2>2. distortion[2] \in {"error", "empty"} /\ (req.op = "get" => distortion[2] = "error")
        BY <2>1 DEF Distortions, Fault
  <2>3. QED BY <1>3, <1>5, <1>6, <2>1, <2>2
<1>9. CASE Refuse(r)
  <2>1. PICK refusal \in Refusals(req.op) :
          Fault(refusal[1]) /\ Respond(r, Answer(refusal[2], None, None))
        BY <1>9 DEF Refuse
  <2>2. refusal[2] \in {"error", "rejected"} /\ (req.op = "get" => refusal[2] = "error")
        BY <2>1 DEF Refusals, Fault
  <2>3. QED BY <1>3, <1>5, <1>6, <2>1, <2>2
<1>10. CASE Timeout(r)
      BY <1>5, <1>6, <1>10 DEF Timeout
<1>11. QED BY <1>7, <1>8, <1>9, <1>10 DEF Network

LEMMA DropInit ==
    ASSUME Init
    PROVE  DropInv
BY LinkInit DEF Init, DropInv, Truth

LEMMA DropKept ==
    ASSUME "garbled" \notin Faults, "missing" \notin Faults, DropInv, [Next]_vars
    PROVE  DropInv'
<1>1. LinkInv /\ TypeInv
      BY DEF DropInv, LinkInv
<1>2. ASSUME NEW r \in Resource PROVE Truth(r)'
  <2>1. CASE StartRun \/ FinishRefresh \/ AbortRefresh \/ Crash
        BY <1>1, <2>1, AsksAnew DEF Truth
  <2>2. ASSUME NEW q \in Resource, Handler(q) \/ Operator(q) \/ Serve(q) \/ Network(q)
        PROVE  Truth(r)'
    <3>1. CASE q # r
          BY <1>1, <2>2, <3>1, OthersStill, TruthKept
    <3>2. CASE q = r
          BY <1>1, <2>2, <3>2, AsksAnew, FirewallTruth DEF Truth
    <3>3. QED BY <3>1, <3>2
  <2>3. CASE (\E req \in late : ServeLate(req)) \/ Administrator \/ UNCHANGED vars
    <3>1. UNCHANGED provider
          BY <2>3 DEF ServeLate, Administrator, AdminEdit, AdminDelete, vars
    <3>2. QED BY <3>1, TruthKept DEF provider
  <2>4. QED BY <2>1, <2>2, <2>3 DEF Next
<1>3. QED BY <1>1, <1>2, LinkStep DEF DropInv

LEMMA DropInvariant ==
    ASSUME "garbled" \notin Faults, "missing" \notin Faults
    PROVE  Spec => []DropInv
BY DropInit, DropKept, PTL DEF Spec

-----------------------------------------------------------------------------
(* What a step may do to the state file.                                   *)

\* It stays the same, or the item is gone.
LEMMA DropStep ==
    ASSUME DropInv, [Next]_vars, NEW r \in Resource,
           state[r] # None, state[r].slot # Settings, state'[r] = None
    PROVE  store'[state[r].slot] = None
<1>1. TypeInv /\ Linked(r) /\ Truth(r)
      BY DEF DropInv, LinkInv
<1>2. ASSUME Gone(state[r].slot), UNCHANGED store PROVE store'[state[r].slot] = None
      BY <1>2 DEF Gone
<1>3. CASE FinishRefresh
  <2>1. state'[r] = Read(state[r], reply[r]) /\ ~ReadFails(reply[r]) /\ UNCHANGED store
        BY <1>3 DEF FinishRefresh, device
  <2>2. state[r] \in Model /\ reply[r] # None /\ pc[r] = "refresh"
        BY <1>1, <1>3 DEF FinishRefresh, Refreshed, TypeInv, TypeOK
  <2>3. CASE reply[r].kind = "ok"
    <3>1. state'[r] = [state[r] EXCEPT !.body = reply[r].body]
          BY <2>1, <2>3 DEF Read
    <3>2. reply[r].body \in Object
          BY <1>1, <2>2, <2>3 DEF TypeInv, PhaseOK
    <3>3. \A k \in Key : reply[r].body[k] \in Value \union {None}
          BY <3>2 DEF Object
    <3>4. reply[r].body \in Body
          BY <3>2, <3>3 DEF Object, Body
    <3>5. state'[r] \in Model
          BY <2>2, <3>1, <3>4 DEF Model
    <3>6. QED BY <3>5, NoneAssumption
  <2>4. CASE reply[r].kind # "ok"
    <3>1. Truth(r) /\ reply[r].kind \notin {"ok", "error"}
          BY <1>1, <2>1, <2>4 DEF ReadFails
    <3>2. Gone(state[r].slot)
          BY <2>2, <3>1 DEF Truth
    <3>3. QED BY <1>2, <2>1, <3>2
  <2>5. QED BY <2>1, <2>3, <2>4
<1>4. CASE Handler(r)
  <2>1. UNCHANGED store
        BY <1>4 DEF Handler, device, NoChange, InvalidBody, Create, CreateReturns, Update,
           UpdateReturns, Delete, DeleteReturns, ReconfigureReturns, ImportReturns
  <2>2. ASSUME Fail(r) PROVE FALSE
        BY <1>1, <2>2 DEF Fail, Return, TypeInv, TypeOK
  <2>3. CASE DeleteReturns(r)
    <3>1. reply[r].kind \in {"ok", "empty", "notFound"}
          BY <2>2, <2>3 DEF DeleteReturns, Accepted
    <3>2. Gone(state[r].slot)
          BY <1>1, <2>3, <3>1 DEF DeleteReturns, Linked, Answered, Accepted, Truth
    <3>3. QED BY <1>2, <2>1, <3>2
  <2>4. CASE ReconfigureReturns(r)
    <3>1. model[r] = None
          BY <1>1, <2>2, <2>4 DEF ReconfigureReturns, Return, TypeInv, TypeOK
    <3>2. Gone(state[r].slot)
          BY <1>1, <2>4, <3>1 DEF ReconfigureReturns, Linked
    <3>3. QED BY <1>2, <2>1, <3>2
  <2>5. CASE ImportReturns(r)
        BY <1>1, <2>5 DEF ImportReturns, Linked
  <2>6. CASE Delete(r)
        BY <2>6 DEF Delete, Send
  <2>7. CASE NoChange(r) \/ InvalidBody(r) \/ Create(r) \/ Update(r)
        BY <2>2, <2>7 DEF NoChange, InvalidBody, Create, Update
  <2>8. CASE CreateReturns(r) \/ UpdateReturns(r)
    <3>1. PICK new \in Model : new # None /\ Reconfigure(r, new, new.reconfigure, "idle")
          BY <1>1, <2>2, <2>8, WriteReturns
    <3>2. state'[r] \in {state[r], new}
          BY <1>1, <3>1 DEF Reconfigure, Send, Return, TypeInv, TypeOK
    <3>3. QED BY <3>1, <3>2
  <2>9. QED BY <1>4, <2>1, <2>3, <2>4, <2>5, <2>6, <2>7, <2>8 DEF Handler
<1>5. CASE ~FinishRefresh /\ ~Handler(r)
  <2>1. state'[r] = state[r]
        BY <1>1, <1>5, StateStill
  <2>2. QED BY <2>1
<1>6. QED BY <1>3, <1>4, <1>5

-----------------------------------------------------------------------------
\* Unless an answer hides an item that exists, Read, Delete and the delete of a
\* replacement let go of an item only when it is gone: late requests, crashes,
\* lost replies and an administrator do not make the provider lose track.
THEOREM NothingDropped ==
    ASSUME "garbled" \notin Faults, "missing" \notin Faults
    PROVE  Spec => DropMeansGone
<1>1. DropInv /\ [Next]_vars =>
        [\A r \in Resource :
            (state[r] # None /\ state[r].slot # Settings /\ state'[r] = None)
               => store'[state[r].slot] = None]_vars
      BY DropStep
<1>2. QED BY <1>1, DropInvariant, PTL DEF Spec, DropMeansGone

-----------------------------------------------------------------------------
(* A resource never exchanges its item for another.                        *)

LEMMA HandlerSame ==
    ASSUME LinkInv, NEW r \in Resource, Handler(r), state[r] # None, state'[r] # None
    PROVE  state'[r].slot = state[r].slot
<1>0. TypeInv /\ TypeOK /\ Linked(r)
      BY DEF LinkInv, TypeInv
<1>1. ASSUME NEW new, NEW next, Return(r, new, next) PROVE state'[r] = new
      BY <1>0, <1>1 DEF Return, TypeOK
<1>2. ASSUME Fail(r) PROVE state'[r] = state[r]
      BY <1>1, <1>2 DEF Fail
<1>3. ASSUME NEW new, NEW wanted, NEW next, Reconfigure(r, new, wanted, next)
      PROVE  state'[r] \in {state[r], new}
      BY <1>1, <1>3 DEF Reconfigure
<1>4. CASE NoChange(r) \/ InvalidBody(r) \/ Create(r) \/ Update(r)
      BY <1>2, <1>4 DEF NoChange, InvalidBody, Create, Update
<1>5. CASE CreateReturns(r)
      BY <1>0, <1>5 DEF CreateReturns, Linked
<1>6. CASE UpdateReturns(r)
  <2>1. \/ Fail(r)
        \/ \E new \in Model : new.slot = state[r].slot /\ Reconfigure(r, new, new.reconfigure, "idle")
        BY <1>0, <1>6, WriteReturns
  <2>2. state'[r] = state[r] \/ state'[r].slot = state[r].slot
        BY <1>2, <1>3, <2>1
  <2>3. QED BY <2>2
<1>7. CASE Delete(r) \/ DeleteReturns(r)
  <2>1. state'[r] \in {state[r], None}
        BY <1>1, <1>2, <1>3, <1>7 DEF Delete, DeleteReturns
  <2>2. QED BY <2>1
<1>8. CASE ReconfigureReturns(r)
  <2>1. state'[r] \in {state[r], model[r]}
        BY <1>1, <1>2, <1>8 DEF ReconfigureReturns
  <2>2. model[r] # None => model[r].slot = state[r].slot
        BY <1>0, <1>8 DEF ReconfigureReturns, Linked, Configured
  <2>3. QED BY <2>1, <2>2
<1>9. CASE ImportReturns(r)
      BY <1>0, <1>9 DEF ImportReturns, Linked
<1>10. QED BY <1>4, <1>5, <1>6, <1>7, <1>8, <1>9 DEF Handler

\* A refresh replaces the body of what it finds, and nothing else.
LEMMA RefreshSame ==
    ASSUME TypeInv, FinishRefresh, NEW r \in Resource, state[r] # None, state'[r] # None
    PROVE  state'[r].slot = state[r].slot
<1>1. state'[r] = Read(state[r], reply[r]) /\ state[r] \in Model
      BY DEF FinishRefresh, TypeInv, TypeOK
<1>2. QED BY <1>1 DEF Read, Model

\* An item once in the state of a resource stays until the resource lets go.
LEMMA SameItem ==
    ASSUME LinkInv, [Next]_vars, NEW r \in Resource, state[r] # None, state'[r] # None
    PROVE  state'[r].slot = state[r].slot
<1>1. TypeInv
      BY DEF LinkInv
<1>2. ASSUME ~FinishRefresh, ~Handler(r) PROVE state'[r].slot = state[r].slot
  <2>1. state'[r] = state[r]
        BY <1>1, <1>2, StateStill
  <2>2. QED BY <2>1
<1>3. QED BY <1>1, <1>2, HandlerSame, RefreshSame

-----------------------------------------------------------------------------
(* Every step is a step of ObjectLifecycle or a stutter.                   *)

Items == [u \in Uuid |-> ItemStatus(u)]

LEMMA ObjectNotNone == None \notin Object
<1>1. \A obj \in Object : obj \in Body
      BY DEF Object, Body
<1>2. QED BY <1>1, NoneAssumption

\* Removing what a slot holds makes its item go, if it holds one.
LEMMA VanishSteps ==
    ASSUME TypeInv, NEW s \in Slot, store' = [store EXCEPT ![s] = None],
           UNCHANGED <<issued, state>>
    PROVE  [Lifecycle!Next]_(Lifecycle!vars)
<1>1. CASE s \in issued /\ store[s] # None
  <2>1. s \in Uuid /\ ItemStatus(s) = "present" /\ ItemStatus(s)' = "gone"
        BY <1>1 DEF ItemStatus, TypeInv, TypeOK
  <2>2. \A j \in Uuid \ {s} : ItemStatus(j)' = ItemStatus(j)
        BY DEF ItemStatus, TypeInv, TypeOK, Slot
  <2>3. Lifecycle!Vanish(s)
        BY <2>1, <2>2 DEF Lifecycle!Vanish, ItemOf
  <2>4. QED BY <2>1, <2>3 DEF Lifecycle!Next
<1>2. CASE ~(s \in issued /\ store[s] # None)
  <2>1. \A j \in Uuid : ItemStatus(j)' = ItemStatus(j)
        BY <1>2 DEF ItemStatus, TypeInv, TypeOK, Slot
  <2>2. QED BY <2>1 DEF Lifecycle!vars, ItemOf
<1>3. QED BY <1>1, <1>2

\* A request that is executed creates an item, removes one, or leaves all of
\* them what they are.
LEMMA EffectSteps ==
    ASSUME TypeInv, NEW req \in Request, RequestOK(req), NEW u \in Choices(req), Effect(req, u),
           UNCHANGED state
    PROVE  [Lifecycle!Next]_(Lifecycle!vars)
<1>1. ASSUME UNCHANGED Items PROVE [Lifecycle!Next]_(Lifecycle!vars)
      BY <1>1 DEF Items, Lifecycle!vars, ItemOf
<1>2. ASSUME NEW i \in Uuid, ItemStatus(i) = "unused", ItemStatus(i)' = "present",
             \A j \in Uuid \ {i} : ItemStatus(j)' = ItemStatus(j)
      PROVE  [Lifecycle!Next]_(Lifecycle!vars)
  <2>1. Lifecycle!Appear(i)
        BY <1>2 DEF Lifecycle!Appear, ItemOf
  <2>2. QED BY <2>1 DEF Lifecycle!Next
<1>3. ASSUME UNCHANGED <<store, issued>> PROVE [Lifecycle!Next]_(Lifecycle!vars)
      BY <1>1, <1>3 DEF Items, ItemStatus
<1>4. CASE req.op = "add" /\ Executable(req)
  <2>1. u \in Uuid \ issued
        BY <1>4 DEF Choices
  <2>2. Merge(Default, req.body) # None
        BY <1>4, MergeType, DataAssumption, ObjectNotNone DEF RequestOK
  <2>3. /\ store' = [store EXCEPT ![u] = Merge(Default, req.body)]
        /\ issued' = issued \union {u}
        BY <1>4 DEF Effect
  <2>4. ItemStatus(u) = "unused" /\ ItemStatus(u)' = "present"
        BY <2>1, <2>2, <2>3 DEF ItemStatus, TypeInv, TypeOK, Slot
  <2>5. \A j \in Uuid \ {u} : ItemStatus(j)' = ItemStatus(j)
        BY <2>3 DEF ItemStatus, TypeInv, TypeOK, Slot
  <2>6. QED BY <1>2, <2>1, <2>4, <2>5
<1>5. CASE req.op = "set" /\ store[req.slot] # None
  <2>1. Merge(store[req.slot], req.body) # None /\ req.slot \in Slot
        BY <1>5, MergeType, ObjectNotNone DEF RequestOK, TypeInv, TypeOK
  <2>2. store' = [store EXCEPT ![req.slot] = Merge(store[req.slot], req.body)]
        /\ issued' = issued
        BY <1>5 DEF Effect
  <2>3. \A j \in Uuid : ItemStatus(j)' = ItemStatus(j)
        BY <1>5, <2>1, <2>2 DEF ItemStatus, TypeInv, TypeOK, Slot
  <2>4. QED BY <1>1, <2>3 DEF Items
<1>6. CASE req.op = "del"
  <2>1. store' = [store EXCEPT ![req.slot] = None] /\ issued' = issued /\ req.slot \in Slot
        BY <1>6 DEF Effect, RequestOK
  <2>2. QED BY <2>1, VanishSteps
<1>7. CASE ~(req.op = "add" /\ Executable(req)) /\ ~(req.op = "set" /\ store[req.slot] # None)
           /\ req.op # "del"
      BY <1>3, <1>7 DEF Effect
<1>8. QED BY <1>4, <1>5, <1>6, <1>7

Owners == [r \in Resource |-> ItemOf(r)]

\* What a resource without a request of its own may do about its item: keep it,
\* let go of it once it is gone, or take one when it has none.
LEMMA ItemMoves ==
    ASSUME DropInv, [Next]_vars, UNCHANGED <<store, issued>>, NEW r \in Resource
    PROVE  \/ ItemOf(r)' = ItemOf(r)
           \/ ItemOf(r) \in Uuid /\ ItemOf(r)' = None /\ ItemStatus(ItemOf(r)) = "gone"
           \/ state[r] = None /\ ItemOf(r) = None /\ ItemOf(r)' = state'[r].slot
                /\ state'[r] # None /\ ItemOf(r)' # Settings
<1>1. DropInv /\ TypeOK /\ HeldIssued
      BY DEF DropInv, LinkInv, TypeInv, Ownership
<1>2. CASE state[r] # None /\ state'[r] # None
      BY <1>2, SameItem DEF ItemOf, DropInv
<1>3. CASE state[r] # None /\ state'[r] = None /\ state[r].slot # Settings
  <2>1. store[state[r].slot] = None
        BY <1>1, <1>3, DropStep
  <2>2. state[r].slot \in issued /\ state[r].slot \in Uuid
        BY <1>1, <1>3 DEF HeldIssued, Held, TypeOK
  <2>3. QED BY <1>3, <2>1, <2>2 DEF ItemOf, ItemStatus
<1>4. CASE state[r] = None \/ state[r].slot = Settings
      BY <1>2, <1>4 DEF ItemOf
<1>5. QED BY <1>2, <1>3, <1>4

\* The refresh lets go of the items it no longer finds.
LEMMA RefreshSteps ==
    ASSUME DropInv, FinishRefresh
    PROVE  [Lifecycle!Next]_(Lifecycle!vars)
<1> DEFINE rs == {r \in Resource : ItemOf(r)' # ItemOf(r)}
<1>1. UNCHANGED <<store, issued>> /\ [Next]_vars
      BY DEF FinishRefresh, device, Next
<1>2. \A r \in rs : ItemOf(r) \in Uuid /\ ItemOf(r)' = None /\ ItemStatus(ItemOf(r)) = "gone"
  <2>1. \A r \in Resource : state[r] = None => state'[r] = None
        BY DEF FinishRefresh
  <2>2. QED BY <1>1, <2>1, ItemMoves
<1>3. \A u \in Uuid : ItemStatus(u)' = ItemStatus(u)
      BY <1>1 DEF ItemStatus
<1>4. CASE rs = {}
      BY <1>3, <1>4 DEF Lifecycle!vars
<1>5. CASE rs # {}
  <2>1. rs \in (SUBSET Resource) \ {{}}
        BY <1>5
  <2>2. \A r \in rs : Owners[r] # None /\ Items[Owners[r]] = "gone"
        BY <1>2, NoneAssumption DEF Owners, Items, Slot
  <2>3. Owners' = [r \in Resource |-> IF r \in rs THEN None ELSE Owners[r]]
        BY <1>2 DEF Owners
  <2>4. Items' = Items
        BY <1>3 DEF Items
  <2>5. Lifecycle!Release(rs)
        BY <2>2, <2>3, <2>4 DEF Lifecycle!Release, Owners, Items
  <2>6. QED BY <2>1, <2>5 DEF Lifecycle!Next
<1>6. QED BY <1>4, <1>5

\* A handler takes an item nobody else has, or lets go of its own.
LEMMA HandlerSteps ==
    ASSUME DropInv, Ownership', TypeOK', NEW r \in Resource, Handler(r)
    PROVE  [Lifecycle!Next]_(Lifecycle!vars)
<1>1. UNCHANGED <<store, issued>> /\ [Next]_vars
      BY DEF Handler, device, NoChange, InvalidBody, Create, CreateReturns, Update, Next,
         UpdateReturns, Delete, DeleteReturns, ReconfigureReturns, ImportReturns
<1>2. TypeInv /\ TypeOK
      BY DEF DropInv, LinkInv, TypeInv
<1>3. \A q \in Resource \ {r} : state'[q] = state[q]
  <2>1. ASSUME NEW q \in Resource \ {r} PROVE state'[q] = state[q]
    <3>1. UNCHANGED <<state[q], pc[q], model[q], wire[q], reply[q]>>
          BY <1>2, OthersStill
    <3>2. QED BY <3>1
  <2>2. QED BY <2>1
<1>4. \A q \in Resource \ {r} : ItemOf(q)' = ItemOf(q)
      BY <1>3 DEF ItemOf
<1>5. Items' = Items
      BY <1>1 DEF Items, ItemStatus
<1>6. CASE ItemOf(r)' = ItemOf(r)
  <2>1. Owners' = Owners
        BY <1>4, <1>6 DEF Owners
  <2>2. QED BY <1>5, <2>1 DEF Lifecycle!vars, Owners, Items
<1>7. CASE ItemOf(r) \in Uuid /\ ItemOf(r)' = None /\ ItemStatus(ItemOf(r)) = "gone"
  <2>1. \A q \in {r} : Owners[q] # None /\ Items[Owners[q]] = "gone"
        BY <1>7, NoneAssumption DEF Owners, Items, Slot
  <2>2. Owners' = [q \in Resource |-> IF q \in {r} THEN None ELSE Owners[q]]
        BY <1>4, <1>7 DEF Owners
  <2>3. Lifecycle!Release({r})
        BY <1>5, <2>1, <2>2 DEF Lifecycle!Release, Owners, Items
  <2>4. {r} \in (SUBSET Resource) \ {{}}
        OBVIOUS
  <2>5. QED BY <2>3, <2>4 DEF Lifecycle!Next
<1>8. CASE /\ state[r] = None /\ ItemOf(r) = None /\ ItemOf(r)' = state'[r].slot
           /\ state'[r] # None /\ ItemOf(r)' # Settings
  <2> DEFINE i == state'[r].slot
  <2>1. i \in issued /\ i \in Uuid /\ i # Settings
        BY <1>1, <1>2, <1>8 DEF Ownership, HeldIssued, Held, TypeOK
  <2>2. Items[i] # "unused"
        BY <2>1 DEF Items, ItemStatus
  <2>3. \A q \in Resource : Owners[q] # i
    <3>1. Owners[r] # i
          BY <1>8, <2>1, NoneAssumption DEF Owners, Slot
    <3>2. ASSUME NEW q \in Resource \ {r}, Owners[q] = i PROVE FALSE
      <4>1. state'[q] # None /\ state'[q].slot = i
            BY <1>3, <2>1, <3>2, NoneAssumption DEF Owners, ItemOf, Slot
      <4>2. i \in Held(q)' /\ i \in Held(r)'
            BY <1>8, <4>1 DEF Held
      <4>3. Held(q)' \intersect Held(r)' \subseteq {Settings}
            BY DEF Ownership, TrackedDistinct
      <4>4. QED BY <2>1, <4>2, <4>3
    <3>3. QED BY <3>1, <3>2
  <2>4. Owners' = [Owners EXCEPT ![r] = i]
        BY <1>4, <1>8 DEF Owners
  <2>5. Lifecycle!Adopt(r, i)
        BY <1>5, <1>8, <2>2, <2>3, <2>4 DEF Lifecycle!Adopt, Owners, Items
  <2>6. QED BY <2>1, <2>5 DEF Lifecycle!Next
<1>9. QED BY <1>1, <1>6, <1>7, <1>8, ItemMoves

LEMMA LifecycleSteps ==
    ASSUME DropInv, Ownership', TypeOK', [Next]_vars
    PROVE  [Lifecycle!Next]_(Lifecycle!vars)
<1>1. TypeInv
      BY DEF DropInv, LinkInv
<1>2. ASSUME UNCHANGED <<state, store, issued>> PROVE [Lifecycle!Next]_(Lifecycle!vars)
      BY <1>2 DEF Lifecycle!vars, ItemOf, ItemStatus
<1>3. CASE StartRun \/ AbortRefresh \/ Crash \/ UNCHANGED vars
      BY <1>2, <1>3 DEF StartRun, AbortRefresh, Crash, vars, provider, device
<1>4. ASSUME NEW r \in Resource, Operator(r) \/ Refuse(r) \/ Timeout(r)
      PROVE  [Lifecycle!Next]_(Lifecycle!vars)
      BY <1>2, <1>4 DEF Operator, ConfigChange, Import, Send, Refuse, Timeout, device
<1>5. ASSUME NEW r \in Resource, Serve(r) \/ ServeUnheard(r)
      PROVE  [Lifecycle!Next]_(Lifecycle!vars)
  <2>1. wire[r] \in Request /\ RequestOK(wire[r]) /\ UNCHANGED state
        BY <1>1, <1>5 DEF Serve, ServeUnheard, TypeInv, TypeOK, PhaseOK
  <2>2. PICK u \in Choices(wire[r]) : Effect(wire[r], u)
        BY <1>5 DEF Serve, ServeUnheard
  <2>3. QED BY <1>1, <2>1, <2>2, EffectSteps
<1>6. ASSUME NEW req \in late, ServeLate(req) PROVE [Lifecycle!Next]_(Lifecycle!vars)
  <2>1. req \in Request /\ RequestOK(req) /\ UNCHANGED state
        BY <1>1, <1>6 DEF ServeLate, TypeInv, TypeOK, provider
  <2>2. PICK u \in Choices(req) : Effect(req, u)
        BY <1>6 DEF ServeLate
  <2>3. QED BY <1>1, <2>1, <2>2, EffectSteps
<1>7. ASSUME NEW s \in Slot, NEW k \in Key, NEW v \in Value, AdminEdit(s, k, v)
      PROVE  [Lifecycle!Next]_(Lifecycle!vars)
  <2>1. /\ store' = [store EXCEPT ![s] = [store[s] EXCEPT ![k] = v]]
        /\ UNCHANGED <<issued, state>> /\ store[s] \in Object
        BY <1>1, <1>7 DEF AdminEdit, provider, TypeInv, TypeOK
  <2>2. [store[s] EXCEPT ![k] = v] \in Object
        BY <2>1 DEF Object
  <2>3. \A u \in Uuid : ItemStatus(u)' = ItemStatus(u)
        BY <1>1, <2>1, <2>2, ObjectNotNone DEF ItemStatus, TypeInv, TypeOK, Slot
  <2>4. QED BY <2>1, <2>3 DEF Lifecycle!vars, ItemOf
<1>8. ASSUME NEW u \in Uuid, AdminDelete(u) PROVE [Lifecycle!Next]_(Lifecycle!vars)
  <2>1. u \in Slot /\ store' = [store EXCEPT ![u] = None] /\ UNCHANGED <<issued, state>>
        BY <1>8 DEF AdminDelete, provider, Slot
  <2>2. QED BY <1>1, <2>1, VanishSteps
<1>9. QED BY <1>3, <1>4, <1>5, <1>6, <1>7, <1>8, RefreshSteps, HandlerSteps
      DEF Next, Network, Administrator

LEMMA LifecycleInit ==
    ASSUME Init
    PROVE  Lifecycle!Init
<1>1. \A u \in Uuid : ItemStatus(u) \in {"unused", "present"}
      BY ObjectNotNone, DataAssumption DEF Init, ItemStatus, Slot
<1>2. \A r \in Resource : ItemOf(r) = None
      BY DEF Init, ItemOf
<1>3. QED BY <1>1, <1>2 DEF Lifecycle!Init

\* The resources implement the life cycle of items, for any number of them: as
\* long as no answer hides an item that exists, an item has at most one owner,
\* is not exchanged for another, and is let go of only when it is gone for
\* good, whatever creates, replacements, imports, lost replies, late requests,
\* crashes and administrators do.
THEOREM LifecycleImplemented ==
    ASSUME "garbled" \notin Faults, "missing" \notin Faults
    PROVE  Spec => ImplementsLifecycle
<1>1. DropInv /\ DropInv' /\ [Next]_vars => [Lifecycle!Next]_(Lifecycle!vars)
      BY LifecycleSteps DEF DropInv, LinkInv, TypeInv
<1>2. QED BY <1>1, LifecycleInit, DropInvariant, PTL
          DEF Spec, ImplementsLifecycle, Lifecycle!Spec

-----------------------------------------------------------------------------
(* What faults leave behind.                                               *)

\* An answer after which r's handler lets go of the item in its state, and one
\* after which it does not store its model.
Doubted(r) ==
    /\ reply[r] # None
    /\ \/ pc[r] = "refresh" /\ reply[r].kind \notin {"ok", "error"}
       \/ pc[r] = "delete" /\ reply[r].kind = "notFound"
Spoiled(r) ==
    /\ reply[r] # None
    /\ \/ pc[r] = "import" /\ reply[r].kind # "ok"
       \/ pc[r] = "reconfigure" /\ Failed(reply[r])

\* r holds u and will not let go of it while u is on the firewall.
Secures(r, u) ==
    \/ state[r] # None /\ state[r].slot = u /\ ~Doubted(r)
    \/ model[r] # None /\ model[r].slot = u /\ ~Spoiled(r)
    \/ pc[r] = "create" /\ reply[r] # None /\ reply[r].slot = u

\* The items that are left behind or about to be.
Stray ==
    {u \in issued \ Preexisting : store[u] # None /\ \A r \in Resource : ~Secures(r, u)}

\* What faults have left behind so far: such items, and adds that were given up
\* and may still create one.
LateAdds == {req \in late : req.op = "add"}
Debt == {<<"item", u>> : u \in Stray} \union {<<"add", req>> : req \in LateAdds}

DebtInv ==
    LinkInv /\ IsFiniteSet(Debt) /\ Cardinality(Debt) <= faults * Cardinality(Resource)

\* The item r lets go of if the answer it waits for goes wrong.
AtRisk(r) == IF pc[r] \in {"import", "reconfigure"} THEN model[r].slot ELSE state[r].slot

\* Executing a request creates no item but the one an add is given.
LEMMA EffectCreates ==
    ASSUME TypeInv, NEW req \in Request, RequestOK(req), NEW u \in Choices(req), Effect(req, u),
           NEW i \in Uuid, i \in issued', store'[i] # None
    PROVE  \/ i \in issued /\ store[i] # None
           \/ req.op = "add" /\ Executable(req) /\ i = u
<1>1. CASE req.op = "add" /\ Executable(req)
  <2>1. /\ store' = [store EXCEPT ![u] = Merge(Default, req.body)]
        /\ issued' = issued \union {u}
        BY <1>1 DEF Effect
  <2>2. QED BY <1>1, <2>1 DEF TypeInv, TypeOK, Slot
<1>2. CASE req.op = "set" /\ store[req.slot] # None
      BY <1>2 DEF Effect, TypeInv, TypeOK, Slot
<1>3. CASE req.op = "del"
      BY <1>3 DEF Effect, TypeInv, TypeOK, Slot
<1>4. CASE req.op = "apply"
      BY <1>4 DEF Effect
<1>5. CASE ~(req.op = "add" /\ Executable(req)) /\ ~(req.op = "set" /\ store[req.slot] # None)
           /\ req.op # "del" /\ req.op # "apply"
      BY <1>5 DEF Effect
<1>6. QED BY <1>1, <1>2, <1>3, <1>4, <1>5

\* A handler stores or keeps the item it holds, unless it is gone.
LEMMA HandlerSecures ==
    ASSUME LinkInv, NEW r \in Resource, Handler(r), NEW u \in Uuid, Secures(r, u), store[u] # None
    PROVE  Secures(r, u)'
<1>0. TypeInv /\ Linked(r) /\ u # Settings /\ u # None
      BY SettingsAssumption, NoneAssumption DEF LinkInv, Slot
<1>1. ASSUME NEW s, Gone(s) PROVE s # u
      BY <1>0, <1>1 DEF Gone
<1>2. ASSUME NEW new, NEW next \in {"idle", "planned"}, Return(r, new, next),
             new # None, new.slot = u
      PROVE  Secures(r, u)'
  <2>1. state'[r] = new /\ reply'[r] = None
        BY <1>0, <1>2 DEF Return, TypeInv, TypeOK
  <2>2. QED BY <1>2, <2>1 DEF Secures, Doubted
<1>3. ASSUME Fail(r), state[r] # None, state[r].slot = u PROVE Secures(r, u)'
      BY <1>2, <1>3 DEF Fail
<1>4. ASSUME NEW new, NEW wanted, NEW next \in {"idle", "planned"},
             Reconfigure(r, new, wanted, next), new # None, new.slot = u
      PROVE  Secures(r, u)'
  <2>1. CASE wanted
    <3>1. model'[r] = new /\ reply'[r] = None
          BY <1>0, <1>4, <2>1 DEF Reconfigure, Send, TypeInv, TypeOK
    <3>2. QED BY <1>4, <3>1 DEF Secures, Spoiled
  <2>2. CASE ~wanted
        BY <1>2, <1>4, <2>2 DEF Reconfigure
  <2>3. QED BY <2>1, <2>2
<1>5. ASSUME NEW phase, NEW req, Send(r, phase, req), UNCHANGED state,
             state[r] # None, state[r].slot = u
      PROVE  Secures(r, u)'
  <2>1. reply'[r] = None
        BY <1>0, <1>5 DEF Send, TypeInv, TypeOK
  <2>2. QED BY <1>5, <2>1 DEF Secures, Doubted
<1>6. ASSUME pc[r] \in {"planned", "update", "delete"}
      PROVE  state[r] # None /\ state[r].slot = u /\ ~Doubted(r)
      BY <1>0, <1>6 DEF Secures, Linked, TypeInv, PhaseOK
<1>7. CASE NoChange(r) \/ InvalidBody(r)
      BY <1>3, <1>6, <1>7 DEF NoChange, InvalidBody
<1>8. CASE Create(r) \/ Update(r)
      BY <1>5, <1>6, <1>8 DEF Create, Update
<1>9. CASE CreateReturns(r)
  <2>1. reply[r] # None /\ reply[r].slot = u /\ config[r] \in Config
        BY <1>0, <1>9 DEF CreateReturns, Secures, Linked, TypeInv, TypeOK, PhaseOK
  <2>2. reply[r].kind = "ok" /\ ~config[r].singleton
        BY <1>0, <1>9, <2>1 DEF CreateReturns, Linked, Answered, Config
  <2> DEFINE m == [slot |-> reply[r].slot, body |-> config[r].body,
                   reconfigure |-> config[r].reconfigure]
  <2>3. Reconfigure(r, m, m.reconfigure, "idle")
        BY <1>0, <1>9, <2>1, <2>2 DEF CreateReturns, Accepted
  <2>4. m \in Model /\ m.slot = u
        BY <1>0, <1>9, <2>1 DEF CreateReturns, Model, Config, TypeInv, PhaseOK, Slot
  <2> HIDE DEF m
  <2>5. QED BY <1>4, <2>3, <2>4, NoneAssumption
<1>10. CASE UpdateReturns(r)
  <2>1. state[r] # None /\ state[r].slot = u
        BY <1>6, <1>10 DEF UpdateReturns
  <2>2. QED BY <1>0, <1>3, <1>4, <1>10, <2>1, WriteReturns
<1>11. CASE Delete(r)
  <2>1. state[r] # None /\ state[r].slot = u
        BY <1>6, <1>11 DEF Delete
  <2>2. QED BY <1>0, <1>5, <1>11, <2>1 DEF Delete
<1>12. CASE DeleteReturns(r)
  <2>1. state[r] # None /\ state[r].slot = u /\ ~Doubted(r)
        BY <1>6, <1>12 DEF DeleteReturns
  <2>2. reply[r].kind # "notFound" /\ ~Accepted(reply[r])
        BY <1>0, <1>1, <1>12, <2>1 DEF DeleteReturns, Doubted, Linked, Answered
  <2>3. QED BY <1>3, <1>12, <2>1, <2>2 DEF DeleteReturns
<1>13. CASE ReconfigureReturns(r)
  <2>1. CASE Failed(reply[r])
    <3>1. state[r] # None /\ state[r].slot = u
          BY <1>13, <2>1 DEF ReconfigureReturns, Secures, Spoiled
    <3>2. QED BY <1>3, <1>13, <2>1, <3>1 DEF ReconfigureReturns
  <2>2. CASE ~Failed(reply[r])
    <3>1. model[r] # None /\ model[r].slot = u
          BY <1>0, <1>1, <1>13 DEF ReconfigureReturns, Secures, Linked, Configured
    <3>2. QED BY <1>2, <1>13, <2>2, <3>1 DEF ReconfigureReturns
  <2>3. QED BY <2>1, <2>2
<1>14. CASE ImportReturns(r)
  <2>1. model[r] \in Model /\ model[r].slot = u /\ ~Spoiled(r) /\ reply[r] # None
        BY <1>0, <1>14 DEF ImportReturns, Secures, Linked, TypeInv, TypeOK, PhaseOK
  <2>2. reply[r].kind = "ok" /\ reply[r].body \in Object
        BY <1>0, <1>14, <2>1 DEF ImportReturns, Spoiled, TypeInv, PhaseOK
  <2> DEFINE m == Read(model[r], reply[r])
  <2>3. m \in Model /\ m.slot = u
        BY <2>1, <2>2 DEF Read, Model, Object, Body
  <2>4. Return(r, m, "idle")
        BY <1>14, <2>2 DEF ImportReturns, ReadFails
  <2> HIDE DEF m
  <2>5. QED BY <1>2, <2>3, <2>4, NoneAssumption
<1>15. QED BY <1>7, <1>8, <1>9, <1>10, <1>11, <1>12, <1>13, <1>14 DEF Handler

\* So does the end of a refresh, and no run or operator lets go of one.
LEMMA RunSecures ==
    ASSUME LinkInv, StartRun \/ FinishRefresh \/ AbortRefresh, NEW r \in Resource,
           NEW u \in Uuid, Secures(r, u)
    PROVE  Secures(r, u)'
<1>1. TypeInv /\ u # None
      BY NoneAssumption DEF LinkInv, Slot
<1>2. pc[r] \in {"idle", "refresh"} /\ model[r] = None
      BY <1>1 DEF StartRun, FinishRefresh, AbortRefresh, AllIdle, Refreshed, TypeInv, PhaseOK
<1>3. state[r] # None /\ state[r].slot = u /\ ~Doubted(r)
      BY <1>1, <1>2 DEF Secures
<1>4. reply'[r] = None
      BY <1>1 DEF StartRun, FinishRefresh, AbortRefresh, AllIdle, TypeInv, PhaseOK
<1>5. state'[r] # None /\ state'[r].slot = u
  <2>1. CASE StartRun \/ AbortRefresh
        BY <1>3, <2>1 DEF StartRun, AbortRefresh
  <2>2. CASE FinishRefresh
    <3>1. pc[r] = "refresh" /\ reply[r] # None /\ reply[r].kind # "error"
          BY <1>3, <2>2 DEF FinishRefresh, Refreshed, ReadFails
    <3>2. reply[r].kind = "ok" /\ reply[r].body \in Object /\ state[r] \in Model
          BY <1>1, <1>3, <3>1 DEF Doubted, TypeInv, TypeOK, PhaseOK
    <3>3. Read(state[r], reply[r]) \in Model /\ Read(state[r], reply[r]).slot = u
          BY <1>3, <3>2 DEF Read, Model, Object, Body
    <3>4. QED BY <1>3, <2>2, <3>3, NoneAssumption DEF FinishRefresh
  <2>3. QED BY <2>1, <2>2
<1>6. QED BY <1>4, <1>5 DEF Secures, Doubted

LEMMA OperatorSecures ==
    ASSUME LinkInv, NEW r \in Resource, Operator(r), NEW u \in Uuid, Secures(r, u)
    PROVE  Secures(r, u)'
<1>1. ASSUME NEW c, ConfigChange(r, c) PROVE Secures(r, u)'
      BY <1>1 DEF ConfigChange, Secures, Doubted, Spoiled
<1>2. ASSUME NEW s, NEW hint, Import(r, s, hint) PROVE FALSE
      BY <1>2 DEF Import, AllIdle, Secures, LinkInv, TypeInv, PhaseOK
<1>3. QED BY <1>1, <1>2 DEF Operator

\* The one thing an answer may put in doubt is the item at risk.
LEMMA RespondSecures ==
    ASSUME LinkInv, NEW r \in Resource, wire[r] # None, NEW a, Respond(r, a),
           UNCHANGED <<state, pc, model>>, NEW u \in Uuid, Secures(r, u), ~Secures(r, u)'
    PROVE  /\ u = AtRisk(r)
           /\ \/ pc[r] = "refresh" /\ state[r] # None /\ a.kind \notin {"ok", "error"}
              \/ pc[r] = "delete" /\ a.kind = "notFound"
              \/ pc[r] = "import" /\ a.kind # "ok"
              \/ pc[r] = "reconfigure" /\ Failed(a)
<1>1. TypeInv /\ reply[r] = None /\ reply'[r] = a /\ (pc[r] = "import" => state[r] = None)
      BY DEF LinkInv, Linked, TypeInv, TypeOK, PhaseOK, Respond
<1>2. (state[r] # None /\ state[r].slot = u) \/ (model[r] # None /\ model[r].slot = u)
      BY <1>1 DEF Secures
<1>3. pc[r] \in {"create", "update", "delete", "refresh"} => model[r] = None
      BY <1>1 DEF LinkInv, Linked, TypeInv, PhaseOK
<1>4. pc[r] = "reconfigure" /\ model[r] # None /\ state[r] # None => model[r].slot = state[r].slot
      BY DEF LinkInv, Linked, Configured
<1>5. CASE state[r] # None /\ state[r].slot = u
  <2>1. Doubted(r)'
        BY <1>5 DEF Secures
  <2>2. QED BY <1>1, <1>5, <2>1 DEF Doubted, AtRisk
<1>6. CASE model[r] # None /\ model[r].slot = u
  <2>1. Spoiled(r)'
        BY <1>6 DEF Secures
  <2>2. QED BY <1>1, <1>6, <2>1 DEF Spoiled, AtRisk, Failed
<1>7. QED BY <1>2, <1>5, <1>6

\* An item goes astray when the one who held it lets go, or when nobody holds
\* it from the start.
LEMMA Strays ==
    ASSUME TypeInv, NEW u \in Stray', u \in issued /\ store[u] # None, u \notin Stray
    PROVE  u \in Uuid /\ \E r \in Resource : Secures(r, u) /\ ~Secures(r, u)'
BY DEF Stray, TypeInv, TypeOK

\* Who does not move secures what it did.
LEMMA StillSecures ==
    ASSUME NEW r \in Resource, UNCHANGED <<state[r], pc[r], model[r], reply[r]>>, NEW u
    PROVE  Secures(r, u)' <=> Secures(r, u)
BY DEF Secures, Doubted, Spoiled

\* Debts grow by what goes astray and what is given up.
LEMMA DebtGrows ==
    ASSUME NEW L,
           \A u \in Stray' : u \in Stray \/ <<"item", u>> \in L,
           \A req \in LateAdds' : req \in LateAdds \/ <<"add", req>> \in L
    PROVE  Debt' \subseteq Debt \union L
<1>1. ASSUME NEW d \in Debt' PROVE d \in Debt \union L
  <2>1. CASE \E u \in Stray' : d = <<"item", u>>
        BY <2>1 DEF Debt
  <2>2. CASE \E req \in LateAdds' : d = <<"add", req>>
        BY <2>2 DEF Debt
  <2>3. QED BY <2>1, <2>2 DEF Debt
<1>2. QED BY <1>1

\* Executing r's request and answering it truthfully leaves nothing behind.
LEMMA ServeStrays ==
    ASSUME LinkInv, NEW r \in Resource, Serve(r), NEW u \in Stray'
    PROVE  u \in Stray
<1> DEFINE req == wire[r]
<1>1. /\ TypeInv /\ req # None /\ req \in Request /\ RequestOK(req)
      /\ Linked(r) /\ Asked(r) /\ UNCHANGED <<state, pc, model>>
      BY DEF Serve, LinkInv, Linked, TypeInv, TypeOK, PhaseOK
<1>2. PICK i \in Choices(req) : Effect(req, i) /\ \E a \in Answers(req, i) : Respond(r, a)
      BY DEF Serve
<1>3. PICK a \in Answers(req, i) : Respond(r, a)
      BY <1>2
<1>4. u \in Uuid /\ u \in issued' /\ store'[u] # None /\ \A q \in Resource : ~Secures(q, u)'
  <2>1. issued' \subseteq Uuid
        BY <1>1, <1>2, EffectType DEF TypeInv, TypeOK
  <2>2. QED BY <2>1 DEF Stray
<1>5. reply'[r] = a
      BY <1>1, <1>3 DEF Respond, TypeInv, TypeOK
<1>6. ASSUME req.op = "add", Executable(req), u = i PROVE FALSE
  <2>1. a.slot = u
        BY <1>3, <1>6 DEF Answers, Answer
  <2>2. pc[r] = "create"
        BY <1>1, <1>6 DEF Asked, TypeInv, TypeOK, PhaseOK, Phase
  <2>3. a # None
        BY <1>1, <1>2, <1>3, AnswersType, NoneAssumption DEF TypeInv, TypeOK
  <2>4. Secures(r, u)'
        BY <1>1, <1>5, <2>1, <2>2, <2>3 DEF Secures
  <2>5. QED BY <1>4, <2>4
<1>7. u \in issued /\ store[u] # None
      BY <1>1, <1>2, <1>4, <1>6, EffectCreates
<1>8. SUFFICES ASSUME u \notin Stray PROVE FALSE
      OBVIOUS
<1>9. PICK q \in Resource : Secures(q, u) /\ ~Secures(q, u)'
      BY <1>1, <1>7, <1>8, Strays
<1>10. q = r
      BY <1>1, <1>9, OthersStill, StillSecures
<1>11. /\ u = AtRisk(r)
       /\ \/ pc[r] = "refresh" /\ state[r] # None /\ a.kind \notin {"ok", "error"}
          \/ pc[r] = "delete" /\ a.kind = "notFound"
          \/ pc[r] = "import" /\ a.kind # "ok"
          \/ pc[r] = "reconfigure" /\ Failed(a)
      BY <1>1, <1>3, <1>4, <1>9, <1>10, RespondSecures
<1>12. CASE pc[r] \in {"refresh", "import"}
  <2>1. req.op = "get" /\ req.slot = u
        BY <1>1, <1>11, <1>12 DEF Asked, AtRisk, TypeInv, PhaseOK
  <2>2. a.kind = "ok"
        BY <1>3, <1>7, <2>1 DEF Answers, Answer
  <2>3. QED BY <1>11, <1>12, <2>2
<1>13. CASE pc[r] = "delete"
  <2>1. req.op = "del" /\ req.slot = u
        BY <1>1, <1>11, <1>13 DEF Asked, AtRisk
  <2>2. QED BY <1>3, <1>7, <1>11, <1>13, <2>1 DEF Answers, Answer
<1>14. CASE pc[r] = "reconfigure"
  <2>1. req.op = "apply"
        BY <1>1, <1>14 DEF Asked
  <2>2. QED BY <1>3, <1>11, <1>14, <2>1 DEF Answers, Answer, Failed
<1>15. QED BY <1>11, <1>12, <1>13, <1>14

-----------------------------------------------------------------------------
(* Debts step by step.                                                     *)

\* Without a fault nothing more is left behind.
LEMMA CalmStrays ==
    ASSUME LinkInv, NEW u \in Stray',
           \/ StartRun \/ FinishRefresh \/ AbortRefresh \/ Administrator
           \/ \E r \in Resource : Handler(r) \/ Operator(r)
    PROVE  u \in Stray
<1>1. TypeInv
      BY DEF LinkInv
<1>2. UNCHANGED issued
      BY DEF StartRun, FinishRefresh, AbortRefresh, Administrator, AdminEdit, AdminDelete,
         Handler, NoChange, InvalidBody, Create, CreateReturns, Update, UpdateReturns, Delete,
         DeleteReturns, ReconfigureReturns, ImportReturns, Operator, ConfigChange, Import, device
<1>3. u \in Uuid /\ u \in issued /\ store'[u] # None
      BY <1>1, <1>2 DEF Stray, TypeInv, TypeOK
<1>4. store[u] # None
  <2>1. CASE Administrator
        BY <1>1, <1>3, <2>1 DEF Administrator, AdminEdit, AdminDelete, TypeInv, TypeOK, Slot
  <2>2. CASE ~Administrator
    <3>1. UNCHANGED store
          BY <2>2 DEF StartRun, FinishRefresh, AbortRefresh, Handler, NoChange, InvalidBody,
             Create, CreateReturns, Update, UpdateReturns, Delete, DeleteReturns,
             ReconfigureReturns, ImportReturns, Operator, ConfigChange, Import, device
    <3>2. QED BY <1>3, <3>1
  <2>3. QED BY <2>1, <2>2
<1>5. SUFFICES ASSUME u \notin Stray PROVE FALSE
      OBVIOUS
<1>6. PICK q \in Resource : Secures(q, u) /\ ~Secures(q, u)'
      BY <1>1, <1>3, <1>4, <1>5, Strays
<1>7. CASE StartRun \/ FinishRefresh \/ AbortRefresh
      BY <1>3, <1>6, <1>7, RunSecures
<1>8. CASE Administrator
  <2>1. UNCHANGED provider
        BY <1>8 DEF Administrator, AdminEdit, AdminDelete
  <2>2. QED BY <1>6, <2>1, StillSecures DEF provider
<1>9. ASSUME NEW r \in Resource, Handler(r) \/ Operator(r) PROVE FALSE
  <2>1. CASE q = r
        BY <1>3, <1>4, <1>6, <1>9, <2>1, HandlerSecures, OperatorSecures
  <2>2. CASE q # r
        BY <1>1, <1>6, <1>9, <2>2, OthersStill, StillSecures
  <2>3. QED BY <2>1, <2>2
<1>10. QED BY <1>7, <1>8, <1>9

\* One request goes wrong: what it was to create, or what r was to keep, is all
\* that is left behind.
LEMMA NetworkDebt ==
    ASSUME LinkInv, NEW r \in Resource, Network(r)
    PROVE  \E x : Debt' \subseteq Debt \union {x}
<1> DEFINE req == wire[r]
<1>1. /\ TypeInv /\ req # None /\ req \in Request /\ RequestOK(req)
      /\ Linked(r) /\ Asked(r) /\ UNCHANGED <<state, pc, model>>
      BY DEF Network, ServeUnheard, Refuse, Timeout, LinkInv, Linked, TypeInv, TypeOK, PhaseOK
<1>2. req.op = "add" => pc[r] = "create"
      BY <1>1 DEF Asked, TypeInv, TypeOK, PhaseOK, Phase
<1>3. \E a : Respond(r, a)
      BY DEF Network, ServeUnheard, Refuse, Timeout
<1>4. ASSUME NEW u \in Stray', u \in issued /\ store[u] # None, u \notin Stray
      PROVE  u = AtRisk(r) /\ pc[r] # "create"
  <2>1. PICK q \in Resource : Secures(q, u) /\ ~Secures(q, u)'
        BY <1>1, <1>4, Strays
  <2>2. q = r
        BY <1>1, <2>1, OthersStill, StillSecures
  <2>3. u \in Uuid
        BY <1>1, <1>4, Strays
  <2>4. PICK a : Respond(r, a)
        BY <1>3
  <2>5. QED BY <1>1, <2>1, <2>2, <2>3, <2>4, RespondSecures
<1>5. CASE ServeUnheard(r)
  <2>1. PICK i \in Choices(req) : Effect(req, i)
        BY <1>5 DEF ServeUnheard
  <2>2. UNCHANGED LateAdds
        BY <1>5 DEF ServeUnheard, LateAdds
  <2>3. issued' \subseteq Uuid
        BY <1>1, <2>1, EffectType DEF TypeInv, TypeOK
  <2>4. ASSUME NEW u \in Stray', u \notin Stray
        PROVE  u = IF req.op = "add" THEN i ELSE AtRisk(r)
    <3>1. u \in Uuid /\ u \in issued' /\ store'[u] # None
          BY <2>3 DEF Stray
    <3>2. \/ u \in issued /\ store[u] # None
          \/ req.op = "add" /\ u = i
          BY <1>1, <2>1, <3>1, EffectCreates
    <3>3. QED BY <1>2, <1>4, <2>4, <3>2
  <2> DEFINE x == <<"item", IF req.op = "add" THEN i ELSE AtRisk(r)>>
  <2>5. \A u \in Stray' : u \in Stray \/ <<"item", u>> \in {x}
        BY <2>4
  <2>6. \A q \in LateAdds' : q \in LateAdds \/ <<"add", q>> \in {x}
        BY <2>2
  <2> HIDE DEF x
  <2>7. Debt' \subseteq Debt \union {x}
        BY <2>5, <2>6, DebtGrows
  <2>8. QED BY <2>7
<1>6. CASE Refuse(r) \/ Timeout(r)
  <2>1. UNCHANGED <<store, issued>>
        BY <1>6 DEF Refuse, Timeout, device
  <2>2. \A u \in Stray' : u \in issued /\ store[u] # None
        BY <2>1 DEF Stray
  <2> DEFINE x == IF req.op = "add" THEN <<"add", req>> ELSE <<"item", AtRisk(r)>>
  <2>3. CASE Timeout(r)
    <3>1. \A u \in Stray' : u \in Stray \/ <<"item", u>> \in {x}
          BY <1>2, <1>4, <2>2
    <3>2. \A q \in LateAdds' : q \in LateAdds \/ <<"add", q>> \in {x}
          BY <2>3 DEF Timeout, LateAdds
    <3> HIDE DEF x
    <3>3. Debt' \subseteq Debt \union {x}
          BY <3>1, <3>2, DebtGrows
    <3>4. QED BY <3>3
  <2>4. CASE Refuse(r)
    <3> DEFINE y == <<"item", AtRisk(r)>>
    <3>1. \A u \in Stray' : u \in Stray \/ <<"item", u>> \in {y}
          BY <1>4, <2>2
    <3>2. \A q \in LateAdds' : q \in LateAdds \/ <<"add", q>> \in {y}
          BY <2>4 DEF Refuse, device, LateAdds
    <3> HIDE DEF y
    <3>3. Debt' \subseteq Debt \union {y}
          BY <3>1, <3>2, DebtGrows
    <3>4. QED BY <3>3
  <2>5. QED BY <1>6, <2>3, <2>4
<1>7. QED BY <1>5, <1>6 DEF Network

\* What a kill may cost r: the add on its wire, or the item it has not stored.
Loss(r) ==
    IF wire[r] # None /\ wire[r].op = "add" THEN <<"add", wire[r]>>
    ELSE IF pc[r] = "create" THEN <<"item", reply[r].slot>>
    ELSE <<"item", model[r].slot>>

LEMMA CrashDebt ==
    ASSUME LinkInv, Crash
    PROVE  Debt' \subseteq Debt \union {Loss(r) : r \in Resource}
<1> DEFINE L == {Loss(r) : r \in Resource}
<1>1. TypeInv /\ UNCHANGED <<store, issued, state>>
      BY DEF LinkInv, Crash
<1>2. ASSUME NEW u \in Stray', u \notin Stray PROVE <<"item", u>> \in L
  <2>1. u \in issued /\ store[u] # None /\ u \in Uuid /\ u # None
        BY <1>1, NoneAssumption DEF Stray, TypeInv, TypeOK, Slot
  <2>2. PICK r \in Resource : Secures(r, u) /\ ~Secures(r, u)'
        BY <1>1, <1>2, <2>1, Strays
  <2>3. ~(state[r] # None /\ state[r].slot = u)
        BY <1>1, <2>2 DEF Crash, Secures, Doubted
  <2>4. CASE pc[r] = "create"
    <3>1. reply[r] # None /\ reply[r].slot = u /\ wire[r] = None
          BY <1>1, <2>2, <2>3, <2>4 DEF Secures, LinkInv, Linked, TypeInv, PhaseOK
    <3>2. QED BY <2>4, <3>1 DEF Loss
  <2>5. CASE pc[r] # "create"
    <3>1. model[r] # None /\ model[r].slot = u
          BY <2>2, <2>3, <2>5 DEF Secures
    <3>2. ~(wire[r] # None /\ wire[r].op = "add")
          BY <1>1, <2>5 DEF LinkInv, Linked, Asked, TypeInv, TypeOK, PhaseOK, Phase
    <3>3. QED BY <2>5, <3>1, <3>2 DEF Loss
  <2>6. QED BY <2>4, <2>5
<1>3. ASSUME NEW req \in LateAdds', req \notin LateAdds PROVE <<"add", req>> \in L
  <2>1. PICK r \in Resource : wire[r] # None /\ wire[r].op = "add" /\ req = wire[r]
        BY <1>3 DEF Crash, LateAdds
  <2>2. QED BY <2>1 DEF Loss
<1> HIDE DEF L
<1>4. Debt' \subseteq Debt \union L
      BY <1>2, <1>3, DebtGrows
<1>5. QED BY <1>4 DEF L

\* A given-up add that is executed after all turns into the item it creates.
LEMMA LateDebt ==
    ASSUME LinkInv, NEW req \in late, ServeLate(req)
    PROVE  \/ Debt' \subseteq Debt
           \/ \E x \in Debt : \E y : Debt' \subseteq (Debt \ {x}) \union {y}
<1>1. TypeInv /\ req \in Request /\ RequestOK(req) /\ late' = late \ {req} /\ UNCHANGED provider
      BY DEF LinkInv, TypeInv, TypeOK, ServeLate
<1>2. PICK i \in Choices(req) : Effect(req, i)
      BY DEF ServeLate
<1>3. issued' \subseteq Uuid
      BY <1>1, <1>2, EffectType DEF TypeInv, TypeOK
<1>4. ASSUME NEW u \in Stray', u \in issued /\ store[u] # None PROVE u \in Stray
  <2>1. ASSUME NEW r \in Resource PROVE Secures(r, u)' <=> Secures(r, u)
        BY <1>1, <2>1, StillSecures DEF provider
  <2>2. QED BY <1>1, <1>4, <2>1, Strays
<1>5. LateAdds' = LateAdds \ {req}
      BY <1>1 DEF LateAdds
<1>6. CASE req.op = "add"
  <2> DEFINE x == <<"add", req>>
             y == <<"item", i>>
  <2>1. x \in Debt
        BY <1>6 DEF Debt, LateAdds
  <2>2. ASSUME NEW d \in Debt' PROVE d \in (Debt \ {x}) \union {y}
    <3>1. ASSUME NEW u \in Stray', d = <<"item", u>> PROVE d = y \/ d \in Debt \ {x}
      <4>1. u \in Uuid /\ u \in issued' /\ store'[u] # None
            BY <1>3 DEF Stray
      <4>2. (u \in issued /\ store[u] # None) \/ u = i
            BY <1>1, <1>2, <4>1, EffectCreates
      <4>3. u = i \/ u \in Stray
            BY <1>4, <4>2
      <4>4. QED BY <3>1, <4>3 DEF Debt
    <3>2. ASSUME NEW q \in LateAdds', d = <<"add", q>> PROVE d \in Debt \ {x}
          BY <1>5, <3>2 DEF Debt
    <3>3. QED BY <3>1, <3>2 DEF Debt
  <2>3. QED BY <2>1, <2>2
<1>7. CASE req.op # "add"
  <2>1. ASSUME NEW u \in Stray' PROVE u \in Stray
    <3>1. u \in Uuid /\ u \in issued' /\ store'[u] # None
          BY <1>3 DEF Stray
    <3>2. u \in issued /\ store[u] # None
          BY <1>1, <1>2, <1>7, <3>1, EffectCreates
    <3>3. QED BY <1>4, <3>2
  <2>2. Debt' \subseteq Debt
        BY <1>5, <2>1 DEF Debt
  <2>3. QED BY <2>2
<1>8. QED BY <1>6, <1>7

\* A step without a fault keeps the debt or turns a part of it into another.
LEMMA CalmDebt ==
    ASSUME LinkInv, [Next]_vars, faults' = faults
    PROVE  \/ Debt' \subseteq Debt
           \/ \E x \in Debt : \E y : Debt' \subseteq (Debt \ {x}) \union {y}
<1>1. faults \in Nat
      BY BoundAssumption DEF LinkInv, TypeInv, TypeOK
<1>2. ~Crash /\ \A r \in Resource : ~Network(r)
      BY <1>1 DEF Crash, Network, ServeUnheard, Refuse, Timeout, Fault
<1>3. ASSUME UNCHANGED late, \A u \in Stray' : u \in Stray PROVE Debt' \subseteq Debt
      BY <1>3 DEF Debt, LateAdds
<1>4. CASE \/ StartRun \/ FinishRefresh \/ AbortRefresh \/ Administrator
           \/ \E r \in Resource : Handler(r) \/ Operator(r)
  <2>1. UNCHANGED late
        BY <1>4 DEF StartRun, FinishRefresh, AbortRefresh, Administrator, AdminEdit, AdminDelete,
           Handler, NoChange, InvalidBody, Create, CreateReturns, Update, UpdateReturns, Delete,
           DeleteReturns, ReconfigureReturns, ImportReturns, Operator, ConfigChange, Import, device
  <2>2. QED BY <1>3, <1>4, <2>1, CalmStrays
<1>5. ASSUME NEW r \in Resource, Serve(r) PROVE Debt' \subseteq Debt
      BY <1>3, <1>5, ServeStrays DEF Serve
<1>6. CASE UNCHANGED vars
      BY <1>6 DEF vars, provider, device, Debt, LateAdds, Stray, Secures, Doubted, Spoiled
<1>7. QED BY <1>2, <1>4, <1>5, <1>6, LateDebt DEF Next

\* A fault adds at most one debt for each resource.
LEMMA FaultDebt ==
    ASSUME LinkInv, [Next]_vars, faults' # faults
    PROVE  /\ faults' = faults + 1
           /\ \E loss : Debt' \subseteq Debt \union {loss[r] : r \in Resource}
<1>1. CASE Crash
  <2> DEFINE loss == [r \in Resource |-> Loss(r)]
  <2>1. {loss[r] : r \in Resource} = {Loss(r) : r \in Resource}
        OBVIOUS
  <2>2. Debt' \subseteq Debt \union {loss[r] : r \in Resource}
        BY <1>1, <2>1, CrashDebt
  <2> HIDE DEF loss
  <2>3. QED BY <1>1, <2>2 DEF Crash, Fault
<1>2. ASSUME NEW r \in Resource, Network(r)
      PROVE  /\ faults' = faults + 1
             /\ \E loss : Debt' \subseteq Debt \union {loss[q] : q \in Resource}
  <2>1. faults' = faults + 1
        BY <1>2 DEF Network, ServeUnheard, Refuse, Timeout, Fault
  <2>2. PICK x : Debt' \subseteq Debt \union {x}
        BY <1>2, NetworkDebt
  <2> DEFINE loss == [q \in Resource |-> x]
  <2>3. {loss[q] : q \in Resource} = {x}
        BY <1>2
  <2>4. Debt' \subseteq Debt \union {loss[q] : q \in Resource}
        BY <2>2, <2>3
  <2> HIDE DEF loss
  <2>5. QED BY <2>1, <2>4
<1>3. CASE \/ StartRun \/ FinishRefresh \/ AbortRefresh \/ Administrator \/ UNCHANGED vars
           \/ \E r \in Resource : Handler(r) \/ Operator(r) \/ Serve(r)
           \/ \E req \in late : ServeLate(req)
  <2>1. UNCHANGED faults
        BY <1>3 DEF StartRun, FinishRefresh, AbortRefresh, Administrator, AdminEdit, AdminDelete,
           Handler, NoChange, InvalidBody, Create, CreateReturns, Update, UpdateReturns, Delete,
           DeleteReturns, ReconfigureReturns, ImportReturns, Operator, ConfigChange, Import,
           Serve, ServeLate, vars
  <2>2. QED BY <2>1
<1>4. QED BY <1>1, <1>2, <1>3 DEF Next

-----------------------------------------------------------------------------
(* Counting.                                                               *)

\* A set that gains at most one element for each resource.
LEMMA GrowsByResources ==
    ASSUME IsFiniteSet(Resource), NEW D, IsFiniteSet(D), NEW loss,
           NEW E, E \subseteq D \union {loss[r] : r \in Resource}
    PROVE  IsFiniteSet(E) /\ Cardinality(E) <= Cardinality(D) + Cardinality(Resource)
<1> DEFINE T == {loss[r] : r \in Resource}
           f == [r \in Resource |-> loss[r]]
<1>1. f \in Surjection(Resource, T)
      BY DEF Surjection
<1>2. IsFiniteSet(T) /\ Cardinality(T) <= Cardinality(Resource)
      BY <1>1, FS_Surjection
<1> HIDE DEF T, f
<1>3. /\ IsFiniteSet(D \union T)
      /\ Cardinality(D \union T) = Cardinality(D) + Cardinality(T) - Cardinality(D \intersect T)
      BY <1>2, FS_Union
<1>4. IsFiniteSet(D \intersect T)
      BY FS_Subset
<1>5. Cardinality(D \intersect T) \in Nat /\ Cardinality(D) \in Nat /\ Cardinality(T) \in Nat
        /\ Cardinality(Resource) \in Nat /\ Cardinality(D \union T) \in Nat
      BY <1>2, <1>3, <1>4, FS_CardinalityType
<1>6. E \in SUBSET (D \union T)
      BY DEF T
<1>7. IsFiniteSet(E) /\ Cardinality(E) <= Cardinality(D \union T)
      BY <1>3, <1>6, FS_Subset
<1>8. Cardinality(E) \in Nat
      BY <1>7, FS_CardinalityType
<1>9. QED BY <1>2, <1>3, <1>5, <1>7, <1>8

\* A set in which one element is exchanged.
LEMMA SwapsOne ==
    ASSUME NEW D, IsFiniteSet(D), NEW x \in D, NEW y, NEW E, E \subseteq (D \ {x}) \union {y}
    PROVE  IsFiniteSet(E) /\ Cardinality(E) <= Cardinality(D)
<1>1. IsFiniteSet(D \ {x}) /\ Cardinality(D \ {x}) = Cardinality(D) - 1
      BY FS_RemoveElement
<1>2. /\ IsFiniteSet((D \ {x}) \union {y})
      /\ Cardinality((D \ {x}) \union {y}) =
           IF y \in D \ {x} THEN Cardinality(D \ {x}) ELSE Cardinality(D \ {x}) + 1
      BY <1>1, FS_AddElement
<1>3. E \in SUBSET ((D \ {x}) \union {y})
      OBVIOUS
<1>4. IsFiniteSet(E) /\ Cardinality(E) <= Cardinality((D \ {x}) \union {y})
      BY <1>2, <1>3, FS_Subset
<1>5. Cardinality(D) \in Nat /\ Cardinality(E) \in Nat /\ Cardinality(D \ {x}) \in Nat
      BY <1>1, <1>4, FS_CardinalityType
<1>6. QED BY <1>1, <1>2, <1>4, <1>5

LEMMA DebtStep ==
    ASSUME IsFiniteSet(Resource), DebtInv, [Next]_vars
    PROVE  DebtInv'
<1>1. /\ LinkInv /\ IsFiniteSet(Debt) /\ Cardinality(Debt) <= faults * Cardinality(Resource)
      /\ faults \in Nat
      BY BoundAssumption DEF DebtInv, LinkInv, TypeInv, TypeOK
<1>2. Cardinality(Debt) \in Nat /\ Cardinality(Resource) \in Nat
      BY <1>1, FS_CardinalityType
<1>3. LinkInv'
      BY <1>1, LinkStep
<1>4. CASE faults' = faults
  <2>1. IsFiniteSet(Debt') /\ Cardinality(Debt') <= Cardinality(Debt)
    <3>1. CASE Debt' \subseteq Debt
          BY <1>1, <3>1, FS_Subset
    <3>2. CASE \E x \in Debt : \E y : Debt' \subseteq (Debt \ {x}) \union {y}
          BY <1>1, <3>2, SwapsOne
    <3>3. QED BY <1>1, <1>4, <3>1, <3>2, CalmDebt
  <2>2. Cardinality(Debt') \in Nat
        BY <2>1, FS_CardinalityType
  <2>3. faults * Cardinality(Resource) \in Nat
        BY <1>1, <1>2
  <2>4. Cardinality(Debt') <= faults * Cardinality(Resource)
        BY <1>1, <1>2, <2>1, <2>2, <2>3
  <2>5. QED BY <1>3, <1>4, <2>1, <2>4 DEF DebtInv
<1>5. CASE faults' # faults
  <2>1. faults' = faults + 1
        BY <1>1, <1>5, FaultDebt
  <2>2. PICK loss : Debt' \subseteq Debt \union {loss[r] : r \in Resource}
        BY <1>1, <1>5, FaultDebt
  <2>3. IsFiniteSet(Debt') /\ Cardinality(Debt') <= Cardinality(Debt) + Cardinality(Resource)
        BY <1>1, <2>2, GrowsByResources
  <2>4. (faults + 1) * Cardinality(Resource) = faults * Cardinality(Resource) + Cardinality(Resource)
        BY <1>1, <1>2
  <2>5. Cardinality(Debt') \in Nat /\ faults * Cardinality(Resource) \in Nat
        BY <1>1, <1>2, <2>3, FS_CardinalityType
  <2>6. Cardinality(Debt') <= faults' * Cardinality(Resource)
        BY <1>1, <1>2, <2>1, <2>3, <2>4, <2>5
  <2>7. QED BY <1>3, <2>3, <2>6 DEF DebtInv
<1>6. QED BY <1>4, <1>5

LEMMA DebtInit ==
    ASSUME IsFiniteSet(Resource), Init
    PROVE  DebtInv
<1>1. Debt = {}
      BY DEF Init, Debt, Stray, LateAdds
<1>2. Cardinality(Resource) \in Nat
      BY FS_CardinalityType
<1>3. IsFiniteSet(Debt) /\ Cardinality(Debt) = 0
      BY <1>1, FS_EmptySet
<1>4. faults * Cardinality(Resource) = 0
      BY <1>2 DEF Init
<1>5. QED BY <1>3, <1>4, LinkInit DEF DebtInv

LEMMA DebtInvariant ==
    ASSUME IsFiniteSet(Resource)
    PROVE  Spec => []DebtInv
BY DebtInit, DebtStep, PTL DEF Spec

LEMMA DebtBounds ==
    ASSUME IsFiniteSet(Resource), DebtInv
    PROVE  LeaksNeedFaults
<1>1. Orphans \subseteq Stray
  <2>1. ASSUME NEW u \in Orphans, NEW r \in Resource, Secures(r, u) PROVE FALSE
    <3>1. u # None
          BY <2>1, NoneAssumption DEF Orphans, DebtInv, LinkInv, TypeInv, TypeOK, Slot
    <3>2. u \in Held(r)
          BY <2>1, <3>1 DEF Secures, Held
    <3>3. QED BY <2>1, <3>2 DEF Orphans
  <2>2. QED BY <2>1 DEF Orphans, Stray
<1> DEFINE f == [u \in Orphans |-> <<"item", u>>]
<1>2. f \in Injection(Orphans, Debt)
      BY <1>1 DEF Injection, IsInjective, Debt
<1>3. IsFiniteSet(Debt) /\ Cardinality(Debt) <= faults * Cardinality(Resource)
      BY DEF DebtInv
<1> HIDE DEF f
<1>4. IsFiniteSet(Orphans) /\ Cardinality(Orphans) <= Cardinality(Debt)
      BY <1>2, <1>3, FS_Injection
<1>5. /\ Cardinality(Orphans) \in Nat /\ Cardinality(Debt) \in Nat
      /\ Cardinality(Resource) \in Nat /\ faults \in Nat
      BY <1>3, <1>4, FS_CardinalityType, BoundAssumption DEF DebtInv, LinkInv, TypeInv, TypeOK
<1>6. faults * Cardinality(Resource) \in Nat
      BY <1>5
<1>7. QED BY <1>3, <1>4, <1>5, <1>6 DEF LeaksNeedFaults

\* However creates, replacements, imports, runs and an administrator are
\* interleaved, items are left behind on the firewall by faults alone, and by a
\* fault of any kind at most one for each resource.
THEOREM LeaksBounded ==
    ASSUME IsFiniteSet(Resource)
    PROVE  Spec => []LeaksNeedFaults
BY DebtBounds, DebtInvariant, PTL
=============================================================================

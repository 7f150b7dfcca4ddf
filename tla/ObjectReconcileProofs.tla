----------------------- MODULE ObjectReconcileProofs -----------------------
(***************************************************************************)
(* Theorems about the endpoint loop of the reconcile resource, for any     *)
(* list of endpoints and whatever the objects beside it do; and about the  *)
(* objects beside it, which keep what they promise on their own.           *)
(***************************************************************************)
EXTENDS ObjectReconcile, ObjectLifecycleProofs, ObjectWriteProofs

\* While the loop runs its outcome is open; what lies behind it was executed or
\* warned about, or failed by a status alone; a post whose answer is taken for
\* a success was executed, or failed like that.
Passed ==
    /\ posting # 0 => outcome = "none"
    /\ \A i \in DOMAIN Endpoints : i < posting => i \in executed \union failed \union statusOnly
    /\ (posting # 0 /\ answer = "ok") => posting \in executed
    /\ (posting # 0 /\ answer = "empty") => posting \in statusOnly
    /\ (posting = 0 /\ outcome # "none") =>
          DOMAIN Endpoints \subseteq executed \union failed \union statusOnly
    /\ (outcome = "ok" /\ Endpoints # <<>>) => executed \union statusOnly # {}

LoopInv == ReconcileTypeOK /\ Passed

\* A non-empty list begins with index 1 and its indices end with its length.
LEMMA Indices ==
    /\ Len(Endpoints) \in Nat
    /\ DOMAIN Endpoints = 1..Len(Endpoints)
    /\ Endpoints # <<>> => Len(Endpoints) > 0
    /\ Endpoints = <<>> => Len(Endpoints) = 0
BY EndpointAssumption

\* One turn of the loop: the endpoint it leaves behind was executed, or failed
\* by a status alone, if its reply was accepted, and is warned about if not.
LEMMA TurnKept ==
    ASSUME LoopInv, EndpointReturns
    PROVE  LoopInv'
<1>1. posting \in 1..Len(Endpoints) /\ posting \in DOMAIN Endpoints
      BY Indices DEF LoopInv, ReconcileTypeOK, EndpointReturns
<1>2. posting \in executed' \union failed' \union statusOnly'
  <2>1. CASE answer \in {"ok", "empty"}
        BY <2>1 DEF LoopInv, Passed, EndpointReturns
  <2>2. CASE answer \notin {"ok", "empty"}
        BY <2>2, EndpointAssumption DEF LoopInv, ReconcileTypeOK, EndpointReturns
  <2>3. QED BY <2>1, <2>2
<1>3. failed \subseteq failed' /\ failed' \subseteq DOMAIN Endpoints
      /\ executed' = executed /\ statusOnly' = statusOnly
      BY <1>1 DEF EndpointReturns, LoopInv, ReconcileTypeOK
<1>4. \A i \in DOMAIN Endpoints : i <= posting => i \in executed' \union failed' \union statusOnly'
      BY <1>1, <1>2, <1>3, Indices DEF LoopInv, Passed
<1>5. answer' = None
      BY DEF EndpointReturns
<1>6. CASE posting < Len(Endpoints)
  <2>1. posting' = posting + 1 /\ outcome' = outcome /\ outcome = "none"
        BY <1>1, <1>6 DEF EndpointReturns, LoopInv, Passed
  <2>2. posting' \in 0..Len(Endpoints) /\ posting' # 0
        BY <1>1, <1>6, <2>1, Indices
  <2>3. ReconcileTypeOK'
        BY <1>3, <1>5, <2>1, <2>2 DEF LoopInv, ReconcileTypeOK
  <2>4. \A i \in DOMAIN Endpoints : i < posting' => i \in executed' \union failed' \union statusOnly'
        BY <1>1, <1>4, <2>1, Indices
  <2>5. QED BY <1>5, <2>1, <2>2, <2>3, <2>4, EndpointAssumption DEF LoopInv, Passed
<1>7. CASE ~(posting < Len(Endpoints))
  <2>1. /\ posting' = 0
        /\ outcome' = IF failed' = DOMAIN Endpoints THEN "error" ELSE "ok"
        BY <1>7 DEF EndpointReturns
  <2>2. \A i \in DOMAIN Endpoints : i \in executed' \union failed' \union statusOnly'
        BY <1>1, <1>4, <1>7, Indices
  <2>3. outcome' = "ok" => executed' \union statusOnly' # {}
        BY <1>3, <2>1, <2>2
  <2>4. ReconcileTypeOK'
        BY <1>3, <1>5, <2>1, Indices DEF LoopInv, ReconcileTypeOK
  <2>5. \A i \in DOMAIN Endpoints : ~(i < posting')
        BY <2>1, Indices
  <2>6. QED BY <2>1, <2>2, <2>3, <2>4, <2>5 DEF LoopInv, Passed
<1>8. QED BY <1>6, <1>7

LEMMA LoopInvariant == ReconcileSpec => []LoopInv
<1>1. ReconcileInit => LoopInv
      BY Indices DEF ReconcileInit, LoopInv, ReconcileTypeOK, Passed
<1>2. LoopInv /\ [ReconcileNext]_allVars => LoopInv'
  <2> SUFFICES ASSUME LoopInv, [ReconcileNext]_allVars PROVE LoopInv'
      OBVIOUS
  <2>1. CASE UNCHANGED reconcile
        BY <2>1 DEF reconcile, LoopInv, ReconcileTypeOK, Passed
  <2>2. CASE Begin
        BY <2>2, Indices, EndpointAssumption DEF Begin, LoopInv, ReconcileTypeOK, Passed
  <2>3. CASE ServeEndpoint
        BY <2>3, Indices, EndpointAssumption
           DEF ServeEndpoint, Posted, ExecuteEndpoint, LoopInv, ReconcileTypeOK, Passed
  <2>4. CASE EndpointFault
        BY <2>4, Indices, EndpointAssumption
           DEF EndpointFault, Posted, ExecuteEndpoint, LoopInv, ReconcileTypeOK, Passed
  <2>5. CASE EndpointReturns
        BY <2>5, TurnKept
  <2>6. CASE Killed
        BY <2>6, Indices, EndpointAssumption DEF Killed, LoopInv, ReconcileTypeOK, Passed
  <2>7. QED BY <2>1, <2>2, <2>3, <2>4, <2>5, <2>6
            DEF ReconcileNext, BetweenRuns, ObjectStep, allVars
<1>3. QED BY <1>1, <1>2, PTL DEF ReconcileSpec

-----------------------------------------------------------------------------
\* The variables of the reconcile resource have their types; in particular the
\* loop never posts beyond the end of its list.
THEOREM LoopTyped == ReconcileSpec => []ReconcileTypeOK
<1>1. LoopInv => ReconcileTypeOK
      BY DEF LoopInv
<1>2. QED BY <1>1, LoopInvariant, PTL

\* What runReconcile may be silent about: every endpoint it has passed was
\* executed or is in its warnings, unless it failed in a 200 that tells so by
\* its status alone; and an apply that ends well executed at least one endpoint
\* of a non-empty list, or met such a failure.
THEOREM NoSilentFailure == ReconcileSpec => []FailuresReported
<1>1. LoopInv => FailuresReported
      BY Indices DEF LoopInv, Passed, FailuresReported
<1>2. QED BY <1>1, LoopInvariant, PTL

-----------------------------------------------------------------------------
(* What the loop does to the objects.                                      *)

\* An endpoint reloads services with what is stored, or fails; it touches
\* nothing else of the firewall and nothing of the objects' handlers.
Reload ==
    /\ UNCHANGED <<provider, late, store, issued, edits>>
    /\ live' \in [Slot -> Object \union {None}]
    /\ \A s \in Slot : live'[s] \in {live[s], store[s]}
    /\ faults' \in {faults, faults + 1} /\ faults' \in 0..MaxFaults

LEMMA EndpointReloads ==
    ASSUME TypeOK, Posted, ExecuteEndpoint \/ UNCHANGED live
    PROVE  /\ live' \in [Slot -> Object \union {None}]
           /\ \A s \in Slot : live'[s] \in {live[s], store[s]}
BY DEF ExecuteEndpoint, TypeOK

\* A step of the composition is a step of the objects or one of an endpoint.
LEMMA ComposedStep ==
    ASSUME TypeOK, [ReconcileNext]_allVars
    PROVE  [Next]_vars \/ Reload
<1>1. CASE \/ BetweenRuns \/ (FinishRefresh /\ Begin) \/ ObjectStep \/ (Crash /\ Killed)
           \/ EndpointReturns \/ UNCHANGED allVars
      BY <1>1 DEF BetweenRuns, ObjectStep, EndpointReturns, allVars, Next
<1>2. faults \in 0..MaxFaults /\ faults \in Nat /\ MaxFaults \in Nat
      BY BoundAssumption DEF TypeOK
<1>3. CASE ServeEndpoint
  <2>1. Posted /\ (ExecuteEndpoint \/ UNCHANGED live)
        BY <1>3 DEF ServeEndpoint
  <2>2. QED BY <1>2, <1>3, <2>1, EndpointReloads DEF ServeEndpoint, Reload
<1>4. CASE EndpointFault
  <2>1. Posted /\ (ExecuteEndpoint \/ UNCHANGED live)
        BY <1>4 DEF EndpointFault
  <2>2. faults' = faults + 1 /\ faults < MaxFaults
        BY <1>4 DEF EndpointFault, Fault
  <2>3. UNCHANGED <<provider, late, store, issued, edits>>
        BY <1>4 DEF EndpointFault
  <2>4. faults' \in 0..MaxFaults
        BY <1>2, <2>2
  <2>5. QED BY <2>1, <2>2, <2>3, <2>4, EndpointReloads DEF Reload
<1>5. QED BY <1>1, <1>3, <1>4 DEF ReconcileNext

LEMMA ReloadType ==
    ASSUME TypeInv, Reload
    PROVE  TypeInv'
<1>1. TypeOK'
      BY DEF Reload, TypeInv, TypeOK, provider
<1>2. ASSUME NEW r \in Resource PROVE PhaseOK(r)'
      BY <1>2 DEF Reload, TypeInv, PhaseOK, RequestOK, provider
<1>3. \A req \in late' : RequestOK(req)'
      BY DEF Reload, TypeInv, RequestOK
<1>4. QED BY <1>1, <1>2, <1>3 DEF TypeInv

LEMMA ReloadLinked ==
    ASSUME LinkInv, Reload
    PROVE  LinkInv'
<1>1. TypeInv'
      BY ReloadType DEF LinkInv
<1>2. Ownership' /\ OneSingleton'
  <2>1. UNCHANGED <<config, state, pc, model, reply, issued>>
        BY DEF Reload, provider
  <2>2. \A r \in Resource : Held(r)' = Held(r)
        BY <2>1 DEF Held
  <2>3. Ownership'
        BY <2>1, <2>2, OwnershipKept DEF LinkInv
  <2>4. QED BY <2>1, <2>3 DEF LinkInv, OneSingleton
<1>3. ASSUME NEW r \in Resource PROVE Linked(r)'
  <2>1. Linked(r)
        BY DEF LinkInv
  <2>2. UNCHANGED <<config, state, pc, model, wire, reply, store, issued>>
        BY DEF Reload, provider
  <2>3. Linked(r)' <=> Linked(r)
        BY <2>2 DEF Linked, Updates, UpdateBody, PlannedBody, subsetMatches, Deletes, Configured,
           Asked, Answered, Accepted, Gone
  <2>4. QED BY <2>1, <2>3
<1>4. QED BY <1>1, <1>2, <1>3 DEF LinkInv

-----------------------------------------------------------------------------
(* The objects keep their promises beside the loop.                        *)

LEMMA ComposedDebt ==
    ASSUME IsFiniteSet(Resource)
    PROVE  ReconcileSpec => []DebtInv
<1>1. ReconcileInit => DebtInv
      BY DebtInit DEF ReconcileInit
<1>2. DebtInv /\ [ReconcileNext]_allVars => DebtInv'
  <2> SUFFICES ASSUME DebtInv, [ReconcileNext]_allVars PROVE DebtInv'
      OBVIOUS
  <2>1. LinkInv /\ TypeOK
        BY DEF DebtInv, LinkInv, TypeInv
  <2>2. CASE [Next]_vars
        BY <2>2, DebtStep
  <2>3. CASE Reload
    <3>1. LinkInv'
          BY <2>1, <2>3, ReloadLinked
    <3>2. UNCHANGED <<state, pc, model, reply, late, store, issued>>
          BY <2>3 DEF Reload, provider
    <3>3. Debt' = Debt
          BY <3>2 DEF Debt, Stray, LateAdds, Secures, Doubted, Spoiled, Failed
    <3>4. faults \in Nat /\ faults' \in {faults, faults + 1}
          BY <2>1, <2>3 DEF Reload, TypeOK
    <3>5. /\ IsFiniteSet(Debt) /\ Cardinality(Debt) <= faults * Cardinality(Resource)
          /\ Cardinality(Debt) \in Nat /\ Cardinality(Resource) \in Nat
          BY FS_CardinalityType DEF DebtInv
    <3>6. (faults + 1) * Cardinality(Resource) = faults * Cardinality(Resource) + Cardinality(Resource)
          BY <3>4, <3>5
    <3>7. faults * Cardinality(Resource) \in Nat
          BY <3>4, <3>5
    <3>8. Cardinality(Debt) <= faults' * Cardinality(Resource)
          BY <3>4, <3>5, <3>6, <3>7
    <3>9. QED BY <3>1, <3>3, <3>5, <3>8 DEF DebtInv
  <2>4. QED BY <2>1, <2>2, <2>3, ComposedStep
<1>3. QED BY <1>1, <1>2, PTL DEF ReconcileSpec

\* Beside a reconcile resource, whatever its endpoints reload and whenever, the
\* objects keep their types, no item has two owners, and items are left behind
\* by faults alone, those of the endpoints counted.
THEOREM TrackedBeside ==
    ASSUME IsFiniteSet(Resource)
    PROVE  ReconcileSpec => [](TypeOK /\ TrackedDistinct /\ LeaksNeedFaults)
<1>1. DebtInv => TypeOK /\ TrackedDistinct /\ LeaksNeedFaults
      BY DebtBounds DEF DebtInv, LinkInv, TypeInv, Ownership
<1>2. QED BY <1>1, ComposedDebt, PTL

LEMMA ComposedDrop ==
    ASSUME "garbled" \notin Faults, "missing" \notin Faults
    PROVE  ReconcileSpec => []DropInv
<1>1. ReconcileInit => DropInv
      BY DropInit DEF ReconcileInit
<1>2. DropInv /\ [ReconcileNext]_allVars => DropInv'
  <2> SUFFICES ASSUME DropInv, [ReconcileNext]_allVars PROVE DropInv'
      OBVIOUS
  <2>1. LinkInv /\ TypeOK
        BY DEF DropInv, LinkInv, TypeInv
  <2>2. CASE [Next]_vars
        BY <2>2, DropKept
  <2>3. CASE Reload
    <3>1. LinkInv'
          BY <2>1, <2>3, ReloadLinked
    <3>2. UNCHANGED <<state, pc, reply, store, issued>>
          BY <2>3 DEF Reload, provider
    <3>3. QED BY <3>1, <3>2 DEF DropInv, Truth, Gone
  <2>4. QED BY <2>1, <2>2, <2>3, ComposedStep
<1>3. QED BY <1>1, <1>2, PTL DEF ReconcileSpec

\* Beside a reconcile resource the objects still implement the life cycle of
\* items: a reload creates, removes and disowns nothing.
THEOREM LifecycleBeside ==
    ASSUME "garbled" \notin Faults, "missing" \notin Faults
    PROVE  ReconcileSpec => ImplementsLifecycle
<1>1. ReconcileInit => Lifecycle!Init
      BY LifecycleInit DEF ReconcileInit
<1>2. DropInv /\ DropInv' /\ [ReconcileNext]_allVars => [Lifecycle!Next]_(Lifecycle!vars)
  <2> SUFFICES ASSUME DropInv, DropInv', [ReconcileNext]_allVars
               PROVE  [Lifecycle!Next]_(Lifecycle!vars)
      OBVIOUS
  <2>1. CASE [Next]_vars
        BY <2>1, LifecycleSteps DEF DropInv, LinkInv, TypeInv
  <2>2. CASE Reload
    <3>1. UNCHANGED <<state, store, issued>>
          BY <2>2 DEF Reload, provider
    <3>2. QED BY <3>1 DEF Lifecycle!vars, ItemStatus, ItemOf
  <2>3. QED BY <2>1, <2>2, ComposedStep DEF DropInv, LinkInv, TypeInv
<1>3. QED BY <1>1, <1>2, ComposedDrop, PTL DEF ReconcileSpec, ImplementsLifecycle, Lifecycle!Spec

\* Nor does a reload touch a field that nobody declares.
THEOREM UndeclaredBeside ==
    ASSUME NEW hint, OneHint(hint)
    PROVE  ReconcileSpec => UndeclaredUntouched
<1> DEFINE Change ==
      \A s \in Slot : \A k \in Undeclared :
         (store[s] # None /\ store'[s] # None /\ store'[s][k] # store[s][k]) => edits' # edits
<1>1. ReconcileInit => Keep(hint)
      BY KeepInit DEF ReconcileInit
<1>2. Keep(hint) /\ [ReconcileNext]_allVars => Keep(hint)' /\ Change
  <2> SUFFICES ASSUME Keep(hint), [ReconcileNext]_allVars PROVE Keep(hint)' /\ Change
      OBVIOUS
  <2>1. TypeInv /\ TypeOK
        BY DEF Keep, TypeInv
  <2>2. CASE [Next]_vars
        BY <2>2, KeepStep, StepKeeps DEF Untouched
  <2>3. CASE Reload
    <3>1. UNCHANGED <<config, state, model, wire, late, store, issued>>
          BY <2>3 DEF Reload, provider
    <3>2. TypeInv'
          BY <2>1, <2>3, ReloadType
    <3>3. Keep(hint)'
          BY <3>1, <3>2 DEF Keep, Declared, Hints, Writes, WriteOK, DeclaredOnly, Known
    <3>4. QED BY <3>1, <3>3
  <2>4. QED BY <2>1, <2>2, <2>3, ComposedStep
<1>3. Change => [Change]_vars
      OBVIOUS
<1>4. QED BY <1>1, <1>2, <1>3, PTL DEF ReconcileSpec, UndeclaredUntouched

\* A reload between an object's apply command and its reply brings the services
\* no further from what is stored: a success still means that they run it.
THEOREM AppliedBeside ==
    ASSUME Admin = {}, "applyRejected" \notin Faults
    PROVE  ReconcileSpec /\ [](late = {}) => SuccessMeansApplied
<1> DEFINE Success ==
      \A r \in Resource :
         (pc[r] = "reconfigure" /\ model[r] # None /\ state'[r] = model[r])
            => live[model[r].slot] = store[model[r].slot]
<1>1. ReconcileInit => RanInv
      BY LinkInit DEF ReconcileInit, Init, RanInv, Ran
<1>2. RanInv /\ late = {} /\ [ReconcileNext]_allVars => RanInv' /\ Success
  <2> SUFFICES ASSUME RanInv, late = {}, [ReconcileNext]_allVars PROVE RanInv' /\ Success
      OBVIOUS
  <2>1. LinkInv /\ TypeOK
        BY DEF RanInv, LinkInv, TypeInv
  <2>2. CASE [Next]_vars
        BY <2>1, <2>2, RanStep, LinkStep, StoredRan DEF RanInv
  <2>3. CASE Reload
    <3>1. UNCHANGED <<state, pc, model, reply, store>>
          BY <2>3 DEF Reload, provider
    <3>2. LinkInv'
          BY <2>1, <2>3, ReloadLinked
    <3>3. ASSUME NEW r \in Resource PROVE Ran(r)'
      <4>1. model[r] # None => model[r].slot \in Slot
            BY <2>1 DEF TypeOK, Model
      <4>2. QED BY <2>3, <3>1, <4>1 DEF Reload, RanInv, Ran, Failed
    <3>4. ASSUME NEW r \in Resource, pc[r] = "reconfigure", model[r] # None, state'[r] = model[r]
          PROVE  FALSE
          BY <2>1, <3>1, <3>4 DEF LinkInv, Linked, Configured
    <3>5. QED BY <3>2, <3>3, <3>4 DEF RanInv
  <2>4. QED BY <2>1, <2>2, <2>3, ComposedStep
<1>3. Success => [Success]_vars
      OBVIOUS
<1>4. QED BY <1>1, <1>2, <1>3, PTL DEF ReconcileSpec, SuccessMeansApplied
=============================================================================

--------------------------- MODULE ObjectReconcile ---------------------------
(***************************************************************************)
(* opnsense_object resources and one opnsense_reconcile resource in the    *)
(* same runs (internal/provider/reconcile_resource.go).                    *)
(*                                                                         *)
(* The reconcile resource manages no remote object: with a timestamp() in  *)
(* its triggers every run plans a create or an update of it, which posts   *)
(* its endpoints one after another while the objects are being applied.    *)
(* Its Read and Delete change nothing.                                     *)
(***************************************************************************)
EXTENDS ObjectResource, Sequences

CONSTANTS
    Endpoint,    \* apply commands of the API
    Endpoints,   \* the declared list
    Applies,     \* Applies[e]: the slots whose services e reloads
    Absent       \* commands of services that are not installed

ASSUME EndpointAssumption ==
    /\ Endpoints \in Seq(Endpoint)
    /\ Applies \in [Endpoint -> SUBSET Slot]
    /\ Absent \subseteq Endpoint
    /\ None \notin {"ok", "empty", "error", "rejected", "garbled", "notFound"}

VARIABLES
    posting,    \* index of the endpoint being posted, 0 outside of apply
    answer,     \* kind of the reply to that post, None while there is none
    failed,     \* indices of the endpoints a warning was issued for
    executed,   \* indices of the endpoints the firewall executed
    statusOnly, \* history: indices of those whose failure only a status told
    outcome     \* how the last apply ended: "none", "ok" or "error"

reconcile == <<posting, answer, failed, executed, statusOnly, outcome>>
allVars   == <<vars, reconcile>>

\* Create and Update run the same apply; it begins with the apply phase.
Begin ==
    /\ posting' = IF Endpoints = <<>> THEN 0 ELSE 1
    /\ answer' = None
    /\ failed' = {}
    /\ executed' = {}
    /\ statusOnly' = {}
    /\ outcome' = IF Endpoints = <<>> THEN "ok" ELSE "none"

\* The firewall executes the endpoint being posted.
ExecuteEndpoint ==
    /\ live' = [s \in Slot |-> IF s \in Applies[Endpoints[posting]] THEN store[s] ELSE live[s]]
    /\ executed' = executed \union {posting}

Posted == posting # 0 /\ answer = None

ServeEndpoint ==
    /\ Posted
    /\ IF Endpoints[posting] \in Absent
       THEN answer' = "notFound" /\ UNCHANGED <<live, executed>>
       ELSE answer' = "ok" /\ ExecuteEndpoint
    /\ UNCHANGED <<provider, late, store, issued, faults, edits, posting, failed, statusOnly, outcome>>

\* The post fails, or the command does and says so in a 200, by its result or
\* by a status alone ("empty": no result), or its reply is lost or cut short.
EndpointFault ==
    /\ Posted
    /\ \/ /\ \/ Fault("refused") /\ answer' = "error" /\ UNCHANGED statusOnly
             \/ Fault("applyRejected") /\ answer' = "rejected" /\ UNCHANGED statusOnly
             \/ /\ Fault("applyRejected")
                /\ answer' = "empty"
                /\ statusOnly' = statusOnly \union {posting}
          /\ UNCHANGED <<live, executed>>
       \/ /\ \/ Fault("lost") /\ answer' = "error"
             \/ Fault("garbled") /\ answer' = "garbled"
          /\ ExecuteEndpoint
          /\ UNCHANGED statusOnly
    /\ UNCHANGED <<provider, late, store, issued, edits, posting, failed, outcome>>

\* Mutant: the loop takes one step too many.
EndpointReturnsPast ==
    /\ posting # 0
    /\ answer # None
    /\ failed' = IF answer \in {"ok", "empty"} THEN failed ELSE failed \union {posting}
    /\ answer' = None
    /\ IF posting <= Len(Endpoints)
       THEN posting' = posting + 1 /\ UNCHANGED outcome
       ELSE posting' = 0 /\ outcome' = "ok"
    /\ UNCHANGED <<vars, executed, statusOnly>>

\* Mutant: only a failed post is a warning, not a reply that reports a failure.
EndpointReturnsDeaf ==
    /\ posting # 0
    /\ answer # None
    /\ failed' = IF answer \in {"error", "notFound"} THEN failed \union {posting} ELSE failed
    /\ answer' = None
    /\ IF posting < Len(Endpoints)
       THEN posting' = posting + 1 /\ UNCHANGED outcome
       ELSE /\ posting' = 0
            /\ outcome' = IF failed' = DOMAIN Endpoints THEN "error" ELSE "ok"
    /\ UNCHANGED <<vars, executed, statusOnly>>

\* Mutant: the first failure ends the loop.
EndpointReturnsStops ==
    /\ posting # 0
    /\ answer # None
    /\ failed' = IF answer \in {"ok", "empty"} THEN failed ELSE failed \union {posting}
    /\ answer' = None
    /\ IF posting < Len(Endpoints) /\ failed' = {}
       THEN posting' = posting + 1 /\ UNCHANGED outcome
       ELSE posting' = 0 /\ outcome' = IF failed' = {} THEN "ok" ELSE "error"
    /\ UNCHANGED <<vars, executed, statusOnly>>

\* A failed post, and a reply whose result reports a failure, is a warning; a
\* reply without a result passes for a success.  The loop goes on to the next
\* endpoint, and the apply fails when there was a warning for every one.
EndpointReturns ==
    /\ posting # 0
    /\ answer # None
    /\ failed' = IF answer \in {"ok", "empty"} THEN failed ELSE failed \union {posting}
    /\ answer' = None
    /\ IF posting < Len(Endpoints)
       THEN posting' = posting + 1 /\ UNCHANGED outcome
       ELSE /\ posting' = 0
            /\ outcome' = IF failed' = DOMAIN Endpoints THEN "error" ELSE "ok"
    /\ UNCHANGED <<vars, executed, statusOnly>>

\* The run is killed.  A reload the firewall executes after that, or after the
\* client gave up on it, would only do earlier what the next run does again;
\* it is left out.
Killed ==
    /\ posting' = 0
    /\ answer' = None
    /\ UNCHANGED <<failed, executed, statusOnly, outcome>>

\* The next run, and anything the operator does between runs, waits for the
\* reconcile resource too.
ReconcileInit ==
    /\ Init
    /\ posting = 0 /\ answer = None /\ outcome = "none"
    /\ failed = {} /\ executed = {} /\ statusOnly = {}

BetweenRuns ==
    /\ posting = 0
    /\ StartRun \/ \E r \in Resource : Operator(r)
    /\ UNCHANGED reconcile

ObjectStep ==
    /\ \/ AbortRefresh
       \/ \E r \in Resource : Handler(r) \/ Serve(r) \/ Network(r)
       \/ \E req \in late : ServeLate(req)
       \/ Administrator
    /\ UNCHANGED reconcile

ReconcileNext ==
    \/ BetweenRuns
    \/ FinishRefresh /\ Begin
    \/ ObjectStep
    \/ ServeEndpoint \/ EndpointFault \/ EndpointReturns
    \/ Crash /\ Killed

ReconcileSpec == ReconcileInit /\ [][ReconcileNext]_allVars

ReconcileFairness ==
    /\ WF_allVars(posting = 0 /\ StartRun /\ UNCHANGED reconcile)
    /\ WF_allVars(FinishRefresh /\ Begin)
    /\ WF_allVars(AbortRefresh /\ UNCHANGED reconcile)
    /\ \A r \in Resource :
         /\ WF_allVars(Handler(r) /\ UNCHANGED reconcile)
         /\ WF_allVars(Serve(r) /\ UNCHANGED reconcile)
    /\ WF_allVars(ServeEndpoint)
    /\ WF_allVars(EndpointReturns)

ReconcileFairSpec == ReconcileSpec /\ ReconcileFairness

-----------------------------------------------------------------------------
\* The reconcile resource's own variables have their types.
ReconcileTypeOK ==
    /\ posting \in 0..Len(Endpoints)
    /\ answer \in {"ok", "empty", "error", "rejected", "garbled", "notFound", None}
    /\ failed \subseteq DOMAIN Endpoints
    /\ executed \subseteq DOMAIN Endpoints
    /\ statusOnly \subseteq DOMAIN Endpoints
    /\ outcome \in {"none", "ok", "error"}

\* What best effort may hide: an endpoint that has been passed was executed by
\* the firewall, or is reported by a warning, or its failure was told by nothing
\* but the status of a 200, which checkResult does not look at.  And an apply
\* that ended well executed at least one of a non-empty list, or took such a
\* failure for a success.
FailuresReported ==
    /\ \A i \in DOMAIN Endpoints :
         (i < posting \/ (posting = 0 /\ outcome # "none"))
            => i \in executed \union failed \union statusOnly
    /\ (outcome = "ok" /\ Endpoints # <<>>) => executed \union statusOnly # {}

\* Config-vs-live drift is healed: whatever writes went without their apply
\* command, was lost or was made by hand, the services end up running with the
\* stored configuration, even when one of the declared endpoints never answers.
LiveConverges == <>[](live = store)
=============================================================================

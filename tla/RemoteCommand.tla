---------------------------- MODULE RemoteCommand ----------------------------
(***************************************************************************)
(* What SSHClient.Run promises its callers about a command on the          *)
(* firewall: its executions begin one after another, only while the call   *)
(* is open and not more often than the limit; an answer is given once, and *)
(* "ok" only when the last execution has come to its end.  An execution    *)
(* may outlast its call.  SSHClient implements this.                       *)
(***************************************************************************)
EXTENDS Integers

CONSTANTS
    Call,       \* calls
    Limit       \* executions a call may cause

VARIABLES
    answer,     \* answer[c]: "none" before the call, "open" during it, then its result
    begun,      \* begun[c]: the executions that began, by their number
    running     \* running[c]: those that have not ended

vars == <<answer, begun, running>>

Init ==
    /\ answer = [c \in Call |-> "none"]
    /\ begun = [c \in Call |-> {}]
    /\ running = [c \in Call |-> {}]

Open(c) ==
    /\ answer[c] = "none"
    /\ answer' = [answer EXCEPT ![c] = "open"]
    /\ UNCHANGED <<begun, running>>

\* A try that does not get through uses up its number.
Execute(c, n) ==
    /\ answer[c] = "open"
    /\ \A m \in begun[c] : m < n
    /\ begun' = [begun EXCEPT ![c] = @ \union {n}]
    /\ running' = [running EXCEPT ![c] = @ \union {n}]
    /\ UNCHANGED answer

End(c, n) ==
    /\ running' = [running EXCEPT ![c] = @ \ {n}]
    /\ UNCHANGED <<answer, begun>>

Last(c) == {n \in begun[c] : \A m \in begun[c] : m <= n}

Answer(c, result) ==
    /\ answer[c] = "open"
    /\ result = "ok" => Last(c) # {} /\ Last(c) \intersect running[c] = {}
    /\ answer' = [answer EXCEPT ![c] = result]
    /\ UNCHANGED <<begun, running>>

Next ==
    \E c \in Call :
        \/ Open(c)
        \/ \E n \in 1..Limit : Execute(c, n)
        \/ \E n \in running[c] : End(c, n)
        \/ \E result \in {"ok", "failed"} : Answer(c, result)

Spec == Init /\ [][Next]_vars
=============================================================================

------------------------------ MODULE SSHClient ------------------------------
(***************************************************************************)
(* SSHClient.Run (internal/opnsense/ssh.go): concurrent calls, each of     *)
(* which spawns its own ssh process per attempt, with a private key in a   *)
(* temporary file when the provider was given key_pem, and tries again     *)
(* after a transient connection failure.                                   *)
(*                                                                         *)
(* The remote command runs on the firewall independently of the ssh        *)
(* process that started it: a connection may break, or the deadline of an  *)
(* attempt expire, with the command running or just finished.              *)
(***************************************************************************)
EXTENDS Integers, FiniteSets

CONSTANTS
    Call,             \* calls of Run
    Identity,         \* Identity[c]: where the key of c's client comes from
    maxSSHAttempts,   \* 4 in the code
    None,             \* no outcome
    MayCrash          \* whether the provider process may be killed

ASSUME CallAssumption ==
    /\ Identity \in [Call -> {"keyFile", "keyPEM", "agent"}]
    /\ maxSSHAttempts \in Nat \ {0}
    /\ MayCrash \in BOOLEAN

Attempt == 1..maxSSHAttempts

\* How an attempt ends: with stdout, with a connection failure whose message
\* transientSSH looks for, at the deadline, with a failing command that wrote
\* such a message to its own stderr, or with any other failure.
Outcome == {"ok", "transient", "timeout", "matching", "error"}

\* Mutant: an expired deadline counts as transient.
transientOrTimeout(result) == result \in {"transient", "matching", "timeout"}

\* The messages are looked for in everything ssh wrote to stderr.
transientSSH(result) == result \in {"transient", "matching"}

VARIABLES
    pc,         \* pc[c]: where call c is
    attempt,    \* attempt[c]: its current attempt, 0 before the first
    outcome,    \* outcome[c]: how its latest attempt ended, None before
    keys,       \* keys[c]: number of temporary key files c's attempts left
    started,    \* started[c]: attempts whose command began on the firewall
    running,    \* running[c]: those whose command has not finished there
    crashed     \* the provider process was killed

vars == <<pc, attempt, outcome, keys, started, running, crashed>>

\* runOnce returns: its deferred cleanup removes the key file.
End(c, result) ==
    /\ outcome' = [outcome EXCEPT ![c] = result]
    /\ pc' = [pc EXCEPT ![c] = "ended"]
    /\ keys' = [keys EXCEPT ![c] = 0]
    /\ UNCHANGED <<attempt, crashed>>

Begin(c) ==
    /\ ~crashed
    /\ pc[c] = "idle"
    /\ pc' = [pc EXCEPT ![c] = "identity"]
    /\ attempt' = [attempt EXCEPT ![c] = 1]
    /\ UNCHANGED <<outcome, keys, started, running, crashed>>

\* Only key_pem without key_file needs a temporary file.
identityFile(c) ==
    /\ ~crashed
    /\ pc[c] = "identity"
    /\ \/ /\ Identity[c] = "keyPEM"
          /\ pc' = [pc EXCEPT ![c] = "writeKey"]
          /\ keys' = [keys EXCEPT ![c] = @ + 1]
          /\ UNCHANGED <<attempt, outcome, crashed>>
       \/ /\ Identity[c] # "keyPEM"
          /\ pc' = [pc EXCEPT ![c] = "spawn"]
          /\ UNCHANGED <<attempt, outcome, keys, crashed>>
       \/ Identity[c] = "keyPEM" /\ End(c, "error")
    /\ UNCHANGED <<started, running>>

\* Mutant: a failed write leaves the file behind.
WriteKeyLeaves(c) ==
    /\ ~crashed
    /\ pc[c] = "writeKey"
    /\ pc' \in {[pc EXCEPT ![c] = "spawn"], [pc EXCEPT ![c] = "ended"]}
    /\ outcome' = [outcome EXCEPT ![c] = "error"]
    /\ UNCHANGED <<attempt, keys, crashed, started, running>>

\* The file is restricted, written and closed; when one of these fails it is
\* removed and the attempt fails.
WriteKey(c) ==
    /\ ~crashed
    /\ pc[c] = "writeKey"
    /\ \/ /\ pc' = [pc EXCEPT ![c] = "spawn"]
          /\ UNCHANGED <<attempt, outcome, keys, crashed>>
       \/ End(c, "error")
    /\ UNCHANGED <<started, running>>

\* ssh connects and the command begins, or the connection fails.
Connect(c) ==
    /\ ~crashed
    /\ pc[c] = "spawn"
    /\ \/ /\ pc' = [pc EXCEPT ![c] = "remote"]
          /\ started' = [started EXCEPT ![c] = @ \union {attempt[c]}]
          /\ running' = [running EXCEPT ![c] = @ \union {attempt[c]}]
          /\ UNCHANGED <<attempt, outcome, keys, crashed>>
       \/ /\ \E result \in {"transient", "timeout", "error"} : End(c, result)
          /\ UNCHANGED <<started, running>>

\* Mutant: what arrived before the connection broke is taken for the stdout.
DisconnectUnnoticed(c) ==
    /\ ~crashed
    /\ pc[c] = "remote"
    /\ \E result \in Outcome : End(c, result)
    /\ UNCHANGED <<started, running>>

\* The connection breaks or the deadline expires, whether or not the command
\* has finished on the firewall.
Disconnect(c) ==
    /\ ~crashed
    /\ pc[c] = "remote"
    /\ \E result \in {"transient", "timeout", "error"} : End(c, result)
    /\ UNCHANGED <<started, running>>

\* Mutant: the stdout of an earlier attempt is taken for that of this one.
ReportAnyAttempt(c) ==
    /\ ~crashed
    /\ pc[c] = "remote"
    /\ started[c] \ running[c] # {}
    /\ \E result \in {"ok", "matching", "error"} : End(c, result)
    /\ UNCHANGED <<started, running>>

\* The command has finished and ssh reports its stdout or its failure.
Report(c) ==
    /\ ~crashed
    /\ pc[c] = "remote"
    /\ attempt[c] \notin running[c]
    /\ \E result \in {"ok", "matching", "error"} : End(c, result)
    /\ UNCHANGED <<started, running>>

\* Mutant: one attempt too many.
RunOnceMore(c) ==
    /\ ~crashed
    /\ pc[c] = "ended"
    /\ IF ~transientSSH(outcome[c]) \/ attempt[c] > maxSSHAttempts
       THEN /\ pc' = [pc EXCEPT ![c] = "returned"]
            /\ UNCHANGED attempt
       ELSE /\ pc' = [pc EXCEPT ![c] = "identity"]
            /\ attempt' = [attempt EXCEPT ![c] = @ + 1]
    /\ UNCHANGED <<outcome, keys, started, running, crashed>>

\* Mutant: attempts are not counted.
RunForever(c) ==
    /\ ~crashed
    /\ pc[c] = "ended"
    /\ pc' = [pc EXCEPT ![c] = IF transientSSH(outcome[c]) THEN "identity" ELSE "returned"]
    /\ UNCHANGED <<attempt, outcome, keys, started, running, crashed>>

\* Run after runOnce: return, or wait and try again.
Run(c) ==
    /\ ~crashed
    /\ pc[c] = "ended"
    /\ IF ~transientSSH(outcome[c]) \/ attempt[c] = maxSSHAttempts
       THEN /\ pc' = [pc EXCEPT ![c] = "returned"]
            /\ UNCHANGED attempt
       ELSE /\ pc' = [pc EXCEPT ![c] = "identity"]
            /\ attempt' = [attempt EXCEPT ![c] = @ + 1]
    /\ UNCHANGED <<outcome, keys, started, running, crashed>>

\* On the firewall a command finishes by itself.
Finish(c, n) ==
    /\ running' = [running EXCEPT ![c] = @ \ {n}]
    /\ UNCHANGED <<pc, attempt, outcome, keys, started, crashed>>

Crash ==
    /\ MayCrash
    /\ ~crashed
    /\ crashed' = TRUE
    /\ UNCHANGED <<pc, attempt, outcome, keys, started, running>>

Init ==
    /\ pc = [c \in Call |-> "idle"]
    /\ attempt = [c \in Call |-> 0]
    /\ outcome = [c \in Call |-> None]
    /\ keys = [c \in Call |-> 0]
    /\ started = [c \in Call |-> {}]
    /\ running = [c \in Call |-> {}]
    /\ crashed = FALSE

Step(c) ==
    \/ identityFile(c) \/ WriteKey(c) \/ Connect(c) \/ Disconnect(c) \/ Report(c) \/ Run(c)

Next ==
    \/ \E c \in Call : Begin(c) \/ Step(c) \/ \E n \in running[c] : Finish(c, n)
    \/ Crash

Spec == Init /\ [][Next]_vars

\* Every attempt has a deadline and the process is scheduled.
FairSpec == Spec /\ \A c \in Call : WF_vars(Step(c))

-----------------------------------------------------------------------------
TypeOK ==
    /\ pc \in [Call -> {"idle", "identity", "writeKey", "spawn", "remote", "ended", "returned"}]
    /\ attempt \in [Call -> 0..maxSSHAttempts]
    /\ outcome \in [Call -> Outcome \union {None}]
    /\ keys \in [Call -> Nat]
    /\ started \in [Call -> SUBSET Attempt]
    /\ running \in [Call -> SUBSET Attempt]
    /\ crashed \in BOOLEAN

\* Key material is on disk only during an attempt, in one file for each call:
\* on every way out of an attempt, error paths included, the file has been
\* removed.  A killed process is the only thing that leaves it behind.
KeysRemoved ==
    \A c \in Call : keys[c] = (IF pc[c] \in {"writeKey", "spawn", "remote"} /\ Identity[c] = "keyPEM"
                               THEN 1 ELSE 0)

\* A success handed to the caller stands for a command that ran to its end,
\* and the retries did not leave that attempt's run unfinished.
SuccessMeansFinished ==
    \A c \in Call : (pc[c] = "returned" /\ outcome[c] = "ok")
        => attempt[c] \in started[c] /\ attempt[c] \notin running[c]

\* The firewall runs a call's command again only after an attempt that ended
\* with one of the messages of a broken connection: never after a deadline,
\* with the first command perhaps still running, and never after a success.
RepeatedOnlyWhenTransient ==
    [][\A c \in Call : (started'[c] # started[c] /\ started[c] # {})
          => outcome[c] \in {"transient", "matching"}]_vars

\* Run retries "transient connection resets": a command that ran to its end and
\* whose failure ssh reported is not run again.
FailedCommandNotRepeated ==
    [][\A c \in Call : started'[c] # started[c] => outcome[c] # "matching"]_vars

\* Every call of Run returns, unless the process is killed.
CallsReturn == \A c \in Call : pc[c] = "identity" ~> (pc[c] = "returned" \/ crashed)

\* What a caller sees of a call.
AnswerOf(c) ==
    CASE pc[c] = "idle" -> "none"
      [] pc[c] = "returned" -> IF outcome[c] = "ok" THEN "ok" ELSE "failed"
      [] OTHER -> "open"

Command == INSTANCE RemoteCommand WITH
    Limit   <- maxSSHAttempts,
    answer  <- [c \in Call |-> AnswerOf(c)],
    begun   <- started

\* Run keeps what RemoteCommand promises: attempts, key files and broken
\* connections show only as executions of the command in order, at most
\* maxSSHAttempts of them, none after the answer, and a success is the last
\* one's, which is over.
ImplementsCommand == Command!Spec
=============================================================================

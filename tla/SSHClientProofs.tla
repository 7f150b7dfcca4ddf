-------------------------- MODULE SSHClientProofs --------------------------
(***************************************************************************)
(* Theorems about SSHClient for any number of concurrent calls and any     *)
(* limit of attempts, wherever the key comes from.                         *)
(***************************************************************************)
EXTENDS SSHClient, TLAPS

\* A call that is under way counts the attempt it is in; one that is about to
\* connect again does so because of a message of a broken connection; what an
\* attempt reports as a success has been started and has finished.
Progress(c) ==
    /\ pc[c] # "idle" => attempt[c] \in Attempt
    /\ pc[c] = "idle" => started[c] = {}
    /\ (pc[c] \in {"identity", "writeKey", "spawn"} /\ started[c] # {}) =>
         transientSSH(outcome[c])
    /\ pc[c] = "remote" => attempt[c] \in started[c]
    /\ (pc[c] \in {"ended", "returned"} /\ outcome[c] = "ok") =>
         attempt[c] \in started[c] /\ attempt[c] \notin running[c]

\* The attempts whose command began are those before the one that is about to
\* connect.
InOrder(c) ==
    /\ \A n \in started[c] : n <= attempt[c]
    /\ pc[c] \in {"identity", "writeKey", "spawn"} => attempt[c] \notin started[c]

Inv ==
    /\ TypeOK
    /\ KeysRemoved
    /\ \A c \in Call : Progress(c) /\ InOrder(c)

-----------------------------------------------------------------------------
\* What the steps of one call do to another: nothing.
LEMMA OthersKept ==
    ASSUME Inv, NEW c \in Call, Begin(c) \/ Step(c),
           NEW d \in Call, d # c
    PROVE  /\ pc'[d] = pc[d] /\ attempt'[d] = attempt[d] /\ outcome'[d] = outcome[d]
           /\ keys'[d] = keys[d] /\ started'[d] = started[d] /\ running'[d] = running[d]
<1>1. CASE Begin(c)
      BY <1>1 DEF Begin, Inv, TypeOK
<1>2. CASE identityFile(c)
      BY <1>2 DEF identityFile, End, Inv, TypeOK
<1>3. CASE WriteKey(c)
      BY <1>3 DEF WriteKey, End, Inv, TypeOK
<1>4. CASE Connect(c)
      BY <1>4 DEF Connect, End, Inv, TypeOK
<1>5. CASE Disconnect(c)
      BY <1>5 DEF Disconnect, End, Inv, TypeOK
<1>6. CASE Report(c)
      BY <1>6 DEF Report, End, Inv, TypeOK
<1>7. CASE Run(c)
      BY <1>7 DEF Run, Inv, TypeOK
<1>8. QED BY <1>1, <1>2, <1>3, <1>4, <1>5, <1>6, <1>7 DEF Step

\* The step's own call keeps its types, its one key file and its progress.
LEMMA OwnCall ==
    ASSUME Inv, NEW c \in Call, Begin(c) \/ Step(c)
    PROVE  TypeOK' /\ Progress(c)' /\
           keys'[c] = (IF pc'[c] \in {"writeKey", "spawn", "remote"} /\ Identity[c] = "keyPEM"
                       THEN 1 ELSE 0)
<1> USE CallAssumption DEF Inv, TypeOK, KeysRemoved, Progress, Attempt, transientSSH, Outcome
<1>1. CASE Begin(c)
      BY <1>1 DEF Begin
<1>2. CASE identityFile(c)
      BY <1>2 DEF identityFile, End
<1>3. CASE WriteKey(c)
      BY <1>3 DEF WriteKey, End
<1>4. CASE Connect(c)
  <2>1. CASE pc' = [pc EXCEPT ![c] = "remote"]
    <3>1. started' = [started EXCEPT ![c] = @ \union {attempt[c]}]
          /\ running' = [running EXCEPT ![c] = @ \union {attempt[c]}]
          /\ pc[c] = "spawn" /\ UNCHANGED <<attempt, outcome, keys, crashed>>
          BY <1>4, <2>1 DEF Connect, End
    <3>2. attempt[c] \in Attempt
          BY <3>1
    <3>3. TypeOK'
          BY <2>1, <3>1, <3>2
    <3>4. QED BY <2>1, <3>1, <3>2, <3>3
  <2>2. CASE \E result \in {"transient", "timeout", "error"} :
               End(c, result) /\ UNCHANGED <<started, running>>
        BY <1>4, <2>2 DEF Connect, End
  <2>3. QED BY <1>4, <2>1, <2>2 DEF Connect
<1>5. CASE Disconnect(c)
      BY <1>5 DEF Disconnect, End
<1>6. CASE Report(c)
      BY <1>6 DEF Report, End
<1>7. CASE Run(c)
  <2>1. CASE ~transientSSH(outcome[c]) \/ attempt[c] = maxSSHAttempts
        BY <1>7, <2>1 DEF Run
  <2>2. CASE ~(~transientSSH(outcome[c]) \/ attempt[c] = maxSSHAttempts)
    <3>1. attempt[c] + 1 \in Attempt
          BY <1>7, <2>2 DEF Run
    <3>2. /\ pc' = [pc EXCEPT ![c] = "identity"]
          /\ attempt' = [attempt EXCEPT ![c] = attempt[c] + 1]
          /\ transientSSH(outcome[c])
          /\ UNCHANGED <<outcome, keys, started, running, crashed>>
          BY <1>7, <2>2 DEF Run
    <3>3. TypeOK'
          BY <3>1, <3>2
    <3>4. QED BY <1>7, <3>1, <3>2, <3>3 DEF Run
  <2>3. QED BY <2>1, <2>2
<1>8. QED BY <1>1, <1>2, <1>3, <1>4, <1>5, <1>6, <1>7 DEF Step

\* The step's own call starts its attempts in order.
LEMMA OwnOrder ==
    ASSUME Inv, NEW c \in Call, Begin(c) \/ Step(c)
    PROVE  InOrder(c)'
<1>1. /\ InOrder(c) /\ started[c] \subseteq Attempt
      /\ attempt[c] \in Nat /\ c \in DOMAIN attempt /\ c \in DOMAIN started /\ c \in DOMAIN pc
      /\ pc[c] = "idle" => started[c] = {}
      BY CallAssumption DEF Inv, TypeOK, Progress
<1> USE CallAssumption DEF InOrder, Attempt
<1>2. CASE Begin(c)
      BY <1>1, <1>2 DEF Begin
<1>3. CASE identityFile(c)
      BY <1>1, <1>3 DEF identityFile, End
<1>4. CASE WriteKey(c)
      BY <1>1, <1>4 DEF WriteKey, End
<1>5. CASE Connect(c)
      BY <1>1, <1>5 DEF Connect, End
<1>6. CASE Disconnect(c)
      BY <1>1, <1>6 DEF Disconnect, End
<1>7. CASE Report(c)
      BY <1>1, <1>7 DEF Report, End
<1>8. CASE Run(c)
      BY <1>1, <1>8 DEF Run
<1>9. QED BY <1>2, <1>3, <1>4, <1>5, <1>6, <1>7, <1>8 DEF Step

LEMMA Invariance == Spec => []Inv
<1>1. Init => Inv
  <2>1. Init => TypeOK
    <3>1. 0 \in 0..maxSSHAttempts
          BY CallAssumption
    <3>2. {} \in SUBSET Attempt /\ None \in Outcome \union {None}
          OBVIOUS
    <3>3. SUFFICES ASSUME Init PROVE TypeOK
          OBVIOUS
    <3>4. attempt \in [Call -> 0..maxSSHAttempts] /\ keys \in [Call -> Nat]
          BY <3>1, <3>3 DEF Init
    <3>5. outcome \in [Call -> Outcome \union {None}]
          BY <3>2, <3>3 DEF Init
    <3>6. started \in [Call -> SUBSET Attempt] /\ running \in [Call -> SUBSET Attempt]
          BY <3>2, <3>3 DEF Init
    <3>7. QED BY <3>3, <3>4, <3>5, <3>6 DEF Init, TypeOK
  <2>2. Init => KeysRemoved
        BY DEF Init, KeysRemoved
  <2>3. Init => \A c \in Call : Progress(c) /\ InOrder(c)
        BY DEF Init, Progress, InOrder
  <2>4. QED BY <2>1, <2>2, <2>3 DEF Inv
<1>2. Inv /\ [Next]_vars => Inv'
  <2> SUFFICES ASSUME Inv, [Next]_vars PROVE Inv'
      OBVIOUS
  <2>1. ASSUME NEW c \in Call, Begin(c) \/ Step(c) PROVE Inv'
    <3>1. TypeOK'
          BY <2>1, OwnCall
    <3>2. KeysRemoved'
          BY <2>1, OwnCall, OthersKept DEF KeysRemoved, Inv
    <3>3. ASSUME NEW d \in Call PROVE Progress(d)' /\ InOrder(d)'
      <4>1. CASE d = c
            BY <2>1, <4>1, OwnCall, OwnOrder
      <4>2. CASE d # c
            BY <2>1, <4>2, OthersKept DEF Progress, InOrder, Inv
      <4>3. QED BY <4>1, <4>2
    <3>4. QED BY <3>1, <3>2, <3>3 DEF Inv
  <2>2. ASSUME NEW c \in Call, NEW n \in running[c], Finish(c, n) PROVE Inv'
    <3>1. TypeOK' /\ KeysRemoved'
          BY <2>2 DEF Finish, Inv, TypeOK, KeysRemoved
    <3>2. ASSUME NEW d \in Call PROVE Progress(d)' /\ InOrder(d)'
          BY <2>2 DEF Finish, Inv, TypeOK, Progress, InOrder
    <3>3. QED BY <3>1, <3>2 DEF Inv
  <2>3. CASE Crash
        BY <2>3 DEF Crash, Inv, TypeOK, KeysRemoved, Progress, InOrder
  <2>4. CASE UNCHANGED vars
        BY <2>4 DEF vars, Inv, TypeOK, KeysRemoved, Progress, InOrder
  <2>5. QED BY <2>1, <2>2, <2>3, <2>4 DEF Next
<1>3. QED BY <1>1, <1>2, PTL DEF Spec

-----------------------------------------------------------------------------
\* Every variable of the SSH client has its type; in particular the attempts of
\* a call never pass maxSSHAttempts (the loop of Run).
THEOREM AttemptsBounded == Spec => []TypeOK
<1>1. Inv => TypeOK
      BY DEF Inv
<1>2. QED BY <1>1, Invariance, PTL

\* The temporary key file of runOnce exists during an attempt and at no other
\* time, whichever way the attempt ends.
THEOREM NoKeyLeftBehind == Spec => []KeysRemoved
<1>1. Inv => KeysRemoved
      BY DEF Inv
<1>2. QED BY <1>1, Invariance, PTL

\* A success Run returns belongs to a command that ran to its end.
THEOREM SuccessIsFinished == Spec => []SuccessMeansFinished
<1>1. Inv => SuccessMeansFinished
      BY DEF Inv, Progress, SuccessMeansFinished
<1>2. QED BY <1>1, Invariance, PTL

\* Run has the firewall execute a command again only after an attempt whose
\* failure transientSSH recognises.
THEOREM RepeatsAreTransient == Spec => RepeatedOnlyWhenTransient
<1>1. ASSUME Inv, [Next]_vars
      PROVE  [\A c \in Call : (started'[c] # started[c] /\ started[c] # {})
                => outcome[c] \in {"transient", "matching"}]_vars
  <2>1. ASSUME NEW c \in Call, started'[c] # started[c], started[c] # {}
        PROVE  outcome[c] \in {"transient", "matching"}
    <3>1. ASSUME NEW d \in Call, Begin(d) \/ Step(d) PROVE Connect(c)
      <4>1. d = c
            BY <2>1, <3>1, OthersKept, <1>1
      <4>2. QED BY <2>1, <3>1, <4>1 DEF Begin, Step, identityFile, WriteKey, Disconnect,
                                       Report, Run
    <3>2. Connect(c)
          BY <1>1, <2>1, <3>1 DEF Next, Finish, Crash, vars
    <3>3. pc[c] = "spawn"
          BY <3>2 DEF Connect
    <3>4. QED BY <1>1, <2>1, <3>3 DEF Inv, Progress, transientSSH
  <2>2. QED BY <2>1
<1>2. QED BY <1>1, Invariance, PTL DEF Spec, RepeatedOnlyWhenTransient

-----------------------------------------------------------------------------
(* The refinement of RemoteCommand.                                        *)

\* A step of a call that neither answers nor starts the command is hidden.
LEMMA HiddenStep ==
    ASSUME NEW c \in Call, \A d \in Call : AnswerOf(d)' = AnswerOf(d),
           UNCHANGED <<started, running>>
    PROVE  UNCHANGED Command!vars
<1>1. [d \in Call |-> AnswerOf(d)]' = [d \in Call |-> AnswerOf(d)]
      BY Zenon
<1>2. QED BY <1>1 DEF Command!vars

\* What a step of one call leaves of the answers to the others: everything.
LEMMA OthersAnswers ==
    ASSUME Inv, NEW c \in Call, Begin(c) \/ Step(c), NEW d \in Call, d # c
    PROVE  AnswerOf(d)' = AnswerOf(d)
BY OthersKept DEF AnswerOf

LEMMA Changed ==
    ASSUME Inv, NEW c \in Call, Begin(c) \/ Step(c), NEW a, AnswerOf(c)' = a
    PROVE  [d \in Call |-> AnswerOf(d)]' = [[d \in Call |-> AnswerOf(d)] EXCEPT ![c] = a]
BY OthersAnswers

LEMMA BeginOpens ==
    ASSUME Inv, NEW c \in Call, Begin(c)
    PROVE  Command!Open(c)
<1>1. AnswerOf(c) = "none" /\ AnswerOf(c)' = "open"
      BY DEF Begin, AnswerOf, Inv, TypeOK
<1>2. QED BY <1>1, Changed DEF Command!Open, Begin

LEMMA StepRefines ==
    ASSUME Inv, NEW c \in Call, Step(c)
    PROVE  [Command!Next]_(Command!vars)
<1> DEFINE Before == pc[c] \in {"identity", "writeKey", "spawn", "remote", "ended"}
           Ongoing == pc'[c] \in {"identity", "writeKey", "spawn", "remote", "ended"}
<1>1. Before
      BY DEF Step, identityFile, WriteKey, Connect, Disconnect, Report, Run
<1>2. AnswerOf(c) = "open"
      BY <1>1 DEF AnswerOf
<1>3. ASSUME Ongoing, UNCHANGED <<started, running>>
      PROVE  UNCHANGED Command!vars
  <2>1. AnswerOf(c)' = "open"
        BY <1>3 DEF AnswerOf
  <2>2. QED BY <1>2, <1>3, <2>1, OthersAnswers, HiddenStep
<1>4. CASE identityFile(c) \/ WriteKey(c) \/ Disconnect(c) \/ Report(c)
  <2>1. Ongoing /\ UNCHANGED <<started, running>>
        BY <1>4 DEF identityFile, WriteKey, Disconnect, Report, End, Inv, TypeOK
  <2>2. QED BY <1>3, <2>1
<1>5. CASE Connect(c)
  <2>1. CASE UNCHANGED <<started, running>>
    <3>1. Ongoing
          BY <1>5 DEF Connect, End, Inv, TypeOK
    <3>2. QED BY <1>3, <2>1, <3>1
  <2>2. CASE ~UNCHANGED <<started, running>>
    <3>1. /\ pc[c] = "spawn" /\ pc' = [pc EXCEPT ![c] = "remote"]
          /\ started' = [started EXCEPT ![c] = @ \union {attempt[c]}]
          /\ running' = [running EXCEPT ![c] = @ \union {attempt[c]}]
          BY <1>5, <2>2 DEF Connect
    <3>2. AnswerOf(c)' = "open"
          BY <3>1 DEF AnswerOf, Inv, TypeOK
    <3>3. attempt[c] \in 1..maxSSHAttempts
          BY <3>1 DEF Inv, Progress, Attempt
    <3>4. \A m \in started[c] : m < attempt[c]
      <4>1. /\ \A m \in started[c] : m <= attempt[c]
            /\ attempt[c] \notin started[c]
            BY <3>1 DEF Inv, InOrder
      <4>2. started[c] \subseteq Int /\ attempt[c] \in Int
            BY <3>3, CallAssumption DEF Inv, TypeOK, Attempt
      <4>3. QED BY <4>1, <4>2
    <3>5. UNCHANGED [d \in Call |-> AnswerOf(d)]
          BY <1>2, <3>2, OthersAnswers, Zenon
    <3>6. Command!Execute(c, attempt[c])
          BY <1>2, <3>1, <3>4, <3>5 DEF Command!Execute
    <3>7. QED BY <3>3, <3>6 DEF Command!Next
  <2>3. QED BY <2>1, <2>2
<1>6. CASE Run(c)
  <2>1. UNCHANGED <<started, running>> /\ pc[c] = "ended" /\ outcome' = outcome
        BY <1>6 DEF Run
  <2>2. CASE pc'[c] = "identity"
        BY <1>3, <2>1, <2>2
  <2>3. CASE pc'[c] = "returned"
    <3> DEFINE result == IF outcome[c] = "ok" THEN "ok" ELSE "failed"
    <3>1. AnswerOf(c)' = result
          BY <2>1, <2>3 DEF AnswerOf
    <3>2. ASSUME outcome[c] = "ok"
          PROVE  Command!Last(c) # {} /\ Command!Last(c) \intersect running[c] = {}
      <4>1. attempt[c] \in started[c] /\ attempt[c] \notin running[c]
            BY <2>1, <3>2 DEF Inv, Progress
      <4>2. \A m \in started[c] : m <= attempt[c]
            BY DEF Inv, InOrder
      <4>3. started[c] \subseteq Int
            BY CallAssumption DEF Inv, TypeOK, Attempt
      <4>4. Command!Last(c) = {attempt[c]}
            BY <4>1, <4>2, <4>3 DEF Command!Last
      <4>5. QED BY <4>1, <4>4
    <3>3. Command!Answer(c, result)
          BY <1>2, <2>1, <3>1, <3>2, Changed DEF Command!Answer
    <3>4. QED BY <3>3 DEF Command!Next
  <2>4. pc'[c] \in {"identity", "returned"}
        BY <1>6 DEF Run, Inv, TypeOK
  <2>5. QED BY <2>2, <2>3, <2>4
<1>7. QED BY <1>4, <1>5, <1>6 DEF Step

\* For any number of concurrent calls, any limit and a kill at any point, Run is
\* the call of a command that RemoteCommand describes.
THEOREM CommandImplemented == Spec => ImplementsCommand
<1>1. ASSUME Init PROVE Command!Init
  <2>1. \A c \in Call : AnswerOf(c) = "none"
        BY <1>1 DEF Init, AnswerOf
  <2>2. QED BY <1>1, <2>1 DEF Init, Command!Init
<1>2. ASSUME Inv, [Next]_vars PROVE [Command!Next]_(Command!vars)
  <2>1. ASSUME NEW c \in Call, Begin(c) PROVE Command!Next
        BY <1>2, <2>1, BeginOpens DEF Command!Next
  <2>2. ASSUME NEW c \in Call, Step(c) PROVE [Command!Next]_(Command!vars)
        BY <1>2, <2>2, StepRefines
  <2>3. ASSUME NEW c \in Call, NEW n \in running[c], Finish(c, n) PROVE Command!Next
    <3>1. UNCHANGED [d \in Call |-> AnswerOf(d)]
          BY <2>3 DEF Finish, AnswerOf
    <3>2. Command!End(c, n)
          BY <2>3, <3>1 DEF Finish, Command!End
    <3>3. QED BY <3>2 DEF Command!Next
  <2>4. CASE Crash
        BY <2>4 DEF Crash, AnswerOf, Command!vars
  <2>5. CASE UNCHANGED vars
        BY <2>5 DEF vars, AnswerOf, Command!vars
  <2>6. QED BY <1>2, <2>1, <2>2, <2>3, <2>4, <2>5 DEF Next
<1>3. QED BY <1>1, <1>2, Invariance, PTL DEF Spec, ImplementsCommand, Command!Spec
=============================================================================

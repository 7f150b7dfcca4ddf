---------------------------- MODULE MCSystemConfig ----------------------------
(* The instance of SystemConfig for TLC. *)
EXTENDS SystemConfig, TLC

CONSTANTS v1, v2

Block(f) == f @@ [a \in Attr |-> None]

\* Everything declared; time servers, other users and no trap target; the serve
\* flag alone.
Blocks == {
    Block("general" :> v2 @@ "ntp" :> v2 @@ "lan" :> v2 @@ "tunable" :> v2 @@ "log" :> v2
          @@ "users" :> v2 @@ "trap" :> v2),
    Block("ntp" :> v1 @@ "users" :> v1 @@ "trap" :> Empty),
    Block("lan" :> v2)}

\* A firewall without drop-in files.
Factory == {[a \in Attr |-> IF a \in InXml THEN v1 ELSE None]}
=============================================================================

----------------------------- MODULE MCSSHClient -----------------------------
(* An instance of SSHClient for TLC: calls of two provider blocks, one with  *)
(* key_pem and one that leaves the key to the agent.                         *)
EXTENDS SSHClient, TLC

CONSTANTS c1, c2

Keys == [c \in Call |-> IF c = c1 THEN "keyPEM" ELSE "agent"]
=============================================================================

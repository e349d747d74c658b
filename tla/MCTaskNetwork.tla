--------------------------- MODULE MCTaskNetwork ---------------------------
(***************************************************************************)
(* Three tasks: t1 and t2 have the same host port, t3 others, one of them  *)
(* on the loopback address; all use the same port inside the VM.           *)
(***************************************************************************)
EXTENDS TaskNetwork, TLC

CONSTANTS t1, t2, t3, h1, h2, h3, v1

MCPorts ==
  t1 :> <<[host |-> h1, to |-> v1, loopback |-> FALSE]>> @@
  t2 :> <<[host |-> h1, to |-> v1, loopback |-> FALSE]>> @@
  t3 :> <<[host |-> h3, to |-> v1, loopback |-> TRUE],
          [host |-> h2, to |-> v1, loopback |-> FALSE]>>
=============================================================================

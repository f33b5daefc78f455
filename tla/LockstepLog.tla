----------------------------- MODULE LockstepLog -----------------------------
(***************************************************************************)
(* How Lockstep implements ReplicatedLog: the clients that play hold copies *)
(* of one log of commands, which is the world of the server.                *)
(***************************************************************************)
EXTENDS Lockstep

(* The commands that the sync step now on all nodes executes: they are at    *)
(* the head of the queue of the server, before a sync, and clients may       *)
(* already have executed them                                                *)
InThisStep ==
  LET q == cmdQ[Server]
      n == Cardinality({i \in DOMAIN q : \A j \in 1..i :
                          q[j].type = "TOOL" /\ q[j].step = sync[Server]})
  IN  [i \in 1..n |-> [cmd |-> q[i].cmd, step |-> q[i].step]]

(* The refinement: the log is what the server has executed and is about to   *)
(* execute in this step; a client that plays holds a copy                    *)
Log == INSTANCE ReplicatedLog WITH
         Replicas <- Clients,
         log <- world[Server] \o InThisStep,
         copy <- [c \in {d \in Clients : Playing(d)} |-> world[c]]

(* The clients that play hold copies of one log *)
ImplementsReplicatedLog == Log!LogSpec
=============================================================================

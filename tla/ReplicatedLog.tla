---------------------------- MODULE ReplicatedLog ----------------------------
(***************************************************************************)
(* What the network game promises: one log of commands and, at every        *)
(* client that plays, a copy of a beginning of it.  A copy starts as a      *)
(* snapshot and grows by the next command of the log, never by another one. *)
(* The log only grows, except that the game may be set back to an earlier   *)
(* save while nobody holds a copy.                                          *)
(*                                                                         *)
(* Lockstep implements this (see LockstepLog).                               *)
(***************************************************************************)
EXTENDS Integers, Sequences, SequencesExt

CONSTANTS Replicas  \* who may hold a copy

VARIABLES
  log,    \* the commands in the order of their execution
  copy    \* the copies: a function from the replicas that hold one

logVars == <<log, copy>>

Holders == DOMAIN copy

LogInit == log = <<>> /\ copy = <<>>

(* The commands of the next sync step *)
Commit ==
  /\ log # log' /\ IsPrefix(log, log')
  /\ UNCHANGED copy

Apply(r) ==
  /\ r \in Holders /\ Len(copy[r]) < Len(log)
  /\ copy' = [copy EXCEPT ![r] = Append(@, log[Len(@) + 1])]
  /\ UNCHANGED log

Attach(r) ==
  /\ r \notin Holders
  /\ \E n \in 0..Len(log) :
       copy' = [h \in Holders \cup {r} |-> IF h = r THEN SubSeq(log, 1, n) ELSE copy[h]]
  /\ UNCHANGED log

Detach(r) ==
  /\ r \in Holders
  /\ copy' = [h \in Holders \ {r} |-> copy[h]]
  /\ UNCHANGED log

SetBack ==
  /\ Holders = {}
  /\ log # log' /\ IsPrefix(log', log)
  /\ UNCHANGED copy

LogNext ==
  \/ Commit \/ SetBack
  \/ \E r \in Replicas : Apply(r) \/ Attach(r) \/ Detach(r)

LogSpec == LogInit /\ [][LogNext]_logVars
=============================================================================

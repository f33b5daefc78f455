----------------------------- MODULE MCLockstep -----------------------------
(* Instances of Lockstep for TLC: what is checked, on how many clients and   *)
(* with which bounds is in the .cfg files                                    *)
EXTENDS LockstepLog
=============================================================================

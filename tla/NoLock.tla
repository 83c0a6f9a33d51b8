------------------------------- MODULE NoLock -------------------------------
(***************************************************************************)
(* core_lat/no_lock.c: a thread reads the token in a loop and, once it has *)
(* read its own number, stores the next one.  The read and the store are   *)
(* two steps: nothing but the protocol keeps another thread from storing   *)
(* in between.                                                             *)
(***************************************************************************)
EXTENDS TokenRing

(* Mutant of Acquire: no wait.                                             *)
NoWait(t) ==
  /\ pc[t] = "wait"
  /\ pc' = [pc EXCEPT ![t] = "store"]
  /\ UNCHANGED <<region, team, n_threads, token, next, i>>

(* `while (token != idx)` ends.                                            *)
Acquire(t) ==
  /\ pc[t] = "wait"
  /\ token = t
  /\ pc' = [pc EXCEPT ![t] = "store"]
  /\ UNCHANGED <<region, team, n_threads, token, next, i>>

(* `token = next`.                                                         *)
Store(t) ==
  /\ pc[t] = "store"
  /\ Pass(t)

ThreadStep(t) == Count(t) \/ Enter(t) \/ Acquire(t) \/ Store(t)

Next == (\E t \in Thread : ThreadStep(t)) \/ Fork \/ Join \/ Finished

SafeSpec == Init /\ [][Next]_vars

-----------------------------------------------------------------------------

(* No lock is needed: between a thread's read of its own number and its    *)
(* store, no other thread writes the token.                                *)
StoreOwnsToken == \A t \in Thread : pc[t] = "store" => token = t

(* The two steps are as good as one: seen without the point between them,  *)
(* no_lock.c implements cas_lock.c.                                        *)
AtPc == [t \in Thread |-> IF pc[t] = "store" THEN "wait" ELSE pc[t]]

Atomic == INSTANCE CasLock WITH pc <- AtPc

ActsAtomically == Atomic!SafeSpec
=============================================================================

------------------------------ MODULE CasLock ------------------------------
(***************************************************************************)
(* core_lat/cas_lock.c: a thread waits for the token and passes it in one  *)
(* atomic compare-and-swap.  A failed compare-and-swap changes nothing, so *)
(* spinning is stuttering.                                                 *)
(***************************************************************************)
EXTENDS TokenRing

(* Mutant of Cas: an exchange without a comparison.                        *)
BlindCas(t) ==
  /\ pc[t] = "wait"
  /\ Pass(t)

Cas(t) ==
  /\ pc[t] = "wait"
  /\ token = t
  /\ Pass(t)

ThreadStep(t) == Count(t) \/ Enter(t) \/ Cas(t)

Next == (\E t \in Thread : ThreadStep(t)) \/ Fork \/ Join \/ Finished

SafeSpec == Init /\ [][Next]_vars

=============================================================================

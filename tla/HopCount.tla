------------------------------ MODULE HopCount ------------------------------
(***************************************************************************)
(* What measure() of the core_lat programs promises: the team is sized     *)
(* once, then the token makes Loops laps of the ring, one hop at a time,   *)
(* and the timer stops when the last hop is done.  The program divides the *)
(* elapsed time by loops and by n_threads, which is right only if exactly  *)
(* Loops * size hops were timed.                                           *)
(***************************************************************************)
EXTENDS Integers

CONSTANTS MaxTeam,   \* the largest team OpenMP may supply
          Loops      \* passes each thread makes

VARIABLES stage,     \* "setup", "timing" or "done"
          size,      \* threads in the ring; 0 until the timer starts
          hops       \* passes of the token so far

vars == <<stage, size, hops>>

Init ==
  /\ stage = "setup"
  /\ size = 0
  /\ hops = 0

Start ==
  /\ stage = "setup"
  /\ stage' = "timing"
  /\ size' \in 1 .. MaxTeam
  /\ UNCHANGED hops

Hop ==
  /\ stage = "timing"
  /\ hops < size * Loops
  /\ hops' = hops + 1
  /\ UNCHANGED <<stage, size>>

Finish ==
  /\ stage = "timing"
  /\ hops = size * Loops
  /\ stage' = "done"
  /\ UNCHANGED <<size, hops>>

Next == Start \/ Hop \/ Finish

SafeSpec == Init /\ [][Next]_vars
=============================================================================

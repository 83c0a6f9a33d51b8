----------------------------- MODULE TokenRing -----------------------------
(***************************************************************************)
(* The state and the skeleton of measure(), which core_lat/no_lock.c and   *)
(* core_lat/cas_lock.c share: a first parallel region counts the team, the *)
(* timer starts, a second region passes a token round a ring, its implicit *)
(* barrier ends the measurement.  How a thread waits for the token and     *)
(* passes it is what differs; NoLock and CasLock add it.                   *)
(***************************************************************************)
EXTENDS Integers

CONSTANTS MaxTeam,  \* the largest team OpenMP may supply
          Loops,    \* passes each thread makes (main() never runs fewer than 10)
          Dynamic   \* TRUE: OpenMP may size each region's team anew (OMP_DYNAMIC)

ASSUME TeamAssumption == MaxTeam \in Nat \ {0}
ASSUME LoopsAssumption == Loops \in Nat \ {0, 1}
ASSUME DynamicAssumption == Dynamic \in BOOLEAN

Thread == 0 .. MaxTeam - 1

VARIABLES region,    \* "count": first region; "pass": second; "done": timer stopped
          team,      \* threads of the current region
          n_threads, \* the shared counter every thread of the first region writes
          token,     \* the cache line passed around
          next,      \* next[t], private to thread t
          i,         \* i[t], the passes thread t has made
          pc         \* where thread t is

vars == <<region, team, n_threads, token, next, i, pc>>

(* Threads of a parallel region; the others are parked by the runtime.     *)
Team == {t \in Thread : t < team}

Init ==
  /\ region = "count"
  /\ team \in 1 .. MaxTeam
  /\ n_threads = 1
  /\ token = 0
  /\ next = [t \in Thread |-> 0]
  /\ i = [t \in Thread |-> 0]
  /\ pc = [t \in Thread |-> IF t < team THEN "count" ELSE "idle"]

(* First region: every thread stores the same number in the one variable.  *)
Count(t) ==
  /\ pc[t] = "count"
  /\ n_threads' = team
  /\ pc' = [pc EXCEPT ![t] = "joined"]
  /\ UNCHANGED <<region, team, token, next, i>>

(* The barrier of the first region, the start of the timer and the fork of *)
(* the second region, whose team need not have the size that was counted.  *)
Fork ==
  /\ region = "count"
  /\ \A t \in Team : pc[t] = "joined"
  /\ region' = "pass"
  /\ team' \in IF Dynamic THEN 1 .. MaxTeam ELSE {team}
  /\ pc' = [t \in Thread |-> IF t < team' THEN "enter" ELSE "idle"]
  /\ UNCHANGED <<n_threads, token, next, i>>

(* Mutant of After: no modulus.                                            *)
NoWrap(t, n) == t + 1

(* The neighbour of thread t in a ring of n.                               *)
After(t, n) == (t + 1) % n

Enter(t) ==
  /\ pc[t] = "enter"
  /\ next' = [next EXCEPT ![t] = After(t, n_threads)]
  /\ pc' = [pc EXCEPT ![t] = "wait"]
  /\ UNCHANGED <<region, team, n_threads, token, i>>

(* Mutant of Pass: `i <= loops`.                                           *)
PassOnceMore(t) ==
  /\ token' = next[t]
  /\ i' = [i EXCEPT ![t] = i[t] + 1]
  /\ pc' = [pc EXCEPT ![t] = IF i[t] < Loops THEN "wait" ELSE "joined"]
  /\ UNCHANGED <<region, team, n_threads, next>>

(* The token leaves t: one more pass, and out of the loop after the last.  *)
Pass(t) ==
  /\ token' = next[t]
  /\ i' = [i EXCEPT ![t] = i[t] + 1]
  /\ pc' = [pc EXCEPT ![t] = IF i[t] + 1 < Loops THEN "wait" ELSE "joined"]
  /\ UNCHANGED <<region, team, n_threads, next>>

(* Mutant of Join: `nowait`.                                               *)
JoinEarly ==
  /\ region = "pass"
  /\ region' = "done"
  /\ UNCHANGED <<team, n_threads, token, next, i, pc>>

(* The barrier of the second region; the timer stops.                      *)
Join ==
  /\ region = "pass"
  /\ \A t \in Team : pc[t] = "joined"
  /\ region' = "done"
  /\ UNCHANGED <<team, n_threads, token, next, i, pc>>

(* The results are printed and the program ends.                           *)
Finished ==
  /\ region = "done"
  /\ UNCHANGED vars

TypeOK ==
  /\ region \in {"count", "pass", "done"}
  /\ team \in 1 .. MaxTeam
  /\ n_threads \in 1 .. MaxTeam
  /\ token \in Thread
  /\ next \in [Thread -> Thread]
  /\ i \in [Thread -> 0 .. Loops]
  /\ pc \in [Thread -> {"idle", "count", "enter", "wait", "store", "joined"}]

-----------------------------------------------------------------------------

(* The lap the token is on: it has gone past the threads before it once    *)
(* more than past the others, so no thread is ever two passes ahead.  It   *)
(* is what makes loops * n_threads the number of timed hops.               *)
LapBalance ==
  \A t \in Thread :
    t < n_threads => i[t] = IF token = 0 \/ t < token THEN i[0] ELSE i[0] - 1

(* Passes made so far, as the position of the token tells them.            *)
Hops == IF token = 0 THEN i[0] * n_threads ELSE (i[0] - 1) * n_threads + token

(* What measure() promises, in terms of the state of the code.             *)
Promise == INSTANCE HopCount WITH
  stage <- CASE region = "count" -> "setup"
             [] region = "pass" -> "timing"
             [] region = "done" -> "done",
  size <- IF region = "count" THEN 0 ELSE n_threads,
  hops <- IF region = "count" THEN 0 ELSE Hops

(* The measurement makes the promised hops, in order, and stops after the  *)
(* last one: measure() implements HopCount (no_lock.c:67, cas_lock.c:68).  *)
KeepsPromise == Promise!SafeSpec

(* The timer is stopped only when the ring has exactly the threads that    *)
(* the printed latency is divided by.                                      *)
RingIsWholeTeam == region = "done" => team = n_threads

(* A second region of the counted size always finishes.                    *)
EqualTeamsFinish == (region = "pass" /\ team = n_threads) ~> (region = "done")
=============================================================================

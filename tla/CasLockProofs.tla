--------------------------- MODULE CasLockProofs ---------------------------
(***************************************************************************)
(* Proofs about cas_lock.c for every team, every number of passes and both *)
(* settings of OMP_DYNAMIC: the laps stay balanced, and the measurement    *)
(* makes exactly the hops its result is divided by.                        *)
(***************************************************************************)
EXTENDS CasLock, TLAPS

(* What the regions of measure() leave true.  In the first one nothing     *)
(* moves; in the second a thread's place tells how far it is, and threads  *)
(* that get no token make no pass.                                         *)
Counting ==
  region = "count" =>
    /\ token = 0
    /\ \A t \in Thread : i[t] = 0
    /\ \A t \in Team : pc[t] \in {"count", "joined"}
    /\ \A t \in Team : pc[t] = "joined" => n_threads = team

Passing ==
  region # "count" =>
    /\ token < n_threads
    /\ \A t \in Team : pc[t] \in {"enter", "wait", "joined"}
    /\ \A t \in Team : n_threads <= t => i[t] = 0
    /\ \A t \in Thread : pc[t] = "enter" => i[t] = 0
    /\ \A t \in Thread : pc[t] = "wait" => i[t] < Loops
    /\ \A t \in Thread : pc[t] = "wait" => next[t] = After(t, n_threads)
    /\ \A t \in Thread : pc[t] = "joined" => i[t] = Loops

Parked == \A t \in Thread \ Team : pc[t] = "idle" /\ i[t] = 0

AllJoined == region = "done" => \A t \in Team : pc[t] = "joined"

Phases == Counting /\ Passing /\ Parked /\ AllJoined

IInv == TypeOK /\ Phases /\ LapBalance

USE TeamAssumption, LoopsAssumption, DynamicAssumption

(* The successor in the ring, without the modulus.                         *)
LEMMA Successor ==
  ASSUME NEW n \in Nat \ {0}, NEW t \in 0 .. n - 1
  PROVE  After(t, n) = IF t = n - 1 THEN 0 ELSE t + 1
<1>1. CASE t = n - 1
  BY <1>1, SMT DEF After
<1>2. CASE t # n - 1
  BY <1>2, SMT DEF After
<1> QED  BY <1>1, <1>2

LEMMA AfterInRing ==
  ASSUME NEW n \in Nat \ {0}, NEW t \in Nat
  PROVE  After(t, n) \in 0 .. n - 1
BY SMT DEF After

(* One more lap is n more hops.                                            *)
LEMMA LapOfHops ==
  ASSUME NEW a \in Int, NEW n \in Nat
  PROVE  (a + 1) * n = a * n + n
BY SMT

(* Before the last lap is over, fewer hops are made than promised.         *)
LEMMA HopsLeft ==
  ASSUME NEW a \in Nat, NEW n \in Nat, NEW t \in 0 .. n - 1, a < Loops
  PROVE  a * n + t < n * Loops
<1> DEFINE rest == Loops - (a + 1)
<1>1. rest \in Nat
  OBVIOUS
<1>2. n * Loops = (a + 1) * n + rest * n
  BY <1>1, SMT
<1>3. rest * n >= 0
  BY <1>1, SMT
<1>4. (a + 1) * n = a * n + n
  BY LapOfHops
<1>5. a * n \in Int /\ (a + 1) * n \in Int /\ rest * n \in Int
  BY <1>1
<1> HIDE DEF rest
<1> QED  BY <1>2, <1>3, <1>4, <1>5, SMT

-----------------------------------------------------------------------------

LEMMA InitInv == Init => IInv
BY DEF Init, IInv, TypeOK, Counting, Passing, Parked, AllJoined, Phases, LapBalance, Thread, Team

LEMMA CountInv ==
  ASSUME IInv, NEW t \in Thread, Count(t)
  PROVE  IInv'
<1>1. t \in Team /\ region = "count"
  BY DEF IInv, TypeOK, Counting, Passing, Parked, AllJoined, Phases, Count, Team, Thread
<1>2. TypeOK'
  BY DEF IInv, TypeOK, Count
<1>3. Phases'
  BY <1>1 DEF IInv, TypeOK, Counting, Passing, Parked, AllJoined, Phases, Count, Team, Thread
<1>4. LapBalance'
  BY <1>1 DEF IInv, TypeOK, Counting, Passing, Parked, AllJoined, Phases, LapBalance, Count, Thread
<1> QED  BY <1>2, <1>3, <1>4 DEF IInv

LEMMA ForkInv ==
  ASSUME IInv, Fork
  PROVE  IInv'
<1>1. team' \in 1 .. MaxTeam
  BY DEF IInv, TypeOK, Fork
<1>2. TypeOK'
  BY <1>1 DEF IInv, TypeOK, Fork
<1>3. Phases'
  BY <1>1 DEF IInv, TypeOK, Counting, Passing, Parked, AllJoined, Phases, Fork, Team, Thread
<1>4. LapBalance'
  BY DEF IInv, TypeOK, Counting, Passing, Parked, AllJoined, Phases, LapBalance, Fork, Thread
<1> QED  BY <1>2, <1>3, <1>4 DEF IInv

LEMMA EnterInv ==
  ASSUME IInv, NEW t \in Thread, Enter(t)
  PROVE  IInv'
<1>1. t \in Team /\ region = "pass"
  BY DEF IInv, TypeOK, Counting, Passing, Parked, AllJoined, Phases, Enter, Team, Thread
<1>2. After(t, n_threads) \in Thread
  <2>1. n_threads \in Nat \ {0} /\ n_threads <= MaxTeam /\ t \in Nat
    BY DEF IInv, TypeOK, Thread
  <2>2. After(t, n_threads) \in 0 .. n_threads - 1
    BY <2>1, AfterInRing
  <2> QED  BY <2>1, <2>2 DEF Thread
<1>3. TypeOK'
  BY <1>2 DEF IInv, TypeOK, Enter
<1>4. Phases'
  <2>1. UNCHANGED <<region, team, n_threads, token, i>> /\ Team' = Team
    BY DEF Enter, Team
  <2>2. \A u \in Thread \ {t} : pc'[u] = pc[u] /\ next'[u] = next[u]
    BY DEF Enter, IInv, TypeOK
  <2>3. pc'[t] = "wait" /\ next'[t] = After(t, n_threads) /\ i[t] = 0
    BY <1>1 DEF Enter, IInv, TypeOK, Phases, Passing
  <2>4. Passing'
    <3>1. \A u \in Team : pc'[u] \in {"enter", "wait", "joined"}
      BY <1>1, <2>2, <2>3 DEF IInv, Phases, Passing, Team
    <3>2. \A u \in Thread : pc'[u] = "enter" => i[u] = 0
      BY <1>1, <2>2, <2>3 DEF IInv, Phases, Passing
    <3>3. \A u \in Thread : pc'[u] = "wait" => i[u] < Loops
      BY <1>1, <2>2, <2>3 DEF IInv, Phases, Passing
    <3>4. \A u \in Thread : pc'[u] = "wait" => next'[u] = After(u, n_threads)
      BY <1>1, <2>2, <2>3 DEF IInv, Phases, Passing
    <3>5. \A u \in Thread : pc'[u] = "joined" => i[u] = Loops
      BY <1>1, <2>2, <2>3 DEF IInv, Phases, Passing
    <3> QED
      BY <1>1, <2>1, <3>1, <3>2, <3>3, <3>4, <3>5 DEF IInv, Phases, Passing
  <2>5. Counting' /\ Parked' /\ AllJoined'
    BY <1>1, <2>1, <2>2 DEF IInv, Phases, Counting, Parked, AllJoined
  <2> QED  BY <2>4, <2>5 DEF Phases
<1>5. LapBalance'
  BY DEF IInv, TypeOK, LapBalance, Enter, Thread
<1> QED  BY <1>3, <1>4, <1>5 DEF IInv

(* The one step that moves the token.                                      *)
LEMMA CasState ==
  ASSUME IInv, NEW t \in Thread, Cas(t)
  PROVE  /\ region = "pass"
         /\ t \in Team
         /\ t \in 0 .. n_threads - 1 /\ t < n_threads
         /\ i[t] < Loops
         /\ token' = IF t = n_threads - 1 THEN 0 ELSE t + 1
<1>1. t \in Team /\ region = "pass"
  BY DEF IInv, TypeOK, Counting, Passing, Parked, AllJoined, Phases, Cas, Team, Thread
<1>2. t \in 0 .. n_threads - 1 /\ t < n_threads
  BY <1>1 DEF IInv, TypeOK, Counting, Passing, Parked, AllJoined, Phases, Cas, Thread
<1>3. i[t] < Loops /\ token' = After(t, n_threads)
  BY <1>1 DEF IInv, Counting, Passing, Parked, AllJoined, Phases, Cas, Pass
<1> QED  BY <1>1, <1>2, <1>3, Successor DEF IInv, TypeOK

LEMMA CasInv ==
  ASSUME IInv, NEW t \in Thread, Cas(t)
  PROVE  IInv'
<1>1. /\ region = "pass" /\ t \in Team /\ t < n_threads /\ i[t] < Loops
      /\ token' = IF t = n_threads - 1 THEN 0 ELSE t + 1
  BY CasState
<1>2. TypeOK'
  <2>1. token' \in Thread
    BY <1>1 DEF IInv, TypeOK, Thread
  <2>2. i[t] + 1 \in 0 .. Loops
    BY <1>1 DEF IInv, TypeOK
  <2> QED  BY <2>1, <2>2 DEF IInv, TypeOK, Cas, Pass
<1>3. /\ \A u \in Thread \ {t} : pc'[u] = pc[u] /\ i'[u] = i[u]
      /\ i'[t] = i[t] + 1
      /\ pc'[t] = IF i[t] + 1 < Loops THEN "wait" ELSE "joined"
  BY DEF IInv, TypeOK, Cas, Pass
<1>4. Phases'
  <2>1. /\ UNCHANGED <<region, team, n_threads, next>> /\ Team' = Team
        /\ token' < n_threads
    BY <1>1 DEF IInv, TypeOK, Cas, Pass, Team
  <2>2. i[t] + 1 < Loops \/ i[t] + 1 = Loops
    BY <1>1 DEF IInv, TypeOK
  <2>3. next[t] = After(t, n_threads)
    BY <1>1 DEF IInv, Phases, Passing, Cas
  <2>4. Passing'
    <3>1. \A u \in Team : pc'[u] \in {"enter", "wait", "joined"}
      BY <1>1, <1>3 DEF IInv, Phases, Passing, Team
    <3>2. \A u \in Team : n_threads <= u => i'[u] = 0
      <4>1. n_threads \in Nat /\ t \in Nat /\ Team \subseteq Thread
        BY DEF IInv, TypeOK, Thread, Team
      <4>2. \A u \in Team : n_threads <= u => u # t
        BY <1>1, <4>1
      <4> QED
        BY <1>1, <1>3, <4>1, <4>2 DEF IInv, Phases, Passing
    <3>3. \A u \in Thread : pc'[u] = "enter" => i'[u] = 0
      BY <1>1, <1>3 DEF IInv, Phases, Passing
    <3>4. \A u \in Thread : pc'[u] = "wait" => i'[u] < Loops
      BY <1>1, <1>3, <2>2 DEF IInv, Phases, Passing
    <3>5. \A u \in Thread : pc'[u] = "wait" => next[u] = After(u, n_threads)
      BY <1>1, <1>3, <2>3 DEF IInv, Phases, Passing
    <3>6. \A u \in Thread : pc'[u] = "joined" => i'[u] = Loops
      BY <1>1, <1>3, <2>2 DEF IInv, Phases, Passing
    <3> QED
      BY <1>1, <2>1, <3>1, <3>2, <3>3, <3>4, <3>5, <3>6 DEF Passing
  <2>5. Counting' /\ Parked' /\ AllJoined'
    BY <1>1, <1>3, <2>1 DEF IInv, Phases, Counting, Parked, AllJoined
  <2> QED  BY <2>4, <2>5 DEF Phases
<1>5. LapBalance'
  <2>1. n_threads' = n_threads /\ n_threads \in Nat \ {0} /\ token = t
    BY DEF IInv, TypeOK, Cas, Pass
  <2>2. \A u \in Thread : i[u] \in Nat /\ u \in Nat
    <3>1. \A u \in Thread : i[u] \in 0 .. Loops
      BY DEF IInv, TypeOK
    <3>2. \A u \in Thread : u \in Nat
      BY DEF Thread
    <3> QED  BY <3>1, <3>2
  <2>3. 0 \in Thread
    BY DEF Thread
  <2>4. \A u \in Thread :
          u < n_threads => i[u] = IF t = 0 \/ u < t THEN i[0] ELSE i[0] - 1
    BY <2>1 DEF IInv, LapBalance
  <2>5. CASE t = 0
    BY <1>1, <1>3, <2>1, <2>2, <2>3, <2>4, <2>5 DEF LapBalance
  <2>6. CASE t # 0
    BY <1>1, <1>3, <2>1, <2>2, <2>3, <2>4, <2>6 DEF LapBalance
  <2> QED  BY <2>5, <2>6
<1> QED  BY <1>2, <1>4, <1>5 DEF IInv

LEMMA JoinInv ==
  ASSUME IInv, Join
  PROVE  IInv'
<1>1. TypeOK'
  BY DEF IInv, TypeOK, Join
<1>2. Phases'
  BY DEF IInv, TypeOK, Counting, Passing, Parked, AllJoined, Phases, Join, Team, Thread
<1>3. LapBalance'
  BY DEF IInv, LapBalance, Join
<1> QED  BY <1>1, <1>2, <1>3 DEF IInv

LEMMA NextInv == IInv /\ [Next]_vars => IInv'
<1> SUFFICES ASSUME IInv, [Next]_vars PROVE IInv'
  OBVIOUS
<1>1. ASSUME NEW t \in Thread, Count(t) PROVE IInv'
  BY <1>1, CountInv
<1>2. ASSUME NEW t \in Thread, Enter(t) PROVE IInv'
  BY <1>2, EnterInv
<1>3. ASSUME NEW t \in Thread, Cas(t) PROVE IInv'
  BY <1>3, CasInv
<1>4. CASE Fork
  BY <1>4, ForkInv
<1>5. CASE Join
  BY <1>5, JoinInv
<1>6. CASE UNCHANGED vars
  BY <1>6 DEF IInv, TypeOK, Counting, Passing, Parked, AllJoined, Phases, LapBalance, Team, vars
<1> QED
  BY <1>1, <1>2, <1>3, <1>4, <1>5, <1>6 DEF Next, ThreadStep, Finished

THEOREM Invariance == SafeSpec => []IInv
BY InitInv, NextInv, PTL DEF SafeSpec

(* Every reachable state of cas_lock.c has the types its code declares.    *)
THEOREM TypeCorrect == SafeSpec => []TypeOK
<1>1. IInv => TypeOK
  BY DEF IInv
<1> QED  BY <1>1, Invariance, PTL

(* No thread of the ring gets two passes ahead of another, whatever the    *)
(* number of threads and even if the second region has another team.       *)
THEOREM LapsStayBalanced == SafeSpec => []LapBalance
<1>1. IInv => LapBalance
  BY DEF IInv
<1> QED  BY <1>1, Invariance, PTL

-----------------------------------------------------------------------------

LEMMA InitPromise == Init => Promise!Init
BY DEF Init, Promise!Init

LEMMA ForkPromise == IInv /\ Fork => Promise!Start
<1> SUFFICES ASSUME IInv, Fork PROVE Promise!Start
  OBVIOUS
<1>1. /\ region = "count" /\ region' = "pass" /\ token' = 0
      /\ i'[0] = 0 /\ n_threads' = n_threads /\ n_threads \in 1 .. MaxTeam
  BY DEF Fork, IInv, TypeOK, Phases, Counting, Thread
<1>2. Hops' = 0
  BY <1>1 DEF Hops
<1> QED  BY <1>1, <1>2 DEF Promise!Start

LEMMA CasPromise ==
  ASSUME IInv, NEW t \in Thread, Cas(t)
  PROVE  Promise!Hop
<1>1. /\ region = "pass" /\ t \in 0 .. n_threads - 1 /\ i[t] < Loops
      /\ token' = IF t = n_threads - 1 THEN 0 ELSE t + 1
  BY CasState
<1>2. region' = region /\ n_threads' = n_threads /\ token = t
  BY DEF Cas, Pass
<1>3. n_threads \in Nat \ {0} /\ i[0] \in Nat /\ i[t] \in Nat /\ 0 \in Thread
  BY DEF IInv, TypeOK, Thread
<1>4. i[t] = IF t = 0 THEN i[0] ELSE i[0] - 1
  BY <1>1, <1>2, <1>3 DEF IInv, LapBalance
<1>5. i'[0] = IF t = 0 THEN i[0] + 1 ELSE i[0]
  BY <1>3 DEF Cas, Pass, IInv, TypeOK
<1>6. Hops = i[t] * n_threads + t
  BY <1>1, <1>2, <1>3, <1>4 DEF Hops
<1>7. Hops < n_threads * Loops
  BY <1>1, <1>3, <1>6, HopsLeft
<1>8. Hops' = Hops + 1
  <2>1. i[t] * n_threads \in Int /\ (i[t] + 1) * n_threads = i[t] * n_threads + n_threads
    BY <1>3, LapOfHops
  <2>2. CASE t = n_threads - 1
    <3>1. token' = 0 /\ i'[0] = i[t] + 1
      BY <1>1, <1>3, <1>4, <1>5, <2>2
    <3>2. Hops' = (i[t] + 1) * n_threads
      BY <1>2, <3>1 DEF Hops
    <3> QED  BY <1>3, <1>6, <2>1, <2>2, <3>2
  <2>3. CASE t # n_threads - 1
    <3>1. token' = t + 1 /\ token' # 0 /\ i'[0] - 1 = i[t]
      BY <1>1, <1>3, <1>4, <1>5, <2>3
    <3>2. Hops' = i[t] * n_threads + (t + 1)
      BY <1>2, <3>1 DEF Hops
    <3> QED  BY <1>1, <1>3, <1>6, <2>1, <3>2
  <2> QED  BY <2>2, <2>3
<1> QED  BY <1>1, <1>2, <1>7, <1>8 DEF Promise!Hop

(* When every thread is through the loop the ring is the whole team and    *)
(* the token is back at thread 0.                                          *)
LEMMA JoinedRing ==
  ASSUME IInv, region # "count", \A t \in Team : pc[t] = "joined"
  PROVE  team = n_threads /\ Hops = n_threads * Loops
<1>1. \A t \in Team : i[t] = Loops
  BY DEF IInv, Phases, Passing, Team
<1>2. /\ team \in Nat \ {0} /\ n_threads \in Nat \ {0} /\ token \in Nat
      /\ team <= MaxTeam /\ n_threads <= MaxTeam /\ token < n_threads
  BY DEF IInv, TypeOK, Phases, Passing, Thread
<1>3. 0 \in Team /\ i[0] = Loops
  BY <1>1, <1>2 DEF Team, Thread
<1>4. ~ (n_threads < team)
  <2> SUFFICES ASSUME n_threads < team PROVE FALSE
    OBVIOUS
  <2>1. n_threads \in Team
    BY <1>2 DEF Team, Thread
  <2> QED  BY <1>1, <1>2, <2>1 DEF IInv, Phases, Passing
<1>5. ~ (team < n_threads)
  <2> SUFFICES ASSUME team < n_threads PROVE FALSE
    OBVIOUS
  <2>1. team \in Thread \ Team
    BY <1>2 DEF Team, Thread
  <2>2. i[team] = 0
    BY <2>1 DEF IInv, Phases, Parked
  <2>3. i[team] = i[0] \/ i[team] = i[0] - 1
    BY <2>1 DEF IInv, LapBalance
  <2> QED  BY <1>3, <2>2, <2>3
<1>6. team = n_threads
  BY <1>2, <1>4, <1>5
<1>7. token = 0
  <2> SUFFICES ASSUME token # 0 PROVE FALSE
    OBVIOUS
  <2>1. token \in Team
    BY <1>2, <1>6 DEF Team, Thread
  <2>2. i[token] = i[0] - 1
    BY <1>2, <2>1 DEF IInv, LapBalance, Team
  <2> QED  BY <1>1, <1>3, <2>1, <2>2
<1>8. Hops = n_threads * Loops
  <2>1. Hops = Loops * n_threads
    BY <1>3, <1>7 DEF Hops
  <2> QED  BY <1>2, <2>1, SMT
<1> QED  BY <1>6, <1>8

LEMMA JoinPromise == IInv /\ Join => Promise!Finish
<1> SUFFICES ASSUME IInv, Join PROVE Promise!Finish
  OBVIOUS
<1>1. region = "pass" /\ region' = "done" /\ n_threads' = n_threads
  BY DEF Join
<1>2. Hops = n_threads * Loops
  BY <1>1, JoinedRing DEF Join
<1>3. Hops' = Hops
  BY DEF Join, Hops
<1> QED  BY <1>1, <1>2, <1>3 DEF Promise!Finish

(* cas_lock.c implements HopCount: the timer covers exactly the hops that  *)
(* the elapsed time is divided by, whatever the team and the loop count,   *)
(* and a ring that lost or gained threads never stops the timer at all.    *)
THEOREM Implements == SafeSpec => KeepsPromise
<1>1. IInv /\ [Next]_vars => [Promise!Next]_(Promise!vars)
  <2> SUFFICES ASSUME IInv, [Next]_vars PROVE [Promise!Next]_(Promise!vars)
    OBVIOUS
  <2>1. ASSUME NEW t \in Thread, Count(t) PROVE UNCHANGED Promise!vars
    <3>1. region = "count" /\ region' = "count"
      BY <2>1 DEF Count, IInv, TypeOK, Phases, Passing, Parked, Team, Thread
    <3> QED  BY <3>1 DEF Promise!vars
  <2>2. ASSUME NEW t \in Thread, Enter(t) PROVE UNCHANGED Promise!vars
    BY <2>2 DEF Enter, Promise!vars, Hops
  <2>3. ASSUME NEW t \in Thread, Cas(t) PROVE Promise!Next
    BY <2>3, CasPromise DEF Promise!Next
  <2>4. CASE Fork
    BY <2>4, ForkPromise DEF Promise!Next
  <2>5. CASE Join
    BY <2>5, JoinPromise DEF Promise!Next
  <2>6. CASE UNCHANGED vars
    BY <2>6 DEF vars, Promise!vars, Hops
  <2> QED
    BY <2>1, <2>2, <2>3, <2>4, <2>5, <2>6 DEF Next, ThreadStep, Finished
<1> QED
  BY <1>1, InitPromise, Invariance, PTL DEF SafeSpec, KeepsPromise, Promise!SafeSpec

(* The timer never stops for a ring that is not the second team: a stale   *)
(* n_threads hangs the program and never falsifies its result.             *)
THEOREM StopsOnlyWholeRing == SafeSpec => []RingIsWholeTeam
<1>1. IInv => RingIsWholeTeam
  <2> SUFFICES ASSUME IInv, region = "done" PROVE team = n_threads
    BY DEF RingIsWholeTeam
  <2>1. \A t \in Team : pc[t] = "joined"
    BY DEF IInv, Phases, AllJoined
  <2> QED  BY <2>1, JoinedRing
<1> QED  BY <1>1, Invariance, PTL

=============================================================================

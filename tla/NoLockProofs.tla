---------------------------- MODULE NoLockProofs ----------------------------
(***************************************************************************)
(* Proofs about no_lock.c: its separate read and store of the token are    *)
(* never interrupted by another store, so it implements cas_lock.c and     *)
(* with it the promise of HopCount.                                        *)
(***************************************************************************)
EXTENDS NoLock, TLAPS

(* The only typing the argument needs.                                     *)
PcType == DOMAIN pc = Thread /\ pc = [t \in Thread |-> pc[t]]

IInv == PcType /\ StoreOwnsToken

LEMMA InitInv == Init => IInv
BY DEF Init, IInv, PcType, StoreOwnsToken

LEMMA NextInv == IInv /\ [Next]_vars => IInv'
<1> SUFFICES ASSUME IInv, [Next]_vars PROVE IInv'
  OBVIOUS
<1> USE DEF IInv, PcType, StoreOwnsToken
<1>1. ASSUME NEW t \in Thread, Count(t) PROVE IInv'
  BY <1>1 DEF Count
<1>2. ASSUME NEW t \in Thread, Enter(t) PROVE IInv'
  BY <1>2 DEF Enter
<1>3. ASSUME NEW t \in Thread, Acquire(t) PROVE IInv'
  BY <1>3 DEF Acquire
<1>4. ASSUME NEW t \in Thread, Store(t) PROVE IInv'
  <2>1. \A u \in Thread : pc'[u] # "store"
    BY <1>4 DEF Store, Pass
  <2> QED  BY <1>4, <2>1 DEF Store, Pass
<1>5. CASE Fork
  BY <1>5 DEF Fork
<1>6. CASE Join
  BY <1>6 DEF Join
<1>7. CASE UNCHANGED vars
  BY <1>7 DEF vars
<1> QED
  BY <1>1, <1>2, <1>3, <1>4, <1>5, <1>6, <1>7 DEF Next, ThreadStep, Finished

THEOREM Invariance == SafeSpec => []IInv
BY InitInv, NextInv, PTL DEF SafeSpec

(* Between a thread's read of its own number and its store, the token      *)
(* keeps that number: the unlocked write races with reads only.            *)
THEOREM NoStoreInBetween == SafeSpec => []StoreOwnsToken
<1>1. IInv => StoreOwnsToken
  BY DEF IInv
<1> QED  BY <1>1, Invariance, PTL

-----------------------------------------------------------------------------

LEMMA AtPcExcept ==
  ASSUME IInv, NEW t \in Thread, NEW p, pc' = [pc EXCEPT ![t] = p], p # "store"
  PROVE  AtPc' = [AtPc EXCEPT ![t] = p]
BY DEF AtPc, IInv, PcType

(* no_lock.c implements cas_lock.c.                                        *)
THEOREM Implements == SafeSpec => ActsAtomically
<1>1. Init => Atomic!Init
  BY DEF Init, Atomic!Init, Atomic!Thread, Thread, AtPc
<1>2. IInv /\ [Next]_vars => [Atomic!Next]_(Atomic!vars)
  <2> SUFFICES ASSUME IInv, [Next]_vars PROVE [Atomic!Next]_(Atomic!vars)
    OBVIOUS
  <2>1. ASSUME NEW t \in Thread, Count(t) PROVE Atomic!Count(t)
    BY <2>1, AtPcExcept DEF Count, Atomic!Count, AtPc
  <2>2. ASSUME NEW t \in Thread, Enter(t) PROVE Atomic!Enter(t)
    BY <2>2, AtPcExcept DEF Enter, Atomic!Enter, AtPc, After, Atomic!After
  <2>3. ASSUME NEW t \in Thread, Acquire(t) PROVE UNCHANGED Atomic!vars
    BY <2>3 DEF Acquire, Atomic!vars, IInv, PcType, AtPc
  <2>4. ASSUME NEW t \in Thread, Store(t) PROVE Atomic!Cas(t)
    <3>1. pc[t] = "store" /\ token = t
      BY <2>4 DEF Store, IInv, StoreOwnsToken
    <3>2. AtPc' = [AtPc EXCEPT ![t] = IF i[t] + 1 < Loops THEN "wait" ELSE "joined"]
      BY <2>4, AtPcExcept DEF Store, Pass
    <3> QED  BY <2>4, <3>1, <3>2 DEF Store, Pass, Atomic!Cas, Atomic!Pass, AtPc
  <2>a. Atomic!Team = Team /\ Atomic!Thread = Thread /\ Team \subseteq Thread
    BY DEF Team, Atomic!Team, Thread, Atomic!Thread
  <2>b. \A t \in Team : pc[t] = "joined" => AtPc[t] = "joined"
    BY <2>a DEF AtPc
  <2>5. ASSUME Fork PROVE Atomic!Fork
    <3>1. \A t \in Team : AtPc[t] = "joined"
      BY <2>5, <2>b DEF Fork
    <3>2. AtPc' = [t \in Thread |-> IF t < team' THEN "enter" ELSE "idle"]
      BY <2>5 DEF Fork, AtPc
    <3> QED  BY <2>5, <2>a, <3>1, <3>2 DEF Fork, Atomic!Fork, AtPc
  <2>6. ASSUME Join PROVE Atomic!Join
    <3>1. \A t \in Team : AtPc[t] = "joined"
      BY <2>6, <2>b DEF Join
    <3>2. AtPc' = AtPc
      BY <2>6 DEF Join, AtPc
    <3> QED  BY <2>6, <2>a, <3>1, <3>2 DEF Join, Atomic!Join, AtPc
  <2>7. CASE UNCHANGED vars
    BY <2>7 DEF vars, Atomic!vars, AtPc
  <2> QED
    BY <2>1, <2>2, <2>3, <2>4, <2>5, <2>6, <2>7
       DEF Next, ThreadStep, Finished, Atomic!Next, Atomic!ThreadStep,
           Atomic!Thread, Thread
<1> QED
  BY <1>1, <1>2, Invariance, PTL DEF SafeSpec, ActsAtomically, Atomic!SafeSpec

-----------------------------------------------------------------------------

(* What is proved of cas_lock.c holds of no_lock.c, seen through AtPc.     *)
Proved == INSTANCE CasLockProofs WITH pc <- AtPc

LEMMA SameSpec == ActsAtomically => Proved!SafeSpec
<1>1. Atomic!Init => Proved!Init
  BY DEF Atomic!Init, Proved!Init, Atomic!Thread, Proved!Thread
<1>2. [Atomic!Next]_(Atomic!vars) => [Proved!Next]_(Proved!vars)
  BY DEF Atomic!Next, Proved!Next, Atomic!vars, Proved!vars,
         Atomic!ThreadStep, Proved!ThreadStep, Atomic!Count, Proved!Count,
         Atomic!Enter, Proved!Enter, Atomic!Cas, Proved!Cas,
         Atomic!Pass, Proved!Pass, Atomic!Fork, Proved!Fork,
         Atomic!Join, Proved!Join, Atomic!Finished, Proved!Finished,
         Atomic!After, Proved!After, Atomic!Team, Proved!Team,
         Atomic!Thread, Proved!Thread
<1> QED
  BY <1>1, <1>2, PTL DEF ActsAtomically, Atomic!SafeSpec, Proved!SafeSpec

(* Without a lock, too, no thread of the ring gets two passes ahead.       *)
THEOREM LapsStayBalanced == SafeSpec => []LapBalance
<1>1. Proved!SafeSpec => []Proved!LapBalance
  BY Proved!LapsStayBalanced, TeamAssumption, LoopsAssumption,
     DynamicAssumption, PTL
<1>2. Proved!LapBalance => LapBalance
  BY DEF Proved!LapBalance, LapBalance, Proved!Thread, Thread
<1> QED  BY <1>1, <1>2, Implements, SameSpec, PTL

(* Without a lock, too, the timer stops only when the ring is the team     *)
(* that n_threads counted.                                                 *)
THEOREM StopsOnlyWholeRing == SafeSpec => []RingIsWholeTeam
<1>1. Proved!SafeSpec => []Proved!RingIsWholeTeam
  BY Proved!StopsOnlyWholeRing, TeamAssumption, LoopsAssumption,
     DynamicAssumption, PTL
<1>2. Proved!RingIsWholeTeam => RingIsWholeTeam
  BY DEF Proved!RingIsWholeTeam, RingIsWholeTeam
<1> QED  BY <1>1, <1>2, Implements, SameSpec, PTL
=============================================================================

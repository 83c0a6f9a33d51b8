------------------------- MODULE DetectAliveProofs -------------------------
(***************************************************************************)
(* Proofs about detectAlive.c: the counters of the scan, its window and    *)
(* the addresses it calls, for every base, range and window.               *)
(***************************************************************************)
EXTENDS DetectAlive, TLAPS, FiniteSetTheorems

-----------------------------------------------------------------------------
(* The least number of a set, which the kernel's choice of a descriptor    *)
(* needs.  The well-founded order is that of the intervals 0 .. n - 1.     *)

LEMMA LeastNumber ==
  ASSUME NEW S \in SUBSET Nat, S # {}
  PROVE  \E m \in S : \A n \in S : m <= n
<1> DEFINE Initials == {0 .. n - 1 : n \in S}
<1>1. Initials \subseteq FiniteSubsetsOf(Nat) /\ Initials # {}
  <2>1. ASSUME NEW n \in S PROVE (0 .. n - 1) \in FiniteSubsetsOf(Nat)
    <3>1. n - 1 \in Int
      OBVIOUS
    <3>2. IsFiniteSet(0 .. n - 1)
      BY <3>1, FS_Interval
    <3> QED  BY <3>2 DEF FiniteSubsetsOf
  <2> QED  BY <2>1
<1>2. PICK x \in Initials :
        \A y \in Initials : ~ (<<y, x>> \in StrictSubsetOrdering(Nat))
  <2> HIDE DEF Initials
  <2> QED  BY <1>1, WFMin, FS_StrictSubsetOrderingWellFounded
<1>3. PICK m \in S : x = 0 .. m - 1
  OBVIOUS
<1>4. ASSUME NEW n \in S, n < m PROVE FALSE
  <2>1. (0 .. n - 1) \in Initials
    OBVIOUS
  <2>2. (0 .. n - 1) \subseteq 0 .. m - 1 /\ (0 .. n - 1) # (0 .. m - 1)
    <3>1. n \in 0 .. m - 1 /\ n \notin 0 .. n - 1
      BY <1>4
    <3> QED  BY <1>4, <3>1
  <2>3. <<0 .. n - 1, 0 .. m - 1>> \in StrictSubsetOrdering(Nat)
    BY <2>2 DEF StrictSubsetOrdering
  <2> HIDE DEF Initials
  <2> QED  BY <1>2, <1>3, <2>1, <2>3
<1> QED  BY <1>4

LEMMA LowestIsIn ==
  ASSUME NEW S \in SUBSET Nat, S # {}
  PROVE  Lowest(S) \in S
BY LeastNumber DEF Lowest

-----------------------------------------------------------------------------
(* Division by a base that is a constant of the specification.             *)

LEMMA LastDigit ==
  ASSUME NEW a \in Nat
  PROVE  \E q \in Nat : \E r \in 0 .. Byte - 1 : a = Byte * q + r
<1>1. a = Byte * (a \div Byte) + (a - Byte * (a \div Byte))
  BY ByteAssumption
<1>2. (a - Byte * (a \div Byte)) \in 0 .. Byte - 1 /\ a \div Byte \in Nat
  BY ByteAssumption
<1> QED  BY <1>1, <1>2

LEMMA DigitsOf ==
  ASSUME NEW q \in Nat, NEW r \in 0 .. Byte - 1
  PROVE  Digit(Byte * q + r, 1) = r /\ Digit(Byte * q + r, Byte) = q % Byte
<1>1. (Byte * q + r) \div 1 = Byte * q + r
  BY ByteAssumption
<1>2. (Byte * q + r) % Byte = r
  BY ByteAssumption
<1>3. (Byte * q + r) \div Byte = q
  BY ByteAssumption
<1> QED  BY <1>1, <1>2, <1>3 DEF Digit

(* What follows the last digit is 0 again.                                 *)
LEMMA DigitRolls ==
  ASSUME NEW q \in Nat, q % Byte = Byte - 1
  PROVE  (q + 1) % Byte = 0
<1>1. PICK p \in Nat : \E r \in 0 .. Byte - 1 : q = Byte * p + r
  BY LastDigit
<1>2. q = Byte * p + (Byte - 1)
  BY <1>1, ByteAssumption
<1>3. q + 1 = Byte * (p + 1) + 0
  BY <1>2, ByteAssumption
<1>4. \A x \in Nat : (Byte * x + 0) % Byte = 0
  BY ByteAssumption
<1> QED  BY <1>3, <1>4

(* One jump leaves the broadcast address for a network whose number may be *)
(* the last of its block; the next jump leaves that too, and neither       *)
(* arrives where the other started.                                        *)
LEMMA TargetIsNoBroadcast ==
  ASSUME NEW a \in Nat
  PROVE  /\ Digit(Target(a), 1) # Byte - 1
         /\ Digit(Target(a), Byte) # Byte - 1
         /\ Target(a) \in Nat
<1> DEFINE b == IF Digit(a, 1) = Byte - 1 THEN a + Jump ELSE a
<1>1. PICK q \in Nat : \E r \in 0 .. Byte - 1 : a = Byte * q + r
  BY LastDigit
<1>2. PICK r \in 0 .. Byte - 1 : a = Byte * q + r
  BY <1>1
<1>3. Digit(a, 1) = r
  BY <1>2, DigitsOf
<1>4. \E p \in Nat : \E s \in 0 .. Byte - 2 : b = Byte * p + s
  <2>1. CASE r = Byte - 1
    <3>1. b = Byte * (q + 1) + (Jump - 1)
      BY <1>2, <1>3, <2>1, ByteAssumption
    <3>2. q + 1 \in Nat /\ Jump - 1 \in 0 .. Byte - 2
      BY ByteAssumption
    <3> QED  BY <3>1, <3>2
  <2>2. CASE r # Byte - 1
    BY <1>2, <1>3, <2>2, ByteAssumption
  <2> QED  BY <2>1, <2>2
<1>5. PICK p \in Nat : \E s \in 0 .. Byte - 2 : b = Byte * p + s
  BY <1>4
<1>6. PICK s \in 0 .. Byte - 2 : b = Byte * p + s
  BY <1>5
<1> HIDE DEF b
<1>7. s \in 0 .. Byte - 1 /\ s # Byte - 1 /\ Byte - 1 # 0 /\ p + 1 \in Nat
  BY ByteAssumption
<1>8. Digit(b, 1) = s /\ Digit(b, Byte) = p % Byte
  BY <1>6, <1>7, DigitsOf
<1>9. Target(a) = IF p % Byte = Byte - 1 THEN b + Byte ELSE b
  BY <1>8 DEF Target, b
<1>10. CASE p % Byte = Byte - 1
  <2>1. Target(a) = Byte * (p + 1) + s
    BY <1>6, <1>9, <1>10, ByteAssumption
  <2>2. Digit(Target(a), 1) = s /\ Digit(Target(a), Byte) = (p + 1) % Byte
    BY <2>1, <1>7, DigitsOf
  <2>3. (p + 1) % Byte = 0
    BY <1>10, DigitRolls
  <2>4. Target(a) \in Nat
    BY <1>6, <1>9, <1>10, ByteAssumption
  <2> QED  BY <2>2, <2>3, <2>4, <1>7
<1>11. CASE p % Byte # Byte - 1
  <2>1. Target(a) \in Nat
    BY <1>6, <1>9, <1>11, ByteAssumption
  <2> QED  BY <2>1, <1>7, <1>8, <1>9, <1>11
<1> QED  BY <1>10, <1>11

-----------------------------------------------------------------------------
(* The inductive invariant: the first loop has not closed anything, so its *)
(* own count of calls keeps it within the window.                          *)

FirstWindow == phase = "start" => nclose = 0 /\ nconn <= tried

IInv == TypeOK /\ CountsMatch /\ FirstWindow /\ WindowHeld /\ NoBroadcast

LEMMA Finite ==
  ASSUME NEW s
  PROVE  IsFiniteSet(InState(s)) /\ Cardinality(InState(s)) \in Nat
<1>1. IsFiniteSet(Fd)
  BY FS_Interval, FdAssumption DEF Fd
<1>2. InState(s) \in SUBSET Fd
  BY DEF InState
<1> QED  BY <1>1, <1>2, FS_Subset, FS_CardinalityType

LEMMA InitInv == Init => IInv
<1> SUFFICES ASSUME Init PROVE IInv
  OBVIOUS
<1>1. InState("epoll") = {}
  BY DEF Init, InState
<1>2. Cardinality(InState("epoll")) = 0
  BY <1>1, FS_EmptySet
<1> QED
  BY <1>2, ScanAssumption
     DEF Init, IInv, TypeOK, CountsMatch, FirstWindow, WindowHeld, NoBroadcast

(* do_connect() takes a descriptor nobody uses, and counts it exactly when *)
(* epoll watches it from then on.                                          *)
LEMMA OpenedCounts ==
  ASSUME TypeOK, CountsMatch, NEW s \in {"epoll", "leaked"}, Opened(s)
  PROVE  /\ fds' \in [Fd -> {"free", "epoll", "leaked"}]
         /\ nconn' - nclose = Cardinality(InState("epoll")')
<1>1. /\ Lowest(Free) \in Fd
      /\ fds[Lowest(Free)] = "free"
  <2>1. Free \in SUBSET Nat /\ Free # {}
    BY FdAssumption DEF Opened, Free, Fd
  <2> QED  BY <2>1, LowestIsIn DEF Free
<1>2. fds' = [fds EXCEPT ![Lowest(Free)] = s]
  BY DEF Opened
<1>3. fds' \in [Fd -> {"free", "epoll", "leaked"}]
  BY <1>1, <1>2 DEF TypeOK
<1>4. CASE s = "epoll"
  <2>1. /\ InState("epoll")' = InState("epoll") \cup {Lowest(Free)}
        /\ Lowest(Free) \notin InState("epoll")
    BY <1>1, <1>2, <1>4 DEF InState, TypeOK
  <2>2. Cardinality(InState("epoll")') = Cardinality(InState("epoll")) + 1
    BY <2>1, Finite, FS_AddElement
  <2>3. nconn' = nconn + 1
    BY <1>4 DEF Opened
  <2> QED  BY <1>3, <2>2, <2>3, Finite DEF CountsMatch, TypeOK
<1>5. CASE s = "leaked"
  <2>1. InState("epoll")' = InState("epoll")
    BY <1>1, <1>2, <1>5 DEF InState, TypeOK
  <2>2. nconn' = nconn
    BY <1>5 DEF Opened
  <2> QED  BY <1>3, <2>1, <2>2 DEF CountsMatch
<1> QED  BY <1>4, <1>5

LEMMA ConnectCounts ==
  ASSUME TypeOK, CountsMatch, NoBroadcast, DoConnect
  PROVE  /\ addr' \in Nat
         /\ fds' \in [Fd -> {"free", "epoll", "leaked"}]
         /\ nconn' \in {nconn, nconn + 1}
         /\ nconn' - nclose = Cardinality(InState("epoll")')
         /\ called' \in Nat \cup {None} /\ NoBroadcast'
<1>0. called' \in Nat \cup {None} /\ NoBroadcast'
  <2>1. CASE NotOpened
    BY <2>1 DEF NotOpened, TypeOK, NoBroadcast
  <2>2. CASE called' = Target(addr) /\ ~ InHole(addr)
    <3>1. addr \in Nat
      BY DEF TypeOK
    <3> QED  BY <2>2, <3>1, TargetIsNoBroadcast DEF NoBroadcast, InHole
  <2> QED  BY <2>1, <2>2 DEF DoConnect, Opened
<1>1. addr' \in Nat /\ nconn' \in {nconn, nconn + 1}
  BY DEF DoConnect, TypeOK, Opened, NotOpened
<1>2. CASE Opened("epoll")
  BY <1>0, <1>1, <1>2, OpenedCounts
<1>3. CASE Opened("leaked")
  BY <1>0, <1>1, <1>3, OpenedCounts
<1>4. CASE NotOpened
  BY <1>0, <1>1, <1>4 DEF NotOpened, TypeOK, CountsMatch, InState
<1> QED  BY <1>0, <1>2, <1>3, <1>4 DEF DoConnect

(* What epoll_wait() reports is closed once: these descriptors, and no     *)
(* others, leave epoll.                                                    *)
LEMMA EpollWaitCounts ==
  ASSUME TypeOK, CountsMatch, NEW ready \in SUBSET InState("epoll"),
         EpollWait(ready)
  PROVE  /\ fds' \in [Fd -> {"free", "epoll", "leaked"}]
         /\ nclose' \in Nat /\ nclose' >= nclose
         /\ nconn - nclose' = Cardinality(InState("epoll")')
<1>1. fds' = [f \in Fd |-> IF f \in ready THEN "free" ELSE fds[f]]
  BY DEF EpollWait
<1>2. InState("epoll")' = InState("epoll") \ ready
  BY <1>1 DEF InState
<1>3. IsFiniteSet(ready) /\ Cardinality(ready) \in Nat
  BY Finite, FS_Subset, FS_CardinalityType
<1>4. Cardinality(InState("epoll") \ ready)
        = Cardinality(InState("epoll")) - Cardinality(ready)
  <2>1. InState("epoll") \cap ready = ready
    OBVIOUS
  <2> QED  BY <2>1, Finite, FS_Difference
<1>5. nclose' = nclose + Cardinality(ready)
  BY DEF EpollWait
<1>6. fds' \in [Fd -> {"free", "epoll", "leaked"}]
  BY <1>1 DEF TypeOK
<1>7. nclose' \in Nat /\ nclose' >= nclose
  BY <1>3, <1>5 DEF TypeOK
<1>8. nconn - nclose' = Cardinality(InState("epoll")) - Cardinality(ready)
  BY <1>3, <1>5, Finite DEF TypeOK, CountsMatch
<1> QED  BY <1>2, <1>4, <1>6, <1>7, <1>8

LEMMA NextInv == IInv /\ [Next]_vars => IInv'
<1> SUFFICES ASSUME IInv, [Next]_vars PROVE IInv'
  OBVIOUS
<1>0. NoBroadcast' /\ called' \in Nat \cup {None}
  <2>1. CASE DoConnect
    BY <2>1, ConnectCounts DEF IInv
  <2>2. CASE UNCHANGED called
    BY <2>2 DEF IInv, TypeOK, NoBroadcast
  <2> QED
    BY <2>1, <2>2 DEF Next, vars, Start, Started, Fill, Filled, Interrupted, Return, Finished,
       EpollWait
<1> USE <1>0, ScanAssumption DEF IInv, TypeOK, CountsMatch, FirstWindow, WindowHeld
<1>1. CASE Start
  <2>1. /\ phase' = "start" /\ nclose' = nclose /\ nclose = 0
        /\ tried' = tried + 1 /\ tried < Window /\ nconn <= tried
    BY <1>1 DEF Start
  <2>2. TypeOK' /\ CountsMatch'
    BY <1>1, <2>1, ConnectCounts DEF Start
  <2>3. nconn' <= tried'
    BY <1>1, <2>1, ConnectCounts DEF Start
  <2>4. ASSUME NEW n \in Nat, NEW i \in 0 .. Window, n <= i
        PROVE  n - 0 <= Window
    BY <2>4
  <2>5. WindowHeld'
    BY <2>1, <2>2, <2>3, <2>4
  <2> QED  BY <2>1, <2>2, <2>3, <2>5
<1>2. CASE Fill
  BY <1>2, ConnectCounts DEF Fill, HasRoom
<1>3. ASSUME NEW ready \in SUBSET InState("epoll"), EpollWait(ready)
      PROVE  IInv'
  <2>1. addr' = addr /\ tried' = tried /\ nconn' = nconn
    BY <1>3 DEF EpollWait
  <2>2. phase' \in {"wait", "fill"}
    BY <1>3 DEF EpollWait
  <2> QED  BY <1>3, <2>1, <2>2, EpollWaitCounts
<1>4. CASE Started
  BY <1>4 DEF Started, InState
<1>5. CASE Filled
  BY <1>5 DEF Filled, InState
<1>6. CASE Interrupted
  BY <1>6 DEF Interrupted, InState
<1>7. CASE Return
  BY <1>7 DEF Return, InState
<1>8. CASE UNCHANGED vars
  BY <1>8 DEF vars, InState
<1> QED
  BY <1>1, <1>2, <1>3, <1>4, <1>5, <1>6, <1>7, <1>8 DEF Next, Finished

(* Types, counters and window of detectAlive.c together.                   *)
THEOREM Invariance == SafeSpec => []IInv
BY InitInv, NextInv, PTL DEF SafeSpec

(* The state of the scan is well typed.                                    *)
THEOREM TypeCorrect == SafeSpec => []TypeOK
<1>1. IInv => TypeOK
  BY DEF IInv
<1> QED  BY <1>1, Invariance, PTL

(* nconn - nclose, all the loop conditions go by, is the number of         *)
(* descriptors in epoll.                                                   *)
THEOREM CountersTell == SafeSpec => []CountsMatch
<1>1. IInv => CountsMatch
  BY DEF IInv
<1> QED  BY <1>1, Invariance, PTL

(* Never more connections in flight than one epoll_wait() can report.      *)
THEOREM StaysInWindow == SafeSpec => []WindowHeld
<1>1. IInv => WindowHeld
  BY DEF IInv
<1> QED  BY <1>1, Invariance, PTL

(* No connect() to an address with a last digit of Byte - 1, or one before *)
(* it, or into the hole, whatever the base and the jump.                   *)
THEOREM NeverBroadcasts == SafeSpec => []NoBroadcast
<1>1. IInv => NoBroadcast
  BY DEF IInv
<1> QED  BY <1>1, Invariance, PTL
=============================================================================

--------------------------- MODULE ProgramsProofs ---------------------------
(***************************************************************************)
(* Proofs about the STREAM programs and the small programs, each by an     *)
(* inductive invariant of its own.                                         *)
(***************************************************************************)
EXTENDS Programs, Sequences, TLAPS, FiniteSetTheorems, SequenceTheorems

(* A step of the program that runs is no step of the others.               *)
LEMMA Frame ==
  ASSUME [ProgramsNext]_programsVars
  PROVE  /\ [Next]_vars
         /\ [Freq!Next]_freqVars
         /\ [Idle!Next]_idleVars
         /\ [Parser!Next]_resultVars
         /\ [Touch!Next]_touchVars
         /\ [Zones!Next]_zoneVars
         /\ [Mem!Next]_memVars
         /\ [Tlb!Next]_tlbVars
BY DEF ProgramsNext, programsVars

-----------------------------------------------------------------------------
(* Numbers, and functions that are defined by recursion on them.           *)

(* Division with remainder.                                                *)
LEMMA Euclid ==
  ASSUME NEW a \in Nat, NEW b \in Nat \ {0}
  PROVE  /\ a \div b \in Nat /\ (a % b) \in 0 .. b - 1
         /\ a = b * (a \div b) + (a % b)
OBVIOUS

LEMMA Monotone ==
  ASSUME NEW a \in Nat, NEW b \in Nat, NEW c \in Nat, a <= b
  PROVE  c * a <= c * b /\ c * a \in Nat /\ c * b \in Nat
OBVIOUS

(* What is a divisor further on is a quotient further on.                  *)
LEMMA LaterQuotient ==
  ASSUME NEW x \in Nat, NEW y \in Nat, NEW b \in Nat \ {0}, x + b <= y
  PROVE  x \div b < y \div b
<1>1. PICK r \in 0 .. b - 1 : x \div b \in Nat /\ x = b * (x \div b) + r
  BY Euclid
<1>2. PICK q \in 0 .. b - 1 : y \div b \in Nat /\ y = b * (y \div b) + q
  BY Euclid
<1> DEFINE u == x \div b
           v == y \div b
<1>3. u \in Nat /\ v \in Nat /\ x = b * u + r /\ y = b * v + q
  BY <1>1, <1>2
<1> HIDE DEF u, v
<1>4. SUFFICES ASSUME v <= u PROVE FALSE
  BY <1>3 DEF u, v
<1>5. b * v <= b * u /\ b * v \in Nat /\ b * u \in Nat
  BY <1>3, <1>4, Monotone
<1> QED  BY <1>3, <1>5

LEMMA LeastNumber ==
  ASSUME NEW S \in SUBSET Nat, S # {}
  PROVE  \E m \in S : \A n \in S : m <= n
<1> DEFINE Initials == {0 .. n - 1 : n \in S}
<1>1. Initials \subseteq FiniteSubsetsOf(Nat) /\ Initials # {}
  <2>1. ASSUME NEW n \in S PROVE (0 .. n - 1) \in FiniteSubsetsOf(Nat)
    <3>1. n - 1 \in Int
      OBVIOUS
    <3>2. IsFiniteSet(0 .. n - 1)
      BY <3>1, FS_Interval
    <3> QED  BY <3>2 DEF FiniteSubsetsOf
  <2> QED  BY <2>1
<1>2. PICK x \in Initials :
        \A y \in Initials : ~ (<<y, x>> \in StrictSubsetOrdering(Nat))
  <2> HIDE DEF Initials
  <2> QED  BY <1>1, WFMin, FS_StrictSubsetOrderingWellFounded
<1>3. PICK m \in S : x = 0 .. m - 1
  OBVIOUS
<1>4. ASSUME NEW n \in S, n < m PROVE FALSE
  <2>1. (0 .. n - 1) \in Initials
    OBVIOUS
  <2>2. (0 .. n - 1) \subseteq 0 .. m - 1 /\ (0 .. n - 1) # (0 .. m - 1)
    <3>1. n \in 0 .. m - 1 /\ n \notin 0 .. n - 1
      BY <1>4
    <3> QED  BY <1>4, <3>1
  <2>3. <<0 .. n - 1, 0 .. m - 1>> \in StrictSubsetOrdering(Nat)
    BY <2>2 DEF StrictSubsetOrdering
  <2> HIDE DEF Initials
  <2> QED  BY <1>2, <1>3, <2>1, <2>3
<1> QED  BY <1>4

(* f is the recursion from a by F, up to n.                                *)
Recursion(f, n, a, F) ==
  f[0] = a /\ \A i \in 1 .. n : f[i] = F[i][f[i - 1]]

LEMMA RecursionAgrees ==
  ASSUME NEW a, NEW F, NEW n \in Nat, NEW u \in Nat, NEW f, NEW g,
         Recursion(f, n, a, F), Recursion(g, u, a, F), n <= u
  PROVE  \A i \in 0 .. n : f[i] = g[i]
<1> DEFINE Differ == {i \in 0 .. n : f[i] # g[i]}
<1> SUFFICES ASSUME Differ # {} PROVE FALSE
  OBVIOUS
<1>1. PICK m \in Differ : \A i \in Differ : m <= i
  <2>1. Differ \in SUBSET Nat
    OBVIOUS
  <2> HIDE DEF Differ
  <2> QED  BY <2>1, LeastNumber
<1>2. m # 0
  BY <1>1 DEF Recursion
<1>3. m - 1 \in 0 .. n /\ m - 1 \notin Differ /\ m \in 1 .. n /\ m \in 1 .. u
  BY <1>1, <1>2
<1> QED  BY <1>1, <1>3 DEF Recursion

StepsIn(V) == [Nat -> [V -> V]]
HasRecursion(V, a, F) ==
  \E g \in [Nat -> V] : g[0] = a /\ \A n \in Nat \ {0} : g[n] = F[n][g[n - 1]]

(* There is a function of numbers for every recursion: the library states  *)
(* it for an operator, the provers need it for a function.                 *)
LEMMA RecursionDefines ==
  ASSUME NEW V, NEW a \in V, NEW F \in StepsIn(V)
  PROVE  HasRecursion(V, a, F)
<1> DEFINE Partial(n) == {f \in [0 .. n -> V] : Recursion(f, n, a, F)}
           Missing == {n \in Nat : Partial(n) = {}}
<1> USE DEF StepsIn
<1>1. Missing = {}
  <2> SUFFICES ASSUME Missing # {} PROVE FALSE
    OBVIOUS
  <2>1. PICK m \in Missing : \A n \in Missing : m <= n
    BY LeastNumber
  <2>2. m # 0
    <3>1. [i \in 0 .. 0 |-> a] \in Partial(0)
      BY DEF Recursion
    <3> QED  BY <3>1
  <2>3. PICK f \in [0 .. m - 1 -> V] : Recursion(f, m - 1, a, F)
    <3>1. m - 1 \in Nat /\ m - 1 \notin Missing
      BY <2>1, <2>2
    <3> QED  BY <3>1
  <2> DEFINE g == [i \in 0 .. m |-> IF i = m THEN F[m][f[m - 1]] ELSE f[i]]
  <2>4. g \in [0 .. m -> V]
    BY <2>2, <2>3
  <2>5. Recursion(g, m, a, F)
    <3>1. g[0] = a
      BY <2>2, <2>3 DEF Recursion
    <3>2. ASSUME NEW i \in 1 .. m PROVE g[i] = F[i][g[i - 1]]
      BY <2>2, <2>3 DEF Recursion
    <3> HIDE DEF g
    <3> QED  BY <3>1, <3>2 DEF Recursion
  <2> QED  BY <2>4, <2>5
<1> DEFINE part == [n \in Nat |-> CHOOSE f \in Partial(n) : TRUE]
           g == [n \in Nat |-> part[n][n]]
<1>2. ASSUME NEW n \in Nat
      PROVE  part[n] \in [0 .. n -> V] /\ Recursion(part[n], n, a, F)
  <2>1. Partial(n) # {}
    BY <1>1
  <2>2. part[n] \in Partial(n)
    BY <2>1
  <2> HIDE DEF part
  <2> QED  BY <2>2
<1> HIDE DEF part
<1>3. g \in [Nat -> V]
  BY <1>2
<1>4. ASSUME NEW n \in Nat, n # 0 PROVE g[n] = F[n][g[n - 1]]
  <2>1. n - 1 \in Nat /\ n - 1 <= n /\ n - 1 \in 0 .. n - 1 /\ n \in 1 .. n
    BY <1>4
  <2>2. part[n][n - 1] = part[n - 1][n - 1]
    BY <1>2, <2>1, RecursionAgrees
  <2>3. part[n][n] = F[n][part[n][n - 1]]
    BY <1>2, <2>1 DEF Recursion
  <2> QED  BY <2>1, <2>2, <2>3
<1>5. g[0] = a
  BY <1>2 DEF Recursion
<1> HIDE DEF g
<1> QED  BY <1>3, <1>4, <1>5 DEF HasRecursion

-----------------------------------------------------------------------------
(* idle_switch_lat.c: c2 is what has been told of the thread, and the      *)
(* thread's id is the only one a path is ever made of.                     *)

IdleInv ==
  /\ tid \in {0, Idle!Sleeper} /\ path \in {0, Idle!Sleeper}
  /\ slices \in [{Idle!Main, Idle!Sleeper} -> Nat]
  /\ c1 \in Nat /\ c2 \in Nat /\ c3 \in Nat
  /\ told = c2 /\ c2 <= c1 /\ c1 <= slices[Idle!Sleeper]
  /\ IF phase = "print" THEN path = Idle!Sleeper ELSE c1 = c2

LEMMA IdleInit == Idle!Init => IdleInv
BY DEF Idle!Init, IdleInv, Idle!Sleeper, Idle!Main

LEMMA IdleStep == IdleInv /\ [Idle!Next]_idleVars => IdleInv'
<1> SUFFICES ASSUME IdleInv, [Idle!Next]_idleVars PROVE IdleInv'
  OBVIOUS
<1> USE DEF IdleInv, Idle!Sleeper, Idle!Main
<1>1. CASE Idle!Begin
  BY <1>1 DEF Idle!Begin
<1>2. CASE Idle!Wake
  BY <1>2 DEF Idle!Wake
<1>3. CASE Idle!NoFile
  BY <1>3 DEF Idle!NoFile
<1>4. CASE Idle!Scan
  BY <1>4 DEF Idle!Scan
<1>5. CASE Idle!Tell
  BY <1>5 DEF Idle!Tell
<1>6. ASSUME NEW t \in {Idle!Main, Idle!Sleeper}, Idle!Schedule(t)
      PROVE  IdleInv'
  BY <1>6 DEF Idle!Schedule
<1>7. CASE UNCHANGED idleVars
  BY <1>7 DEF idleVars
<1> QED
  BY <1>1, <1>2, <1>3, <1>4, <1>5, <1>6, <1>7 DEF Idle!Next

(* What idle_switch_lat.c prints adds up, for any number of samples and    *)
(* whenever the thread stores its id.                                      *)
THEOREM DeltasAreWhole == ProgramsSpec => []DeltasAddUp
<1>1. ProgramsInit => IdleInv
  BY IdleInit DEF ProgramsInit
<1>2. IdleInv /\ [ProgramsNext]_programsVars => IdleInv'
  BY Frame, IdleStep
<1>3. IdleInv => DeltasAddUp
  BY DEF IdleInv, DeltasAddUp, Idle!DeltasAddUp, Idle!Sleeper, Idle!Main
<1> QED  BY <1>1, <1>2, <1>3, PTL DEF ProgramsSpec

-----------------------------------------------------------------------------
(* memOpsLat.c: an array that madvise() has been called for is given back  *)
(* as a whole, or its last page is not given back at all.                  *)

Array == 1 .. 3

MemTypes ==
  /\ elements \in Nat \ {0} /\ knows \in BOOLEAN
  /\ origin \in [Array -> {"none", "huge", "map", "heap"}]
  /\ pages \in [Array -> [Mem!Page -> {"fresh", "dirty", "lazy", "gone"}]]
  /\ doing \in {"alloc", "fill", "advise", "free", "end", "crash"}
  /\ which \in Array /\ (doing = "fill" => which = 1)

Whole(x) == knows /\ origin[x] # "huge" /\ Mem!Bytes < IntMax
EndPage == Mem!Last(Mem!Bytes)

Pending ==
  doing = "advise" =>
    \A x \in Array : x >= which => \A p \in Mem!Page : pages[x][p] = "dirty"

Advised ==
  \A x \in Array : doing = "free" \/ (doing = "advise" /\ x < which) =>
    /\ Whole(x) => Mem!GivenBack(x)
    /\ ~ Whole(x) => pages[x][EndPage] = "dirty"

SmallOnHeap ==
  \A x \in Array : origin[x] = "heap" => Mem!Bytes < MapThreshold

FreedAreNormal ==
  doing = "free" => \A x \in Array : x < which => origin[x] # "huge"

CrashIsExplained ==
  doing = "crash" =>
    \/ origin[which] = "huge"
    \/ /\ knows /\ Mem!Bytes < IntMax
       /\ Mem!Bytes < MapThreshold /\ Mem!Bytes % PageSize # 0

MemInv == /\ MemTypes /\ Pending /\ Advised /\ SmallOnHeap /\ FreedAreNormal
          /\ CrashIsExplained

LEMMA MemInit == ProgramsInit => MemInv
<1> SUFFICES ASSUME ProgramsInit PROVE MemInv
  OBVIOUS
<1>1. PICK size \in Nat \ {0} :
        \E huge \in BOOLEAN, new \in BOOLEAN : Mem!Start(size, huge, new)
  <2>1. Mem!Init \/ Mem!Start(1, FALSE, TRUE)
    BY DEF ProgramsInit
  <2>2. ArraySizes \subseteq Nat \ {0}
    BY SizesAssumption DEF Mem!Sizes
  <2>3. 1 \in Nat \ {0} /\ FALSE \in BOOLEAN /\ TRUE \in BOOLEAN
    OBVIOUS
  <2> QED  BY <2>1, <2>2, <2>3, Zenon DEF Mem!Init
<1> QED
  BY <1>1 DEF Mem!Start, MemInv, MemTypes, Pending, Advised, SmallOnHeap,
              FreedAreNormal, CrashIsExplained, Array

(* What the proof needs of the sizes.                                      *)
LEMMA MemSizes ==
  ASSUME elements \in Nat \ {0}
  PROVE  /\ PageSize \in Nat \ {0} /\ IntMax \in Nat \ {0} /\ PageSize < IntMax
         /\ MapThreshold \in Nat
         /\ Mem!Bytes \in Nat \ {0}
         /\ EndPage \in Nat /\ Mem!Page = 0 .. EndPage /\ EndPage \in Mem!Page
<1>1. /\ PageSize \in Nat \ {0} /\ IntMax \in Nat \ {0} /\ PageSize < IntMax
      /\ MapThreshold \in Nat /\ TypeSize \in Nat \ {0}
  BY SizesAssumption DEF Mem!Sizes
<1>2. ASSUME NEW x \in Nat \ {0}, NEW y \in Nat \ {0} PROVE x * y \in Nat \ {0}
  BY <1>2
<1>3. Mem!Bytes \in Nat \ {0}
  BY <1>1, <1>2 DEF Mem!Bytes
<1>4. EndPage \in Nat
  <2>1. Mem!Bytes - 1 \in Nat
    BY <1>3
  <2> QED  BY <1>1, <2>1, Euclid DEF EndPage, Mem!Last
<1>5. Mem!Page = 0 .. EndPage
  BY DEF Mem!Page, EndPage
<1> QED  BY <1>1, <1>3, <1>4, <1>5

(* A size that is an int comes through the cut to 32 bits as it is; of any *)
(* other so little is left that the last page is not reached.              *)
LEMMA LenIsBytes ==
  ASSUME elements \in Nat \ {0}
  PROVE  /\ Mem!Bytes < IntMax => Mem!len = Mem!Bytes
         /\ Mem!Bytes >= IntMax /\ ~ (Mem!len <= 0) => Mem!Last(Mem!len) < EndPage
<1> DEFINE b == Mem!Bytes
           q == (b + IntMax) \div (2 * IntMax)
           r == (b + IntMax) % (2 * IntMax)
<1>1. IntMax \in Nat \ {0} /\ PageSize \in Nat \ {0} /\ PageSize < IntMax /\ b \in Nat \ {0}
  BY MemSizes
<1>2. Mem!len = r - IntMax
  BY DEF Mem!len
<1>3. /\ q \in Nat /\ r \in 0 .. 2 * IntMax - 1
      /\ b + IntMax = (2 * IntMax) * q + r
  <2>1. b + IntMax \in Nat /\ 2 * IntMax \in Nat \ {0}
    BY <1>1
  <2> QED  BY <2>1, Euclid
<1> HIDE DEF q, r, b
<1>4. ASSUME b < IntMax PROVE r - IntMax = b
  <2>1. CASE q = 0
    BY <1>1, <1>3, <2>1
  <2>2. CASE q >= 1
    <3>1. (2 * IntMax) * 1 <= (2 * IntMax) * q /\ (2 * IntMax) * q \in Nat
      BY <1>1, <1>3, <2>2, Monotone
    <3> QED  BY <1>1, <1>3, <1>4, <3>1
  <2> QED  BY <1>3, <2>1, <2>2
<1>5. ASSUME b >= IntMax PROVE r - IntMax + 2 * IntMax <= b
  <2>1. CASE q = 0
    BY <1>1, <1>3, <1>5, <2>1
  <2>2. CASE q >= 1
    <3>1. (2 * IntMax) * 1 <= (2 * IntMax) * q /\ (2 * IntMax) * q \in Nat
      BY <1>1, <1>3, <2>2, Monotone
    <3> QED  BY <1>1, <1>3, <3>1
  <2> QED  BY <1>3, <2>1, <2>2
<1>6. ASSUME b >= IntMax, ~ (Mem!len <= 0) PROVE Mem!Last(Mem!len) < EndPage
  <2>1. Mem!len - 1 \in Nat /\ b - 1 \in Nat /\ (Mem!len - 1) + PageSize <= b - 1
    BY <1>1, <1>2, <1>3, <1>5, <1>6
  <2>2. (Mem!len - 1) \div PageSize < (b - 1) \div PageSize
    BY <1>1, <2>1, LaterQuotient
  <2> QED  BY <2>2 DEF Mem!Last, EndPage, b
<1> QED  BY <1>2, <1>4, <1>6 DEF b

LEMMA AdviseInv == MemInv /\ Mem!Advise => MemInv'
<1> SUFFICES ASSUME MemInv, Mem!Advise PROVE MemInv'
  OBVIOUS
<1>1. /\ elements' = elements /\ origin' = origin /\ doing = "advise"
      /\ knows' = knows
      /\ Mem!Bytes' = Mem!Bytes /\ Mem!Page' = Mem!Page /\ EndPage' = EndPage
      /\ \/ which < 3 /\ which' = which + 1 /\ doing' = "advise"
         \/ which = 3 /\ which' = 1 /\ doing' = "free"
  BY DEF Mem!Advise, Mem!Then, Mem!Bytes, Mem!Page, Mem!Last, EndPage,
         MemInv, MemTypes, Array
<1>2. /\ EndPage \in Mem!Page /\ Mem!Page = 0 .. EndPage /\ EndPage \in Nat
      /\ Mem!Bytes \in Nat \ {0} /\ IntMax \in Nat
  BY MemSizes DEF MemInv, MemTypes
<1>3. MemTypes'
  BY <1>1 DEF Mem!Advise, MemInv, MemTypes, Array
<1>4. ASSUME NEW x \in Array, x # which PROVE pages'[x] = pages[x]
  BY <1>4 DEF Mem!Advise, MemInv, MemTypes, Array
<1>5. \A p \in Mem!Page : pages[which][p] = "dirty"
  BY <1>1 DEF MemInv, MemTypes, Pending, Array
<1>6. ASSUME Whole(which) PROVE \A p \in Mem!Page : pages'[which][p] \in {"lazy", "gone"}
  <2>1. Mem!len = Mem!Bytes
    BY <1>6, LenIsBytes DEF Whole, MemInv, MemTypes
  <2>2. ~ Mem!Refused
    BY <1>2, <1>6, <2>1 DEF Mem!Refused, Whole
  <2>3. pages'[which] = [p \in Mem!Page |-> IF p <= Mem!Last(Mem!len) THEN "lazy"
                                                               ELSE pages[which][p]]
    BY <2>2 DEF Mem!Advise, MemInv, MemTypes
  <2>4. \A p \in Mem!Page : p <= Mem!Last(Mem!len)
    BY <1>2, <2>1 DEF EndPage
  <2> QED  BY <2>3, <2>4
<1>7. ASSUME ~ Whole(which) PROVE pages'[which][EndPage] = "dirty"
  <2>1. CASE Mem!Refused
    BY <1>2, <1>5, <2>1 DEF Mem!Advise
  <2>2. CASE ~ Mem!Refused
    <3>1. Mem!Bytes >= IntMax /\ ~ (Mem!len <= 0)
      BY <1>2, <1>7, <2>2 DEF Mem!Refused, Whole
    <3>2. Mem!Last(Mem!len) < EndPage
      BY <3>1, LenIsBytes DEF MemInv, MemTypes
    <3>3. Mem!Last(Mem!len) \in Int
      BY MemSizes, <2>2 DEF Mem!Last, Mem!len, MemInv, MemTypes
    <3>4. ~ (EndPage <= Mem!Last(Mem!len))
      BY <1>2, <3>2, <3>3
    <3>5. pages'[which][EndPage] = pages[which][EndPage]
      BY <1>2, <2>2, <3>4 DEF Mem!Advise, MemInv, MemTypes
    <3> QED  BY <1>2, <1>5, <3>5
  <2> QED  BY <2>1, <2>2
<1>8. Pending'
  BY <1>1, <1>4 DEF MemInv, MemTypes, Pending, Array
<1>9. Advised'
  <2> SUFFICES ASSUME NEW x \in Array, x <= which
               PROVE  /\ Whole(x) => \A p \in Mem!Page : pages'[x][p] \in {"lazy", "gone"}
                      /\ ~ Whole(x) => pages'[x][EndPage] = "dirty"
    BY <1>1 DEF Advised, Whole, Mem!GivenBack, Array, MemInv, MemTypes
  <2>1. CASE x = which
    BY <1>6, <1>7, <2>1
  <2>2. CASE x < which
    <3>1. pages'[x] = pages[x]
      BY <1>4, <2>2 DEF MemInv, MemTypes, Array
    <3>2. /\ Whole(x) => \A p \in Mem!Page : pages[x][p] \in {"lazy", "gone"}
          /\ ~ Whole(x) => pages[x][EndPage] = "dirty"
      BY <1>1, <2>2 DEF MemInv, Advised, Mem!GivenBack
    <3> QED  BY <3>1, <3>2
  <2> QED  BY <2>1, <2>2 DEF MemInv, MemTypes, Array
<1>10. SmallOnHeap' /\ FreedAreNormal' /\ CrashIsExplained'
  BY <1>1 DEF MemInv, MemTypes, SmallOnHeap, FreedAreNormal, CrashIsExplained, Array
<1> QED
  BY <1>3, <1>8, <1>9, <1>10 DEF MemInv

(* Only a whole array has its last page gone.                              *)
LEMMA CrashInv == MemInv /\ Mem!Crash => MemInv'
<1> SUFFICES ASSUME MemInv, Mem!Crash PROVE MemInv'
  OBVIOUS
<1>1. /\ doing = "free" /\ doing' = "crash" /\ Mem!Broken
      /\ UNCHANGED <<elements, forced, knows, origin, pages, which>>
  BY DEF Mem!Crash
<1>2. ASSUME NEW x \in Array, Mem!HeaderGone(x)
      PROVE  /\ knows /\ Mem!Bytes < IntMax
             /\ Mem!Bytes < MapThreshold /\ Mem!Bytes % PageSize # 0
  <2>1. Whole(x)
    BY <1>1, <1>2 DEF Mem!HeaderGone, MemInv, Advised, EndPage
  <2> QED  BY <1>2, <2>1 DEF Mem!HeaderGone, Whole, MemInv, SmallOnHeap
<1>3. CrashIsExplained'
  <2>1. origin[which] = "huge" \/ \E x \in Array : Mem!HeaderGone(x)
    BY <1>1 DEF Mem!Broken, MemInv, MemTypes, Array
  <2> QED  BY <1>1, <1>2, <2>1 DEF CrashIsExplained, Mem!Bytes
<1>4. MemTypes'
  BY <1>1 DEF MemInv, MemTypes, Mem!Page, Mem!Last, Mem!Bytes
<1> QED
  BY <1>1, <1>3, <1>4 DEF MemInv, Pending, Advised, SmallOnHeap, FreedAreNormal,
                          Mem!Bytes

LEMMA MemStep == MemInv /\ [Mem!Next]_memVars => MemInv'
<1> SUFFICES ASSUME MemInv, [Mem!Next]_memVars PROVE MemInv'
  OBVIOUS
<1> USE DEF MemInv, MemTypes, Pending, Advised, SmallOnHeap, FreedAreNormal,
            CrashIsExplained, Array, Mem!Page, Mem!Last, Mem!Bytes, EndPage,
            Whole, Mem!GivenBack
<1>1. CASE Mem!HugePage
  BY <1>1 DEF Mem!HugePage, Mem!Then
<1>2. CASE Mem!NormalPage
  <2>1. Mem!Bytes \in Int /\ MapThreshold \in Int
    BY SizesAssumption DEF Mem!Sizes
  <2>2. ~ (Mem!Bytes >= MapThreshold) => Mem!Bytes < MapThreshold
    BY <2>1
  <2>3. MemTypes' /\ Pending' /\ Advised' /\ FreedAreNormal' /\ CrashIsExplained'
    BY <1>2 DEF Mem!NormalPage, Mem!Then
  <2>4. SmallOnHeap'
    BY <1>2, <2>2 DEF Mem!NormalPage, Mem!Then
  <2> QED  BY <2>3, <2>4
<1>3. CASE Mem!NoMemory
  BY <1>3 DEF Mem!NoMemory
<1>4. CASE Mem!Fill
  <2>1. /\ doing' = "advise" /\ which' = which /\ elements' = elements
        /\ origin' = origin /\ knows' = knows /\ which = 1
    BY <1>4 DEF Mem!Fill
  <2>2. MemTypes'
    BY <1>4, <2>1 DEF Mem!Fill
  <2>3. Pending'
    BY <1>4, <2>1 DEF Mem!Fill
  <2> QED  BY <1>4, <2>1, <2>2, <2>3 DEF Mem!Fill
<1>5. CASE Mem!Advise
  BY <1>5, AdviseInv
<1>6. CASE Mem!Free
  <2>1. origin[which] # "huge"
    BY <1>6 DEF Mem!Free, Mem!Broken
  <2> QED  BY <1>6, <2>1 DEF Mem!Free, Mem!Then
<1>7. CASE Mem!Crash
  BY <1>7, CrashInv
<1>8. ASSUME NEW x \in Array, NEW p \in Mem!Page, Mem!Reclaim(x, p)
      PROVE  MemInv'
  BY <1>8 DEF Mem!Reclaim
<1>9. CASE UNCHANGED memVars
  BY <1>9 DEF memVars
<1> QED
  BY <1>1, <1>2, <1>3, <1>4, <1>5, <1>6, <1>7, <1>8, <1>9
     DEF Mem!Next, Mem!Finished, Mem!vars, memVars

(* For every size of the arrays and of the pages and on kernels with and   *)
(* without MADV_FREE: what memOpsLat.c frees has been given back exactly   *)
(* if the kernel takes the advice and the size is an int, and the frees    *)
(* break off only at huge pages or heap bookkeeping that has been dropped. *)
THEOREM FreesGivenBack == ProgramsSpec => []PagesGivenBack
<1>1. ProgramsInit => MemInv
  BY MemInit
<1>2. MemInv /\ [ProgramsNext]_programsVars => MemInv'
  BY Frame, MemStep
<1>3. MemInv => PagesGivenBack
  <2> SUFFICES ASSUME MemInv PROVE PagesGivenBack
    OBVIOUS
  <2>1. EndPage \in Mem!Page
    BY MemSizes DEF MemInv, MemTypes
  <2>2. ASSUME doing = "free", NEW x \in which .. 3
        PROVE  Mem!GivenBack(x) <=> Whole(x)
    <3>1. x \in Array
      BY <2>2 DEF MemInv, MemTypes, Array
    <3> QED  BY <2>1, <2>2, <3>1 DEF MemInv, Advised, Mem!GivenBack
  <2>3. ASSUME doing = "free", NEW x \in 1 .. which - 1
        PROVE  origin[x] # "huge"
    <3>1. x \in Array /\ x < which
      BY <2>3 DEF MemInv, MemTypes, Array
    <3> QED  BY <2>3, <3>1 DEF MemInv, FreedAreNormal
  <2> QED
    BY <2>2, <2>3 DEF MemInv, CrashIsExplained, Whole, PagesGivenBack,
                      Mem!PagesGivenBack
<1> QED  BY <1>1, <1>2, <1>3, PTL DEF ProgramsSpec

-----------------------------------------------------------------------------
(* pagefault_test.cpp, in pages: thread t has the PerRun pages from        *)
(* FirstOf(t) on, of which it has touched the first Behind(t).             *)

At(p) == p * PageSize
PerRun == (Size \div nproc) \div PageSize
FirstOf(t) == t * PerRun
Behind(t) == off[t] \div PageSize

TouchStates == {"none", "created", "touching", "done", "aborted"}

TouchTypes ==
  /\ nproc \in Nat \ {0} /\ 0 .. nproc - 1 \subseteq Touch!Thread
  /\ created \in 0 .. nproc
  /\ joined \in BOOLEAN
  /\ state \in [Touch!Thread -> TouchStates]
  /\ capture \in [Touch!Thread -> Nat]
  /\ ptr \in [Touch!Thread -> Nat]
  /\ off \in [Touch!Thread -> Nat]
  /\ touches \in [Touch!Page -> Nat]

(* A run begins where the one before ends, whoever has begun by then.      *)
RunsFollow ==
  /\ cptr = At(FirstOf(created))
  /\ \A t \in Touch!Thread :
       /\ state[t] = "none" <=> t >= created
       /\ t < created => capture[t] = At(FirstOf(t))

RunProgress ==
  \A t \in Touch!Thread :
    /\ Behind(t) \in 0 .. PerRun /\ off[t] = At(Behind(t))
    /\ state[t] \in {"none", "created"} => Behind(t) = 0
    /\ state[t] \in {"touching", "done"} => ptr[t] = At(FirstOf(t) + Behind(t))
    /\ state[t] = "done" => Behind(t) = PerRun

TouchedBy(t, p) == FirstOf(t) <= p /\ p < FirstOf(t) + Behind(t)

TouchesAreRuns ==
  \A p \in Touch!Page :
    touches[p] = IF \E t \in Touch!Thread : TouchedBy(t, p) THEN 1 ELSE 0

AllJoined ==
  joined => created = nproc /\ \A t \in 0 .. nproc - 1 : state[t] = "done"

TouchInv ==
  TouchTypes /\ RunsFollow /\ RunProgress /\ TouchesAreRuns /\ AllJoined

(* The pages of n equal runs, of a mapping of p pages of s bytes: all but  *)
(* fewer than n, although the code divides the bytes first.                *)
LEMMA EqualRuns ==
  ASSUME NEW n \in Nat \ {0}, NEW s \in Nat \ {0}, NEW p \in Nat
  PROVE  LET r == ((s * p) \div n) \div s
         IN  r \in Nat /\ n * r <= p /\ p < n * r + n
<1> DEFINE q == (s * p) \div n
           r == q \div s
<1>1. s * p \in Nat
  OBVIOUS
<1>2. PICK x \in 0 .. n - 1 : q \in Nat /\ s * p = n * q + x
  BY <1>1, Euclid
<1>3. PICK y \in 0 .. s - 1 : r \in Nat /\ q = s * r + y
  BY <1>2, Euclid
<1> HIDE DEF q, r
<1>4. n * r \in Nat
  BY <1>3
<1>5. s * p = s * (n * r) + n * y + x
  <2>1. n * (s * r + y) = n * (s * r) + n * y
    BY <1>3
  <2>2. n * (s * r) = s * (n * r)
    BY <1>3
  <2> QED  BY <1>2, <1>3, <2>1, <2>2
<1>6. n * y + x \in Nat /\ n * y + x < s * n
  <2>1. n * y <= n * (s - 1) /\ n * y \in Nat
    BY Monotone
  <2>2. n * (s - 1) = s * n - n /\ s * n \in Nat
    OBVIOUS
  <2> QED  BY <2>1, <2>2
<1>7. s * (n * r + n) = s * (n * r) + s * n /\ s * (n * r) \in Nat
  BY <1>4
<1>8. ~ (p + 1 <= n * r)
  <2> SUFFICES ASSUME p + 1 <= n * r PROVE FALSE
    OBVIOUS
  <2>1. s * (p + 1) <= s * (n * r)
    BY <1>4, Monotone
  <2>2. s * (p + 1) = s * p + s
    OBVIOUS
  <2>3. s * (n * r) <= s * p
    <3>1. s * p = s * (n * r) + (n * y + x)
      BY <1>5, <1>6, <1>7
    <3> QED  BY <1>1, <1>6, <1>7, <3>1
  <2> QED  BY <1>1, <1>7, <2>1, <2>2, <2>3
<1>9. ~ (n * r + n <= p)
  <2> SUFFICES ASSUME n * r + n <= p PROVE FALSE
    OBVIOUS
  <2>1. s * (n * r + n) <= s * p
    BY <1>4, Monotone
  <2>2. s * p < s * (n * r) + s * n
    <3>1. s * p = s * (n * r) + (n * y + x) /\ s * n \in Nat
      BY <1>5, <1>6, <1>7
    <3> QED  BY <1>1, <1>6, <1>7, <3>1
  <2>3. s * n \in Nat
    OBVIOUS
  <2> QED  BY <1>1, <1>7, <2>1, <2>2, <2>3
<1> QED  BY <1>3, <1>4, <1>8, <1>9 DEF q, r

(* What the proof needs of the sizes.                                      *)
LEMMA RunsFit ==
  ASSUME nproc \in Nat \ {0}
  PROVE  /\ PerRun \in Nat /\ PageSize \in Nat \ {0} /\ Touch!Pages \in Nat
         /\ Touch!Page = 0 .. Touch!Pages - 1
         /\ FirstOf(nproc) <= Touch!Pages
         /\ Touch!Pages < FirstOf(nproc) + nproc
         /\ Touch!Run = At(PerRun)
<1>1. /\ PageSize \in Nat \ {0} /\ Size \in Nat /\ Size % PageSize = 0
  BY SizesAssumption DEF Touch!Sizes
<1>2. Touch!Pages \in Nat /\ Size = PageSize * Touch!Pages
  BY <1>1, Euclid DEF Touch!Pages
<1>3. PerRun = ((PageSize * Touch!Pages) \div nproc) \div PageSize
  BY <1>2 DEF PerRun
<1>4. /\ PerRun \in Nat
      /\ nproc * PerRun <= Touch!Pages
      /\ Touch!Pages < nproc * PerRun + nproc
  BY <1>1, <1>2, <1>3, EqualRuns
<1>5. Touch!Page = 0 .. Touch!Pages - 1
  BY DEF Touch!Page, Touch!Pages
<1>6. Touch!Run = At(PerRun)
  BY DEF Touch!Run, At, PerRun
<1> QED  BY <1>1, <1>2, <1>4, <1>5, <1>6 DEF FirstOf

(* Addresses of pages are ordered, added up and divided like the pages.    *)
LEMMA Addresses ==
  ASSUME PageSize \in Nat \ {0}, NEW p \in Nat, NEW q \in Nat
  PROVE  /\ At(p) \in Nat
         /\ At(p) + At(q) = At(p + q)
         /\ At(p) + PageSize = At(p + 1)
         /\ At(p) < At(q) <=> p < q
         /\ At(p) \div PageSize = p
<1>1. At(p) = PageSize * p /\ At(q) = PageSize * q
  BY DEF At
<1>2. PageSize * p \in Nat /\ PageSize * q \in Nat
  OBVIOUS
<1>3. PageSize * (p + q) = PageSize * p + PageSize * q
  OBVIOUS
<1>4. PageSize * (p + 1) = PageSize * p + PageSize
  OBVIOUS
<1>5. PageSize * p < PageSize * q <=> p < q
  <2>1. p < q => PageSize * (p + 1) <= PageSize * q
    BY Monotone
  <2>2. q <= p => PageSize * q <= PageSize * p
    BY Monotone
  <2> QED  BY <1>2, <1>4, <2>1, <2>2
<1>6. (PageSize * p) \div PageSize = p
  <2>1. (PageSize * p + 0) \div PageSize = p
    OBVIOUS
  <2> QED  BY <1>2, <2>1
<1>7. At(p + q) = PageSize * (p + q) /\ At(p + 1) = PageSize * (p + 1)
  BY DEF At
<1> QED  BY <1>1, <1>2, <1>3, <1>4, <1>5, <1>6, <1>7

(* The runs of different threads have no page in common.                   *)
LEMMA RunsApart ==
  ASSUME PerRun \in Nat, NEW t \in Nat, NEW u \in Nat
  PROVE  /\ FirstOf(t) \in Nat /\ FirstOf(t) + PerRun = FirstOf(t + 1)
         /\ t < u => FirstOf(t) + PerRun <= FirstOf(u)
<1>1. FirstOf(t) = PerRun * t /\ FirstOf(u) = PerRun * u
  BY DEF FirstOf
<1>2. FirstOf(t + 1) = PerRun * (t + 1)
  BY DEF FirstOf
<1>3. PerRun * (t + 1) = PerRun * t + PerRun /\ PerRun * t \in Nat
  OBVIOUS
<1>4. t < u => PerRun * (t + 1) <= PerRun * u
  BY Monotone
<1> QED  BY <1>1, <1>2, <1>3, <1>4

LEMMA ThreadsOf ==
  \A n \in Threads \cup {1} : n \in Nat \ {0} /\ 0 .. n - 1 \subseteq Touch!Thread
<1> DEFINE most == CHOOSE n \in Threads : \A m \in Threads : m <= n
<1>1. /\ Threads \subseteq Nat \ {0}
      /\ \E n \in Threads : \A m \in Threads : m <= n
  BY SizesAssumption DEF Touch!Sizes
<1>2. most \in Threads /\ \A m \in Threads : m <= most
  BY <1>1
<1>3. Touch!Thread = 0 .. most - 1
  BY DEF Touch!Thread
<1> HIDE DEF most
<1>4. ASSUME NEW n \in Threads \cup {1} PROVE n \in Nat \ {0} /\ n <= most
  BY <1>1, <1>2
<1>5. most \in Nat
  BY <1>1, <1>2
<1> QED  BY <1>3, <1>4, <1>5

LEMMA TouchInit == ProgramsInit => TouchInv
<1> SUFFICES ASSUME ProgramsInit PROVE TouchInv
  OBVIOUS
<1>1. PICK n \in Threads \cup {1} : Touch!Start(n)
  BY DEF ProgramsInit, Touch!Init
<1>2. n \in Nat \ {0} /\ 0 .. n - 1 \subseteq Touch!Thread
  BY ThreadsOf
<1>3. /\ nproc = n /\ cptr = 0 /\ created = 0 /\ joined = FALSE
      /\ state = [t \in Touch!Thread |-> "none"]
      /\ capture = [t \in Touch!Thread |-> 0]
      /\ ptr = [t \in Touch!Thread |-> 0]
      /\ off = [t \in Touch!Thread |-> 0]
      /\ touches = [p \in Touch!Page |-> 0]
  BY <1>1 DEF Touch!Start
<1>4. PerRun \in Nat /\ PageSize \in Nat \ {0}
  BY <1>2, <1>3, RunsFit
<1>5. \A t \in Touch!Thread : t \in Nat
  BY DEF Touch!Thread
<1>6. At(0) = 0 /\ 0 \div PageSize = 0 /\ FirstOf(0) = 0
  BY <1>4 DEF At, FirstOf
<1>7. \A t \in Touch!Thread : Behind(t) = 0 /\ FirstOf(t) \in Nat
  BY <1>3, <1>4, <1>5, <1>6, RunsApart DEF Behind
<1>8. TouchTypes
  <2>1. nproc \in Nat \ {0} /\ 0 .. nproc - 1 \subseteq Touch!Thread
    BY <1>2, <1>3
  <2>2. created \in 0 .. nproc
    BY <1>2, <1>3
  <2>3. joined \in BOOLEAN
    BY <1>3
  <2>4. /\ state \in [Touch!Thread -> TouchStates]
        /\ {capture, ptr, off} \subseteq [Touch!Thread -> Nat]
        /\ touches \in [Touch!Page -> Nat]
    BY <1>3 DEF TouchStates
  <2> QED  BY <2>1, <2>2, <2>3, <2>4 DEF TouchTypes
<1>9. RunsFollow
  BY <1>3, <1>5, <1>6 DEF RunsFollow
<1>10. RunProgress
  BY <1>3, <1>4, <1>6, <1>7 DEF RunProgress
<1>11. TouchesAreRuns
  <2>1. ASSUME NEW t \in Touch!Thread, NEW p \in Touch!Page
        PROVE  ~ TouchedBy(t, p)
    <3>1. p \in Int
      BY <1>2, <1>3, RunsFit
    <3> QED  BY <1>7, <3>1 DEF TouchedBy
  <2> QED  BY <1>3, <2>1 DEF TouchesAreRuns
<1>12. AllJoined
  BY <1>3 DEF AllJoined
<1> QED  BY <1>8, <1>9, <1>10, <1>11, <1>12 DEF TouchInv

LEMMA CreateTouchInv == TouchInv /\ Touch!Create => TouchInv'
<1> SUFFICES ASSUME TouchInv, Touch!Create PROVE TouchInv'
  OBVIOUS
<1>1. /\ created < nproc /\ created' = created + 1 /\ cptr' = cptr + Touch!Run
      /\ state' = [state EXCEPT ![created] = "created"]
      /\ capture' = [capture EXCEPT ![created] = cptr]
      /\ UNCHANGED <<nproc, joined, ptr, off, touches>>
  BY DEF Touch!Create
<1>2. /\ nproc \in Nat \ {0} /\ created \in Nat /\ created \in Touch!Thread
  BY <1>1 DEF TouchInv, TouchTypes
<1>3. /\ PerRun \in Nat /\ PageSize \in Nat \ {0}
      /\ Touch!Run = At(PerRun)
  BY <1>2, RunsFit
<1>4. FirstOf(created) \in Nat /\ FirstOf(created) + PerRun = FirstOf(created + 1)
  BY <1>2, <1>3, RunsApart
<1>5. PerRun' = PerRun /\ (\A t : FirstOf(t)' = FirstOf(t) /\ Behind(t)' = Behind(t))
  BY <1>1 DEF PerRun, FirstOf, Behind
<1>6. \A t \in Touch!Thread : t \in Int
  BY DEF Touch!Thread
<1>7. cptr' = At(FirstOf(created')) /\ cptr \in Nat
  BY <1>1, <1>3, <1>4, Addresses DEF TouchInv, RunsFollow
<1>8. TouchTypes'
  BY <1>1, <1>2, <1>7 DEF TouchInv, TouchTypes, TouchStates
<1>9. RunsFollow'
  BY <1>1, <1>2, <1>5, <1>6, <1>7 DEF TouchInv, TouchTypes, RunsFollow
<1>10. RunProgress'
  BY <1>1, <1>2, <1>5, <1>6 DEF TouchInv, TouchTypes, RunProgress, RunsFollow
<1>11. TouchesAreRuns' /\ AllJoined'
  BY <1>1, <1>2, <1>5 DEF TouchInv, TouchTypes, TouchesAreRuns, TouchedBy, AllJoined
<1> QED  BY <1>8, <1>9, <1>10, <1>11 DEF TouchInv

LEMMA BeginTouchInv ==
  ASSUME TouchInv, NEW t \in Touch!Thread, Touch!Begin(t)
  PROVE  TouchInv'
<1>1. /\ state[t] = "created"
      /\ \/ state' = [state EXCEPT ![t] = "touching"]
         \/ state' = [u \in Touch!Thread |->
                        IF state[u] = "none" THEN "none" ELSE "aborted"]
      /\ ptr' = [ptr EXCEPT ![t] = capture[t]]
      /\ UNCHANGED <<nproc, cptr, created, joined, capture, off, touches>>
  BY DEF Touch!Begin
<1>2. PerRun' = PerRun /\ (\A u : FirstOf(u)' = FirstOf(u) /\ Behind(u)' = Behind(u))
  BY <1>1 DEF PerRun, FirstOf, Behind
<1>3. t \in Nat /\ t < created /\ Behind(t) = 0
  BY <1>1 DEF TouchInv, TouchTypes, RunsFollow, RunProgress, Touch!Thread
<1>4. FirstOf(t) \in Nat
  BY <1>3, RunsFit, RunsApart DEF TouchInv, TouchTypes
<1>5. capture[t] = At(FirstOf(t) + Behind(t)) /\ 0 \in 0 .. PerRun
  BY <1>3, <1>4, RunsFit DEF TouchInv, TouchTypes, RunsFollow
<1>6. TouchTypes'
  <2>1. ptr' \in [Touch!Thread -> Nat]
    BY <1>1 DEF TouchInv, TouchTypes
  <2>2. state' \in [Touch!Thread -> TouchStates]
    BY <1>1 DEF TouchInv, TouchTypes, TouchStates
  <2> QED  BY <1>1, <2>1, <2>2 DEF TouchInv, TouchTypes
<1>7. RunsFollow' /\ TouchesAreRuns'
  BY <1>1, <1>2 DEF TouchInv, TouchTypes, RunsFollow, TouchesAreRuns, TouchedBy
<1>8. RunProgress'
  <2> SUFFICES ASSUME NEW u \in Touch!Thread
               PROVE  /\ Behind(u)' \in 0 .. PerRun' /\ off'[u] = At(Behind(u)')
                      /\ state'[u] \in {"none", "created"} => Behind(u)' = 0
                      /\ state'[u] \in {"touching", "done"} =>
                           ptr'[u] = At(FirstOf(u)' + Behind(u)')
                      /\ state'[u] = "done" => Behind(u)' = PerRun'
    BY DEF RunProgress, At
  <2>1. CASE u = t
    BY <1>1, <1>2, <1>3, <1>5, <2>1 DEF TouchInv, TouchTypes, RunProgress
  <2>2. CASE u # t
    BY <1>1, <1>2, <2>2 DEF TouchInv, TouchTypes, RunProgress
  <2> QED  BY <2>1, <2>2
<1>9. AllJoined'
  BY <1>1, <1>3 DEF TouchInv, TouchTypes, AllJoined
<1> QED  BY <1>6, <1>7, <1>8, <1>9 DEF TouchInv

LEMMA LeaveTouchInv ==
  ASSUME TouchInv, NEW t \in Touch!Thread, Touch!Leave(t)
  PROVE  TouchInv'
<1>1. /\ state[t] = "touching" /\ ~ (off[t] < Touch!Run)
      /\ state' = [state EXCEPT ![t] = "done"]
      /\ UNCHANGED <<nproc, cptr, created, joined, capture, ptr, off, touches>>
  <2>1. off[t] >= Touch!Run /\ off[t] \in Nat
    BY DEF Touch!Leave, TouchInv, TouchTypes
  <2>2. Touch!Run \in Nat
    BY RunsFit, Addresses DEF TouchInv, TouchTypes
  <2> QED  BY <2>1, <2>2 DEF Touch!Leave
<1>2. PerRun' = PerRun /\ (\A u : FirstOf(u)' = FirstOf(u) /\ Behind(u)' = Behind(u))
  BY <1>1 DEF PerRun, FirstOf, Behind
<1>3. Behind(t) = PerRun
  <2>1. Behind(t) \in 0 .. PerRun /\ off[t] = At(Behind(t))
    BY DEF TouchInv, RunProgress
  <2>2. PerRun \in Nat /\ PageSize \in Nat \ {0} /\ Touch!Run = At(PerRun)
    BY RunsFit DEF TouchInv, TouchTypes
  <2>3. ~ (Behind(t) < PerRun)
    BY <1>1, <2>1, <2>2, Addresses
  <2> QED  BY <2>1, <2>2, <2>3
<1>4. TouchTypes'
  BY <1>1 DEF TouchInv, TouchTypes, TouchStates
<1>5. RunsFollow' /\ TouchesAreRuns'
  BY <1>1, <1>2 DEF TouchInv, TouchTypes, RunsFollow, TouchesAreRuns, TouchedBy
<1>6. RunProgress'
  BY <1>1, <1>2, <1>3 DEF TouchInv, TouchTypes, RunProgress
<1>7. AllJoined'
  BY <1>1 DEF TouchInv, TouchTypes, AllJoined
<1> QED  BY <1>4, <1>5, <1>6, <1>7 DEF TouchInv

(* The page a thread is at is in the mapping, and no thread's so far.      *)
LEMMA NextPage ==
  ASSUME TouchInv, NEW t \in Touch!Thread, state[t] = "touching",
         Behind(t) < PerRun
  PROVE  /\ FirstOf(t) \in Nat /\ Behind(t) \in Nat
         /\ FirstOf(t) + Behind(t) \in Touch!Page
         /\ \A u \in Touch!Thread : ~ TouchedBy(u, FirstOf(t) + Behind(t))
<1>1. /\ PerRun \in Nat /\ nproc \in Nat \ {0} /\ Touch!Pages \in Nat
      /\ FirstOf(nproc) <= Touch!Pages
      /\ Touch!Page = 0 .. Touch!Pages - 1
  BY RunsFit DEF TouchInv, TouchTypes
<1>2. \A u \in Touch!Thread : u \in Nat /\ Behind(u) \in 0 .. PerRun
  BY DEF Touch!Thread, TouchInv, RunProgress
<1>3. t < nproc
  <2>1. ~ (t >= created)
    BY DEF TouchInv, RunsFollow
  <2>2. created \in 0 .. nproc
    BY DEF TouchInv, TouchTypes
  <2> QED  BY <1>1, <1>2, <2>1, <2>2
<1>4. FirstOf(t) + PerRun <= FirstOf(nproc) /\ FirstOf(t) \in Nat
      /\ FirstOf(nproc) \in Nat
  BY <1>1, <1>2, <1>3, RunsApart
<1>5. FirstOf(t) + Behind(t) \in Touch!Page
  BY <1>1, <1>2, <1>4
<1>6. ASSUME NEW u \in Touch!Thread PROVE ~ TouchedBy(u, FirstOf(t) + Behind(t))
  <2>1. FirstOf(u) \in Nat
    BY <1>1, <1>2, RunsApart
  <2>2. CASE u = t
    BY <1>2, <1>4, <2>2 DEF TouchedBy
  <2>3. CASE u < t
    <3>1. FirstOf(u) + PerRun <= FirstOf(t)
      BY <1>1, <1>2, <2>3, RunsApart
    <3> QED  BY <1>1, <1>2, <1>4, <2>1, <3>1 DEF TouchedBy
  <2>4. CASE t < u
    <3>1. FirstOf(t) + PerRun <= FirstOf(u)
      BY <1>1, <1>2, <2>4, RunsApart
    <3> QED  BY <1>1, <1>2, <1>4, <2>1, <3>1 DEF TouchedBy
  <2> QED  BY <1>2, <2>2, <2>3, <2>4
<1> QED  BY <1>2, <1>4, <1>5, <1>6

LEMMA TouchTouchInv ==
  ASSUME TouchInv, NEW t \in Touch!Thread, Touch!Touch(t)
  PROVE  TouchInv'
<1> DEFINE page == FirstOf(t) + Behind(t)
<1>1. /\ state[t] = "touching" /\ off[t] < Touch!Run
      /\ touches' = [touches EXCEPT ![ptr[t] \div PageSize] = @ + 1]
      /\ ptr' = [ptr EXCEPT ![t] = @ + PageSize]
      /\ off' = [off EXCEPT ![t] = @ + PageSize]
      /\ UNCHANGED <<nproc, cptr, created, joined, state, capture>>
  BY DEF Touch!Touch
<1>2. /\ PerRun \in Nat /\ PageSize \in Nat \ {0} /\ Touch!Run = At(PerRun)
      /\ PerRun' = PerRun /\ (\A u : FirstOf(u)' = FirstOf(u))
  BY <1>1, RunsFit DEF TouchInv, TouchTypes, PerRun, FirstOf
<1>3. /\ Behind(t) \in 0 .. PerRun /\ off[t] = At(Behind(t))
      /\ ptr[t] = At(page)
  BY <1>1 DEF TouchInv, RunProgress
<1>4. Behind(t) < PerRun
  BY <1>1, <1>2, <1>3, Addresses
<1>5. /\ FirstOf(t) \in Nat /\ Behind(t) \in Nat /\ page \in Nat
      /\ page \in Touch!Page
      /\ \A u \in Touch!Thread : ~ TouchedBy(u, page)
  BY <1>1, <1>4, NextPage
<1>6. /\ ptr[t] \div PageSize = page
      /\ ptr[t] + PageSize = At(page + 1) /\ At(page + 1) \in Nat
      /\ off[t] + PageSize = At(Behind(t) + 1) /\ At(Behind(t) + 1) \in Nat
      /\ At(Behind(t) + 1) \div PageSize = Behind(t) + 1
  <2>1. ASSUME NEW p \in Nat
        PROVE  /\ At(p) \div PageSize = p /\ At(p) + PageSize = At(p + 1)
               /\ At(p + 1) \in Nat /\ At(p + 1) \div PageSize = p + 1
    <3>1. p + 1 \in Nat
      OBVIOUS
    <3> QED  BY <1>2, <3>1, Addresses
  <2> HIDE DEF page
  <2> QED  BY <1>3, <1>5, <2>1
<1>7. \A u \in Touch!Thread : Behind(u)' = IF u = t THEN Behind(t) + 1 ELSE Behind(u)
  BY <1>1, <1>6 DEF Behind, TouchInv, TouchTypes
<1>8. touches[page] = 0
  BY <1>5 DEF TouchInv, TouchesAreRuns
<1>9. touches' = [touches EXCEPT ![page] = 1]
  <2> HIDE DEF page
  <2>1. touches' = [touches EXCEPT ![page] = touches[page] + 1]
    BY <1>1, <1>6
  <2> QED  BY <1>8, <2>1
<1>10. TouchTypes'
  <2> HIDE DEF page
  <2>1. ptr' \in [Touch!Thread -> Nat] /\ off' \in [Touch!Thread -> Nat]
    <3>1. /\ ptr' = [ptr EXCEPT ![t] = At(page + 1)]
          /\ off' = [off EXCEPT ![t] = At(Behind(t) + 1)]
      BY <1>1, <1>6
    <3> QED  BY <1>6, <3>1 DEF TouchInv, TouchTypes
  <2>2. touches' \in [Touch!Page -> Nat]
    BY <1>9 DEF TouchInv, TouchTypes
  <2> QED  BY <1>1, <2>1, <2>2 DEF TouchInv, TouchTypes
<1>11. RunsFollow'
  BY <1>1, <1>2 DEF TouchInv, TouchTypes, RunsFollow, At
<1>12. RunProgress'
  <2> SUFFICES ASSUME NEW u \in Touch!Thread
               PROVE  /\ Behind(u)' \in 0 .. PerRun /\ off'[u] = At(Behind(u)')
                      /\ state[u] \in {"none", "created"} => Behind(u)' = 0
                      /\ state[u] \in {"touching", "done"} =>
                           ptr'[u] = At(FirstOf(u) + Behind(u)')
                      /\ state[u] = "done" => Behind(u)' = PerRun
    BY <1>1, <1>2 DEF RunProgress, At
  <2>1. CASE u = t
    <3>1. Behind(u)' = Behind(t) + 1 /\ Behind(t) + 1 \in 0 .. PerRun
      BY <1>2, <1>3, <1>4, <1>7, <2>1
    <3>2. off'[u] = At(Behind(t) + 1) /\ ptr'[u] = At(page + 1)
      BY <1>1, <1>6, <2>1 DEF TouchInv, TouchTypes
    <3>3. page + 1 = FirstOf(u) + (Behind(t) + 1)
      BY <1>5, <2>1
    <3> QED  BY <1>1, <2>1, <3>1, <3>2, <3>3
  <2>2. CASE u # t
    BY <1>1, <1>7, <2>2 DEF TouchInv, TouchTypes, RunProgress
  <2> QED  BY <2>1, <2>2
<1>13. TouchesAreRuns'
  <2> SUFFICES ASSUME NEW p \in Touch!Page
               PROVE  touches'[p] =
                        IF \E u \in Touch!Thread : TouchedBy(u, p)' THEN 1 ELSE 0
    BY DEF TouchesAreRuns
  <2>1. p \in Int
    BY DEF Touch!Page
  <2>2. \A u \in Touch!Thread : u # t => (TouchedBy(u, p)' <=> TouchedBy(u, p))
    BY <1>2, <1>7 DEF TouchedBy
  <2>3. TouchedBy(t, p)' <=> TouchedBy(t, p) \/ p = page
    BY <1>2, <1>5, <1>7, <2>1 DEF TouchedBy
  <2>4. touches'[p] = IF p = page THEN 1 ELSE touches[p]
    BY <1>5, <1>9 DEF TouchInv, TouchTypes
  <2>5. CASE p = page
    BY <2>3, <2>4, <2>5
  <2>6. CASE p # page
    <3>1. \A u \in Touch!Thread : TouchedBy(u, p)' <=> TouchedBy(u, p)
      BY <2>2, <2>3, <2>6
    <3> QED  BY <2>4, <2>6, <3>1 DEF TouchInv, TouchesAreRuns
  <2> QED  BY <2>5, <2>6
<1>14. AllJoined'
  BY <1>1 DEF TouchInv, AllJoined
<1> QED  BY <1>10, <1>11, <1>12, <1>13, <1>14 DEF TouchInv

LEMMA TouchStep == TouchInv /\ [Touch!Next]_touchVars => TouchInv'
<1> SUFFICES ASSUME TouchInv, [Touch!Next]_touchVars PROVE TouchInv'
  OBVIOUS
<1>1. CASE Touch!Join \/ UNCHANGED touchVars
  <2>1. /\ UNCHANGED <<nproc, cptr, created, state, capture, ptr, off, touches>>
        /\ \/ joined' = joined
           \/ /\ joined' = TRUE /\ created = nproc
              /\ \A t \in 0 .. nproc - 1 : state[t] = "done"
    BY <1>1 DEF Touch!Join, touchVars
  <2>2. joined' \in BOOLEAN
    BY <2>1 DEF TouchInv, TouchTypes
  <2>3. (TouchTypes /\ AllJoined)'
    BY <2>1, <2>2 DEF TouchInv, TouchTypes, AllJoined
  <2>4. (RunsFollow /\ RunProgress /\ TouchesAreRuns)'
    BY <2>1 DEF TouchInv, RunsFollow, RunProgress, TouchesAreRuns, TouchedBy,
                Behind, FirstOf, PerRun, At
  <2> QED  BY <2>3, <2>4 DEF TouchInv
<1> QED
  BY <1>1, CreateTouchInv, BeginTouchInv, TouchTouchInv, LeaveTouchInv
     DEF Touch!Next, Touch!Finished, Touch!vars, touchVars

(* When all threads have been joined, all of their runs have been touched, *)
(* and nothing else.                                                       *)
LEMMA TouchEnd ==
  ASSUME TouchInv, joined
  PROVE  \E n \in 0 .. Touch!Pages :
           /\ {p \in Touch!Page : touches[p] = 1} = 0 .. n - 1
           /\ Touch!Pages - n < nproc
<1> DEFINE n == FirstOf(nproc)
<1>1. /\ PerRun \in Nat /\ nproc \in Nat \ {0} /\ Touch!Pages \in Nat
      /\ n <= Touch!Pages /\ Touch!Pages < n + nproc
      /\ Touch!Page = 0 .. Touch!Pages - 1
  BY RunsFit DEF TouchInv, TouchTypes
<1>2. n \in Nat /\ n = nproc * PerRun
  BY <1>1, RunsApart DEF FirstOf
<1>3. created = nproc /\ \A t \in 0 .. nproc - 1 : state[t] = "done"
  BY DEF TouchInv, AllJoined
<1>4. ASSUME NEW t \in Touch!Thread
      PROVE  Behind(t) = IF t < nproc THEN PerRun ELSE 0
  <2>1. t \in Nat
    BY DEF Touch!Thread
  <2>2. CASE t < nproc
    BY <1>1, <1>3, <2>1, <2>2 DEF TouchInv, RunProgress
  <2>3. CASE ~ (t < nproc)
    BY <1>1, <1>3, <2>1, <2>3 DEF TouchInv, RunsFollow, RunProgress
  <2> QED  BY <2>2, <2>3
<1>5. ASSUME NEW p \in Touch!Page
      PROVE  (\E t \in Touch!Thread : TouchedBy(t, p)) <=> p < n
  <2>1. p \in Nat
    BY <1>1
  <2>2. ASSUME NEW t \in Touch!Thread, TouchedBy(t, p) PROVE p < n
    <3>1. t \in Nat /\ FirstOf(t) \in Nat
      BY <1>1, RunsApart DEF Touch!Thread
    <3>2. t < nproc
      BY <1>1, <1>4, <2>1, <2>2, <3>1 DEF TouchedBy
    <3>3. FirstOf(t) + PerRun <= n
      BY <1>1, <3>1, <3>2, RunsApart
    <3> QED  BY <1>1, <1>2, <1>4, <2>1, <2>2, <3>1, <3>2, <3>3 DEF TouchedBy
  <2>3. ASSUME p < n PROVE \E t \in Touch!Thread : TouchedBy(t, p)
    <3>1. PerRun # 0
      BY <1>1, <1>2, <2>1, <2>3
    <3> DEFINE t == p \div PerRun
    <3>2. t \in Nat /\ p = PerRun * t + (p % PerRun) /\ (p % PerRun) \in 0 .. PerRun - 1
      BY <1>1, <2>1, <3>1, Euclid
    <3>3. FirstOf(t) = PerRun * t /\ PerRun * t \in Nat
      <4> HIDE DEF t
      <4> QED  BY <1>1, <3>2 DEF FirstOf
    <3>4. FirstOf(t) <= p /\ p < FirstOf(t) + PerRun
      <4> HIDE DEF t
      <4> QED  BY <1>1, <2>1, <3>2, <3>3
    <3>5. t < nproc
      <4> HIDE DEF t
      <4>1. CASE t = nproc
        BY <1>2, <2>1, <2>3, <3>4, <4>1
      <4>2. CASE nproc < t
        <5>1. n + PerRun <= FirstOf(t)
          BY <1>1, <3>2, <4>2, RunsApart
        <5> QED  BY <1>1, <1>2, <2>1, <2>3, <3>3, <3>4, <5>1
      <4> QED  BY <1>1, <3>2, <4>1, <4>2
    <3>6. t \in Touch!Thread
      <4> HIDE DEF t
      <4> QED  BY <1>1, <3>2, <3>5 DEF TouchInv, TouchTypes
    <3> HIDE DEF t
    <3>7. TouchedBy(t, p)
      BY <1>4, <3>4, <3>5, <3>6 DEF TouchedBy
    <3> QED  BY <3>6, <3>7
  <2> QED  BY <2>2, <2>3
<1> HIDE DEF n
<1>6. {p \in Touch!Page : touches[p] = 1} = 0 .. n - 1
  <2>1. \A p \in Touch!Page : touches[p] = 1 <=> p < n
    BY <1>5 DEF TouchInv, TouchesAreRuns
  <2> QED  BY <1>1, <1>2, <2>1
<1> QED  BY <1>1, <1>2, <1>6

(* pagefault_test.cpp touches no page twice and leaves out fewer pages     *)
(* than it has threads, for every size, page size and number of threads.   *)
THEOREM TouchesOnce == ProgramsSpec => []EachPageOnce
<1>1. ProgramsInit => TouchInv
  BY TouchInit
<1>2. TouchInv /\ [ProgramsNext]_programsVars => TouchInv'
  BY Frame, TouchStep
<1>3. TouchInv => EachPageOnce
  <2> SUFFICES ASSUME TouchInv PROVE EachPageOnce
    OBVIOUS
  <2>1. \A p \in Touch!Page : touches[p] <= 1
    BY DEF TouchInv, TouchesAreRuns
  <2> QED  BY <2>1, TouchEnd DEF EachPageOnce, Touch!EachPageOnce
<1> QED  BY <1>1, <1>2, <1>3, PTL DEF ProgramsSpec

-----------------------------------------------------------------------------
(* freqLat.c: the ring is linked downwards, one segment a step; nothing is *)
(* stored anywhere but at the heads of segments.                           *)

Seg(s) == stride * s

FreqTypes ==
  /\ stride \in 1 .. NBytes
  /\ mem \in [Freq!Word -> Int]
  /\ links \in 1 .. Freq!NSegs
  /\ stage \in {"link", "chase", "lost"}
  /\ \A w \in Freq!Word :
       (\A s \in 0 .. Freq!NSegs - 1 : w # Seg(s)) => mem[w] = Freq!Garbage

Linking ==
  stage = "link" =>
    /\ pos = Seg(Freq!NSegs - links)
    /\ \A s \in 0 .. Freq!NSegs - 1 :
         s > Freq!NSegs - links => mem[Seg(s)] = Seg(s - 1)

Linked ==
  stage # "link" =>
    /\ mem[0] = Freq!LastHead
    /\ \A s \in 1 .. Freq!NSegs - 1 : mem[Seg(s)] = Seg(s - 1)
    /\ IF NBytes % stride = 0
         THEN stage = "chase" /\ \E s \in 0 .. Freq!NSegs - 1 : pos = Seg(s)
         ELSE pos \in {0, Freq!LastHead}

FreqInv == FreqTypes /\ Linking /\ Linked

(* The segments, and what is left of the buffer behind them.               *)
LEMMA Segments ==
  ASSUME stride \in 1 .. NBytes
  PROVE  /\ Freq!NSegs \in Nat \ {0} /\ NBytes \in Nat \ {0}
         /\ (NBytes % stride) \in 0 .. stride - 1
         /\ Freq!LastHead = Seg(Freq!NSegs - 1) + (NBytes % stride)
         /\ Freq!LastHead \in Freq!Word
         /\ Seg(0) = 0
         /\ \A s \in 0 .. Freq!NSegs - 1 : Seg(s) \in Freq!Word
         /\ \A s \in Nat : Seg(s) \in Nat /\ Seg(s + 1) = Seg(s) + stride
         /\ \A s, u \in Nat : s < u => Seg(s) + stride <= Seg(u)
<1>1. NBytes \in Nat \ {0} /\ stride \in Nat \ {0}
  BY SizesAssumption DEF Freq!Sizes
<1>2. /\ NBytes \div stride \in Nat /\ (NBytes % stride) \in 0 .. stride - 1
      /\ NBytes = stride * (NBytes \div stride) + (NBytes % stride)
  BY <1>1, Euclid
<1>3. ASSUME NEW s \in Nat
      PROVE  stride * s \in Nat /\ stride * (s + 1) = stride * s + stride
  BY <1>1
<1>4. ASSUME NEW s \in Nat, NEW u \in Nat, s < u
      PROVE  stride * s + stride <= stride * u
  <2>1. stride * (s + 1) <= stride * u
    BY <1>1, <1>4, Monotone
  <2> QED  BY <1>3, <2>1
<1>5. Freq!NSegs \in Nat \ {0}
  <2>1. stride * 0 = 0
    BY <1>1
  <2>2. NBytes \div stride # 0
    BY <1>1, <1>2, <2>1
  <2> QED  BY <1>2, <2>2 DEF Freq!NSegs
<1>6. stride * Freq!NSegs = stride * (Freq!NSegs - 1) + stride
  BY <1>1, <1>5
<1>7. NBytes = stride * Freq!NSegs + (NBytes % stride)
  BY <1>2 DEF Freq!NSegs
<1>8. stride * (Freq!NSegs - 1) \in Nat
  BY <1>3, <1>5
<1>9. Freq!LastHead = stride * (Freq!NSegs - 1) + (NBytes % stride)
  BY <1>1, <1>2, <1>6, <1>7, <1>8 DEF Freq!LastHead
<1>10. Freq!LastHead \in Freq!Word
  BY <1>1, <1>2, <1>8, <1>9 DEF Freq!Word, Freq!LastHead
<1>11. ASSUME NEW s \in 0 .. Freq!NSegs - 1 PROVE stride * s \in Freq!Word
  <2>1. stride * s + stride <= stride * Freq!NSegs
    BY <1>4, <1>5
  <2>2. stride * s \in Nat /\ stride * Freq!NSegs \in Nat
    BY <1>3, <1>5
  <2> QED  BY <1>1, <1>2, <1>7, <2>1, <2>2 DEF Freq!Word
<1>12. stride * 0 = 0
  BY <1>1
<1> QED  BY <1>1, <1>2, <1>3, <1>4, <1>5, <1>9, <1>10, <1>11, <1>12 DEF Seg

LEMMA SegsDiffer ==
  ASSUME stride \in 1 .. NBytes, NEW s \in Nat, NEW u \in Nat
  PROVE  /\ Seg(s) = Seg(u) <=> s = u
         /\ \A r \in 1 .. stride - 1 : Seg(s) + r # Seg(u)
<1>1. stride \in Nat \ {0} /\ Seg(s) \in Nat /\ Seg(u) \in Nat
  <2>1. \A i \in Nat : Seg(i) \in Nat
    BY Segments
  <2>2. stride \in Nat \ {0}
    BY SizesAssumption DEF Freq!Sizes
  <2> QED  BY <2>1, <2>2
<1>2. s < u => Seg(s) + stride <= Seg(u)
  BY Segments
<1>3. u < s => Seg(u) + stride <= Seg(s)
  BY Segments
<1> QED  BY <1>1, <1>2, <1>3

LEMMA FreqInit == ProgramsInit => FreqInv
<1> SUFFICES ASSUME ProgramsInit PROVE FreqInv
  OBVIOUS
<1>1. PICK d \in 1 .. NBytes : Freq!Start(d)
  <2>1. Freq!Init \/ Freq!Start(1)
    BY DEF ProgramsInit
  <2>2. Strides \subseteq 1 .. NBytes /\ 1 \in 1 .. NBytes
    BY SizesAssumption DEF Freq!Sizes
  <2> QED  BY <2>1, <2>2, Zenon DEF Freq!Init
<1>2. /\ stride = d /\ links = 1 /\ stage = "link"
      /\ mem = [w \in Freq!Word |-> Freq!Garbage]
      /\ pos = stride * (Freq!NSegs - 1)
  BY <1>1 DEF Freq!Start, Freq!NSegs
<1>3. Freq!NSegs \in Nat \ {0}
  BY <1>2, Segments
<1>4. FreqTypes
  BY <1>2, <1>3 DEF FreqTypes, Freq!Garbage
<1>5. Linking /\ Linked
  BY <1>2, <1>3 DEF Linking, Linked, Seg
<1> QED  BY <1>4, <1>5 DEF FreqInv

LEMMA LinkInv == FreqInv /\ Freq!Link => FreqInv'
<1> SUFFICES ASSUME FreqInv, Freq!Link PROVE FreqInv'
  OBVIOUS
<1> DEFINE s0 == Freq!NSegs - links
<1>1. /\ stage = "link" /\ links < Freq!NSegs
      /\ mem' = [mem EXCEPT ![pos] = pos - stride]
      /\ pos' = pos - stride /\ links' = links + 1
      /\ stride' = stride /\ stage' = stage
  BY DEF Freq!Link
<1>2. Freq!NSegs' = Freq!NSegs /\ (\A s : Seg(s)' = Seg(s))
  BY <1>1 DEF Freq!NSegs, Seg
<1>3. /\ Freq!NSegs \in Nat \ {0} /\ links \in 1 .. Freq!NSegs
      /\ stride \in 1 .. NBytes
      /\ mem \in [Freq!Word -> Int]
  BY Segments DEF FreqInv, FreqTypes
<1>4. s0 \in 1 .. Freq!NSegs - 1 /\ Freq!NSegs - links' = s0 - 1
  BY <1>1, <1>3
<1>5. pos = Seg(s0) /\ pos \in Freq!Word
  BY <1>1, <1>3, <1>4, Segments DEF FreqInv, Linking
<1>6. pos - stride = Seg(s0 - 1) /\ Seg(s0 - 1) \in Int
  <2>1. s0 - 1 \in Nat /\ (s0 - 1) + 1 = s0
    BY <1>4
  <2> HIDE DEF s0
  <2>2. Seg(s0) = Seg(s0 - 1) + stride /\ Seg(s0 - 1) \in Nat
    BY <1>3, <2>1, Segments
  <2> QED  BY <1>3, <1>5, <2>2, Segments
<1> HIDE DEF s0
<1>7. mem' = [mem EXCEPT ![Seg(s0)] = Seg(s0 - 1)]
  BY <1>1, <1>5, <1>6
<1>8. FreqTypes'
  <2>1. mem' \in [Freq!Word -> Int]
    BY <1>3, <1>6, <1>7
  <2>2. \A w \in Freq!Word :
          (\A s \in 0 .. Freq!NSegs - 1 : w # Seg(s)) => mem'[w] = Freq!Garbage
    BY <1>3, <1>4, <1>7 DEF FreqInv, FreqTypes
  <2>3. links' \in 1 .. Freq!NSegs
    BY <1>1, <1>3
  <2> QED  BY <1>1, <1>2, <1>3, <2>1, <2>2, <2>3 DEF FreqInv, FreqTypes
<1>9. Linking'
  <2>1. ASSUME NEW s \in 0 .. Freq!NSegs - 1, s > s0 - 1
        PROVE  mem'[Seg(s)] = Seg(s - 1)
    <3>1. CASE s = s0
      BY <1>3, <1>5, <1>7, <3>1
    <3>2. CASE s # s0
      <4>0. s \in Nat /\ s0 \in Nat
        BY <1>3, <1>4
      <4>1. Seg(s) # Seg(s0)
        BY <1>3, <3>2, <4>0, SegsDiffer
      <4>3. Seg(s) \in Freq!Word
        BY <1>3, Segments
      <4>2. s > s0
        BY <1>3, <1>4, <2>1, <3>2
      <4>4. mem'[Seg(s)] = mem[Seg(s)]
        BY <1>3, <1>7, <4>1, <4>3
      <4>5. mem[Seg(s)] = Seg(s - 1)
        BY <1>1, <4>2 DEF FreqInv, Linking, s0
      <4> QED  BY <4>4, <4>5
    <3> QED  BY <3>1, <3>2
  <2> QED  BY <1>1, <1>2, <1>4, <1>6, <2>1 DEF Linking
<1>10. Linked'
  BY <1>1 DEF Linked
<1> QED  BY <1>8, <1>9, <1>10 DEF FreqInv

LEMMA FreqCloseInv == FreqInv /\ Freq!Close => FreqInv'
<1> SUFFICES ASSUME FreqInv, Freq!Close PROVE FreqInv'
  OBVIOUS
<1>1. /\ stage = "link" /\ links = Freq!NSegs
      /\ mem' = [mem EXCEPT ![pos] = Freq!LastHead]
      /\ stage' = "chase"
      /\ UNCHANGED <<stride, pos, links>>
  BY DEF Freq!Close
<1>2. /\ Freq!NSegs' = Freq!NSegs /\ (\A s : Seg(s)' = Seg(s))
      /\ Freq!LastHead' = Freq!LastHead
  BY <1>1 DEF Freq!NSegs, Seg, Freq!LastHead
<1>3. /\ Freq!NSegs \in Nat \ {0} /\ stride \in 1 .. NBytes
      /\ mem \in [Freq!Word -> Int] /\ Seg(0) = 0 /\ 0 \in 0 .. Freq!NSegs - 1
      /\ 0 \in Freq!Word /\ Freq!LastHead \in Freq!Word
  <2>1. /\ Freq!NSegs \in Nat \ {0} /\ stride \in 1 .. NBytes
        /\ mem \in [Freq!Word -> Int] /\ Seg(0) = 0 /\ Freq!LastHead \in Freq!Word
    BY Segments DEF FreqInv, FreqTypes
  <2>2. 0 \in 0 .. Freq!NSegs - 1
    BY <2>1
  <2>3. 0 \in Freq!Word
    BY SizesAssumption DEF Freq!Sizes, Freq!Word
  <2> QED  BY <2>1, <2>2, <2>3
<1>4. pos = 0
  <2>1. Freq!NSegs - links = 0
    BY <1>1, <1>3
  <2> QED  BY <1>1, <1>3, <2>1 DEF FreqInv, Linking
<1>5. mem'[0] = Freq!LastHead /\ \A w \in Freq!Word \ {0} : mem'[w] = mem[w]
  BY <1>1, <1>3, <1>4
<1>6. FreqTypes'
  <2>0. Freq!LastHead \in Int
    BY <1>3 DEF Freq!Word
  <2>1. mem' \in [Freq!Word -> Int]
    BY <1>1, <1>3, <2>0
  <2>2. \A w \in Freq!Word :
          (\A s \in 0 .. Freq!NSegs - 1 : w # Seg(s)) => mem'[w] = Freq!Garbage
    BY <1>3, <1>5 DEF FreqInv, FreqTypes
  <2> QED  BY <1>1, <1>2, <1>3, <2>1, <2>2 DEF FreqInv, FreqTypes
<1>7. ASSUME NEW s \in 1 .. Freq!NSegs - 1 PROVE mem'[Seg(s)] = Seg(s - 1)
  <2>1. Seg(s) # 0 /\ Seg(s) \in Freq!Word
    <3>1. s \in Nat /\ s # 0 /\ s \in 0 .. Freq!NSegs - 1
      BY <1>3
    <3>2. Seg(s) # Seg(0)
      BY <1>3, <3>1, SegsDiffer
    <3> QED  BY <1>3, <3>1, <3>2, Segments
  <2>2. s > Freq!NSegs - links
    BY <1>1, <1>3
  <2> QED  BY <1>1, <1>5, <2>1, <2>2 DEF FreqInv, Linking
<1>8. Linked'
  BY <1>1, <1>2, <1>3, <1>4, <1>5, <1>7 DEF Linked
<1> QED  BY <1>1, <1>6, <1>8 DEF FreqInv, Linking

LEMMA HopInv == FreqInv /\ Freq!Hop => FreqInv'
<1> SUFFICES ASSUME FreqInv, Freq!Hop PROVE FreqInv'
  OBVIOUS
<1>1. /\ stage = "chase" /\ UNCHANGED <<stride, mem, links>>
      /\ IF mem[pos] \in Freq!Word THEN pos' = mem[pos] /\ UNCHANGED stage
                                   ELSE stage' = "lost" /\ UNCHANGED pos
  BY DEF Freq!Hop
<1>2. /\ Freq!NSegs' = Freq!NSegs /\ (\A s : Seg(s)' = Seg(s))
      /\ Freq!LastHead' = Freq!LastHead
  BY <1>1 DEF Freq!NSegs, Seg, Freq!LastHead
<1>3. /\ Freq!NSegs \in Nat \ {0} /\ stride \in 1 .. NBytes
      /\ Seg(0) = 0 /\ Freq!LastHead \in Freq!Word
      /\ (NBytes % stride) \in 0 .. stride - 1
      /\ Freq!LastHead = Seg(Freq!NSegs - 1) + (NBytes % stride)
      /\ \A s \in 0 .. Freq!NSegs - 1 : Seg(s) \in Freq!Word
  BY Segments DEF FreqInv, FreqTypes
<1>4. FreqTypes'
  BY <1>1, <1>2 DEF FreqInv, FreqTypes
<1>5. stage' # "link" /\ mem'[0] = Freq!LastHead
      /\ \A s \in 1 .. Freq!NSegs - 1 : mem'[Seg(s)] = Seg(s - 1)
  BY <1>1 DEF FreqInv, Linked
<1>6. CASE NBytes % stride = 0
  <2>1. PICK s \in 0 .. Freq!NSegs - 1 : pos = Seg(s)
    BY <1>1, <1>6 DEF FreqInv, Linked
  <2>2. \E u \in 0 .. Freq!NSegs - 1 : mem[pos] = Seg(u)
    <3>1. CASE s = 0
      <4>1. Freq!NSegs - 1 \in 0 .. Freq!NSegs - 1
        BY <1>3
      <4>2. Seg(Freq!NSegs - 1) \in Nat
        BY <1>3, <4>1, Segments
      <4>3. mem[pos] = Seg(Freq!NSegs - 1)
        BY <1>1, <1>3, <1>6, <2>1, <3>1, <4>2 DEF FreqInv, Linked
      <4> QED  BY <4>1, <4>3
    <3>2. CASE s # 0
      <4>1. s - 1 \in 0 .. Freq!NSegs - 1 /\ s \in 1 .. Freq!NSegs - 1
        BY <1>3, <3>2
      <4> QED  BY <1>1, <2>1, <4>1 DEF FreqInv, Linked
    <3> QED  BY <3>1, <3>2
  <2>3. stage' = "chase" /\ \E u \in 0 .. Freq!NSegs - 1 : pos' = Seg(u)
    BY <1>1, <1>3, <2>2
  <2> QED  BY <1>1, <1>2, <1>4, <1>5, <1>6, <2>3 DEF FreqInv, Linking, Linked
<1>7. CASE NBytes % stride # 0
  <2>1. mem[Freq!LastHead] = Freq!Garbage
    <3>1. ASSUME NEW s \in 0 .. Freq!NSegs - 1 PROVE Freq!LastHead # Seg(s)
      <4>1. Freq!NSegs - 1 \in Nat /\ (NBytes % stride) \in 1 .. stride - 1
        BY <1>3, <1>7
      <4> QED  BY <1>3, <4>1, SegsDiffer
    <3> QED  BY <1>3, <3>1 DEF FreqInv, FreqTypes
  <2>2. Freq!Garbage \notin Freq!Word
    BY DEF Freq!Garbage, Freq!Word
  <2>3. pos' = Freq!LastHead
    BY <1>1, <1>3, <1>7, <2>1, <2>2 DEF FreqInv, Linked
  <2> QED  BY <1>1, <1>2, <1>4, <1>5, <1>7, <2>3 DEF FreqInv, Linking, Linked
<1> QED  BY <1>6, <1>7

LEMMA FreqStep == FreqInv /\ [Freq!Next]_freqVars => FreqInv'
<1> SUFFICES ASSUME FreqInv, [Freq!Next]_freqVars PROVE FreqInv'
  OBVIOUS
<1>1. CASE Freq!Finished \/ UNCHANGED freqVars
  <2>1. UNCHANGED <<stride, mem, pos, links, stage>>
    BY <1>1 DEF Freq!Finished, Freq!vars, freqVars
  <2>2. /\ Freq!NSegs' = Freq!NSegs /\ (\A s : Seg(s)' = Seg(s))
        /\ Freq!LastHead' = Freq!LastHead
    BY <2>1 DEF Freq!NSegs, Seg, Freq!LastHead
  <2> QED
    BY <2>1, <2>2 DEF FreqInv, FreqTypes, Linking, Linked
<1> QED
  BY <1>1, LinkInv, FreqCloseInv, HopInv DEF Freq!Next

(* The walk of RingIsWhole exists and is what its definition says.         *)
LEMMA WalkIs ==
  ASSUME FreqTypes
  PROVE  /\ Freq!Walk[0] = 0
         /\ \A n \in Nat : Freq!Walk[n + 1] =
              IF Freq!Walk[n] \in Freq!Word THEN mem[Freq!Walk[n]] ELSE Freq!Garbage
<1> DEFINE F == [n \in Nat |-> [w \in Int |->
                   IF w \in Freq!Word THEN mem[w] ELSE Freq!Garbage]]
<1>1. F \in StepsIn(Int)
  BY DEF FreqTypes, Freq!Garbage, StepsIn
<1>2. PICK g \in [Nat -> Int] :
        g[0] = 0 /\ \A n \in Nat \ {0} : g[n] = F[n][g[n - 1]]
  <2>1. 0 \in Int
    OBVIOUS
  <2> HIDE DEF F
  <2>2. HasRecursion(Int, 0, F)
    BY <1>1, <2>1, RecursionDefines
  <2> QED  BY <2>2 DEF HasRecursion
<1>3. g = [n \in Nat |-> IF n = 0 THEN 0
                         ELSE IF g[n - 1] \in Freq!Word THEN mem[g[n - 1]]
                                                        ELSE Freq!Garbage]
  <2>1. ASSUME NEW n \in Nat, n # 0
        PROVE  g[n] = IF g[n - 1] \in Freq!Word THEN mem[g[n - 1]] ELSE Freq!Garbage
    <3>1. g[n] = F[n][g[n - 1]] /\ g[n - 1] \in Int
      <4> HIDE DEF F
      <4>1. n - 1 \in Nat
        BY <2>1
      <4> QED  BY <1>2, <2>1, <4>1
    <3> QED  BY <2>1, <3>1
  <2>2. g[0] = 0
    <3> HIDE DEF F
    <3> QED  BY <1>2
  <2> HIDE DEF F
  <2> QED  BY <2>1, <2>2
<1> HIDE DEF F
<1>4. Freq!Walk = [n \in Nat |-> IF n = 0 THEN 0
                     ELSE IF Freq!Walk[n - 1] \in Freq!Word
                            THEN mem[Freq!Walk[n - 1]] ELSE Freq!Garbage]
  BY <1>3, Zenon DEF Freq!Walk
<1> HIDE DEF F
<1>5. ASSUME NEW n \in Nat PROVE n + 1 \in Nat /\ n + 1 # 0 /\ (n + 1) - 1 = n
  OBVIOUS
<1> QED  BY <1>4, <1>5

(* A ring of whole segments is walked from the last segment down.          *)
LEMMA WalkDown ==
  ASSUME FreqInv, stage # "link", NBytes % stride = 0
  PROVE  \A n \in 1 .. Freq!NSegs : Freq!Walk[n] = Seg(Freq!NSegs - n)
<1>1. /\ Freq!NSegs \in Nat \ {0} /\ stride \in 1 .. NBytes
      /\ Freq!LastHead = Seg(Freq!NSegs - 1) /\ Seg(0) = 0
      /\ \A s \in 0 .. Freq!NSegs - 1 : Seg(s) \in Freq!Word
  <2>1. /\ Freq!NSegs \in Nat \ {0} /\ stride \in 1 .. NBytes /\ Seg(0) = 0
        /\ Freq!LastHead = Seg(Freq!NSegs - 1) + (NBytes % stride)
        /\ \A s \in 0 .. Freq!NSegs - 1 : Seg(s) \in Freq!Word
    BY Segments DEF FreqInv, FreqTypes
  <2>2. Freq!NSegs - 1 \in Nat
    BY <2>1
  <2>3. Seg(Freq!NSegs - 1) \in Nat
    BY <2>1, <2>2, Segments
  <2> QED  BY <2>1, <2>3
<1>2. FreqTypes
  BY DEF FreqInv
<1> DEFINE Astray == {n \in 1 .. Freq!NSegs : Freq!Walk[n] # Seg(Freq!NSegs - n)}
<1> SUFFICES ASSUME Astray # {} PROVE FALSE
  OBVIOUS
<1>3. PICK m \in Astray : \A n \in Astray : m <= n
  <2>1. Astray \in SUBSET Nat
    OBVIOUS
  <2> HIDE DEF Astray
  <2> QED  BY <2>1, LeastNumber
<1>4. m \in 1 .. Freq!NSegs /\ m - 1 \in Nat /\ (m - 1) + 1 = m
  BY <1>1, <1>3
<1>5. Freq!Walk[m] = IF Freq!Walk[m - 1] \in Freq!Word
                       THEN mem[Freq!Walk[m - 1]] ELSE Freq!Garbage
  BY <1>2, <1>4, WalkIs
<1>6. CASE m = 1
  <2>1. Freq!Walk[0] = Seg(0) /\ Seg(0) \in Freq!Word /\ mem[Seg(0)] = Freq!LastHead
    <3>1. 0 \in 0 .. Freq!NSegs - 1
      BY <1>1
    <3> QED  BY <1>1, <1>2, <3>1, WalkIs DEF FreqInv, Linked
  <2>2. Freq!Walk[1] = Seg(Freq!NSegs - 1)
    BY <1>1, <1>5, <1>6, <2>1
  <2> QED  BY <1>3, <1>6, <2>2
<1>7. CASE m # 1
  <2>1. m - 1 \notin Astray /\ m - 1 \in 1 .. Freq!NSegs
    <3>1. m - 1 \in 1 .. Freq!NSegs /\ ~ (m <= m - 1)
      BY <1>1, <1>4, <1>7
    <3> HIDE DEF Astray
    <3> QED  BY <1>3, <3>1
  <2>2. Freq!Walk[m - 1] = Seg(Freq!NSegs - (m - 1))
    BY <2>1
  <2>3. /\ Freq!NSegs - (m - 1) \in 1 .. Freq!NSegs - 1
        /\ (Freq!NSegs - (m - 1)) - 1 = Freq!NSegs - m
    BY <1>1, <1>4, <1>7
  <2>4. mem[Seg(Freq!NSegs - (m - 1))] = Seg(Freq!NSegs - m)
    BY <2>3 DEF FreqInv, Linked
  <2>5. Seg(Freq!NSegs - (m - 1)) \in Freq!Word
    BY <1>1, <2>3
  <2>6. Freq!Walk[m] = Seg(Freq!NSegs - m)
    BY <1>5, <2>2, <2>4, <2>5
  <2> QED  BY <1>3, <2>6
<1> QED  BY <1>6, <1>7

(* The ring freqLat chases is all of its segments exactly if the stride    *)
(* divides the size, for every buffer and every stride.                    *)
THEOREM RingIsAllSegments == ProgramsSpec => []RingIsWhole
<1>1. ProgramsInit => FreqInv
  BY FreqInit
<1>2. FreqInv /\ [ProgramsNext]_programsVars => FreqInv'
  BY Frame, FreqStep
<1>3. FreqInv => RingIsWhole
  <2> SUFFICES ASSUME FreqInv, stage # "link"
               PROVE  IF NBytes % stride = 0
                        THEN /\ {Freq!Walk[n] : n \in 1 .. Freq!NSegs} = Freq!Heads
                             /\ pos \in Freq!Heads /\ stage = "chase"
                        ELSE pos \notin Freq!Heads \ {0}
    BY DEF RingIsWhole, Freq!RingIsWhole
  <2>1. /\ Freq!NSegs \in Nat \ {0} /\ stride \in 1 .. NBytes
        /\ (NBytes % stride) \in 0 .. stride - 1
        /\ Freq!LastHead = Seg(Freq!NSegs - 1) + (NBytes % stride)
    BY Segments DEF FreqInv, FreqTypes
  <2>2. Freq!Heads = {Seg(s) : s \in 0 .. Freq!NSegs - 1}
    <3>1. \A s \in 0 .. Freq!NSegs - 1 : s * stride = Seg(s)
      BY <2>1 DEF Seg
    <3> QED  BY <3>1 DEF Freq!Heads
  <2>3. CASE NBytes % stride = 0
    <3>1. {Freq!Walk[n] : n \in 1 .. Freq!NSegs}
            = {Seg(Freq!NSegs - n) : n \in 1 .. Freq!NSegs}
      BY <2>3, WalkDown
    <3>2. {Seg(Freq!NSegs - n) : n \in 1 .. Freq!NSegs}
            = {Seg(s) : s \in 0 .. Freq!NSegs - 1}
      <4>1. ASSUME NEW n \in 1 .. Freq!NSegs
            PROVE  Freq!NSegs - n \in 0 .. Freq!NSegs - 1
        BY <2>1
      <4>2. ASSUME NEW s \in 0 .. Freq!NSegs - 1
            PROVE  \E n \in 1 .. Freq!NSegs : s = Freq!NSegs - n
        <5>1. Freq!NSegs - s \in 1 .. Freq!NSegs /\ s = Freq!NSegs - (Freq!NSegs - s)
          BY <2>1
        <5> QED  BY <5>1
      <4> QED  BY <4>1, <4>2
    <3> QED  BY <2>2, <2>3, <3>1, <3>2 DEF FreqInv, Linked
  <2>4. CASE NBytes % stride # 0
    <3>1. pos \in {0, Freq!LastHead}
      BY <2>4 DEF FreqInv, Linked
    <3>2. ASSUME NEW s \in 0 .. Freq!NSegs - 1 PROVE Freq!LastHead # Seg(s)
      <4>1. Freq!NSegs - 1 \in Nat /\ (NBytes % stride) \in 1 .. stride - 1
        BY <2>1, <2>4
      <4> QED  BY <2>1, <4>1, SegsDiffer
    <3> QED  BY <2>2, <2>4, <3>1, <3>2
  <2> QED  BY <2>3, <2>4
<1> QED  BY <1>1, <1>2, <1>3, PTL DEF ProgramsSpec

-----------------------------------------------------------------------------
(* The STREAM programs: a loop's elements are as the loop before left them *)
(* until the team has done them; the summary is of the times up to k.      *)

Triple == Nat \X Nat \X Nat

(* What an iteration makes of an element: only its a matters.              *)
Iterated(x) == <<3 * x[1] + 3 * (x[1] + 3 * x[1]), 3 * x[1], x[1] + 3 * x[1]>>

Teams ==
  /\ ~open => left = {}
  /\ loop \in {"fill", "double"} => k = 0
  /\ loop \in Kernel => k < NTimes
  /\ loop \in {"summary", "done"} => ~open /\ FltMax > 0 /\ k >= first

Done(j) == open /\ <<loop, j>> \notin left

Filled ==
  \A j \in Index :
    /\ loop = "fill" /\ Done(j) => abc[j] = <<1, 2, 0>>
    /\ loop = "double" => abc[j] = IF Done(j) THEN <<2, 2, 0>> ELSE <<1, 2, 0>>

Summed ==
  \A m \in Kernel :
    /\ loop \notin {"summary", "done"} =>
         sumtime[m] = 0 /\ mintime[m] = FltMax /\ maxtime[m] = 0
    /\ loop \in {"summary", "done"} =>
         /\ k = first => mintime[m] = FltMax
         /\ \A n \in first .. k - 1 :
              mintime[m] <= times[m][n] /\ times[m][n] <= maxtime[m]
         /\ k > first => \E n \in first .. k - 1 : mintime[m] = times[m][n]
         /\ k > first => \E n \in first .. k - 1 : maxtime[m] = times[m][n]
         /\ k = first => maxtime[m] = 0
         /\ mintime[m] * (k - first) <= sumtime[m]
         /\ sumtime[m] <= maxtime[m] * (k - first)
    /\ loop = "done" => k = NTimes /\ avgtime[m] = <<sumtime[m], NTimes - first>>

StreamInv == TypeOK /\ Teams /\ Filled /\ Validates /\ Summed

LEMMA IteratedIs ==
  ASSUME NEW x \in Triple
  PROVE  Iterated(x) \in Triple
<1>1. x[1] \in Nat
  BY DEF Triple
<1>2. ASSUME NEW i \in Nat
      PROVE  3 * i + 3 * (i + 3 * i) \in Nat /\ 3 * i \in Nat /\ i + 3 * i \in Nat
  OBVIOUS
<1> QED  BY <1>1, <1>2 DEF Triple, Iterated

LEMMA ExpectedIs ==
  /\ Expected[0] = <<2, 2, 0>>
  /\ \A n \in Nat : Expected[n] \in Triple /\ Expected[n + 1] = Iterated(Expected[n])
<1> DEFINE F == [n \in Nat |-> [x \in Triple |-> Iterated(x)]]
<1>1. F \in StepsIn(Triple)
  BY IteratedIs DEF StepsIn
<1>2. PICK g \in [Nat -> Triple] :
        g[0] = <<2 * 1, 2, 0>> /\ \A n \in Nat \ {0} : g[n] = F[n][g[n - 1]]
  <2>1. <<2 * 1, 2, 0>> \in Triple
    BY DEF Triple
  <2> HIDE DEF F
  <2>2. HasRecursion(Triple, <<2 * 1, 2, 0>>, F)
    BY <1>1, <2>1, RecursionDefines
  <2> QED  BY <2>2 DEF HasRecursion
<1>3. ASSUME NEW n \in Nat, n # 0
      PROVE  g[n] = Iterated(g[n - 1])
  <2>1. g[n] = F[n][g[n - 1]] /\ g[n - 1] \in Triple
    <3> HIDE DEF F
    <3>1. n - 1 \in Nat
      BY <1>3
    <3> QED  BY <1>2, <1>3, <3>1
  <2> QED  BY <1>3, <2>1
<1> HIDE DEF F
<1>4. g = [n \in Nat |->
             IF n = 0 THEN <<2 * 1, 2, 0>>
             ELSE << 3 * g[n - 1][1] + 3 * (g[n - 1][1] + 3 * g[n - 1][1]),
                     3 * g[n - 1][1], g[n - 1][1] + 3 * g[n - 1][1] >>]
  BY <1>2, <1>3 DEF Iterated
<1>5. Expected = [n \in Nat |->
             IF n = 0 THEN <<2 * 1, 2, 0>>
             ELSE << 3 * Expected[n - 1][1]
                        + 3 * (Expected[n - 1][1] + 3 * Expected[n - 1][1]),
                     3 * Expected[n - 1][1], Expected[n - 1][1] + 3 * Expected[n - 1][1] >>]
  BY <1>4, Zenon DEF Expected
<1>6. Expected[0] = <<2, 2, 0>>
  BY <1>5
<1>7. ASSUME NEW n \in Nat PROVE Expected[n + 1] = Iterated(Expected[n])
  <2>1. n + 1 \in Nat /\ n + 1 # 0 /\ (n + 1) - 1 = n
    OBVIOUS
  <2> QED  BY <1>5, <2>1 DEF Iterated
<1>8. ASSUME NEW n \in Nat PROVE Expected[n] \in Triple
  <2> DEFINE Astray == {i \in Nat : Expected[i] \notin Triple}
  <2> SUFFICES ASSUME Astray # {} PROVE FALSE
    OBVIOUS
  <2>0. Astray \in SUBSET Nat
    OBVIOUS
  <2>1. PICK m \in Astray : \A i \in Astray : m <= i
    <3> HIDE DEF Astray
    <3> QED  BY <2>0, LeastNumber
  <2>2. m # 0
    <3>1. <<2, 2, 0>> \in Triple
      BY DEF Triple
    <3> QED  BY <1>6, <2>1, <3>1
  <2>3. m - 1 \in Nat /\ (m - 1) + 1 = m /\ m - 1 \notin Astray
    BY <2>1, <2>2
  <2>4. Expected[m] = Iterated(Expected[m - 1])
    BY <1>7, <2>3
  <2> QED  BY <2>1, <2>3, <2>4, IteratedIs
<1> QED  BY <1>6, <1>7, <1>8

LEMMA StreamInit == Init => StreamInv
<1> SUFFICES ASSUME Init PROVE StreamInv
  OBVIOUS
<1>1. NTimes \in Nat /\ FltMax \in Nat /\ Junk \subseteq Nat /\ N \in Nat
  BY SizeAssumption, NTimesAssumption, ElapsedAssumption
<1>2. abc \in [Index -> Triple]
  <2>1. {<<g, g, g>> : g \in Junk} \subseteq Triple
    BY <1>1 DEF Triple
  <2> QED  BY <2>1 DEF Init
<1>3. TypeOK
  <2>1. times \in [Kernel -> [Iteration -> Elapsed \cup {0}]]
    BY DEF Init
  <2>2. sumtime \in [Kernel -> Nat] /\ maxtime \in [Kernel -> Nat]
        /\ mintime \in [Kernel -> 0 .. FltMax]
    BY <1>1 DEF Init
  <2>3. avgtime \in [Kernel -> Nat \X (Nat \ {0})]
    BY DEF Init
  <2>4. first \in {0, 1} /\ k \in 0 .. NTimes
    BY <1>1 DEF Init
  <2>5. /\ loop \in Kernel \cup {"fill", "double", "summary", "done"}
        /\ left \subseteq {loop} \X Index
    BY DEF Init
  <2>6. open \in BOOLEAN
    BY Zenon DEF Init
  <2> QED  BY <1>2, <2>1, <2>2, <2>3, <2>4, <2>5, <2>6 DEF TypeOK, Triple
<1>4. Teams /\ Filled /\ Validates
  BY DEF Init, Teams, Filled, Validates, Done, Kernel
<1>5. Summed
  BY DEF Init, Summed
<1> QED  BY <1>3, <1>4, <1>5 DEF StreamInv

LEMMA ForkInv == StreamInv /\ Fork => StreamInv'
<1> SUFFICES ASSUME StreamInv, Fork PROVE StreamInv'
  OBVIOUS
<1>1. /\ ~open /\ loop \notin {"summary", "done"}
      /\ open' = TRUE /\ left' = left \cup {loop} \X Index
      /\ UNCHANGED <<first, k, loop, abc, times, sumtime, mintime, maxtime, avgtime>>
  BY DEF Fork, summary
<1>2. left' = {loop} \X Index
  BY <1>1 DEF StreamInv, Teams
<1>3. TypeOK'
  <2>1. left' \subseteq {loop'} \X Index /\ open' \in BOOLEAN
    BY <1>1, <1>2
  <2> QED  BY <1>1, <2>1 DEF StreamInv, TypeOK
<1>4. Teams'
  BY <1>1 DEF StreamInv, Teams
<1>5. Filled' /\ Validates'
  <2>1. \A j \in Index : ~ Done(j) /\ ~ Done(j)' /\ <<loop, j>> \in left'
    BY <1>1, <1>2 DEF Done
  <2>2. Filled'
    BY <1>1, <2>1 DEF StreamInv, Filled
  <2>3. Validates'
    BY <1>1, <2>1 DEF StreamInv, Validates, Check, Statement
  <2> QED  BY <2>2, <2>3
<1>6. Summed'
  BY <1>1 DEF StreamInv, Summed
<1> QED  BY <1>3, <1>4, <1>5, <1>6 DEF StreamInv

(* What each loop's body makes of an element.                              *)
LEMMA Bodies ==
  ASSUME NEW x, NEW y, NEW z
  PROVE  /\ Body("fill", x, y, z) = <<1, 2, 0>>
         /\ Body("double", x, y, z) = <<2 * x, y, z>>
         /\ Body("copy", x, y, z) = <<x, y, x>>
         /\ Body("scale", x, y, z) = <<x, 3 * z, z>>
         /\ Body("add", x, y, z) = <<x, y, x + y>>
         /\ Body("triad", x, y, z) = <<y + 3 * z, y, z>>
BY DEF Body

LEMMA BodyTypes ==
  ASSUME NEW m \in Kernel \cup {"fill", "double"},
         NEW x \in Nat, NEW y \in Nat, NEW z \in Nat
  PROVE  Body(m, x, y, z) \in Triple
<1>1. ASSUME NEW i \in Nat, NEW j \in Nat
      PROVE  /\ 2 * i \in Nat /\ 3 * i \in Nat /\ i + j \in Nat
             /\ i + 3 * j \in Nat
  OBVIOUS
<1> QED  BY <1>1, Bodies DEF Kernel, Triple

LEMMA Statements ==
  Statement["copy"] = 1 /\ Statement["scale"] = 2 /\ Statement["add"] = 3
  /\ Statement["triad"] = 4
BY DEF Statement

(* The checks before and behind each kernel's body fit together.           *)
LEMMA Checks ==
  ASSUME k \in Nat
  PROVE  /\ \A m \in Kernel :
              Body(m, Check[Statement[m]][1], Check[Statement[m]][2], Check[Statement[m]][3])
                = Check[Statement[m] + 1]
         /\ Check[1] = Expected[k] /\ Check[5] = Expected[k + 1]
<1>1. Expected[k] \in Triple /\ Expected[k + 1] = Iterated(Expected[k])
  BY ExpectedIs
<1>2. /\ Check[1] = Expected[k]
      /\ Check[2] = <<Expected[k][1], Expected[k][2], Expected[k][1]>>
      /\ Check[3] = <<Expected[k][1], 3 * Expected[k][1], Expected[k][1]>>
      /\ Check[4] = <<Expected[k][1], 3 * Expected[k][1],
                      Expected[k][1] + 3 * Expected[k][1]>>
      /\ Check[5] = Expected[k + 1]
  BY DEF Check
<1>3. PICK x \in Nat, y \in Nat, z \in Nat : Expected[k] = <<x, y, z>>
  BY <1>1 DEF Triple
<1>4. /\ Check[1] = <<x, y, z>> /\ Check[2] = <<x, y, x>>
      /\ Check[3] = <<x, 3 * x, x>> /\ Check[4] = <<x, 3 * x, x + 3 * x>>
      /\ Check[5] = <<3 * x + 3 * (x + 3 * x), 3 * x, x + 3 * x>>
  BY <1>1, <1>2, <1>3 DEF Iterated
<1>5. /\ Check[Statement["copy"]] = <<x, y, z>>
      /\ Check[Statement["copy"] + 1] = <<x, y, x>>
      /\ Check[Statement["scale"]] = <<x, y, x>>
      /\ Check[Statement["scale"] + 1] = <<x, 3 * x, x>>
      /\ Check[Statement["add"]] = <<x, 3 * x, x>>
      /\ Check[Statement["add"] + 1] = <<x, 3 * x, x + 3 * x>>
      /\ Check[Statement["triad"]] = <<x, 3 * x, x + 3 * x>>
      /\ Check[Statement["triad"] + 1]
           = <<3 * x + 3 * (x + 3 * x), 3 * x, x + 3 * x>>
  BY <1>4, Statements
<1>6. ASSUME NEW m \in Kernel
      PROVE  Body(m, Check[Statement[m]][1], Check[Statement[m]][2], Check[Statement[m]][3])
               = Check[Statement[m] + 1]
  <2>1. CASE m = "copy"
    <3>1. /\ Check[Statement[m]][1] = x /\ Check[Statement[m]][2] = y
          /\ Check[Statement[m]][3] = z
      BY <1>5, <2>1
    <3>2. Body(m, x, y, z) = <<x, y, x>>
      BY <2>1, Bodies
    <3> QED  BY <1>5, <2>1, <3>1, <3>2
  <2>2. CASE m = "scale"
    <3>1. /\ Check[Statement[m]][1] = x /\ Check[Statement[m]][2] = y
          /\ Check[Statement[m]][3] = x
      BY <1>5, <2>2
    <3>2. Body(m, x, y, x) = <<x, 3 * x, x>>
      BY <2>2, Bodies
    <3> QED  BY <1>5, <2>2, <3>1, <3>2
  <2>3. CASE m = "add"
    <3>1. /\ Check[Statement[m]][1] = x /\ Check[Statement[m]][2] = 3 * x
          /\ Check[Statement[m]][3] = x
      BY <1>5, <2>3
    <3>2. Body(m, x, 3 * x, x) = <<x, 3 * x, x + 3 * x>>
      BY <2>3, Bodies
    <3> QED  BY <1>5, <2>3, <3>1, <3>2
  <2>4. CASE m = "triad"
    <3>1. /\ Check[Statement[m]][1] = x /\ Check[Statement[m]][2] = 3 * x
          /\ Check[Statement[m]][3] = x + 3 * x
      BY <1>5, <2>4
    <3>2. Body(m, x, 3 * x, x + 3 * x) = <<3 * x + 3 * (x + 3 * x), 3 * x, x + 3 * x>>
      BY <2>4, Bodies
    <3> QED  BY <1>5, <2>4, <3>1, <3>2
  <2> QED  BY <2>1, <2>2, <2>3, <2>4 DEF Kernel
<1> QED  BY <1>2, <1>6

LEMMA DoInv ==
  ASSUME StreamInv, NEW m \in Kernel \cup {"fill", "double"}, NEW j \in Index, Do(m, j)
  PROVE  StreamInv'
<1>1. /\ <<m, j>> \in left /\ left' = left \ {<<m, j>>}
      /\ abc' = [abc EXCEPT ![j] = Body(m, abc[j][1], abc[j][2], abc[j][3])]
      /\ UNCHANGED <<first, k, loop, open, times, sumtime, mintime, maxtime, avgtime>>
  BY DEF Do, summary
<1>2. /\ m = loop /\ open /\ ~ Done(j) /\ Done(j)'
      /\ \A i \in Index \ {j} : Done(i)' <=> Done(i)
  BY <1>1 DEF StreamInv, TypeOK, Teams, Done
<1>3. abc \in [Index -> Triple] /\ abc[j] \in Triple
  BY DEF StreamInv, TypeOK, Triple
<1>4. Body(m, abc[j][1], abc[j][2], abc[j][3]) \in Triple
  BY <1>3, BodyTypes DEF Triple
<1>5. /\ abc' \in [Index -> Triple]
      /\ abc'[j] = Body(m, abc[j][1], abc[j][2], abc[j][3])
      /\ \A i \in Index \ {j} : abc'[i] = abc[i]
  BY <1>1, <1>3, <1>4
<1>6. TypeOK'
  <2>1. left' \subseteq {loop'} \X Index
    BY <1>1 DEF StreamInv, TypeOK
  <2> QED  BY <1>1, <1>5, <2>1 DEF StreamInv, TypeOK, Triple
<1>7. Teams'
  BY <1>1, <1>2 DEF StreamInv, Teams
<1>8. Filled'
  <2>1. loop = "fill" => abc'[j] = <<1, 2, 0>>
    BY <1>2, <1>5, Bodies
  <2>2. loop = "double" => abc'[j] = <<2, 2, 0>>
    <3>1. loop = "double" => abc[j] = <<1, 2, 0>>
      BY <1>2 DEF StreamInv, Filled
    <3> QED  BY <1>2, <1>5, <3>1, Bodies
  <2>3. ASSUME NEW i \in Index
        PROVE  /\ loop = "fill" /\ Done(i)' => abc'[i] = <<1, 2, 0>>
               /\ loop = "double" =>
                    abc'[i] = IF Done(i)' THEN <<2, 2, 0>> ELSE <<1, 2, 0>>
    BY <1>2, <1>5, <2>1, <2>2 DEF StreamInv, Filled
  <2> QED  BY <1>1, <2>3 DEF Filled
<1>9. Validates'
  <2>1. k \in Nat
    BY DEF StreamInv, TypeOK
  <2>2. Check' = Check
    BY <1>1 DEF Check
  <2>3. loop \in Kernel => abc'[j] = Check[Statement[loop] + 1]
    <3>1. loop \in Kernel => abc[j] = Check[Statement[loop]]
      BY <1>2 DEF StreamInv, Validates, Done
    <3> QED  BY <1>2, <1>5, <2>1, <3>1, Checks
  <2>4. ASSUME NEW i \in Index, loop \in Kernel
        PROVE  abc'[i] = Check[IF Done(i)' THEN Statement[loop] + 1 ELSE Statement[loop]]
    <3>1. CASE i = j
      BY <1>2, <2>3, <2>4, <3>1
    <3>2. CASE i # j
      BY <1>2, <1>5, <2>4, <3>2 DEF StreamInv, Validates, Done
    <3> QED  BY <3>1, <3>2
  <2>5. loop \notin {"summary", "done"}
    BY <1>2 DEF StreamInv, Teams
  <2> QED  BY <1>1, <2>2, <2>4, <2>5 DEF Validates, Done
<1>10. Summed'
  BY <1>1 DEF StreamInv, Summed
<1> QED  BY <1>6, <1>7, <1>8, <1>9, <1>10 DEF StreamInv

LEMMA AfterIs ==
  /\ After("fill") = "double" /\ After("double") = "copy"
  /\ After("copy") = "scale" /\ After("scale") = "add" /\ After("add") = "triad"
  /\ After("triad") = IF k + 1 < NTimes THEN "copy" ELSE "summary"
BY DEF After

(* The loops that join, and where each leaves main().                      *)
LEMMA Joins ==
  ASSUME StreamInv, Join
  PROVE  \/ loop = "fill" /\ loop' = "double" /\ k' = k
         \/ loop = "double" /\ loop' = "copy" /\ k' = k
         \/ loop = "copy" /\ loop' = "scale" /\ k' = k
         \/ loop = "scale" /\ loop' = "add" /\ k' = k
         \/ loop = "add" /\ loop' = "triad" /\ k' = k
         \/ loop = "triad" /\ loop' = "copy" /\ k + 1 < NTimes /\ k' = k + 1
         \/ loop = "triad" /\ loop' = "summary" /\ k + 1 = NTimes /\ k' = first
<1>1. /\ open /\ loop' = After(loop)
      /\ k' = IF loop # "triad" THEN k ELSE IF loop' = "summary" THEN first ELSE k + 1
  BY DEF Join
<1>2. loop \in {"fill", "double", "copy", "scale", "add", "triad"}
  BY <1>1 DEF StreamInv, TypeOK, Teams, Kernel
<1>3. CASE loop # "triad"
  BY <1>1, <1>2, <1>3, AfterIs
<1>4. CASE loop = "triad"
  <2>1. k < NTimes /\ k \in Nat /\ NTimes \in Nat
    BY <1>4, NTimesAssumption DEF StreamInv, TypeOK, Teams, Kernel
  <2> QED  BY <1>1, <1>4, <2>1, AfterIs
<1> QED  BY <1>3, <1>4

LEMMA JoinTypes ==
  ASSUME StreamInv, Join
  PROVE  /\ times' \in [Kernel -> [Iteration -> Elapsed \cup {0}]]
         /\ loop \in Kernel => FltMax > 0
<1>1. IF loop \in Kernel THEN \E t \in Elapsed : times' = [times EXCEPT ![loop][k] = t]
                         ELSE times' = times
  BY DEF Join
<1>2. times \in [Kernel -> [Iteration -> Elapsed \cup {0}]]
  BY DEF StreamInv, TypeOK
<1>3. CASE loop \in Kernel
  <2>1. PICK t \in Elapsed : times' = [times EXCEPT ![loop][k] = t]
    BY <1>1, <1>3
  <2>2. k \in Iteration
    BY <1>3, NTimesAssumption DEF StreamInv, TypeOK, Teams, Iteration
  <2>3. FltMax > 0
    BY <2>1, ElapsedAssumption
  <2>4. [times[loop] EXCEPT ![k] = t] \in [Iteration -> Elapsed \cup {0}]
    BY <1>2, <1>3, <2>1, <2>2
  <2>5. times' = [times EXCEPT ![loop] = [times[loop] EXCEPT ![k] = t]]
    BY <2>1
  <2> QED  BY <1>2, <2>3, <2>4, <2>5
<1>4. CASE loop \notin Kernel
  BY <1>1, <1>2, <1>4
<1> QED  BY <1>3, <1>4

LEMMA JoinInv == StreamInv /\ Join => StreamInv'
<1> SUFFICES ASSUME StreamInv, Join PROVE StreamInv'
  OBVIOUS
<1>1. /\ open /\ left = {} /\ open' = FALSE
      /\ UNCHANGED <<first, left, abc, sumtime, mintime, maxtime, avgtime>>
  BY DEF Join, arrays, summary
<1>2. /\ k \in Nat /\ k \in 0 .. NTimes /\ first \in {0, 1}
      /\ NTimes \in Nat /\ NTimes >= 2
  BY NTimesAssumption DEF StreamInv, TypeOK
<1>3. \A j \in Index : Done(j) /\ ~ Done(j)'
  BY <1>1 DEF Done
<1>4. TypeOK'
  <2>1. k' \in 0 .. NTimes
    BY <1>2, Joins
  <2>2. loop' \in Kernel \cup {"fill", "double", "summary", "done"}
    BY Joins DEF Kernel
  <2>3. open' \in BOOLEAN /\ left' \subseteq {loop'} \X Index
    <3>1. open' \in BOOLEAN
      BY <1>1, Zenon
    <3> QED  BY <1>1, <3>1
  <2> QED  BY <1>1, <2>1, <2>2, <2>3, JoinTypes DEF StreamInv, TypeOK
<1>5. Teams'
  <2>1. loop' = "double" => k' = 0
    BY Joins DEF StreamInv, Teams
  <2>2. loop' \in Kernel => k' < NTimes
    BY <1>2, Joins DEF StreamInv, Teams, Kernel
  <2>3. loop' \in {"summary", "done"} => FltMax > 0 /\ k' >= first
    BY <1>2, Joins, JoinTypes DEF Kernel
  <2>4. loop' # "fill"
    BY Joins
  <2> QED  BY <1>1, <2>1, <2>2, <2>3, <2>4 DEF Teams
<1>6. Filled'
  <2>1. ASSUME NEW j \in Index, loop' = "double" PROVE abc'[j] = <<1, 2, 0>>
    <3>1. loop = "fill"
      BY <2>1, Joins
    <3> QED  BY <1>1, <1>3, <3>1 DEF StreamInv, Filled
  <2>2. loop' # "fill"
    BY Joins
  <2> QED  BY <1>3, <2>1, <2>2 DEF Filled
<1>7. Validates'
  <2>1. ASSUME NEW j \in Index, loop' \in Kernel
        PROVE  abc[j] = Check'[Statement[loop']]
    <3>1. CASE loop = "double"
      <4>1. loop' = "copy" /\ k = 0 /\ k' = 0
        BY <3>1, Joins DEF StreamInv, Teams
      <4>2. abc[j] = <<2, 2, 0>>
        BY <1>3, <3>1 DEF StreamInv, Filled
      <4>3. Check'[1] = Expected[0]
        BY <4>1 DEF Check
      <4> QED  BY <4>1, <4>2, <4>3, ExpectedIs, Statements
    <3>2. CASE loop \in {"copy", "scale", "add"}
      <4>1. k' = k /\ Statement[loop'] = Statement[loop] + 1 /\ loop \in Kernel
        BY <3>2, Joins, Statements DEF Kernel
      <4>2. Check' = Check
        BY <4>1 DEF Check
      <4>3. abc[j] = Check[Statement[loop] + 1]
        BY <1>3, <4>1 DEF StreamInv, Validates, Done
      <4> QED  BY <4>1, <4>2, <4>3
    <3>3. CASE loop = "triad"
      <4>1. loop' = "copy" /\ k' = k + 1
        BY <2>1, <3>3, Joins DEF Kernel
      <4>2. abc[j] = Check[4 + 1]
        BY <1>3, <3>3, Statements DEF StreamInv, Validates, Done, Kernel
      <4>3. Check'[1] = Expected[k + 1]
        BY <4>1 DEF Check
      <4> QED  BY <1>2, <4>1, <4>2, <4>3, Checks, Statements
    <3> QED  BY <2>1, <3>1, <3>2, <3>3, Joins DEF Kernel
  <2>2. ASSUME NEW j \in Index, loop' \in {"summary", "done"}
        PROVE  abc[j] = Expected[NTimes]
    <3>1. loop = "triad" /\ k + 1 = NTimes
      BY <2>2, Joins
    <3>2. abc[j] = Check[4 + 1]
      BY <1>3, <3>1, Statements DEF StreamInv, Validates, Done, Kernel
    <3> QED  BY <1>2, <3>1, <3>2, Checks
  <2> QED  BY <1>1, <2>1, <2>2 DEF Validates
<1>8. Summed'
  <2>1. loop \notin {"summary", "done"} /\ loop' # "done"
    BY Joins
  <2>2. \A m \in Kernel : sumtime[m] = 0 /\ mintime[m] = FltMax /\ maxtime[m] = 0
    BY <2>1 DEF StreamInv, Summed
  <2>3. loop' \in {"summary", "done"} => k' = first
    BY <2>1, Joins
  <2>4. first \in Nat /\ first .. first - 1 = {} /\ FltMax * (first - first) = 0
        /\ 0 * (first - first) = 0
    BY <1>2, ElapsedAssumption
  <2>5. ASSUME NEW m \in Kernel, loop' \in {"summary", "done"}
        PROVE  /\ k' = first' => mintime'[m] = FltMax /\ maxtime'[m] = 0
               /\ \A n \in first' .. k' - 1 :
                    mintime'[m] <= times'[m][n] /\ times'[m][n] <= maxtime'[m]
               /\ ~ (k' > first')
               /\ mintime'[m] * (k' - first') <= sumtime'[m]
               /\ sumtime'[m] <= maxtime'[m] * (k' - first')
    BY <1>1, <2>2, <2>3, <2>4, <2>5
  <2> QED  BY <1>1, <2>1, <2>2, <2>5 DEF Summed
<1> QED  BY <1>4, <1>5, <1>6, <1>7, <1>8 DEF StreamInv

LEMMA SummariseInv == StreamInv /\ Summarise => StreamInv'
<1> SUFFICES ASSUME StreamInv, Summarise PROVE StreamInv'
  OBVIOUS
<1>1. /\ loop = "summary" /\ k < NTimes
      /\ sumtime' = [m \in Kernel |-> sumtime[m] + times[m][k]]
      /\ mintime' = [m \in Kernel |-> Lesser(mintime[m], times[m][k])]
      /\ maxtime' = [m \in Kernel |-> Greater(maxtime[m], times[m][k])]
      /\ k' = k + 1
      /\ UNCHANGED <<first, loop, open, left, abc, times, avgtime>>
  BY DEF Summarise, arrays
<1>2. /\ k \in Nat /\ first \in Nat /\ first <= k /\ NTimes \in Nat
      /\ FltMax \in Nat /\ FltMax > 0
  BY <1>1, NTimesAssumption, ElapsedAssumption DEF StreamInv, TypeOK, Teams
<1>3. ASSUME NEW m \in Kernel
      PROVE  /\ times[m][k] \in 0 .. FltMax - 1
             /\ sumtime[m] \in Nat /\ maxtime[m] \in Nat /\ mintime[m] \in 0 .. FltMax
  <2>1. k \in Iteration
    BY <1>1, <1>2 DEF Iteration
  <2>2. times[m][k] \in Elapsed \cup {0}
    BY <2>1 DEF StreamInv, TypeOK
  <2>3. times[m][k] \in 0 .. FltMax - 1
    <3>1. 0 \in 0 .. FltMax - 1
      BY <1>2
    <3>2. Elapsed \subseteq 0 .. FltMax - 1
      BY ElapsedAssumption
    <3> QED  BY <2>2, <3>1, <3>2
  <2>4. sumtime[m] \in Nat /\ maxtime[m] \in Nat /\ mintime[m] \in 0 .. FltMax
    <3>1. /\ sumtime \in [Kernel -> Nat] /\ maxtime \in [Kernel -> Nat]
          /\ mintime \in [Kernel -> 0 .. FltMax]
      BY DEF StreamInv, TypeOK
    <3> QED  BY <3>1
  <2> QED  BY <2>3, <2>4
<1>4. ASSUME NEW m \in Kernel
      PROVE  /\ sumtime'[m] = sumtime[m] + times[m][k]
             /\ mintime'[m] = IF mintime[m] < times[m][k] THEN mintime[m] ELSE times[m][k]
             /\ maxtime'[m] = IF maxtime[m] > times[m][k] THEN maxtime[m] ELSE times[m][k]
  BY <1>1 DEF Lesser, Greater
<1>5. TypeOK'
  <2>1. sumtime' \in [Kernel -> Nat] /\ maxtime' \in [Kernel -> Nat]
        /\ mintime' \in [Kernel -> 0 .. FltMax]
    BY <1>1, <1>2, <1>3 DEF Lesser, Greater
  <2>2. k' \in 0 .. NTimes
    BY <1>1, <1>2
  <2> QED  BY <1>1, <2>1, <2>2 DEF StreamInv, TypeOK
<1>6. Teams'
  BY <1>1, <1>2 DEF StreamInv, Teams, Kernel
<1>7. Filled' /\ Validates'
  BY <1>1 DEF StreamInv, Filled, Validates, Done, Kernel
<1>8. Summed'
  <2>1. ASSUME NEW m \in Kernel
        PROVE  /\ \A n \in first .. (k + 1) - 1 :
                    mintime'[m] <= times[m][n] /\ times[m][n] <= maxtime'[m]
               /\ \E n \in first .. (k + 1) - 1 : mintime'[m] = times[m][n]
               /\ \E n \in first .. (k + 1) - 1 : maxtime'[m] = times[m][n]
    <3>1. ASSUME NEW n \in first .. k - 1
          PROVE  /\ mintime[m] <= times[m][n] /\ times[m][n] <= maxtime[m]
                 /\ times[m][n] \in Nat
      <4>1. n \in Iteration
        BY <1>1, <1>2 DEF Iteration
      <4>2. times[m][n] \in Elapsed \cup {0}
        BY <4>1 DEF StreamInv, TypeOK
      <4>3. times[m][n] \in Nat
        BY <4>2, ElapsedAssumption
      <4>4. mintime[m] <= times[m][n] /\ times[m][n] <= maxtime[m]
        BY <1>1 DEF StreamInv, Summed
      <4> QED  BY <4>3, <4>4
    <3>2. first .. (k + 1) - 1 = (first .. k - 1) \cup {k} /\ k \in first .. (k + 1) - 1
      BY <1>2
    <3>3. ASSUME NEW n \in first .. (k + 1) - 1
          PROVE  mintime'[m] <= times[m][n] /\ times[m][n] <= maxtime'[m]
      <4>1. CASE n = k
        BY <1>3, <1>4, <4>1
      <4>2. CASE n \in first .. k - 1
        BY <1>3, <1>4, <3>1, <4>2
      <4> QED  BY <3>2, <4>1, <4>2
    <3>4. CASE k = first
      <4>1. mintime[m] = FltMax /\ maxtime[m] = 0
        BY <1>1, <3>4 DEF StreamInv, Summed
      <4>2. mintime'[m] = times[m][k] /\ maxtime'[m] = times[m][k]
        BY <1>2, <1>3, <1>4, <4>1
      <4> QED  BY <3>2, <3>3, <4>2
    <3>5. CASE k # first
      <4>1. /\ \E n \in first .. k - 1 : mintime[m] = times[m][n]
            /\ \E n \in first .. k - 1 : maxtime[m] = times[m][n]
        <5>1. k > first
          BY <1>2, <3>5
        <5> QED  BY <1>1, <5>1 DEF StreamInv, Summed
      <4>2. \E n \in first .. (k + 1) - 1 : mintime'[m] = times[m][n]
        BY <1>4, <3>2, <4>1
      <4>3. \E n \in first .. (k + 1) - 1 : maxtime'[m] = times[m][n]
        BY <1>4, <3>2, <4>1
      <4> QED  BY <3>3, <4>2, <4>3
    <3> QED  BY <3>4, <3>5
  <2>2. ASSUME NEW m \in Kernel
        PROVE  /\ mintime'[m] * ((k + 1) - first) <= sumtime'[m]
               /\ sumtime'[m] <= maxtime'[m] * ((k + 1) - first)
    <3> DEFINE c == k - first
               lo == mintime[m]
               hi == maxtime[m]
               lo1 == mintime'[m]
               hi1 == maxtime'[m]
               sum == sumtime[m]
               t == times[m][k]
    <3>1. c \in Nat /\ (k + 1) - first = c + 1
      BY <1>2
    <3>2. lo \in Nat /\ hi \in Nat /\ sum \in Nat /\ t \in Nat
      BY <1>2, <1>3
    <3>3. /\ lo1 \in Nat /\ lo1 <= lo /\ lo1 <= t
          /\ hi1 \in Nat /\ hi <= hi1 /\ t <= hi1
      BY <1>4, <3>2
    <3>4. lo * c <= sum /\ sum <= hi * c
      BY <1>1 DEF StreamInv, Summed
    <3>5. sumtime'[m] = sum + t
      BY <1>4
    <3> HIDE DEF c, lo, hi, lo1, hi1, sum, t
    <3>6. c * lo1 <= c * lo /\ c * hi <= c * hi1
      BY <3>1, <3>2, <3>3, Monotone
    <3>7. c * lo1 \in Nat /\ c * lo \in Nat /\ c * hi \in Nat /\ c * hi1 \in Nat
      BY <3>1, <3>2, <3>3
    <3>8. lo1 * (c + 1) = c * lo1 + lo1 /\ hi1 * (c + 1) = c * hi1 + hi1
      BY <3>1, <3>3
    <3>9. lo * c = c * lo /\ hi * c = c * hi
      BY <3>1, <3>2
    <3>10. lo1 * (c + 1) <= sum + t /\ sum + t <= hi1 * (c + 1)
      BY <3>2, <3>3, <3>4, <3>6, <3>7, <3>8, <3>9
    <3> QED  BY <3>1, <3>5, <3>10 DEF lo1, hi1
  <2>3. (k + 1 = first) = FALSE
    BY <1>2
  <2> QED  BY <1>1, <2>1, <2>2, <2>3 DEF Summed
<1> QED  BY <1>5, <1>6, <1>7, <1>8 DEF StreamInv

LEMMA ReportInv == StreamInv /\ Report => StreamInv'
<1> SUFFICES ASSUME StreamInv, Report PROVE StreamInv'
  OBVIOUS
<1>1. /\ loop = "summary" /\ k = NTimes /\ loop' = "done"
      /\ avgtime' = [m \in Kernel |-> <<sumtime[m], NTimes - first>>]
      /\ UNCHANGED <<first, k, open, left, abc, times, sumtime, mintime, maxtime>>
  BY DEF Report, arrays
<1>2. TypeOK'
  <2>1. NTimes - first \in Nat \ {0}
    BY NTimesAssumption DEF StreamInv, TypeOK
  <2>2. avgtime' \in [Kernel -> Nat \X (Nat \ {0})]
    BY <1>1, <2>1 DEF StreamInv, TypeOK
  <2>3. left' \subseteq {loop'} \X Index
    BY <1>1 DEF StreamInv, Teams
  <2> QED  BY <1>1, <2>2, <2>3 DEF StreamInv, TypeOK
<1>3. Teams' /\ Filled' /\ Validates'
  BY <1>1 DEF StreamInv, Teams, Filled, Validates, Kernel
<1>4. Summed'
  BY <1>1 DEF StreamInv, Summed
<1> QED  BY <1>2, <1>3, <1>4 DEF StreamInv

LEMMA StreamStep == StreamInv /\ [Next]_vars => StreamInv'
<1> SUFFICES ASSUME StreamInv, [Next]_vars PROVE StreamInv'
  OBVIOUS
<1>1. CASE Finished \/ UNCHANGED vars
  <2>1. UNCHANGED <<first, k, loop, open, left, abc, times, sumtime, mintime,
                    maxtime, avgtime>>
    BY <1>1 DEF Finished, vars, arrays, summary
  <2> QED
    BY <2>1 DEF StreamInv, TypeOK, Teams, Filled, Validates, Summed, Done, Check
<1>2. ASSUME NEW m \in Kernel \cup {"fill", "double"}, NEW j \in Index, Do(m, j)
      PROVE  StreamInv'
  BY <1>2, DoInv
<1> QED
  BY <1>1, <1>2, ForkInv, JoinInv, SummariseInv, ReportInv DEF Next

(* The least of numbers, if there is one.                                  *)
LEMMA Extremes ==
  ASSUME NEW S \in SUBSET Nat, NEW x \in S
  PROVE  /\ (\A y \in S : x <= y) => Min(S) = x
         /\ (\A y \in S : y <= x) => Max(S) = x
<1>1. ASSUME \A y \in S : x <= y PROVE Min(S) = x
  <2>1. Min(S) \in S /\ \A y \in S : Min(S) <= y
    BY <1>1 DEF Min
  <2>2. Min(S) <= x /\ x <= Min(S) /\ Min(S) \in Nat /\ x \in Nat
    BY <1>1, <2>1
  <2> QED  BY <2>2
<1>2. ASSUME \A y \in S : y <= x PROVE Max(S) = x
  <2>1. \A y \in S : x >= y
    BY <1>2
  <2>2. Max(S) \in S /\ \A y \in S : Max(S) >= y
    BY <2>1 DEF Max
  <2>3. Max(S) >= x /\ x >= Max(S) /\ Max(S) \in Nat /\ x \in Nat
    BY <2>1, <2>2
  <2> QED  BY <2>3
<1> QED  BY <1>1, <1>2

(* For arrays of every size, any number of iterations and every split of   *)
(* the loops over the team: each kernel finds what the one before it       *)
(* wrote, and the summary is of the iterations that count.                 *)
THEOREM StreamIsRight == ProgramsSpec => []StreamTells
<1>1. ProgramsInit => StreamInv
  BY StreamInit DEF ProgramsInit
<1>2. StreamInv /\ [ProgramsNext]_programsVars => StreamInv'
  BY Frame, StreamStep
<1>3. StreamInv => StreamTells
  <2> SUFFICES ASSUME StreamInv PROVE SummaryTells
    BY DEF StreamTells, StreamInv
  <2> SUFFICES ASSUME loop = "done", NEW m \in Kernel
               PROVE  LET counted == {times[m][n] : n \in first .. NTimes - 1}
                          count == avgtime[m][2]
                      IN  /\ mintime[m] = Min(counted) /\ maxtime[m] = Max(counted)
                          /\ mintime[m] * count <= avgtime[m][1]
                          /\ avgtime[m][1] <= maxtime[m] * count
    BY DEF SummaryTells
  <2> DEFINE counted == {times[m][n] : n \in first .. NTimes - 1}
  <2>1. k = NTimes /\ avgtime[m] = <<sumtime[m], NTimes - first>> /\ NTimes > first
    BY NTimesAssumption DEF StreamInv, Summed, TypeOK
  <2>2. counted \in SUBSET Nat
    <3>1. ASSUME NEW n \in first .. NTimes - 1 PROVE times[m][n] \in Nat
      <4>1. n \in Iteration
        BY NTimesAssumption DEF Iteration, StreamInv, TypeOK
      <4>2. times[m][n] \in Elapsed \cup {0}
        BY <4>1 DEF StreamInv, TypeOK
      <4> QED  BY <4>2, ElapsedAssumption
    <3> QED  BY <3>1
  <2>3. /\ mintime[m] \in counted /\ \A y \in counted : mintime[m] <= y
        /\ maxtime[m] \in counted /\ \A y \in counted : y <= maxtime[m]
    BY <2>1 DEF StreamInv, Summed
  <2> HIDE DEF counted
  <2>4. mintime[m] = Min(counted) /\ maxtime[m] = Max(counted)
    BY <2>2, <2>3, Extremes
  <2>5. /\ mintime[m] * (NTimes - first) <= sumtime[m]
        /\ sumtime[m] <= maxtime[m] * (NTimes - first)
    BY <2>1 DEF StreamInv, Summed
  <2>6. avgtime[m][1] = sumtime[m] /\ avgtime[m][2] = NTimes - first
    BY <2>1
  <2> QED  BY <2>4, <2>5, <2>6 DEF counted
<1> QED  BY <1>1, <1>2, <1>3, PTL DEF ProgramsSpec

-----------------------------------------------------------------------------
(* result_parser.cpp: each matrix is that of the last file there was, and  *)
(* the results are those of the matrices folded in so far.                 *)

There(f, n) == {i \in 1 .. n : f[i] # Absent}
LastOf(f, n) == IF There(f, n) = {} THEN Empty ELSE f[Max(There(f, n))]
Tally(f) == [n \in 1 .. NFiles |-> IF LastOf(f, n) = Empty THEN 0 ELSE LastOf(f, n)]

ParserTypes ==
  /\ mats \in Seq(Nat \cup {Empty}) /\ files \in Seq(Nat \cup {Empty, Absent})
  /\ Len(files) = Len(mats)
  /\ total \in Nat /\ next \in Nat \ {0}
  /\ step \in {"read", "fold", "show", "crash"}
  /\ Len(mats) <= NFiles /\ (step # "read" => Len(mats) = NFiles)

MatricesRead ==
  /\ mat = LastOf(files, Len(mats))
  /\ \A n \in 1 .. Len(mats) : mats[n] = LastOf(files, n)
  /\ \A n \in 1 .. Len(mats) : mats[n] # Empty =>
       \E i \in 1 .. n : files[i] = mats[n] /\ files[i] # Absent

MatricesFolded ==
  step \in {"fold", "show"} =>
    /\ next \in 2 .. NFiles + 1 /\ (step = "show" => next = NFiles + 1)
    /\ IF mats[1] = Empty
         THEN lowest = Empty /\ \A i \in 1 .. next - 1 : mats[i] = Empty
         ELSE /\ lowest \in Nat /\ highest \in Nat
              /\ \E i \in 1 .. next - 1 : lowest = mats[i]
              /\ \E i \in 1 .. next - 1 : highest = mats[i]
              /\ \A i \in 1 .. next - 1 : mats[i] # Empty =>
                   lowest <= mats[i] /\ mats[i] <= highest
              /\ total = Parser!Sums(Tally(files))[next - 1]

OverrunIsExplained ==
  step = "crash" => mats[1] = Empty /\ \E i \in 1 .. NFiles : mats[i] # Empty

ParserInv == ParserTypes /\ MatricesRead /\ MatricesFolded /\ OverrunIsExplained

LEMMA SameExtremes ==
  ASSUME NEW S
  PROVE  Parser!Max(S) = Max(S) /\ Parser!Min(S) = Min(S)
BY DEF Parser!Max, Max, Parser!Min, Min

(* The last file is the n-th, or if there is no n-th that of before.       *)
LEMMA LastIs ==
  ASSUME NEW f, NEW n \in Nat \ {0}
  PROVE  /\ f[n] # Absent => LastOf(f, n) = f[n]
         /\ f[n] = Absent => LastOf(f, n) = LastOf(f, n - 1)
<1>1. ASSUME f[n] # Absent PROVE LastOf(f, n) = f[n]
  <2>1. n \in There(f, n) /\ There(f, n) \in SUBSET Nat
    BY <1>1 DEF There
  <2>2. \A i \in There(f, n) : i <= n
    BY DEF There
  <2>3. Max(There(f, n)) = n
    BY <2>1, <2>2, Extremes
  <2> QED  BY <2>1, <2>3 DEF LastOf
<1>2. ASSUME f[n] = Absent PROVE LastOf(f, n) = LastOf(f, n - 1)
  <2>1. There(f, n) = There(f, n - 1)
    BY <1>2 DEF There
  <2> QED  BY <2>1 DEF LastOf
<1> QED  BY <1>1, <1>2

LEMMA LastOfNone == \A f : LastOf(f, 0) = Empty
<1> 1 .. 0 = {}
  OBVIOUS
<1> QED  BY DEF LastOf, There

(* What follows in the list does not matter.                               *)
LEMMA LastStays ==
  ASSUME NEW f, NEW g, NEW u \in Nat, \A i \in 1 .. u : f[i] = g[i], NEW n \in 0 .. u
  PROVE  LastOf(f, n) = LastOf(g, n)
<1>1. There(f, n) = There(g, n)
  BY DEF There
<1>2. CASE There(f, n) = {}
  BY <1>1, <1>2 DEF LastOf
<1>3. CASE There(f, n) # {}
  <2> DEFINE S == There(f, n)
             Off == {u - i : i \in S}
  <2>1. S \in SUBSET (1 .. u)
    BY DEF There
  <2>2. Off \in SUBSET Nat /\ Off # {}
    BY <1>3, <2>1
  <2>3. PICK e \in Off : \A x \in Off : e <= x
    <3> HIDE DEF Off
    <3> QED  BY <2>2, LeastNumber
  <2>4. PICK i \in S : e = u - i
    BY <2>3
  <2>5. \A x \in S : x <= i
    BY <2>1, <2>3, <2>4
  <2>6. S \in SUBSET Nat
    BY <2>1
  <2>7. Max(S) = i
    <3> HIDE DEF S
    <3> QED  BY <2>4, <2>5, <2>6, Extremes
  <2>8. f[Max(S)] = g[Max(S)]
    BY <2>1, <2>4, <2>7
  <2> QED  BY <1>1, <1>3, <2>8 DEF LastOf
<1> QED  BY <1>2, <1>3

LEMMA SumsAre ==
  ASSUME NEW s \in Seq(Nat)
  PROVE  /\ Parser!Sums(s)[0] = 0
         /\ \A n \in 1 .. Len(s) : Parser!Sums(s)[n] = Parser!Sums(s)[n - 1] + s[n]
<1> DEFINE F == [n \in Nat |-> [x \in Nat |-> IF n \in 1 .. Len(s) THEN x + s[n] ELSE 0]]
<1>1. F \in StepsIn(Nat)
  BY DEF StepsIn
<1>2. PICK g \in [Nat -> Nat] :
        g[0] = 0 /\ \A n \in Nat \ {0} : g[n] = F[n][g[n - 1]]
  <2> HIDE DEF F
  <2>1. HasRecursion(Nat, 0, F)
    BY <1>1, RecursionDefines
  <2> QED  BY <2>1 DEF HasRecursion
<1>3. ASSUME NEW n \in 1 .. Len(s) PROVE g[n] = g[n - 1] + s[n]
  <2>1. g[n] = F[n][g[n - 1]] /\ g[n - 1] \in Nat
    <3> HIDE DEF F
    <3>1. n \in Nat \ {0} /\ n - 1 \in Nat
      OBVIOUS
    <3> QED  BY <1>2, <3>1
  <2>2. n \in Nat
    OBVIOUS
  <2>3. F[n][g[n - 1]] = IF n \in 1 .. Len(s) THEN g[n - 1] + s[n] ELSE 0
    BY <2>1, <2>2
  <2> HIDE DEF F
  <2> QED  BY <2>1, <2>3
<1> HIDE DEF F
<1> DEFINE h == [n \in 0 .. Len(s) |-> g[n]]
<1>4. h = [n \in 0 .. Len(s) |-> IF n = 0 THEN 0 ELSE h[n - 1] + s[n]]
  <2>1. ASSUME NEW n \in 0 .. Len(s), n # 0 PROVE h[n] = h[n - 1] + s[n]
    <3>1. n \in 1 .. Len(s) /\ n - 1 \in 0 .. Len(s)
      BY <2>1
    <3>2. h[n] = g[n] /\ h[n - 1] = g[n - 1]
      BY <3>1
    <3> QED  BY <1>3, <3>1, <3>2
  <2>2. h[0] = 0
    <3>1. 0 \in 0 .. Len(s)
      OBVIOUS
    <3> QED  BY <1>2, <3>1
  <2>3. h = [n \in 0 .. Len(s) |-> h[n]]
    OBVIOUS
  <2> HIDE DEF h
  <2> QED  BY <2>1, <2>2, <2>3
<1> HIDE DEF h
<1>5. Parser!Sums(s) = [n \in 0 .. Len(s) |->
                         IF n = 0 THEN 0 ELSE Parser!Sums(s)[n - 1] + s[n]]
  BY <1>4, Zenon DEF Parser!Sums
<1>6. 0 \in 0 .. Len(s)
  OBVIOUS
<1>7. ASSUME NEW n \in 1 .. Len(s)
      PROVE  Parser!Sums(s)[n] = Parser!Sums(s)[n - 1] + s[n]
  <2>1. n \in 0 .. Len(s) /\ n # 0
    OBVIOUS
  <2> QED  BY <1>5, <2>1
<1> QED  BY <1>5, <1>6, <1>7

LEMMA ParserInit == Parser!Init => ParserInv
<1> SUFFICES ASSUME Parser!Init PROVE ParserInv
  OBVIOUS
<1>1. /\ mats = <<>> /\ files = <<>> /\ mat = Empty /\ total = 0 /\ next = 1
      /\ step = "read" /\ NFiles \in Nat
  BY SizesAssumption DEF Parser!Init, Parser!Sizes
<1>2. ParserTypes
  BY <1>1 DEF ParserTypes
<1>3. MatricesRead /\ MatricesFolded /\ OverrunIsExplained
  BY <1>1, LastOfNone DEF MatricesRead, MatricesFolded, OverrunIsExplained
<1> QED  BY <1>2, <1>3 DEF ParserInv

(* A pass adds to both lists; a file that is missing adds its predecessor. *)
LEMMA PassInv ==
  ASSUME ParserInv, NEW v \in Nat \cup {Empty}, NEW w \in Nat \cup {Empty, Absent},
         step = "read", Len(mats) < NFiles,
         mats' = Append(mats, v), files' = Append(files, w), mat' = v,
         w # Absent => v = w, w = Absent => v = mat,
         UNCHANGED <<lowest, highest, total, next, step>>
  PROVE  ParserInv'
<1> DEFINE c == Len(mats)
<1>1. /\ mats \in Seq(Nat \cup {Empty}) /\ files \in Seq(Nat \cup {Empty, Absent})
      /\ NFiles \in Nat /\ c \in Nat /\ Len(files) = c
  BY SizesAssumption DEF ParserInv, ParserTypes, Parser!Sizes
<1>2. /\ Len(mats') = c + 1 /\ mats'[c + 1] = v
      /\ \A i \in 1 .. c : mats'[i] = mats[i]
      /\ Len(files') = c + 1 /\ files'[c + 1] = w
      /\ \A i \in 1 .. c : files[i] = files'[i]
  BY <1>1
<1>3. ParserTypes'
  BY <1>1, <1>2 DEF ParserInv, ParserTypes
<1>4. \A n \in 0 .. c : LastOf(files, n) = LastOf(files', n)
  BY <1>1, <1>2, LastStays
<1>5. LastOf(files', c + 1) = v
  <2>1. c + 1 \in Nat \ {0} /\ (c + 1) - 1 = c /\ c \in 0 .. c
    BY <1>1
  <2>2. CASE w # Absent
    BY <1>2, <2>1, <2>2, LastIs
  <2>3. CASE w = Absent
    <3>1. LastOf(files', c + 1) = LastOf(files', c)
      BY <1>2, <2>1, <2>3, LastIs
    <3> QED  BY <1>4, <2>1, <2>3, <3>1 DEF ParserInv, MatricesRead
  <2> QED  BY <2>2, <2>3
<1>6. ASSUME v # Empty
      PROVE  \E i \in 1 .. c + 1 : files'[i] = v /\ files'[i] # Absent
  <2>1. CASE w # Absent
    <3>1. c + 1 \in 1 .. c + 1
      BY <1>1
    <3> QED  BY <1>2, <2>1, <3>1
  <2>2. CASE w = Absent
    <3>1. v = LastOf(files, c)
      BY <2>2 DEF ParserInv, MatricesRead
    <3>2. c # 0
      BY <1>6, <3>1, LastOfNone
    <3>3. c \in 1 .. c /\ mats[c] = v
      BY <1>1, <3>1, <3>2 DEF ParserInv, MatricesRead
    <3>4. PICK i \in 1 .. c : files[i] = v /\ files[i] # Absent
      BY <1>6, <3>3 DEF ParserInv, MatricesRead
    <3>5. i \in 1 .. c + 1
      BY <1>1
    <3> QED  BY <1>2, <3>4, <3>5
  <2> QED  BY <2>1, <2>2
<1>7. MatricesRead'
  <2>1. mat' = LastOf(files', Len(mats'))
    BY <1>2, <1>5
  <2>2. ASSUME NEW n \in 1 .. Len(mats')
        PROVE  /\ mats'[n] = LastOf(files', n)
               /\ mats'[n] # Empty =>
                    \E i \in 1 .. n : files'[i] = mats'[n] /\ files'[i] # Absent
    <3>1. CASE n = c + 1
      BY <1>2, <1>5, <1>6, <3>1
    <3>2. CASE n # c + 1
      <4>1. n \in 1 .. c /\ n \in 0 .. c /\ \A i \in 1 .. n : i \in 1 .. c
        BY <1>1, <1>2, <3>2
      <4>2. /\ mats[n] = LastOf(files, n)
            /\ mats[n] # Empty =>
                 \E i \in 1 .. n : files[i] = mats[n] /\ files[i] # Absent
        BY <4>1 DEF ParserInv, MatricesRead
      <4> QED  BY <1>2, <1>4, <4>1, <4>2
    <3> QED  BY <3>1, <3>2
  <2> QED  BY <2>1, <2>2 DEF MatricesRead
<1>8. MatricesFolded' /\ OverrunIsExplained'
  BY DEF MatricesFolded, OverrunIsExplained
<1> QED  BY <1>3, <1>7, <1>8 DEF ParserInv

LEMMA ReadInv ==
  ASSUME ParserInv, NEW v \in Latency \cup {Empty}, Parser!Read(v)
  PROVE  ParserInv'
<1>1. v \in Nat \cup {Empty} /\ v \in Nat \cup {Empty, Absent} /\ v # Absent
  BY SizesAssumption DEF Parser!Sizes
<1> QED  BY <1>1, PassInv DEF Parser!Read

LEMMA MissingInv == ParserInv /\ Parser!Missing => ParserInv'
<1> SUFFICES ASSUME ParserInv, Parser!Missing PROVE ParserInv'
  OBVIOUS
<1>1. mat \in Nat \cup {Empty}
  <2>1. Len(mats) \in Nat /\ mats \in Seq(Nat \cup {Empty})
    BY DEF ParserInv, ParserTypes
  <2>2. CASE Len(mats) = 0
    BY <2>2, LastOfNone DEF ParserInv, MatricesRead
  <2>3. CASE Len(mats) # 0
    <3>1. Len(mats) \in 1 .. Len(mats)
      BY <2>1, <2>3
    <3>2. mat = mats[Len(mats)]
      BY <3>1 DEF ParserInv, MatricesRead
    <3> QED  BY <2>1, <3>1, <3>2
  <2> QED  BY <2>2, <2>3
<1>2. Absent \in Nat \cup {Empty, Absent}
  OBVIOUS
<1>3. /\ step = "read" /\ Len(mats) < NFiles
      /\ mats' = Append(mats, mat) /\ files' = Append(files, Absent) /\ mat' = mat
      /\ UNCHANGED <<lowest, highest, total, next, step>>
  BY DEF Parser!Missing
<1> QED  BY <1>1, <1>2, <1>3, PassInv

(* The sums are of what the matrices have.                                 *)
LEMMA TallyIs ==
  ASSUME ParserInv, Len(mats) = NFiles
  PROVE  /\ Parser!Sums(Tally(files))[0] = 0
         /\ \A n \in 1 .. NFiles :
              /\ mats[n] \in Nat \cup {Empty}
              /\ Parser!Sums(Tally(files))[n] =
                   Parser!Sums(Tally(files))[n - 1] + (IF mats[n] = Empty THEN 0 ELSE mats[n])
<1>1. mats \in Seq(Nat \cup {Empty}) /\ NFiles \in Nat
  BY SizesAssumption DEF ParserInv, ParserTypes, Parser!Sizes
<1>2. ASSUME NEW n \in 1 .. NFiles
      PROVE  /\ mats[n] \in Nat \cup {Empty} /\ LastOf(files, n) = mats[n]
             /\ Tally(files)[n] = IF mats[n] = Empty THEN 0 ELSE mats[n]
  <2>1. mats[n] \in Nat \cup {Empty} /\ LastOf(files, n) = mats[n]
    BY <1>1 DEF ParserInv, MatricesRead
  <2> QED  BY <2>1 DEF Tally
<1>3. Tally(files) = [n \in 1 .. NFiles |-> IF mats[n] = Empty THEN 0 ELSE mats[n]]
  BY <1>2 DEF Tally
<1>4. \A n \in 1 .. NFiles : (IF mats[n] = Empty THEN 0 ELSE mats[n]) \in Nat
  BY <1>2
<1>5. Tally(files) \in Seq(Nat) /\ Len(Tally(files)) = NFiles
  BY <1>1, <1>3, <1>4
<1> QED  BY <1>2, <1>5, SumsAre

LEMMA InitialiseInv == ParserInv /\ Parser!Initialise => ParserInv'
<1> SUFFICES ASSUME ParserInv, Parser!Initialise PROVE ParserInv'
  OBVIOUS
<1>1. /\ step = "read" /\ Len(mats) = NFiles
      /\ lowest' = mats[1] /\ highest' = mats[1]
      /\ total' = IF mats[1] = Empty THEN 0 ELSE mats[1]
      /\ next' = 2 /\ step' = "fold"
      /\ UNCHANGED <<mat, mats, files>>
  BY DEF Parser!Initialise
<1>2. /\ mats \in Seq(Nat \cup {Empty}) /\ NFiles \in Nat \ {0}
      /\ mats[1] \in Nat \cup {Empty} /\ 1 \in 1 .. NFiles /\ Empty \notin Nat
  BY <1>1, SizesAssumption DEF ParserInv, ParserTypes, Parser!Sizes
<1>3. ParserTypes'
  BY <1>1, <1>2 DEF ParserInv, ParserTypes
<1>4. MatricesRead'
  BY <1>1 DEF ParserInv, MatricesRead
<1>5. MatricesFolded'
  <2>1. next' \in 2 .. NFiles + 1 /\ 1 .. next' - 1 = {1} /\ next' - 1 = 1 /\ 1 - 1 = 0
    BY <1>1, <1>2
  <2>2. ASSUME mats[1] # Empty PROVE total' = Parser!Sums(Tally(files))[next' - 1]
    <3>1. /\ Parser!Sums(Tally(files))[1] = Parser!Sums(Tally(files))[1 - 1] + mats[1]
          /\ Parser!Sums(Tally(files))[0] = 0
      BY <1>1, <1>2, <2>2, TallyIs
    <3>2. mats[1] \in Nat
      BY <1>2, <2>2
    <3> QED  BY <1>1, <2>1, <2>2, <3>1, <3>2
  <2>3. mats[1] # Empty => lowest' <= mats[1] /\ mats[1] <= highest'
    BY <1>1, <1>2
  <2> QED  BY <1>1, <1>2, <2>1, <2>2, <2>3 DEF MatricesFolded
<1>6. OverrunIsExplained'
  BY <1>1 DEF OverrunIsExplained
<1> QED  BY <1>3, <1>4, <1>5, <1>6 DEF ParserInv

(* What holds of the matrices before `next` when the next one is looked at.*)
LEMMA FoldingIs ==
  ASSUME ParserInv, step = "fold", next <= NFiles
  PROVE  /\ NFiles \in Nat \ {0} /\ Len(mats) = NFiles /\ total \in Nat
         /\ next \in 2 .. NFiles /\ next \in 1 .. NFiles /\ (next + 1) - 1 = next
         /\ next + 1 \in 2 .. NFiles + 1
         /\ mats[next] \in Nat \cup {Empty} /\ Empty \notin Nat
         /\ \A i \in 1 .. next : i \in 1 .. next - 1 \/ i = next
         /\ \A i \in 1 .. next - 1 : i \in 1 .. next
         /\ next \in 1 .. next /\ next # 1
<1>1. /\ NFiles \in Nat \ {0} /\ Len(mats) = NFiles /\ next \in 2 .. NFiles + 1
      /\ mats \in Seq(Nat \cup {Empty}) /\ total \in Nat /\ Empty \notin Nat
  BY SizesAssumption DEF ParserInv, ParserTypes, MatricesFolded, Parser!Sizes
<1> QED  BY <1>1

LEMMA FoldInv == ParserInv /\ Parser!Fold => ParserInv'
<1> SUFFICES ASSUME ParserInv, Parser!Fold PROVE ParserInv'
  OBVIOUS
<1> DEFINE v == mats[next]
<1>1. /\ step = "fold" /\ next <= NFiles /\ v # Empty /\ lowest # Empty
      /\ lowest' = (IF v < lowest THEN v ELSE lowest)
      /\ highest' = (IF v > highest THEN v ELSE highest)
      /\ total' = total + v /\ next' = next + 1
      /\ UNCHANGED <<mat, mats, files, step>>
  BY DEF Parser!Fold
<1>2. /\ NFiles \in Nat \ {0} /\ Len(mats) = NFiles /\ total \in Nat
      /\ next \in 2 .. NFiles /\ next \in 1 .. NFiles /\ (next + 1) - 1 = next
      /\ next + 1 \in 2 .. NFiles + 1
      /\ v \in Nat /\ Empty \notin Nat
      /\ \A i \in 1 .. next : i \in 1 .. next - 1 \/ i = next
      /\ \A i \in 1 .. next - 1 : i \in 1 .. next
      /\ next \in 1 .. next
  BY <1>1, FoldingIs
<1>3. /\ mats[1] # Empty /\ lowest \in Nat /\ highest \in Nat
      /\ \E i \in 1 .. next - 1 : lowest = mats[i]
      /\ \E i \in 1 .. next - 1 : highest = mats[i]
      /\ \A i \in 1 .. next - 1 : mats[i] # Empty =>
           lowest <= mats[i] /\ mats[i] <= highest
      /\ total = Parser!Sums(Tally(files))[next - 1]
  BY <1>1 DEF ParserInv, MatricesFolded
<1>4. \A i \in 1 .. next : mats[i] \in Nat \cup {Empty}
  <2>1. \A i \in 1 .. next : i \in 1 .. NFiles
    BY <1>2
  <2> QED  BY <1>2, <2>1, TallyIs
<1>5. /\ lowest' \in Nat /\ lowest' <= lowest /\ lowest' <= v
      /\ highest' \in Nat /\ highest <= highest' /\ v <= highest'
      /\ lowest' \in {lowest, v} /\ highest' \in {highest, v}
  <2> HIDE DEF v
  <2> QED  BY <1>1, <1>2, <1>3
<1>6. ParserTypes'
  BY <1>1, <1>2 DEF ParserInv, ParserTypes
<1>7. MatricesRead' /\ OverrunIsExplained'
  BY <1>1 DEF ParserInv, MatricesRead, OverrunIsExplained
<1>8. MatricesFolded'
  <2>1. /\ \E i \in 1 .. next : lowest' = mats[i]
        /\ \E i \in 1 .. next : highest' = mats[i]
    BY <1>2, <1>3, <1>5
  <2>2. ASSUME NEW i \in 1 .. next, mats[i] # Empty
        PROVE  lowest' <= mats[i] /\ mats[i] <= highest'
    <3>1. CASE i = next
      BY <1>5, <3>1
    <3>2. CASE i \in 1 .. next - 1
      <4>1. lowest <= mats[i] /\ mats[i] <= highest /\ mats[i] \in Nat
        BY <1>3, <1>4, <2>2, <3>2
      <4> QED  BY <1>3, <1>5, <4>1
    <3> QED  BY <1>2, <3>1, <3>2
  <2>3. total' = Parser!Sums(Tally(files))[next]
    <3>1. Parser!Sums(Tally(files))[next] = Parser!Sums(Tally(files))[next - 1] + v
      BY <1>1, <1>2, TallyIs
    <3> QED  BY <1>1, <1>3, <3>1
  <2>4. next' - 1 = next /\ next' \in 2 .. NFiles + 1 /\ step' = "fold"
    BY <1>1, <1>2
  <2> QED  BY <1>1, <1>3, <1>5, <2>1, <2>2, <2>3, <2>4 DEF MatricesFolded
<1> QED  BY <1>6, <1>7, <1>8 DEF ParserInv

LEMMA SkipInv == ParserInv /\ Parser!Skip => ParserInv'
<1> SUFFICES ASSUME ParserInv, Parser!Skip PROVE ParserInv'
  OBVIOUS
<1>1. /\ step = "fold" /\ next <= NFiles /\ mats[next] = Empty /\ next' = next + 1
      /\ UNCHANGED <<mat, mats, files, lowest, highest, total, step>>
  BY DEF Parser!Skip
<1>2. /\ NFiles \in Nat \ {0} /\ Len(mats) = NFiles /\ total \in Nat
      /\ next \in 2 .. NFiles /\ next \in 1 .. NFiles /\ (next + 1) - 1 = next
      /\ next + 1 \in 2 .. NFiles + 1 /\ Empty \notin Nat
      /\ \A i \in 1 .. next : i \in 1 .. next - 1 \/ i = next
      /\ \A i \in 1 .. next - 1 : i \in 1 .. next
  BY <1>1, FoldingIs
<1>3. next' - 1 = next /\ next' \in 2 .. NFiles + 1 /\ next' \in Nat \ {0}
  BY <1>1, <1>2
<1>4. ParserTypes' /\ MatricesRead' /\ OverrunIsExplained'
  BY <1>1, <1>3 DEF ParserInv, ParserTypes, MatricesRead, OverrunIsExplained
<1>5. CASE mats[1] = Empty
  <2>1. lowest = Empty /\ \A i \in 1 .. next : mats[i] = Empty
    BY <1>1, <1>2, <1>5 DEF ParserInv, MatricesFolded
  <2> QED  BY <1>1, <1>3, <1>4, <1>5, <2>1 DEF ParserInv, MatricesFolded
<1>6. CASE mats[1] # Empty
  <2>1. /\ lowest \in Nat /\ highest \in Nat
        /\ \E i \in 1 .. next - 1 : lowest = mats[i]
        /\ \E i \in 1 .. next - 1 : highest = mats[i]
        /\ \A i \in 1 .. next - 1 : mats[i] # Empty =>
             lowest <= mats[i] /\ mats[i] <= highest
        /\ total = Parser!Sums(Tally(files))[next - 1]
    BY <1>1, <1>6 DEF ParserInv, MatricesFolded
  <2>2. Parser!Sums(Tally(files))[next] = total + 0
    BY <1>1, <1>2, <2>1, TallyIs
  <2>3. total = Parser!Sums(Tally(files))[next]
    BY <1>2, <2>2
  <2>4. /\ \E i \in 1 .. next : lowest = mats[i]
        /\ \E i \in 1 .. next : highest = mats[i]
        /\ \A i \in 1 .. next : mats[i] # Empty =>
             lowest <= mats[i] /\ mats[i] <= highest
    BY <1>1, <1>2, <2>1
  <2> QED  BY <1>1, <1>3, <1>4, <1>6, <2>1, <2>3, <2>4 DEF ParserInv, MatricesFolded
<1> QED  BY <1>5, <1>6

LEMMA OverrunInv == ParserInv /\ Parser!Overrun => ParserInv'
<1> SUFFICES ASSUME ParserInv, Parser!Overrun PROVE ParserInv'
  OBVIOUS
<1>1. /\ step = "fold" /\ next <= NFiles /\ mats[next] # Empty /\ lowest = Empty
      /\ step' = "crash"
      /\ UNCHANGED <<mat, mats, files, lowest, highest, total, next>>
  BY DEF Parser!Overrun
<1>2. next \in 1 .. NFiles /\ Empty \notin Nat
  BY <1>1, FoldingIs
<1>3. mats[1] = Empty
  BY <1>1, <1>2 DEF ParserInv, MatricesFolded
<1>4. OverrunIsExplained'
  BY <1>1, <1>2, <1>3 DEF OverrunIsExplained
<1>5. ParserTypes' /\ MatricesRead' /\ MatricesFolded'
  BY <1>1 DEF ParserInv, ParserTypes, MatricesRead, MatricesFolded
<1> QED  BY <1>4, <1>5 DEF ParserInv

LEMMA ParserStep == ParserInv /\ [Parser!Next]_resultVars => ParserInv'
<1> SUFFICES ASSUME ParserInv, [Parser!Next]_resultVars PROVE ParserInv'
  OBVIOUS
<1>1. NFiles \in Nat \ {0}
  BY SizesAssumption DEF Parser!Sizes
<1>2. CASE Parser!Finished \/ UNCHANGED resultVars
  <2>1. UNCHANGED <<mat, mats, files, lowest, highest, total, next, step>>
    BY <1>2 DEF Parser!Finished, Parser!vars, resultVars
  <2> QED
    BY <2>1 DEF ParserInv, ParserTypes, MatricesRead, MatricesFolded,
                OverrunIsExplained
<1>3. CASE Parser!Show
  <2>1. /\ step = "fold" /\ next > NFiles /\ step' = "show"
        /\ UNCHANGED <<mat, mats, files, lowest, highest, total, next>>
    BY <1>3 DEF Parser!Show
  <2>2. next = NFiles + 1
    BY <1>1, <2>1 DEF ParserInv, MatricesFolded
  <2> QED
    BY <2>1, <2>2 DEF ParserInv, ParserTypes, MatricesRead, MatricesFolded,
                      OverrunIsExplained
<1>4. ASSUME NEW v \in Latency \cup {Empty}, Parser!Read(v) PROVE ParserInv'
  BY <1>4, ReadInv
<1> QED
  BY <1>2, <1>3, <1>4, MissingInv, InitialiseInv, FoldInv, SkipInv, OverrunInv
     DEF Parser!Next

(* For any number of files, of which any are missing or without rows:      *)
(* minimum and maximum are those of the files with rows, the average is of *)
(* what is counted for each pass, and the program breaks off only if the   *)
(* first pass has no rows and a later one has.                             *)
THEOREM StatsAreRight == ProgramsSpec => []StatsAreOfFiles
<1>1. ProgramsInit => ParserInv
  BY ParserInit DEF ProgramsInit
<1>2. ParserInv /\ [ProgramsNext]_programsVars => ParserInv'
  BY Frame, ParserStep
<1>3. ParserInv => StatsAreOfFiles
  <2> SUFFICES ASSUME ParserInv, step \in {"show", "crash"} PROVE StatsAreOfFiles
    BY DEF StatsAreOfFiles, Parser!StatsAreOfFiles
  <2>1. /\ NFiles \in Nat \ {0} /\ mats \in Seq(Nat \cup {Empty})
        /\ files \in Seq(Nat \cup {Empty, Absent})
        /\ Len(mats) = NFiles /\ DOMAIN files = 1 .. NFiles /\ 1 \in 1 .. NFiles
        /\ Empty \notin Nat /\ Absent \notin Nat
    BY SizesAssumption DEF ParserInv, ParserTypes, Parser!Sizes
  <2>2. \A n \in 1 .. NFiles : files[n] # Absent => mats[n] = files[n]
    <3>1. ASSUME NEW n \in 1 .. NFiles, files[n] # Absent PROVE mats[n] = files[n]
      <4>1. n \in Nat \ {0}
        OBVIOUS
      <4>2. mats[n] = LastOf(files, n)
        BY <2>1 DEF ParserInv, MatricesRead
      <4> QED  BY <3>1, <4>1, <4>2, LastIs
    <3> QED  BY <3>1
  <2>3. \A n \in Parser!WithRows : n \in 1 .. NFiles /\ mats[n] = files[n] /\ mats[n] # Empty
    BY <2>1, <2>2 DEF Parser!WithRows
  <2>4. ASSUME NEW n \in 1 .. NFiles, mats[n] # Empty
        PROVE  mats[n] \in Parser!Latencies /\ Parser!WithRows # {}
    <3>1. PICK i \in 1 .. n : files[i] = mats[n] /\ files[i] # Absent
      BY <2>1, <2>4 DEF ParserInv, MatricesRead
    <3>2. i \in Parser!WithRows
      BY <2>1, <2>4, <3>1 DEF Parser!WithRows
    <3> QED  BY <3>1, <3>2 DEF Parser!Latencies
  <2>5. ASSUME step = "crash" PROVE Parser!WithRows # {} /\ 1 \notin Parser!WithRows
    <3>1. mats[1] = Empty /\ \E i \in 1 .. NFiles : mats[i] # Empty
      BY <2>5 DEF ParserInv, OverrunIsExplained
    <3> QED  BY <2>3, <2>4, <3>1
  <2>6. ASSUME step = "show", lowest = Empty PROVE Parser!WithRows = {}
    <3>1. next - 1 = NFiles
      BY <2>1, <2>6 DEF ParserInv, MatricesFolded
    <3>2. \A i \in 1 .. NFiles : mats[i] = Empty
      BY <2>1, <2>6, <3>1 DEF ParserInv, MatricesFolded
    <3> QED  BY <2>3, <3>2
  <2>7. ASSUME step = "show", lowest # Empty
        PROVE  /\ lowest = Parser!Min(Parser!Latencies)
               /\ highest = Parser!Max(Parser!Latencies)
               /\ total = Parser!Sums(Parser!Counts)[NFiles]
    <3>1. next - 1 = NFiles
      BY <2>1, <2>7 DEF ParserInv, MatricesFolded
    <3>2. /\ lowest \in Nat /\ highest \in Nat
          /\ \E i \in 1 .. NFiles : lowest = mats[i]
          /\ \E i \in 1 .. NFiles : highest = mats[i]
          /\ \A i \in 1 .. NFiles : mats[i] # Empty =>
               lowest <= mats[i] /\ mats[i] <= highest
          /\ total = Parser!Sums(Tally(files))[NFiles]
      BY <2>7, <3>1 DEF ParserInv, MatricesFolded
    <3>3. lowest \in Parser!Latencies /\ highest \in Parser!Latencies
      BY <2>1, <2>4, <3>2
    <3>4. Parser!Latencies \in SUBSET Nat
      BY <2>1 DEF Parser!Latencies, Parser!WithRows
    <3>5. \A x \in Parser!Latencies : lowest <= x /\ x <= highest
      <4>1. \A n \in Parser!WithRows : lowest <= files[n] /\ files[n] <= highest
        BY <2>3, <3>2
      <4> QED  BY <4>1 DEF Parser!Latencies
    <3>6. lowest = Min(Parser!Latencies) /\ highest = Max(Parser!Latencies)
      BY <3>3, <3>4, <3>5, Extremes
    <3>7. Parser!Counts = Tally(files)
      <4>1. \A n : Parser!Counted(n) = LastOf(files, n)
        BY SameExtremes DEF Parser!Counted, Parser!Existing, LastOf, There
      <4> QED  BY <4>1 DEF Parser!Counts, Tally
    <3> QED  BY <3>2, <3>6, <3>7, SameExtremes
  <2> QED  BY <2>5, <2>6, <2>7 DEF StatsAreOfFiles, Parser!StatsAreOfFiles
<1> QED  BY <1>1, <1>2, <1>3, PTL DEF ProgramsSpec

-----------------------------------------------------------------------------
(* tlbShootDownBench.c: every fault has a page that was not there, and the *)
(* loop's calls drop a page once each.                                     *)

Looping == main \in {"call", "drop", "report", "reset"}

TlbTypes ==
  /\ script \in 1 .. 11 /\ turn \in Nat /\ dropped \in 0 .. NumPages
  /\ main \in {"start", "script", "create", "call", "drop", "report", "reset"}
  /\ present \subseteq Tlb!Page /\ lazy \subseteq present
  /\ flt \in Nat /\ u1 \in Nat /\ u2 \in Nat /\ base \in Nat
  /\ passes \in Seq(Nat) /\ reports \in Seq(Nat)
  /\ tpc \in [Tlb!Thread -> {"off", "write", "fault", "count"}]

Scripting ==
  /\ main \in {"start", "script"} => \A t \in Tlb!Thread : tpc[t] = "off"
  /\ main \notin {"start", "script"} => script = 11
  /\ main = "create" => turn <= NumThreads /\ \A t \in Tlb!Thread : t < turn <=> tpc[t] # "off"
  /\ Looping => /\ \A t \in Tlb!Thread : tpc[t] # "off"
                /\ turn < Cnt \/ (main = "report" /\ turn = Cnt)
  /\ main = "reset" => turn = 0
  /\ Looping \/ reports = <<>>

(* The number of passes reported before each step of the script.           *)
PassesBefore == <<0, 1, 2, 2, 3, 4, 4, 4, 5, 6, 6>>

Reporting == Len(passes) = PassesBefore[script]

Claimed == script \notin {4, 7} => lazy = {}

(* The pages that are there before each step and in each pass.             *)
Before ==
  main = "start" =>
    /\ script = 1 => present = {0}
    /\ script \in {2, 3, 5, 6, 9, 10} => present = Tlb!Page
    /\ script = 8 => present = {}

Within ==
  main = "script" =>
    /\ script \in {1, 2, 4, 5, 8, 9} /\ turn <= NumPages /\ u1 <= flt
    /\ script = 1 => /\ present = {0} \cup 0 .. turn - 1
                     /\ flt = u1 + IF turn = 0 THEN 0 ELSE turn - 1
    /\ script \in {2, 5, 9} => present = Tlb!Page /\ flt = u1
    /\ script = 4 => 0 .. turn - 1 \subseteq present \ lazy
    /\ script = 8 => present = 0 .. turn - 1 /\ flt = u1 + turn

PagesAre == Reporting /\ Claimed /\ Before /\ Within

Told ==
  /\ main \in {"call", "drop", "report"} => base + Tlb!Reported = u1 /\ u1 <= flt
  /\ main = "reset" => base + Tlb!Reported = u2 /\ u2 <= flt

(* The faults on their way: a thread that has come to a page that is not   *)
(* there, and one that has still to count a fault on a page dropped since. *)
Away(t) == Tlb!PageOf(t) \notin present
Coming == {t \in Tlb!Thread : \/ tpc[t] \in {"fault", "count"}
                              \/ tpc[t] = "write" /\ Away(t)}
Again == {t \in Tlb!Thread : tpc[t] = "count" /\ Away(t)}
Hit == {t \in Tlb!Thread : main = "drop" /\ Tlb!PageOf(t) < dropped}

WindowStart == IF main = "reset" THEN u2 ELSE u1

Caused ==
  Looping =>
    flt - WindowStart + Cardinality(Coming) + Cardinality(Again)
      <= NumThreads * (turn + 2) + Cardinality(Hit)

TlbInv == /\ TlbTypes /\ Scripting /\ PagesAre /\ Told /\ Caused
          /\ Tlb!PassesTell /\ Tlb!FaultsAreCaused

LEMMA TlbSizes ==
  /\ NumThreads \in Nat \ {0} /\ NumPages \in Nat \ {0} /\ PerPage \in Nat \ {0}
  /\ Cnt \in Nat \ {0}
  /\ Tlb!Thread = 0 .. NumThreads - 1 /\ Tlb!Page = 0 .. NumPages - 1
  /\ \A t \in Tlb!Thread : Tlb!PageOf(t) \in Tlb!Page
<1>1. /\ NumThreads \in Nat \ {0} /\ NumPages \in Nat /\ PerPage \in Nat \ {0}
      /\ NumThreads <= NumPages * PerPage /\ Cnt \in Nat \ {0}
  BY SizesAssumption DEF Tlb!Sizes
<1>2. NumPages # 0
  <2>1. NumPages = 0 => NumPages * PerPage = 0
    BY <1>1
  <2> QED  BY <1>1, <2>1
<1>3. ASSUME NEW t \in 0 .. NumThreads - 1
      PROVE  t \div PerPage \in 0 .. NumPages - 1
  <2> DEFINE d == t \div PerPage
  <2>1. d \in Nat /\ d * PerPage <= t
    BY <1>1
  <2> HIDE DEF d
  <2>2. d < NumPages
    <3>1. NumPages <= d => NumPages * PerPage <= d * PerPage
      BY <1>1, <2>1, Monotone
    <3>2. d * PerPage \in Nat /\ NumPages * PerPage \in Nat
      BY <1>1, <2>1
    <3> QED  BY <1>1, <2>1, <3>1, <3>2
  <2>3. d \in 0 .. NumPages - 1
    BY <1>1, <2>1, <2>2
  <2> QED  BY <2>3 DEF d
<1> QED  BY <1>1, <1>2, <1>3 DEF Tlb!Thread, Tlb!Page, Tlb!PageOf

(* The faults a window may have grow by one for each thread with a call.   *)
Budget(n) == NumThreads * (n + 2)

LEMMA BudgetIs ==
  ASSUME NEW n \in Nat
  PROVE  /\ Budget(n) \in Nat /\ Budget(n + 1) = Budget(n) + NumThreads
         /\ Budget(0) = NumThreads + NumThreads
BY TlbSizes DEF Budget

LEMMA ThreadsFinite ==
  /\ IsFiniteSet(Tlb!Thread) /\ Cardinality(Tlb!Thread) = NumThreads
  /\ \A S \in SUBSET Tlb!Thread : /\ IsFiniteSet(S) /\ Cardinality(S) \in Nat
                                  /\ Cardinality(S) <= NumThreads
<1>1. IsFiniteSet(Tlb!Thread) /\ Cardinality(Tlb!Thread) = NumThreads
  <2>1. Tlb!Thread = 0 .. NumThreads - 1 /\ 0 \in Int /\ NumThreads - 1 \in Int
    BY TlbSizes
  <2>2. IsFiniteSet(0 .. NumThreads - 1)
        /\ Cardinality(0 .. NumThreads - 1)
             = IF 0 > NumThreads - 1 THEN 0 ELSE NumThreads - 1 - 0 + 1
    BY <2>1, FS_Interval
  <2> QED  BY <2>1, <2>2, TlbSizes
<1>2. ASSUME NEW S \in SUBSET Tlb!Thread
      PROVE  IsFiniteSet(S) /\ Cardinality(S) \in Nat /\ Cardinality(S) <= NumThreads
  BY <1>1, FS_Subset, FS_CardinalityType
<1> QED  BY <1>1, <1>2

LEMMA SumsGrow ==
  ASSUME NEW s \in Seq(Nat), NEW x \in Nat
  PROVE  /\ Tlb!Sums(<<>>)[0] = 0
         /\ Tlb!Sums(s)[Len(s)] \in Nat
         /\ Tlb!Sums(Append(s, x))[Len(s) + 1] = Tlb!Sums(s)[Len(s)] + x
<1> DEFINE s2 == Append(s, x)
           F == [n \in Nat |-> [y \in Nat |-> IF n \in 1 .. Len(s2) THEN y + s2[n] ELSE 0]]
<1>1. s2 \in Seq(Nat) /\ Len(s2) = Len(s) + 1 /\ s2[Len(s) + 1] = x
      /\ \A n \in 1 .. Len(s) : s2[n] = s[n]
  OBVIOUS
<1>2. \A r : Tlb!Sums(r) = Parser!Sums(r)
  BY DEF Tlb!Sums, Parser!Sums
<1> HIDE DEF s2
<1> DEFINE g == Tlb!Sums(s2)
           f == Tlb!Sums(s)
<1>3. g[0] = 0 /\ \A n \in 1 .. Len(s2) : g[n] = g[n - 1] + s2[n]
  BY <1>1, <1>2, SumsAre
<1>4. f[0] = 0 /\ \A n \in 1 .. Len(s) : f[n] = f[n - 1] + s[n]
  BY <1>2, SumsAre
<1>5. Tlb!Sums(<<>>)[0] = 0
  <2>1. <<>> \in Seq(Nat)
    OBVIOUS
  <2>2. Parser!Sums(<<>>)[0] = 0
    BY <2>1, SumsAre
  <2> QED  BY <1>2, <2>2
<1> HIDE DEF g, f
<1> DEFINE Differ == {n \in 0 .. Len(s) : ~ (f[n] \in Nat /\ f[n] = g[n])}
<1>6. Differ = {}
  <2> SUFFICES ASSUME Differ # {} PROVE FALSE
    OBVIOUS
  <2>1. PICK m \in Differ : \A n \in Differ : m <= n
    <3>1. Differ \in SUBSET Nat
      OBVIOUS
    <3> HIDE DEF Differ
    <3> QED  BY <3>1, LeastNumber
  <2>2. m # 0
    BY <1>3, <1>4, <2>1
  <2>3. m \in 1 .. Len(s) /\ m - 1 \in 0 .. Len(s) /\ m - 1 \notin Differ
    BY <2>1, <2>2
  <2>4. f[m - 1] \in Nat /\ f[m - 1] = g[m - 1]
    BY <2>3
  <2>5. f[m] = f[m - 1] + s[m] /\ g[m] = g[m - 1] + s[m] /\ s[m] \in Nat
    <3>1. m \in 1 .. Len(s2) /\ s[m] \in Nat /\ s2[m] = s[m]
      BY <1>1, <2>3
    <3> QED  BY <1>3, <1>4, <2>3, <3>1
  <2> QED  BY <2>1, <2>4, <2>5
<1>7. f[Len(s)] \in Nat /\ f[Len(s)] = g[Len(s)]
  BY <1>6
<1>8. g[Len(s) + 1] = g[Len(s)] + x
  BY <1>1, <1>3
<1> QED  BY <1>5, <1>7, <1>8 DEF f, g, s2

LEMMA ScriptIs ==
  /\ Len(Tlb!Script) = 10
  /\ \A n \in 1 .. 10 : (Tlb!Script[n] = "touch") <=> (n \in {1, 2, 4, 5, 8, 9})
  /\ \A n \in 1 .. 10 : (Tlb!Script[n] = "free") <=> (n \in {3, 6})
  /\ \A n \in 1 .. 10 : (Tlb!Script[n] = "drop") <=> (n \in {7, 10})
  /\ PassesBefore[1] = 0 /\ PassesBefore[2] = 1 /\ PassesBefore[3] = 2
  /\ PassesBefore[4] = 2 /\ PassesBefore[5] = 3 /\ PassesBefore[6] = 4
  /\ PassesBefore[7] = 4 /\ PassesBefore[8] = 4 /\ PassesBefore[9] = 5
  /\ PassesBefore[10] = 6 /\ PassesBefore[11] = 6
  /\ \A n \in {1, 2, 4, 5, 8, 9} : PassesBefore[n + 1] = PassesBefore[n] + 1
<1> DEFINE s == Tlb!Script
           p == PassesBefore
<1>1. /\ Len(s) = 10
      /\ s[1] = "touch" /\ s[2] = "touch" /\ s[3] = "free"
      /\ s[4] = "touch" /\ s[5] = "touch" /\ s[6] = "free"
      /\ s[7] = "drop" /\ s[8] = "touch" /\ s[9] = "touch" /\ s[10] = "drop"
  BY DEF Tlb!Script
<1>3. /\ p[1] = 0 /\ p[2] = 1 /\ p[3] = 2 /\ p[4] = 2 /\ p[5] = 3 /\ p[6] = 4
      /\ p[7] = 4 /\ p[8] = 4 /\ p[9] = 5 /\ p[10] = 6 /\ p[11] = 6
  BY DEF PassesBefore
<1> HIDE DEF s, p
<1>4. \A n \in {1, 2, 4, 5, 8, 9} : p[n + 1] = p[n] + 1
  BY <1>3
<1>2. \A n \in 1 .. 10 : \/ n \in {1, 2, 4, 5, 8, 9} /\ s[n] = "touch"
                         \/ n \in {3, 6} /\ s[n] = "free"
                         \/ n \in {7, 10} /\ s[n] = "drop"
  BY <1>1
<1> QED  BY <1>1, <1>2, <1>3, <1>4 DEF s, p

LEMMA TlbInit == Tlb!Init => TlbInv
<1> SUFFICES ASSUME Tlb!Init PROVE TlbInv
  OBVIOUS
<1>1. TlbTypes
  BY TlbSizes DEF Tlb!Init, TlbTypes
<1>2. Scripting /\ PagesAre /\ Told /\ Caused
  BY ScriptIs
  DEF Tlb!Init, Scripting, PagesAre, Reporting, Claimed, Before, Within, Told, Caused, Looping
<1>3. Tlb!PassesTell /\ Tlb!FaultsAreCaused
  BY DEF Tlb!Init, Tlb!PassesTell, Tlb!FaultsAreCaused
<1> QED  BY <1>1, <1>2, <1>3 DEF TlbInv

(* While the script runs there is no thread and no window.                 *)
LEMMA NoWindow ==
  ASSUME main' \in {"start", "script", "create"}, UNCHANGED reports,
         Tlb!FaultsAreCaused
  PROVE  Told' /\ Caused' /\ Tlb!FaultsAreCaused'
BY DEF Told, Caused, Looping, Tlb!FaultsAreCaused

LEMMA StartInv == TlbInv /\ Tlb!Start => TlbInv'
<1> SUFFICES ASSUME TlbInv, Tlb!Start PROVE TlbInv'
  OBVIOUS
<1> USE DEF Tlb!Start, Tlb!mem, Tlb!loop
<1>1. main = "start" /\ script \in {1, 2, 4, 5, 8, 9} /\ u1' = flt /\ turn' = 0
      /\ main' = "script" /\ UNCHANGED <<script, present, lazy, flt, passes>>
      /\ NumPages \in Nat
  BY ScriptIs, TlbSizes DEF TlbInv, TlbTypes
<1>2. TlbTypes' /\ Scripting'
  BY <1>1 DEF TlbInv, TlbTypes, Scripting, Looping
<1>3. Within'
  <2>1. {0} \cup 0 .. 0 - 1 = {0} /\ 0 .. 0 - 1 = {}
    OBVIOUS
  <2>2. Before /\ flt \in Nat
    BY DEF TlbInv, TlbTypes, PagesAre
  <2> QED  BY <1>1, <2>1, <2>2 DEF Before, Within
<1>4. PagesAre'
  BY <1>1, <1>3 DEF TlbInv, PagesAre, Reporting, Claimed, Before
<1>5. Told' /\ Caused' /\ Tlb!FaultsAreCaused'
  BY NoWindow DEF TlbInv
<1>6. Tlb!PassesTell'
  BY DEF TlbInv, Tlb!PassesTell
<1> QED  BY <1>2, <1>4, <1>5, <1>6 DEF TlbInv

LEMMA TlbTouchInv == TlbInv /\ Tlb!Touch => TlbInv'
<1> SUFFICES ASSUME TlbInv, Tlb!Touch PROVE TlbInv'
  OBVIOUS
<1> USE DEF Tlb!Touch, Tlb!loop
<1>1. /\ main = "script" /\ script \in {1, 2, 4, 5, 8, 9} /\ turn \in 0 .. NumPages - 1
      /\ turn \in Tlb!Page /\ Tlb!Page = 0 .. NumPages - 1
      /\ flt \in Nat /\ u1 \in Nat /\ u1 <= flt /\ NumPages \in Nat /\ Within
  BY TlbSizes DEF TlbInv, TlbTypes, PagesAre, Within
<1>2. /\ present' = present \cup {turn} /\ lazy' = lazy \ {turn}
      /\ flt' = IF turn \in present THEN flt ELSE flt + 1
      /\ turn' = turn + 1 /\ UNCHANGED <<script, u1, passes, main>>
  OBVIOUS
<1>3. TlbTypes' /\ Scripting'
  <2>1. present' \subseteq Tlb!Page /\ lazy' \subseteq present' /\ flt' \in Nat /\ turn' \in Nat
    BY <1>1, <1>2 DEF TlbInv, TlbTypes
  <2> QED  BY <1>1, <2>1 DEF TlbInv, TlbTypes, Scripting, Looping
<1>4. Within'
  <2> HIDE DEF Tlb!Touch
  <2>1. 0 .. turn' - 1 = (0 .. turn - 1) \cup {turn} /\ turn' <= NumPages /\ turn' # 0
    BY <1>1, <1>2
  <2>2. turn \notin 0 .. turn - 1
    BY <1>1
  <2>3. u1' <= flt'
    BY <1>1, <1>2
  <2>4. CASE script = 1
    <3>1. present = {0} \cup 0 .. turn - 1 /\ flt = u1 + IF turn = 0 THEN 0 ELSE turn - 1
      BY <1>1, <2>4 DEF Within
    <3>2. turn \in present <=> turn = 0
      BY <1>1, <3>1
    <3>3. flt' = u1' + (turn' - 1) /\ present' = {0} \cup 0 .. turn' - 1
      BY <1>1, <1>2, <2>1, <3>1, <3>2
    <3> QED  BY <1>1, <1>2, <2>1, <2>3, <2>4, <3>3 DEF Within
  <2>5. CASE script = 8
    <3>1. present = 0 .. turn - 1 /\ flt = u1 + turn
      BY <1>1, <2>5 DEF Within
    <3>2. present' = 0 .. turn' - 1 /\ flt' = u1' + turn'
      BY <1>1, <1>2, <2>1, <2>2, <3>1
    <3> QED  BY <1>1, <1>2, <2>1, <2>3, <2>5, <3>2 DEF Within
  <2>6. CASE script = 4
    <3>1. 0 .. turn - 1 \subseteq present \ lazy
      BY <1>1, <2>6 DEF Within
    <3>2. 0 .. turn' - 1 \subseteq present' \ lazy'
      BY <1>2, <2>1, <3>1
    <3> QED  BY <1>1, <1>2, <2>1, <2>3, <2>6, <3>2 DEF Within
  <2>7. CASE script \in {2, 5, 9}
    <3>1. present = Tlb!Page /\ flt = u1
      BY <1>1, <2>7 DEF Within
    <3>2. present' = Tlb!Page /\ flt' = u1'
      BY <1>1, <1>2, <3>1
    <3> QED  BY <1>1, <1>2, <2>1, <2>3, <2>7, <3>2 DEF Within
  <2> QED  BY <1>1, <2>4, <2>5, <2>6, <2>7
<1>5. PagesAre'
  BY <1>1, <1>2, <1>4 DEF TlbInv, PagesAre, Reporting, Claimed, Before
<1>6. Told' /\ Caused' /\ Tlb!FaultsAreCaused'
  BY <1>1, NoWindow DEF TlbInv
<1>7. Tlb!PassesTell'
  BY DEF TlbInv, Tlb!PassesTell
<1> QED  BY <1>3, <1>5, <1>6, <1>7 DEF TlbInv

LEMMA TouchedInv == TlbInv /\ Tlb!Touched => TlbInv'
<1> SUFFICES ASSUME TlbInv, Tlb!Touched PROVE TlbInv'
  OBVIOUS
<1> USE DEF Tlb!Touched, Tlb!mem, Tlb!loop
<1>1. /\ main = "script" /\ script \in {1, 2, 4, 5, 8, 9} /\ turn = NumPages
      /\ Tlb!Page = 0 .. NumPages - 1 /\ script' = script + 1 /\ main' = "start"
      /\ NumPages \in Nat \ {0} /\ NumThreads \in Nat \ {0}
      /\ flt \in Nat /\ u1 \in Nat /\ u1 <= flt /\ Within
      /\ UNCHANGED <<present, lazy, flt>>
  BY TlbSizes DEF TlbInv, TlbTypes, PagesAre, Within
<1>2. passes' \in Seq(Nat) /\ flt - u1 \in Nat
  BY <1>1 DEF TlbInv, TlbTypes
<1>9. /\ Len(passes') = Len(passes) + 1 /\ passes'[Len(passes) + 1] = flt - u1
      /\ \A n \in 1 .. Len(passes) : passes'[n] = passes[n]
  BY <1>2 DEF TlbInv, TlbTypes
<1>3. TlbTypes' /\ Scripting'
  <2>1. script' \in 1 .. 11 /\ u2' \in Nat
    BY <1>1
  <2> QED  BY <1>1, <1>2, <2>1 DEF TlbInv, TlbTypes, Scripting, Looping
<1> DEFINE l == Len(passes)
           l2 == Len(passes')
<1>10. l = PassesBefore[script] /\ l2 = l + 1 /\ (Reporting' <=> l2 = PassesBefore[script'])
  BY <1>9 DEF TlbInv, PagesAre, Reporting
<1> HIDE DEF l, l2
<1>4. /\ script = 1 => l = 0 /\ flt - u1 = NumPages - 1
      /\ script = 2 => l = 1 /\ flt - u1 = 0
      /\ script = 4 => l = 2
      /\ script = 5 => l = 3 /\ flt - u1 = 0
      /\ script = 8 => l = 4 /\ flt - u1 = NumPages
      /\ script = 9 => l = 5 /\ flt - u1 = 0
  <2>1. /\ script = 1 => flt - u1 = NumPages - 1
        /\ script \in {2, 5, 9} => flt - u1 = 0
        /\ script = 8 => flt - u1 = NumPages
    <3>1. /\ script = 1 => flt = u1 + IF turn = 0 THEN 0 ELSE turn - 1
          /\ script \in {2, 5, 9} => flt = u1
          /\ script = 8 => flt = u1 + turn
      BY <1>1 DEF Within
    <3>2. script = 1 => flt = u1 + (turn - 1)
      BY <1>1, <3>1
    <3> QED  BY <1>1, <3>1, <3>2
  <2> QED  BY <1>10, <2>1, ScriptIs
<1> HIDE DEF Tlb!Touched
<1>5. Reporting'
  <2>1. PassesBefore[script + 1] = PassesBefore[script] + 1
    BY <1>1, ScriptIs
  <2> QED  BY <1>1, <1>10, <2>1
<1>6. Before' /\ Claimed'
  <2>1. CASE script \in {1, 8}
    <3>1. present = 0 .. NumPages - 1
      <4>1. {0} \cup 0 .. NumPages - 1 = 0 .. NumPages - 1
        BY <1>1
      <4>2. present = {0} \cup 0 .. turn - 1 \/ present = 0 .. turn - 1
        BY <1>1, <2>1 DEF Within
      <4> QED  BY <1>1, <4>1, <4>2
    <3>2. lazy = {}
      BY <2>1 DEF TlbInv, PagesAre, Claimed
    <3> QED  BY <1>1, <2>1, <3>1, <3>2 DEF Before, Claimed
  <2>2. CASE script = 4
    <3>1. Tlb!Page \subseteq present \ lazy
      BY <1>1, <2>2 DEF Within
    <3>2. present = Tlb!Page /\ lazy = {}
      BY <3>1 DEF TlbInv, TlbTypes
    <3> QED  BY <1>1, <2>2, <3>2 DEF Before, Claimed
  <2>3. CASE script \in {2, 5, 9}
    <3>1. present = Tlb!Page /\ lazy = {}
      BY <1>1, <2>3 DEF TlbInv, PagesAre, Claimed, Within
    <3> QED  BY <1>1, <2>3, <3>1 DEF Before, Claimed
  <2> QED  BY <1>1, <2>1, <2>2, <2>3
<1>7. PagesAre'
  BY <1>1, <1>5, <1>6 DEF PagesAre, Within
<1>8. Tlb!PassesTell'
  <2> DEFINE p == passes
             p2 == passes'
  <2>1. /\ l >= 1 => p[1] = NumPages - 1
        /\ l >= 2 => p[2] = 0
        /\ l >= 4 => p[4] = 0
        /\ l >= 5 => p[5] = NumPages
    BY DEF TlbInv, Tlb!PassesTell, l
  <2>2. l2 = l + 1 /\ p2[l + 1] = flt - u1 /\ \A n \in 1 .. l : p2[n] = p[n]
    BY <1>9 DEF l, l2
  <2>3. l \in {0, 1, 2, 3, 4, 5}
    BY <1>1, <1>4
  <2>4. /\ l = 0 => flt - u1 = NumPages - 1
        /\ l \in {1, 3, 5} => flt - u1 = 0
        /\ l = 4 => flt - u1 = NumPages
    BY <1>1, <1>4
  <2> HIDE DEF p, p2
  <2>5. /\ l >= 1 => p2[1] = p[1]
        /\ l >= 2 => p2[2] = p[2]
        /\ l >= 4 => p2[4] = p[4]
        /\ l >= 5 => p2[5] = p[5]
    BY <2>2, <2>3
  <2>6. /\ l2 >= 1 => p2[1] = NumPages - 1
        /\ l2 >= 2 => p2[2] = 0
    BY <2>1, <2>2, <2>3, <2>4, <2>5
  <2>7. /\ l2 >= 4 => p2[4] = 0
        /\ l2 >= 5 => p2[5] = NumPages
        /\ l2 >= 6 => p2[6] = 0
    BY <2>1, <2>2, <2>3, <2>4, <2>5
  <2> QED  BY <2>6, <2>7 DEF p2, l2, Tlb!PassesTell
<1>11. UNCHANGED reports
  BY DEF Tlb!Touched, Tlb!loop
<1>12. Told' /\ Caused' /\ Tlb!FaultsAreCaused'
  BY <1>1, <1>11, NoWindow DEF TlbInv
<1> QED  BY <1>3, <1>7, <1>8, <1>12 DEF TlbInv

(* The calls of the script, its end, and what the kernel takes back.       *)
LEMMA ScriptInv ==
  TlbInv /\ (Tlb!Free \/ Tlb!Drop \/ Tlb!Scripted \/ \E p \in Tlb!Page : Tlb!Reclaim(p))
    => TlbInv'
<1>1. ASSUME TlbInv, Tlb!Free PROVE TlbInv'
  <2> USE DEF Tlb!Free, Tlb!loop
  <2>1. main = "start" /\ script \in {3, 6} /\ script' = script + 1 /\ main' = "start"
    BY <1>1, ScriptIs DEF TlbInv, TlbTypes
  <2>2. TlbTypes' /\ Scripting'
    BY <1>1, <2>1 DEF TlbInv, TlbTypes, Scripting, Looping
  <2>3. PagesAre'
    BY <1>1, <2>1, ScriptIs DEF TlbInv, PagesAre, Reporting, Claimed, Before, Within
  <2> QED  BY <1>1, <2>1, <2>2, <2>3, NoWindow DEF TlbInv, Tlb!PassesTell
<1>2. ASSUME TlbInv, Tlb!Drop PROVE TlbInv'
  <2> USE DEF Tlb!Drop, Tlb!loop
  <2>1. main = "start" /\ script \in {7, 10} /\ script' = script + 1 /\ main' = "start"
    BY <1>2, ScriptIs DEF TlbInv, TlbTypes
  <2>2. TlbTypes' /\ Scripting'
    BY <1>2, <2>1 DEF TlbInv, TlbTypes, Scripting, Looping
  <2>3. PagesAre'
    BY <1>2, <2>1, ScriptIs DEF TlbInv, PagesAre, Reporting, Claimed, Before, Within
  <2> QED  BY <1>2, <2>1, <2>2, <2>3, NoWindow DEF TlbInv, Tlb!PassesTell
<1>3. ASSUME TlbInv, Tlb!Scripted PROVE TlbInv'
  <2> USE DEF Tlb!Scripted, Tlb!mem, Tlb!loop
  <2>1. main = "start" /\ script = 11 /\ main' = "create"
    BY <1>3, ScriptIs DEF TlbInv, TlbTypes
  <2>2. TlbTypes' /\ Scripting'
    BY <1>3, <2>1, TlbSizes DEF TlbInv, TlbTypes, Scripting, Looping
  <2>3. PagesAre'
    BY <1>3, <2>1 DEF TlbInv, PagesAre, Reporting, Claimed, Before, Within
  <2> QED  BY <1>3, <2>1, <2>2, <2>3, NoWindow DEF TlbInv, Tlb!PassesTell
<1>4. ASSUME TlbInv, NEW p \in Tlb!Page, Tlb!Reclaim(p) PROVE TlbInv'
  <2> USE DEF Tlb!Reclaim, Tlb!loop
  <2>1. p \in lazy /\ script \in {4, 7} /\ main \in {"start", "script"}
    BY <1>4 DEF TlbInv, TlbTypes, PagesAre, Claimed, Scripting
  <2>2. TlbTypes' /\ Scripting'
    BY <1>4, <2>1 DEF TlbInv, TlbTypes, Scripting, Looping
  <2>3. PagesAre'
    BY <1>4, <2>1 DEF TlbInv, PagesAre, Reporting, Claimed, Before, Within
  <2> QED  BY <1>4, <2>1, <2>2, <2>3, NoWindow DEF TlbInv, Tlb!PassesTell
<1> QED  BY <1>1, <1>2, <1>3, <1>4

LEMMA DisjointUnion ==
  ASSUME NEW S, NEW T, IsFiniteSet(S), IsFiniteSet(T), S \cap T = {}
  PROVE  Cardinality(S \cup T) = Cardinality(S) + Cardinality(T)
<1>1. Cardinality(S \cup T) = Cardinality(S) + Cardinality(T) - Cardinality(S \cap T)
  BY FS_Union
<1>2. Cardinality(S \cap T) = 0
  BY FS_EmptySet
<1>3. Cardinality(S) \in Nat /\ Cardinality(T) \in Nat
  BY FS_CardinalityType
<1> QED  BY <1>1, <1>2, <1>3

LEMMA Sets ==
  /\ Coming \in SUBSET Tlb!Thread /\ Again \in SUBSET Tlb!Thread
  /\ Hit \in SUBSET Tlb!Thread
  /\ Cardinality(Coming) \in Nat /\ Cardinality(Coming) <= NumThreads
  /\ Cardinality(Again) \in Nat /\ Cardinality(Again) <= NumThreads
  /\ Cardinality(Hit) \in Nat /\ Cardinality(Hit) <= NumThreads
  /\ main # "drop" => Cardinality(Hit) = 0
<1>1. /\ Coming \in SUBSET Tlb!Thread /\ Again \in SUBSET Tlb!Thread
      /\ Hit \in SUBSET Tlb!Thread
  BY DEF Coming, Again, Hit
<1>2. main # "drop" => Cardinality(Hit) = 0
  <2>1. main # "drop" => Hit = {}
    BY DEF Hit
  <2> QED  BY <2>1, FS_EmptySet
<1> QED  BY <1>1, <1>2, ThreadsFinite

(* Outside the script the passes are told already.                         *)
LEMMA Outside ==
  ASSUME TlbInv, main \notin {"start", "script"}, main' \notin {"start", "script"},
         UNCHANGED <<script, lazy, passes>>
  PROVE  PagesAre' /\ Tlb!PassesTell'
BY DEF TlbInv, PagesAre, Reporting, Claimed, Before, Within, Tlb!PassesTell

LEMMA CreateThreadsInv == TlbInv /\ (Tlb!Create \/ Tlb!Created) => TlbInv'
<1>1. ASSUME TlbInv, Tlb!Create PROVE TlbInv'
  <2> USE DEF Tlb!Create, Tlb!mem
  <2>1. main = "create" /\ main' = "create" /\ turn \in 0 .. NumThreads - 1
        /\ turn \in Tlb!Thread /\ NumThreads \in Nat
    BY <1>1, TlbSizes DEF TlbInv, TlbTypes
  <2>2. TlbTypes'
    BY <1>1, <2>1 DEF TlbInv, TlbTypes
  <2>3. Scripting'
    <3>1. \A t \in Tlb!Thread : (t < turn') <=> (tpc'[t] # "off")
      <4>1. ASSUME NEW t \in Tlb!Thread PROVE (t < turn') <=> (tpc'[t] # "off")
        <5>1. t \in Nat /\ turn' = turn + 1 /\ (t < turn <=> tpc[t] # "off")
          BY <1>1, <2>1, TlbSizes DEF TlbInv, Scripting
        <5>2. tpc'[t] = IF t = turn THEN "write" ELSE tpc[t]
          BY <1>1, <2>1 DEF TlbInv, TlbTypes
        <5> QED  BY <2>1, <5>1, <5>2
      <4> QED  BY <4>1
    <3> QED  BY <1>1, <2>1, <3>1 DEF TlbInv, Scripting, Looping
  <2> QED  BY <1>1, <2>1, <2>2, <2>3, NoWindow, Outside DEF TlbInv
<1>2. ASSUME TlbInv, Tlb!Created PROVE TlbInv'
  <2> USE DEF Tlb!Created, Tlb!mem
  <2>1. /\ main = "create" /\ main' = "call" /\ turn = NumThreads /\ turn' = 0
        /\ u1' = flt /\ base' = flt /\ reports = <<>>
        /\ UNCHANGED <<script, present, lazy, flt, u2, passes, dropped, tpc, reports>>
    BY <1>2 DEF TlbInv, Scripting, Looping
  <2> HIDE DEF Tlb!Created
  <2>2. TlbTypes'
    BY <1>2, <2>1 DEF TlbInv, TlbTypes
  <2>3. Scripting'
    BY <1>2, <2>1, TlbSizes DEF TlbInv, Scripting, Looping
  <2>4. Told'
    <3>1. Tlb!Reported' = 0
      <4>1. Len(<<>>) = 0 /\ <<>> \in Seq(Nat)
        OBVIOUS
      <4> QED  BY <2>1, <4>1, SumsGrow DEF Tlb!Reported
    <3> QED  BY <1>2, <2>1, <3>1 DEF TlbInv, TlbTypes, Told
  <2>5. Caused'
    <3>1. Coming' = Coming /\ Again' = Again /\ Hit' = Hit /\ WindowStart' = flt
      BY <2>1 DEF Coming, Again, Hit, Away, WindowStart
    <3>2. flt' - flt = 0
      BY <1>2, <2>1 DEF TlbInv, TlbTypes
    <3>3. Budget(turn') = NumThreads + NumThreads
      BY <2>1, BudgetIs
    <3>4. flt' - WindowStart' + Cardinality(Coming') + Cardinality(Again')
            <= Budget(turn') + Cardinality(Hit')
      <4> DEFINE c == Cardinality(Coming)
                 a == Cardinality(Again)
                 h == Cardinality(Hit)
      <4>1. /\ Cardinality(Coming') = c /\ Cardinality(Again') = a
            /\ Cardinality(Hit') = h
        BY <3>1
      <4>2. c \in Nat /\ a \in Nat /\ h \in Nat /\ c <= NumThreads /\ a <= NumThreads
        BY Sets
      <4>3. flt' - WindowStart' = 0 /\ NumThreads \in Nat
        BY <3>1, <3>2, TlbSizes
      <4> HIDE DEF c, a, h
      <4> QED  BY <3>3, <4>1, <4>2, <4>3
    <3> QED  BY <3>4 DEF Caused, Budget
  <2> QED  BY <1>2, <2>1, <2>2, <2>3, <2>4, <2>5, Outside DEF TlbInv, Tlb!FaultsAreCaused
<1> QED  BY <1>1, <1>2

(* What the calls leave as it is.                                          *)
LEMMA CallInv == TlbInv /\ Tlb!Call => TlbInv'
<1> SUFFICES ASSUME TlbInv, Tlb!Call PROVE TlbInv'
  OBVIOUS
<1>1. /\ main = "call" /\ main' = "drop" /\ dropped' = 0
      /\ UNCHANGED <<script, turn, present, lazy, flt, u1, u2, passes, tpc, reports, base>>
  BY DEF Tlb!Call, Tlb!mem
<1>2. TlbTypes' /\ Scripting'
  BY <1>1, TlbSizes DEF TlbInv, TlbTypes, Scripting, Looping
<1>3. Told'
  BY <1>1 DEF TlbInv, Told, Tlb!Reported
<1>4. Caused'
  <2>1. Coming' = Coming /\ Again' = Again /\ WindowStart' = u1 /\ WindowStart = u1
    BY <1>1 DEF Coming, Again, Away, WindowStart
  <2>2. Cardinality(Hit') \in Nat /\ Cardinality(Hit) = 0
    <3>1. Hit' \in SUBSET Tlb!Thread
      BY DEF Hit
    <3> QED  BY <1>1, <3>1, ThreadsFinite, Sets
  <2>3. turn \in Nat /\ flt \in Nat /\ u1 \in Nat
    BY DEF TlbInv, TlbTypes
  <2>4. flt - u1 + Cardinality(Coming) + Cardinality(Again) <= Budget(turn) + Cardinality(Hit)
    BY <1>1, <2>1 DEF TlbInv, Caused, Looping, Budget
  <2>5. flt' - WindowStart' + Cardinality(Coming') + Cardinality(Again')
          <= Budget(turn') + Cardinality(Hit')
    BY <1>1, <2>1, <2>2, <2>3, <2>4, Sets, BudgetIs
  <2> QED  BY <2>5 DEF Caused, Budget
<1> QED  BY <1>1, <1>2, <1>3, <1>4, Outside DEF TlbInv, Tlb!FaultsAreCaused

(* A page dropped is one more fault for each thread that writes to it.     *)
LEMMA DropPageInv == TlbInv /\ Tlb!DropPage => TlbInv'
<1> SUFFICES ASSUME TlbInv, Tlb!DropPage PROVE TlbInv'
  OBVIOUS
<1>1. /\ main = "drop" /\ main' = "drop" /\ dropped \in 0 .. NumPages - 1
      /\ present' = present \ {dropped} /\ dropped' = dropped + 1
      /\ UNCHANGED <<script, turn, lazy, flt, u1, u2, passes, tpc, reports, base>>
      /\ lazy = {}
  BY TlbSizes DEF Tlb!DropPage, TlbInv, TlbTypes, Scripting, PagesAre, Claimed
<1>2. TlbTypes' /\ Scripting'
  BY <1>1, TlbSizes DEF TlbInv, TlbTypes, Scripting, Looping
<1>3. Told'
  BY <1>1 DEF TlbInv, Told, Tlb!Reported
<1>4. Caused'
  <2> DEFINE T == {t \in Tlb!Thread : Tlb!PageOf(t) = dropped}
             B1 == Coming' \ Coming
             B2 == Again' \ Again
  <2>1. /\ Coming' = Coming \cup B1 /\ Coming \cap B1 = {}
        /\ Again' = Again \cup B2 /\ Again \cap B2 = {}
    <3>1. Coming \subseteq Coming' /\ Again \subseteq Again'
      BY <1>1 DEF Coming, Again, Away
    <3> QED  BY <3>1
  <2>2. B1 \subseteq T /\ B2 \subseteq T /\ B1 \cap B2 = {}
    BY <1>1 DEF Coming, Again, Away
  <2>3. Hit' = Hit \cup T /\ Hit \cap T = {}
    <3>1. \A t \in Tlb!Thread : Tlb!PageOf(t) \in Nat /\ dropped \in Nat
      BY <1>1, TlbSizes
    <3> QED  BY <1>1, <3>1 DEF Hit
  <2>4. Coming' \in SUBSET Tlb!Thread /\ Again' \in SUBSET Tlb!Thread
    BY DEF Coming, Again
  <2>5. T \in SUBSET Tlb!Thread /\ B1 \in SUBSET Tlb!Thread /\ B2 \in SUBSET Tlb!Thread
        /\ B1 \cup B2 \in SUBSET T
    BY <2>2
  <2> HIDE DEF T, B1, B2
  <2>6. /\ IsFiniteSet(T) /\ IsFiniteSet(B1) /\ IsFiniteSet(B2) /\ IsFiniteSet(Coming)
        /\ IsFiniteSet(Again) /\ IsFiniteSet(Hit)
        /\ Cardinality(T) \in Nat /\ Cardinality(B1) \in Nat /\ Cardinality(B2) \in Nat
    BY <2>5, Sets, ThreadsFinite
  <2>7. Cardinality(Coming') = Cardinality(Coming) + Cardinality(B1)
    <3>1. Cardinality(Coming \cup B1) = Cardinality(Coming) + Cardinality(B1)
      BY <2>1, <2>6, DisjointUnion
    <3> QED  BY <2>1, <3>1
  <2>8. Cardinality(Again') = Cardinality(Again) + Cardinality(B2)
    <3>1. Cardinality(Again \cup B2) = Cardinality(Again) + Cardinality(B2)
      BY <2>1, <2>6, DisjointUnion
    <3> QED  BY <2>1, <3>1
  <2>9. Cardinality(Hit') = Cardinality(Hit) + Cardinality(T)
    <3>1. Cardinality(Hit \cup T) = Cardinality(Hit) + Cardinality(T)
      BY <2>3, <2>6, DisjointUnion
    <3> QED  BY <2>3, <3>1
  <2>10. Cardinality(B1 \cup B2) = Cardinality(B1) + Cardinality(B2)
    BY <2>2, <2>6, DisjointUnion
  <2>11. Cardinality(B1 \cup B2) <= Cardinality(T)
    BY <2>5, <2>6, FS_Subset
  <2>12. turn \in Nat /\ flt \in Nat /\ u1 \in Nat /\ WindowStart = u1 /\ WindowStart' = u1
    BY <1>1 DEF TlbInv, TlbTypes, WindowStart
  <2>13. flt - u1 + Cardinality(Coming) + Cardinality(Again) <= Budget(turn) + Cardinality(Hit)
    BY <1>1, <2>12 DEF TlbInv, Caused, Looping, Budget
  <2>14. flt' - WindowStart' + Cardinality(Coming') + Cardinality(Again')
           <= Budget(turn') + Cardinality(Hit')
    <3> DEFINE c == Cardinality(Coming)
               a == Cardinality(Again)
               h == Cardinality(Hit)
               b1 == Cardinality(B1)
               b2 == Cardinality(B2)
               n == Cardinality(T)
    <3>1. c \in Nat /\ a \in Nat /\ h \in Nat /\ b1 \in Nat /\ b2 \in Nat /\ n \in Nat
          /\ Budget(turn) \in Nat
      BY <2>6, <2>12, Sets, BudgetIs
    <3>2. b1 + b2 <= n /\ flt - u1 + c + a <= Budget(turn) + h
      BY <2>10, <2>11, <2>13
    <3>3. /\ Cardinality(Coming') = c + b1 /\ Cardinality(Again') = a + b2
          /\ Cardinality(Hit') = h + n
      BY <2>7, <2>8, <2>9
    <3> HIDE DEF c, a, h, b1, b2, n
    <3>4. flt - u1 + (c + b1) + (a + b2) <= Budget(turn) + (h + n)
      BY <2>12, <3>1, <3>2
    <3>5. flt' = flt /\ turn' = turn
      BY <1>1
    <3> QED  BY <2>12, <3>3, <3>4, <3>5
  <2> QED  BY <2>14 DEF Caused, Budget
<1> QED  BY <1>1, <1>2, <1>3, <1>4, Outside DEF TlbInv, Tlb!FaultsAreCaused

(* The last page of a call: each thread's page was dropped once.           *)
LEMMA CalledInv == TlbInv /\ Tlb!Called => TlbInv'
<1> SUFFICES ASSUME TlbInv, Tlb!Called PROVE TlbInv'
  OBVIOUS
<1>1. /\ main = "drop" /\ main' \in {"call", "report"} /\ turn' = turn + 1
      /\ main' = IF turn + 1 >= Cnt THEN "report" ELSE "call"
      /\ UNCHANGED <<script, present, lazy, flt, u1, u2, passes, dropped, tpc, reports, base>>
      /\ turn \in Nat /\ turn < Cnt /\ Cnt \in Nat
  BY TlbSizes DEF Tlb!Called, Tlb!mem, Tlb!loop, TlbInv, TlbTypes, Scripting, Looping
<1>2. TlbTypes'
  BY <1>1 DEF TlbInv, TlbTypes
<1>3. Scripting'
  <2>1. turn' < Cnt \/ (main' = "report" /\ turn' = Cnt)
    BY <1>1
  <2>2. script = 11 /\ \A t \in Tlb!Thread : tpc[t] # "off"
    BY <1>1 DEF TlbInv, Scripting, Looping
  <2> QED  BY <1>1, <2>1, <2>2 DEF Scripting, Looping
<1>4. Told'
  BY <1>1 DEF TlbInv, Told, Tlb!Reported
<1>5. Caused'
  <2>1. Coming' = Coming /\ Again' = Again /\ WindowStart' = u1 /\ WindowStart = u1 /\ Hit' = {}
    BY <1>1 DEF Coming, Again, Away, WindowStart, Hit
  <2>2. flt \in Nat /\ u1 \in Nat
    BY DEF TlbInv, TlbTypes
  <2>3. flt - u1 + Cardinality(Coming) + Cardinality(Again) <= Budget(turn) + Cardinality(Hit)
    BY <1>1, <2>1 DEF TlbInv, Caused, Looping, Budget
  <2>4. flt' - WindowStart' + Cardinality(Coming') + Cardinality(Again')
          <= Budget(turn') + Cardinality(Hit')
    <3> DEFINE c == Cardinality(Coming)
               a == Cardinality(Again)
               h == Cardinality(Hit)
    <3>1. /\ Cardinality(Coming') = c /\ Cardinality(Again') = a
          /\ Cardinality(Hit') = 0
      BY <2>1, FS_EmptySet
    <3>2. c \in Nat /\ a \in Nat /\ h \in Nat /\ h <= NumThreads
      BY Sets
    <3>3. /\ Budget(turn) \in Nat /\ Budget(turn') = Budget(turn) + NumThreads
          /\ NumThreads \in Nat
      BY <1>1, BudgetIs, TlbSizes
    <3>4. flt' = flt /\ WindowStart' = u1
      BY <1>1, <2>1
    <3>5. flt - u1 + c + a <= Budget(turn) + h
      BY <2>3
    <3> HIDE DEF c, a, h
    <3> QED  BY <2>2, <3>1, <3>2, <3>3, <3>4, <3>5
  <2> QED  BY <2>4 DEF Caused, Budget
<1> QED  BY <1>1, <1>2, <1>3, <1>4, <1>5, Outside DEF TlbInv, Tlb!FaultsAreCaused

(* A report tells the faults of its window, and opens the next one.        *)
LEMMA TlbReportInv == TlbInv /\ Tlb!Report => TlbInv'
<1> SUFFICES ASSUME TlbInv, Tlb!Report PROVE TlbInv'
  OBVIOUS
<1>1. /\ main = "report" /\ main' = "reset" /\ turn' = 0 /\ u2' = flt
      /\ reports' = Append(reports, flt - u1)
      /\ UNCHANGED <<script, present, lazy, flt, u1, passes, dropped, tpc, base>>
  BY DEF Tlb!Report, Tlb!mem
<1>2. /\ turn \in Nat /\ turn <= Cnt /\ Cnt \in Nat \ {0} /\ flt \in Nat /\ u1 \in Nat
      /\ u1 <= flt /\ base \in Nat /\ base + Tlb!Reported = u1
      /\ reports \in Seq(Nat) /\ flt - u1 \in Nat
  BY <1>1, TlbSizes DEF TlbInv, TlbTypes, Scripting, Looping, Told
<1>3. /\ reports' \in Seq(Nat) /\ Len(reports') = Len(reports) + 1
      /\ reports'[Len(reports) + 1] = flt - u1
      /\ \A n \in 1 .. Len(reports) : reports'[n] = reports[n]
  BY <1>1, <1>2
<1>4. TlbTypes' /\ Scripting'
  BY <1>1, <1>2, <1>3 DEF TlbInv, TlbTypes, Scripting, Looping
<1>5. Told'
  <2>1. /\ Tlb!Sums(reports)[Len(reports)] \in Nat
        /\ Tlb!Sums(reports')[Len(reports) + 1] = Tlb!Sums(reports)[Len(reports)] + (flt - u1)
    BY <1>1, <1>2, SumsGrow
  <2>2. Tlb!Reported' = Tlb!Reported + (flt - u1) /\ Tlb!Reported \in Nat
    BY <1>3, <2>1 DEF Tlb!Reported
  <2>3. base' + Tlb!Reported' = u2'
    BY <1>1, <1>2, <2>2
  <2> QED  BY <1>1, <1>2, <2>3 DEF Told
<1>6. Caused'
  <2>1. Coming' = Coming /\ Again' = Again /\ WindowStart' = flt /\ Hit' = {}
    BY <1>1 DEF Coming, Again, Away, WindowStart, Hit
  <2>2. flt' - WindowStart' + Cardinality(Coming') + Cardinality(Again')
          <= Budget(turn') + Cardinality(Hit')
    <3> DEFINE c == Cardinality(Coming)
               a == Cardinality(Again)
    <3>1. /\ Cardinality(Coming') = c /\ Cardinality(Again') = a
          /\ Cardinality(Hit') = 0
      BY <2>1, FS_EmptySet
    <3>2. c \in Nat /\ a \in Nat /\ c <= NumThreads /\ a <= NumThreads
      BY Sets
    <3>3. Budget(turn') = NumThreads + NumThreads /\ NumThreads \in Nat
      BY <1>1, BudgetIs, TlbSizes
    <3>4. flt' - WindowStart' = 0
      BY <1>1, <1>2, <2>1
    <3> HIDE DEF c, a
    <3> QED  BY <3>1, <3>2, <3>3, <3>4
  <2> QED  BY <2>2 DEF Caused, Budget
<1>7. flt - u1 <= NumThreads * (Cnt + 2)
  <2>1. turn = Cnt \/ turn + 1 <= Cnt
    BY <1>2
  <2>2. flt - u1 + Cardinality(Coming) + Cardinality(Again)
          <= NumThreads * (turn + 2) + Cardinality(Hit)
    BY <1>1 DEF TlbInv, Caused, Looping, WindowStart
  <2>3. NumThreads * (turn + 2) <= NumThreads * (Cnt + 2)
    <3>1. turn + 2 \in Nat /\ Cnt + 2 \in Nat /\ turn + 2 <= Cnt + 2 /\ NumThreads \in Nat
      BY <1>2, TlbSizes
    <3>2. (turn + 2) * NumThreads <= (Cnt + 2) * NumThreads
      BY <3>1, Monotone
    <3> QED  BY <3>1, <3>2
  <2> DEFINE c == Cardinality(Coming)
             a == Cardinality(Again)
             h == Cardinality(Hit)
             b == NumThreads * (turn + 2)
             b2 == NumThreads * (Cnt + 2)
  <2>4. c \in Nat /\ a \in Nat /\ h = 0 /\ b \in Nat /\ b2 \in Nat
    BY <1>1, <1>2, Sets, TlbSizes
  <2>5. flt - u1 + c + a <= b + h /\ b <= b2
    BY <2>2, <2>3
  <2> HIDE DEF c, a, h, b, b2
  <2>6. flt - u1 <= b2
    BY <1>2, <2>4, <2>5
  <2> QED  BY <2>6 DEF b2
<1>8. Tlb!FaultsAreCaused'
  <2>1. ASSUME NEW n \in 1 .. Len(reports')
        PROVE  reports'[n] <= NumThreads * (Cnt + 2)
    <3>1. n \in 1 .. Len(reports) \/ n = Len(reports) + 1
      BY <1>2, <1>3
    <3>2. \A m \in 1 .. Len(reports) : reports[m] <= NumThreads * (Cnt + 2)
      BY DEF TlbInv, Tlb!FaultsAreCaused
    <3> QED  BY <1>3, <1>7, <3>1, <3>2
  <2> QED  BY <2>1 DEF Tlb!FaultsAreCaused
<1> QED  BY <1>1, <1>4, <1>5, <1>6, <1>8, Outside DEF TlbInv

LEMMA ResetInv == TlbInv /\ Tlb!Reset => TlbInv'
<1> SUFFICES ASSUME TlbInv, Tlb!Reset PROVE TlbInv'
  OBVIOUS
<1>1. /\ main = "reset" /\ main' = "call" /\ u1' = u2 /\ turn = 0
      /\ UNCHANGED <<script, turn, present, lazy, flt, u2, passes, dropped, tpc, reports, base>>
  BY DEF Tlb!Reset, Tlb!mem, Tlb!loop, TlbInv, Scripting
<1>2. TlbTypes' /\ Scripting'
  BY <1>1, TlbSizes DEF TlbInv, TlbTypes, Scripting, Looping
<1>3. Told'
  BY <1>1 DEF TlbInv, Told, Tlb!Reported
<1>4. Caused'
  <2>1. /\ Coming' = Coming /\ Again' = Again /\ Hit' = Hit
        /\ WindowStart' = u2 /\ WindowStart = u2
    BY <1>1 DEF Coming, Again, Away, WindowStart, Hit
  <2> QED  BY <1>1, <2>1 DEF TlbInv, Caused, Looping
<1> QED  BY <1>1, <1>2, <1>3, <1>4, Outside DEF TlbInv, Tlb!FaultsAreCaused

(* A thread's write comes to a page that is not there: it was on its way.  *)
LEMMA WriteInv == TlbInv /\ (\E t \in Tlb!Thread : Tlb!Write(t)) => TlbInv'
<1> SUFFICES ASSUME TlbInv, NEW t \in Tlb!Thread, Tlb!Write(t) PROVE TlbInv'
  OBVIOUS
<1>1. /\ tpc[t] = "write" /\ Away(t) /\ tpc' = [tpc EXCEPT ![t] = "fault"]
      /\ UNCHANGED <<script, turn, present, lazy, flt, u1, u2, passes, main, dropped,
                     reports, base>>
      /\ tpc \in [Tlb!Thread -> {"off", "write", "fault", "count"}]
      /\ main \notin {"start", "script"}
  BY DEF Tlb!Write, Tlb!mem, Away, TlbInv, TlbTypes, Scripting
<1>2. \A r \in Tlb!Thread : tpc'[r] = IF r = t THEN "fault" ELSE tpc[r]
  BY <1>1
<1>3. TlbTypes' /\ Scripting'
  <2>1. TlbTypes'
    BY <1>1 DEF TlbInv, TlbTypes
  <2>2. \A r \in Tlb!Thread : (tpc'[r] # "off") <=> (tpc[r] # "off")
    BY <1>1, <1>2
  <2>3. Scripting'
    BY <1>1, <2>2 DEF TlbInv, Scripting, Looping
  <2> QED  BY <2>1, <2>3
<1>4. Told'
  BY <1>1 DEF TlbInv, Told, Tlb!Reported
<1>5. Caused'
  <2>1. Hit' = Hit /\ WindowStart' = WindowStart /\ \A r \in Tlb!Thread : (Away(r))' = Away(r)
    BY <1>1 DEF Away, WindowStart, Hit
  <2>2. Coming' = Coming
    BY <1>1, <1>2, <2>1 DEF Coming
  <2>3. Again' = Again
    BY <1>1, <1>2, <2>1 DEF Again
  <2> QED  BY <1>1, <2>1, <2>2, <2>3 DEF TlbInv, Caused, Looping
<1> QED  BY <1>1, <1>3, <1>4, <1>5, Outside DEF TlbInv, Tlb!FaultsAreCaused

(* What the faults on their way may become without a fault counted.        *)
LEMMA Fewer ==
  ASSUME TlbInv, Coming' \subseteq Coming, Again' \subseteq Again, Hit' = Hit,
         WindowStart' = WindowStart, flt' = flt, UNCHANGED <<main, turn>>
  PROVE  Caused'
<1> SUFFICES ASSUME Looping PROVE Caused'
  BY DEF Caused, Looping
<1> DEFINE c == Cardinality(Coming)
           cn == Cardinality(Coming')
           a == Cardinality(Again)
           an == Cardinality(Again')
           h == Cardinality(Hit)
<1>1. cn \in Nat /\ an \in Nat /\ cn <= c /\ an <= a
  <2>1. IsFiniteSet(Coming) /\ IsFiniteSet(Again)
    BY Sets, ThreadsFinite
  <2> QED  BY <2>1, FS_Subset, FS_CardinalityType
<1>2. c \in Nat /\ a \in Nat /\ h \in Nat
  BY Sets
<1>3. /\ flt \in Nat /\ WindowStart \in Nat /\ turn \in Nat /\ Budget(turn) \in Nat
      /\ flt - WindowStart + c + a <= Budget(turn) + h
  BY BudgetIs DEF TlbInv, TlbTypes, WindowStart, Caused, Budget
<1>4. h = Cardinality(Hit')
  OBVIOUS
<1> HIDE DEF c, cn, a, an, h
<1>5. flt' - WindowStart' + cn + an <= Budget(turn') + h
  BY <1>1, <1>2, <1>3
<1> QED  BY <1>4, <1>5 DEF Caused, Budget, cn, an

(* The fault puts the page in place, for every thread that writes to it.   *)
LEMMA FaultInv == TlbInv /\ (\E t \in Tlb!Thread : Tlb!Fault(t)) => TlbInv'
<1> SUFFICES ASSUME TlbInv, NEW t \in Tlb!Thread, Tlb!Fault(t) PROVE TlbInv'
  OBVIOUS
<1>1. /\ tpc[t] = "fault" /\ present' = present \cup {Tlb!PageOf(t)}
      /\ tpc' = [tpc EXCEPT ![t] = "count"]
      /\ UNCHANGED <<script, turn, lazy, flt, u1, u2, passes, main, dropped, reports, base>>
      /\ tpc \in [Tlb!Thread -> {"off", "write", "fault", "count"}]
      /\ main \notin {"start", "script"}
  BY DEF Tlb!Fault, TlbInv, TlbTypes, Scripting
<1>2. \A r \in Tlb!Thread : tpc'[r] = IF r = t THEN "count" ELSE tpc[r]
  BY <1>1
<1>3. TlbTypes' /\ Scripting'
  <2>1. TlbTypes'
    BY <1>1, TlbSizes DEF TlbInv, TlbTypes
  <2>2. \A r \in Tlb!Thread : (tpc'[r] # "off") <=> (tpc[r] # "off")
    BY <1>1, <1>2
  <2>3. Scripting'
    BY <1>1, <2>2 DEF TlbInv, Scripting, Looping
  <2> QED  BY <2>1, <2>3
<1>4. Told'
  BY <1>1 DEF TlbInv, Told, Tlb!Reported
<1>5. Caused'
  <2>1. Hit' = Hit /\ WindowStart' = WindowStart
    BY <1>1 DEF WindowStart, Hit
  <2>2. \A r \in Tlb!Thread : (Away(r))' => Away(r) /\ r # t
    BY <1>1 DEF Away
  <2>3. Coming' \subseteq Coming
    BY <1>1, <1>2, <2>2 DEF Coming
  <2>4. Again' \subseteq Again
    BY <1>1, <1>2, <2>2 DEF Again
  <2> QED  BY <1>1, <2>1, <2>3, <2>4, Fewer
<1> QED  BY <1>1, <1>3, <1>4, <1>5, Outside DEF TlbInv, Tlb!FaultsAreCaused

(* A fault counted is one of those that were on their way.                 *)
LEMMA CountInv == TlbInv /\ (\E t \in Tlb!Thread : Tlb!Count(t)) => TlbInv'
<1> SUFFICES ASSUME TlbInv, NEW t \in Tlb!Thread, Tlb!Count(t) PROVE TlbInv'
  OBVIOUS
<1>1. /\ tpc[t] = "count" /\ flt' = flt + 1 /\ tpc' = [tpc EXCEPT ![t] = "write"]
      /\ UNCHANGED <<script, turn, present, lazy, u1, u2, passes, main, dropped, reports, base>>
      /\ tpc \in [Tlb!Thread -> {"off", "write", "fault", "count"}]
      /\ main \notin {"start", "script"} /\ flt \in Nat /\ flt' \in Nat
  BY DEF Tlb!Count, TlbInv, TlbTypes, Scripting
<1>2. \A r \in Tlb!Thread : tpc'[r] = IF r = t THEN "write" ELSE tpc[r]
  BY <1>1
<1>3. TlbTypes' /\ Scripting'
  <2>1. TlbTypes'
    BY <1>1 DEF TlbInv, TlbTypes
  <2>2. \A r \in Tlb!Thread : (tpc'[r] # "off") <=> (tpc[r] # "off")
    BY <1>1, <1>2
  <2>3. Scripting'
    BY <1>1, <2>2 DEF TlbInv, Scripting, Looping
  <2> QED  BY <2>1, <2>3
<1>4. Told'
  <2>1. UNCHANGED <<Tlb!Reported, u1, u2, base, main>>
    BY <1>1 DEF Tlb!Reported
  <2>2. u1 \in Nat /\ u2 \in Nat
    BY DEF TlbInv, TlbTypes
  <2> QED  BY <1>1, <2>1, <2>2 DEF TlbInv, Told
<1>5. Caused'
  <2> SUFFICES ASSUME Looping PROVE Caused'
    BY <1>1 DEF Caused, Looping
  <2>1. /\ Hit' = Hit /\ WindowStart' = WindowStart
        /\ \A r \in Tlb!Thread : (Away(r))' = Away(r)
    BY <1>1 DEF Away, WindowStart, Hit
  <2> DEFINE c == Cardinality(Coming)
             cn == Cardinality(Coming')
             a == Cardinality(Again)
             an == Cardinality(Again')
             h == Cardinality(Hit)
  <2>2. cn + an = c + a - 1 /\ cn \in Nat /\ an \in Nat
    <3>1. IsFiniteSet(Coming) /\ IsFiniteSet(Again) /\ c \in Nat /\ a \in Nat
      BY Sets, ThreadsFinite
    <3>2. CASE Away(t)
      <4>1. Coming' = Coming
        BY <1>1, <1>2, <2>1, <3>2 DEF Coming
      <4>2. Again' = Again \ {t} /\ t \in Again
        BY <1>1, <1>2, <2>1, <3>2 DEF Again
      <4>3. Cardinality(Again \ {t}) = a - 1 /\ Cardinality(Again \ {t}) \in Nat
        <5>1. IsFiniteSet(Again \ {t}) /\ Cardinality(Again \ {t}) = a - 1
          BY <3>1, <4>2, FS_RemoveElement
        <5> QED  BY <5>1, FS_CardinalityType
      <4>4. cn = c /\ an = a - 1 /\ an \in Nat
        BY <4>1, <4>2, <4>3
      <4> HIDE DEF c, cn, a, an
      <4> QED  BY <3>1, <4>4
    <3>3. CASE ~ Away(t)
      <4>1. Again' = Again
        BY <1>1, <1>2, <2>1, <3>3 DEF Again
      <4>2. Coming' = Coming \ {t} /\ t \in Coming
        BY <1>1, <1>2, <2>1, <3>3 DEF Coming
      <4>3. Cardinality(Coming \ {t}) = c - 1 /\ Cardinality(Coming \ {t}) \in Nat
        <5>1. IsFiniteSet(Coming \ {t}) /\ Cardinality(Coming \ {t}) = c - 1
          BY <3>1, <4>2, FS_RemoveElement
        <5> QED  BY <5>1, FS_CardinalityType
      <4>4. an = a /\ cn = c - 1 /\ cn \in Nat
        BY <4>1, <4>2, <4>3
      <4> HIDE DEF c, cn, a, an
      <4> QED  BY <3>1, <4>4
    <3> QED  BY <3>2, <3>3
  <2>3. c \in Nat /\ a \in Nat /\ h \in Nat
    BY Sets
  <2>4. /\ WindowStart \in Nat /\ turn \in Nat /\ Budget(turn) \in Nat
        /\ flt - WindowStart + c + a <= Budget(turn) + h
    BY BudgetIs DEF TlbInv, TlbTypes, WindowStart, Caused, Budget
  <2>5. h = Cardinality(Hit') /\ WindowStart' = WindowStart /\ turn' = turn
    BY <1>1, <2>1
  <2> HIDE DEF c, cn, a, an, h
  <2>6. flt' - WindowStart' + cn + an <= Budget(turn') + h
    BY <1>1, <2>2, <2>3, <2>4, <2>5
  <2> QED  BY <2>5, <2>6 DEF Caused, Budget, cn, an
<1> QED  BY <1>1, <1>3, <1>4, <1>5, Outside DEF TlbInv, Tlb!FaultsAreCaused

LEMMA TlbStep == TlbInv /\ [Tlb!Next]_tlbVars => TlbInv'
<1>1. ASSUME TlbInv, UNCHANGED tlbVars PROVE TlbInv'
  <2>1. UNCHANGED <<script, turn, present, lazy, flt, u1, u2, passes, main, dropped, tpc,
                    reports, base>>
    BY <1>1 DEF tlbVars
  <2>2. TlbTypes' /\ Scripting' /\ PagesAre'
    BY <1>1, <2>1 DEF TlbInv, TlbTypes, Scripting, PagesAre, Reporting, Claimed, Before,
                      Within, Looping
  <2>3. Told' /\ Tlb!PassesTell' /\ Tlb!FaultsAreCaused'
    BY <1>1, <2>1 DEF TlbInv, Told, Tlb!Reported, Tlb!PassesTell, Tlb!FaultsAreCaused
  <2>4. Caused'
    <3>1. Coming' = Coming /\ Again' = Again /\ Hit' = Hit /\ WindowStart' = WindowStart
      BY <2>1 DEF Coming, Again, Hit, Away, WindowStart
    <3> QED  BY <1>1, <2>1, <3>1 DEF TlbInv, Caused, Looping
  <2> QED  BY <2>2, <2>3, <2>4 DEF TlbInv
<1>2. ASSUME TlbInv, Tlb!Bounded PROVE TlbInv'
  BY <1>1, <1>2 DEF Tlb!Bounded, Tlb!vars, Tlb!mem, Tlb!loop, tlbVars
<1>3. ASSUME TlbInv, Tlb!Next PROVE TlbInv'
  BY <1>2, <1>3, StartInv, TlbTouchInv, TouchedInv, ScriptInv, CreateThreadsInv, CallInv,
     DropPageInv, CalledInv, TlbReportInv, ResetInv, WriteInv, FaultInv, CountInv
  DEF Tlb!Next
<1> QED  BY <1>1, <1>3

(* Invariance of what the loop and the script of tlbShootDownBench keep.   *)
THEOREM TlbInvariance == ProgramsSpec => []TlbInv
<1>1. ProgramsInit => TlbInv
  BY TlbInit DEF ProgramsInit
<1>2. TlbInv /\ [ProgramsNext]_programsVars => TlbInv'
  BY Frame, TlbStep
<1> QED  BY <1>1, <1>2, PTL DEF ProgramsSpec

(* The passes before the threads report exactly the faults of the pages    *)
(* that were not there, whatever the kernel takes back between the calls   *)
(* (tlbShootDownBench.c:206-321).                                          *)
THEOREM PassesAreTold == ProgramsSpec => []PassesTell
<1>1. TlbInv => PassesTell
  BY DEF TlbInv, PassesTell
<1> QED  BY <1>1, TlbInvariance, PTL

(* However the threads fault between two reports and during them, every    *)
(* fault is told exactly once (tlbShootDownBench.c:352-367).               *)
THEOREM FaultsAreTold == ProgramsSpec => []EveryFaultIsTold
<1>1. TlbInv => EveryFaultIsTold
  BY DEF TlbInv, TlbTypes, Told, EveryFaultIsTold, Tlb!EveryFaultIsTold
<1> QED  BY <1>1, TlbInvariance, PTL

(* For any number of threads, pages and calls per report, a report has no  *)
(* more than a fault per thread and call, and two per thread from before   *)
(* (tlbShootDownBench.c:349-367).                                          *)
THEOREM FaultsHaveACause == ProgramsSpec => []FaultsAreCaused
<1>1. TlbInv => FaultsAreCaused
  BY DEF TlbInv, FaultsAreCaused
<1> QED  BY <1>1, TlbInvariance, PTL

-----------------------------------------------------------------------------
(* getMemoryInfo: what the lines not read yet still hold.                  *)

Kinds == {"zone", "free", "boost", "min", "low", "nr_inactive_file", "nr_zone_inactive_file"}
ZoneLine == [kind : Kinds, node : Int, zone : {"DMA", "Normal", "Movable", "node"}]

IsHead(x) == x.kind = "zone" /\ x.zone = "Normal"
Own(n) == <<n, "Normal">>
Stats(n) == <<n, "node">>
Spare(n) == <<n, "Movable">>

(* The i-th line of q.                                                     *)
Has(q, i, kinds, from) ==
  i \in 1 .. Len(q) /\ q[i].kind \in kinds /\ Zones!From(q[i]) = from

MinAt(q, i) == i \in 1 .. Len(q) /\ q[i].kind \in {"boost", "min"}

(* y lines, none of which ends the search, and then the low pages.         *)
LowAt(q, i, y, from) ==
  /\ y >= 1 => MinAt(q, i)
  /\ y >= 2 => MinAt(q, i + 1)
  /\ Has(q, i + y, {"low"}, from)

FreeAt(q, i, y, from) ==
  Has(q, i, {"free"}, from) /\ LowAt(q, i + 1, y, from)

IsInactive(q, i, from) == Has(q, i, {"nr_zone_inactive_file", "nr_inactive_file"}, from)

(* The Movable zone of a node from behind its head.                        *)
MovableAt(q, i, n) ==
  IsInactive(q, i, Stats(n)) \/ \E y \in 1 .. 2 : FreeAt(q, i, y, Spare(n))

(* What follows the low pages of node n's Normal zone: its inactive pages, *)
(* or the Movable zone if it has none.                                     *)
EndAt(p, q, i, n) ==
  \/ IsInactive(q, i, Own(n))
  \/ /\ Own(n) \notin p
     /\ Has(q, i, {"zone"}, Spare(n))
     /\ MovableAt(q, i + 1, n)

ZoneAt(p, q, i, n) ==
  \E y \in 1 .. 2 : FreeAt(q, i, y, Own(n)) /\ EndAt(p, q, i + 1 + y + 1, n)

(* Node n from behind the head of its Normal zone, perhaps with the lines  *)
(* of the node first.                                                      *)
BlockAt(p, q, i, n) ==
  \/ ZoneAt(p, q, i, n)
  \/ IsInactive(q, i, Stats(n)) /\ ZoneAt(p, q, i + 1, n)

(* Heads are of the nodes above c, in order and followed by the node; and  *)
(* those whose Normal zone has memory have one.                            *)
HasNodes(p, q, c) ==
  /\ q \in Seq(ZoneLine) /\ c \in 0 .. Nodes
  /\ \A i \in 1 .. Len(q) : IsHead(q[i]) =>
       q[i].node \in c + 1 .. Nodes /\ BlockAt(p, q, i + 1, q[i].node)
  /\ \A i, j \in 1 .. Len(q) :
       IsHead(q[i]) /\ IsHead(q[j]) /\ i < j => q[i].node < q[j].node
  /\ \A n \in c + 1 .. Nodes : Own(n) \in p =>
       \E i \in 1 .. Len(q) : IsHead(q[i]) /\ q[i].node = n

(* The nodes up to c have been printed.                                    *)
ToldUpTo(c) ==
  /\ \A i \in DOMAIN printed : printed[i].node \in 1 .. c
  /\ \A n \in 1 .. c : Own(n) \in populated => \E i \in DOMAIN printed : printed[i].node = n

InOuter ==
  reading = "outer" => \E c \in 0 .. Nodes : HasNodes(populated, rest, c) /\ ToldUpTo(c)

InNode ==
  reading # "outer" => /\ zoneid \in 1 .. Nodes
                       /\ HasNodes(populated, rest, zoneid) /\ ToldUpTo(zoneid - 1)

(* Which of the two values there are.                                      *)
NoneGot == cnt_got = 0 /\ inactive = Zones!None
StatsGot == cnt_got = 1 /\ inactive = Stats(zoneid)
LowGot == cnt_got = 1 /\ inactive = Zones!None

InInner ==
  reading = "inner" =>
    \/ NoneGot /\ BlockAt(populated, rest, 1, zoneid)
    \/ StatsGot /\ ZoneAt(populated, rest, 1, zoneid)
    \/ /\ LowGot /\ free = Own(zoneid) /\ low = Own(zoneid)
       /\ \/ EndAt(populated, rest, 1, zoneid)
          \/ Own(zoneid) \notin populated /\ MovableAt(rest, 1, zoneid)

InSub ==
  reading = "sub" => \E y \in 0 .. 2 :
    /\ sub + y <= 2
    /\ \/ /\ free = Own(zoneid) /\ (NoneGot \/ StatsGot)
          /\ LowAt(rest, 1, y, Own(zoneid)) /\ EndAt(populated, rest, 1 + y + 1, zoneid)
       \/ /\ free = Spare(zoneid) /\ LowGot /\ Own(zoneid) \notin populated
          /\ LowAt(rest, 1, y, Spare(zoneid))

Origins == Int \X {"none", "Normal", "Movable", "node"}
PrintedLine == [node : Nat, free : Origins, low : Origins, inactive : Origins]

ZoneTypes ==
  /\ reading \in {"outer", "inner", "sub"}
  /\ printed \in Seq(PrintedLine)
  /\ \A i \in DOMAIN printed : Zones!Tells(printed[i])
  /\ \A i, j \in DOMAIN printed : i < j => printed[i].node < printed[j].node
  /\ sub \in Nat

ZoneInv == ZoneTypes /\ InOuter /\ InNode /\ InInner /\ InSub

(* Reading a line.                                                         *)
LEMMA TailIs ==
  ASSUME NEW q \in Seq(ZoneLine), q # <<>>
  PROVE  /\ Tail(q) \in Seq(ZoneLine) /\ Len(Tail(q)) = Len(q) - 1 /\ Len(q) \in Nat \ {0}
         /\ \A i \in 1 .. Len(q) - 1 : Tail(q)[i] = q[i + 1]
         /\ Head(q) = q[1] /\ q[1] \in ZoneLine
OBVIOUS

(* Lines mean the same wherever they are.                                  *)
Copied(q, s, r, t) ==
  \A e \in Nat \ {0} : s + e \in 1 .. Len(q) => t + e \in 1 .. Len(r) /\ r[t + e] = q[s + e]

LEMMA LowCopied ==
  ASSUME NEW q, NEW r, NEW s \in Nat, NEW t \in Nat, Copied(q, s, r, t), NEW i \in Nat \ {0}
  PROVE  /\ \A ix, w : Has(q, s + i, ix, w) => Has(r, t + i, ix, w)
         /\ \A y \in 0 .. 2 : \A w : LowAt(q, s + i, y, w) => LowAt(r, t + i, y, w)
         /\ \A y \in 0 .. 2 : \A w : FreeAt(q, s + i, y, w) => FreeAt(r, t + i, y, w)
         /\ \A n : MovableAt(q, s + i, n) => MovableAt(r, t + i, n)
<1>1. ASSUME NEW e \in Nat \ {0}, NEW ix, NEW w, Has(q, s + e, ix, w) PROVE Has(r, t + e, ix, w)
  BY <1>1 DEF Has, Copied
<1>2. ASSUME NEW e \in Nat \ {0}, MinAt(q, s + e) PROVE MinAt(r, t + e)
  BY <1>2 DEF MinAt, Copied
<1>3. ASSUME NEW e \in Nat \ {0}, NEW y \in 0 .. 2, NEW w, LowAt(q, s + e, y, w)
      PROVE  LowAt(r, t + e, y, w)
  <2>1. /\ e + 1 \in Nat \ {0} /\ s + (e + 1) = s + e + 1 /\ t + (e + 1) = t + e + 1
        /\ e + y \in Nat \ {0} /\ s + (e + y) = s + e + y /\ t + (e + y) = t + e + y
    OBVIOUS
  <2>2. Has(r, t + e + y, {"low"}, w)
    BY <1>1, <1>3, <2>1 DEF LowAt
  <2>3. y >= 1 => MinAt(r, t + e)
    BY <1>2, <1>3 DEF LowAt
  <2>4. y >= 2 => MinAt(r, t + e + 1)
    BY <1>2, <1>3, <2>1 DEF LowAt
  <2> QED  BY <2>2, <2>3, <2>4 DEF LowAt
<1>4. ASSUME NEW e \in Nat \ {0}, NEW y \in 0 .. 2, NEW w, FreeAt(q, s + e, y, w)
      PROVE  FreeAt(r, t + e, y, w)
  <2>1. e + 1 \in Nat \ {0} /\ s + (e + 1) = s + e + 1 /\ t + (e + 1) = t + e + 1
    OBVIOUS
  <2>2. LowAt(r, t + e + 1, y, w)
    BY <1>3, <1>4, <2>1 DEF FreeAt
  <2>3. Has(r, t + e, {"free"}, w)
    BY <1>1, <1>4 DEF FreeAt
  <2> QED  BY <2>2, <2>3 DEF FreeAt
<1>5. ASSUME NEW n, MovableAt(q, s + i, n) PROVE MovableAt(r, t + i, n)
  <2>1. CASE IsInactive(q, s + i, Stats(n))
    BY <1>1, <2>1 DEF IsInactive, MovableAt
  <2>2. CASE \E y \in 1 .. 2 : FreeAt(q, s + i, y, Spare(n))
    <3>1. PICK y \in 1 .. 2 : FreeAt(q, s + i, y, Spare(n))
      BY <2>2
    <3>2. FreeAt(r, t + i, y, Spare(n))
      BY <1>4, <3>1
    <3> QED  BY <3>2 DEF MovableAt
  <2> QED  BY <1>5, <2>1, <2>2 DEF MovableAt
<1> QED  BY <1>1, <1>3, <1>4, <1>5

LEMMA BlockCopied ==
  ASSUME NEW p, NEW q, NEW r, NEW s \in Nat, NEW t \in Nat, Copied(q, s, r, t),
         NEW i \in Nat \ {0}, NEW n
  PROVE  /\ EndAt(p, q, s + i, n) => EndAt(p, r, t + i, n)
         /\ ZoneAt(p, q, s + i, n) => ZoneAt(p, r, t + i, n)
         /\ BlockAt(p, q, s + i, n) => BlockAt(p, r, t + i, n)
<1>1. ASSUME NEW e \in Nat \ {0}, EndAt(p, q, s + e, n) PROVE EndAt(p, r, t + e, n)
  <2>1. CASE IsInactive(q, s + e, Own(n))
    BY <2>1, LowCopied DEF EndAt, IsInactive
  <2>2. CASE ~ IsInactive(q, s + e, Own(n))
    <3>1. e + 1 \in Nat \ {0} /\ s + (e + 1) = s + e + 1 /\ t + (e + 1) = t + e + 1
      OBVIOUS
    <3>2. /\ Own(n) \notin p /\ Has(q, s + e, {"zone"}, Spare(n))
          /\ MovableAt(q, s + e + 1, n)
      BY <1>1, <2>2 DEF EndAt
    <3>3. MovableAt(r, t + e + 1, n)
      BY <3>1, <3>2, LowCopied
    <3>4. Has(r, t + e, {"zone"}, Spare(n))
      BY <3>2, LowCopied
    <3> QED  BY <3>2, <3>3, <3>4 DEF EndAt
  <2> QED  BY <2>1, <2>2
<1>2. ASSUME NEW e \in Nat \ {0}, ZoneAt(p, q, s + e, n) PROVE ZoneAt(p, r, t + e, n)
  <2>1. PICK y \in 1 .. 2 : FreeAt(q, s + e, y, Own(n)) /\ EndAt(p, q, s + e + 1 + y + 1, n)
    BY <1>2 DEF ZoneAt
  <2>2. /\ e + 1 + y + 1 \in Nat \ {0} /\ s + (e + 1 + y + 1) = s + e + 1 + y + 1
        /\ t + (e + 1 + y + 1) = t + e + 1 + y + 1 /\ y \in 0 .. 2
    OBVIOUS
  <2>3. EndAt(p, r, t + e + 1 + y + 1, n)
    BY <1>1, <2>1, <2>2
  <2>4. FreeAt(r, t + e, y, Own(n))
    BY <2>1, <2>2, LowCopied
  <2> QED  BY <2>3, <2>4 DEF ZoneAt
<1>3. ASSUME BlockAt(p, q, s + i, n) PROVE BlockAt(p, r, t + i, n)
  <2>1. CASE ZoneAt(p, q, s + i, n)
    BY <1>2, <2>1 DEF BlockAt
  <2>2. CASE ~ ZoneAt(p, q, s + i, n)
    <3>1. i + 1 \in Nat \ {0} /\ s + (i + 1) = s + i + 1 /\ t + (i + 1) = t + i + 1
      OBVIOUS
    <3>2. IsInactive(q, s + i, Stats(n)) /\ ZoneAt(p, q, s + i + 1, n)
      BY <1>3, <2>2 DEF BlockAt
    <3>3. ZoneAt(p, r, t + i + 1, n)
      BY <1>2, <3>1, <3>2
    <3>4. IsInactive(r, t + i, Stats(n))
      BY <3>2, LowCopied DEF IsInactive
    <3> QED  BY <3>3, <3>4 DEF BlockAt
  <2> QED  BY <2>1, <2>2
<1> QED  BY <1>1, <1>2, <1>3

LEMMA TailCopied ==
  ASSUME NEW q \in Seq(ZoneLine), q # <<>>
  PROVE  Copied(q, 1, Tail(q), 0)
<1>1. ASSUME NEW e \in Nat \ {0}, 1 + e \in 1 .. Len(q)
      PROVE  0 + e \in 1 .. Len(Tail(q)) /\ Tail(q)[0 + e] = q[1 + e]
  <2>1. e \in 1 .. Len(q) - 1 /\ 0 + e = e /\ 1 + e = e + 1
    BY <1>1, TailIs
  <2> QED  BY <2>1, TailIs
<1> QED  BY <1>1 DEF Copied

LEMMA NextBlock ==
  ASSUME NEW p, NEW q, NEW r, Copied(q, 1, r, 0), NEW i \in Nat \ {0}, NEW n
  PROVE  /\ EndAt(p, q, 1 + i, n) => EndAt(p, r, 0 + i, n)
         /\ ZoneAt(p, q, 1 + i, n) => ZoneAt(p, r, 0 + i, n)
         /\ BlockAt(p, q, 1 + i, n) => BlockAt(p, r, 0 + i, n)
<1>1. 0 \in Nat /\ 1 \in Nat
  OBVIOUS
<1> QED  BY <1>1, BlockCopied

LEMMA RestHasNodes ==
  ASSUME NEW p, NEW q, NEW c, HasNodes(p, q, c), q # <<>>
  PROVE  /\ ~ IsHead(q[1]) => HasNodes(p, Tail(q), c)
         /\ IsHead(q[1]) =>
              /\ q[1].node \in c + 1 .. Nodes
              /\ HasNodes(p, Tail(q), q[1].node)
              /\ BlockAt(p, Tail(q), 1, q[1].node)
              /\ \A n \in c + 1 .. q[1].node - 1 : Own(n) \notin p
<1> DEFINE t == Tail(q)
<1>1. /\ q \in Seq(ZoneLine) /\ c \in 0 .. Nodes /\ c \in Nat /\ Nodes \in Nat
      /\ t \in Seq(ZoneLine) /\ Len(t) = Len(q) - 1 /\ Len(q) \in Nat \ {0}
      /\ \A e \in 1 .. Len(q) - 1 : t[e] = q[e + 1]
  BY SizesAssumption, TailIs DEF HasNodes, Zones!Sizes
<1>2. ASSUME NEW i \in Nat \ {0}, NEW n, BlockAt(p, q, i + 1, n) PROVE BlockAt(p, t, i, n)
  <2>1. Copied(q, 1, t, 0) /\ 1 \in Nat /\ 0 \in Nat /\ 1 + i = i + 1 /\ 0 + i = i
    BY <1>1, TailCopied
  <2> HIDE DEF t
  <2>2. BlockAt(p, q, 1 + i, n)
    BY <1>2, <2>1
  <2>3. BlockAt(p, t, 0 + i, n)
    BY <2>1, <2>2, BlockCopied
  <2> QED  BY <2>1, <2>3
<1> HIDE DEF t
<1>3. ASSUME NEW i \in 1 .. Len(t)
      PROVE  i + 1 \in 1 .. Len(q) /\ t[i] = q[i + 1] /\ i \in Nat \ {0}
  BY <1>1
<1>4. ASSUME NEW i \in 1 .. Len(t), IsHead(t[i])
      PROVE  t[i].node \in c + 1 .. Nodes /\ BlockAt(p, t, i + 1, t[i].node)
  <2>1. BlockAt(p, q, i + 1 + 1, q[i + 1].node) /\ q[i + 1].node \in c + 1 .. Nodes
    BY <1>3, <1>4 DEF HasNodes
  <2>2. i + 1 \in Nat \ {0}
    BY <1>3
  <2> QED  BY <1>2, <1>3, <2>1, <2>2
<1>5. ASSUME NEW i \in 1 .. Len(t), NEW j \in 1 .. Len(t), IsHead(t[i]), IsHead(t[j]), i < j
      PROVE  t[i].node < t[j].node
  <2>1. i + 1 < j + 1
    BY <1>5
  <2> QED  BY <1>3, <1>5, <2>1 DEF HasNodes
<1>6. ASSUME NEW n \in c + 1 .. Nodes, Own(n) \in p, ~ (IsHead(q[1]) /\ q[1].node = n)
      PROVE  \E i \in 1 .. Len(t) : IsHead(t[i]) /\ t[i].node = n
  <2>1. PICK i \in 1 .. Len(q) : IsHead(q[i]) /\ q[i].node = n
    BY <1>6 DEF HasNodes
  <2>2. i # 1 /\ i - 1 \in 1 .. Len(t) /\ t[i - 1] = q[i]
    BY <1>1, <1>6, <2>1
  <2> QED  BY <2>1, <2>2
<1>7. ASSUME ~ IsHead(q[1]) PROVE HasNodes(p, t, c)
  BY <1>1, <1>4, <1>5, <1>6, <1>7 DEF HasNodes
<1>8. ASSUME IsHead(q[1])
      PROVE  /\ q[1].node \in c + 1 .. Nodes /\ HasNodes(p, t, q[1].node)
             /\ BlockAt(p, t, 1, q[1].node)
             /\ \A n \in c + 1 .. q[1].node - 1 : Own(n) \notin p
  <2> DEFINE m == q[1].node
  <2>1. 1 \in 1 .. Len(q) /\ m \in c + 1 .. Nodes /\ BlockAt(p, q, 1 + 1, m)
    BY <1>1, <1>8 DEF HasNodes
  <2>2. ASSUME NEW e \in 1 .. Len(t), IsHead(t[e]) PROVE t[e].node \in m + 1 .. Nodes
    <3>1. 1 < e + 1 /\ e + 1 \in 1 .. Len(q) /\ t[e] = q[e + 1]
      BY <1>1
    <3>2. m < q[e + 1].node
      BY <1>8, <2>1, <2>2, <3>1 DEF HasNodes
    <3> HIDE DEF m
    <3> QED  BY <1>1, <1>4, <2>1, <2>2, <3>1, <3>2
  <2>3. ASSUME NEW n \in c + 1 .. Nodes, Own(n) \in p PROVE m <= n
    <3>1. PICK i \in 1 .. Len(q) : IsHead(q[i]) /\ q[i].node = n
      BY <2>3 DEF HasNodes
    <3>2. 1 < i => m < q[i].node
      BY <1>8, <2>1, <3>1 DEF HasNodes
    <3> QED  BY <1>1, <2>1, <3>1, <3>2
  <2> HIDE DEF m
  <2>4. ASSUME NEW n \in m + 1 .. Nodes, Own(n) \in p
        PROVE  \E e \in 1 .. Len(t) : IsHead(t[e]) /\ t[e].node = n
    <3>1. n \in c + 1 .. Nodes /\ n # m
      BY <1>1, <2>1
    <3>2. q[1].node # n
      BY <3>1 DEF m
    <3> QED  BY <1>6, <2>4, <3>1, <3>2
  <2>5. m \in 0 .. Nodes
    BY <1>1, <2>1
  <2>6. HasNodes(p, t, m)
    BY <1>1, <1>4, <1>5, <2>2, <2>4, <2>5 DEF HasNodes
  <2>7. BlockAt(p, t, 1, m)
    BY <1>2, <2>1
  <2>8. ASSUME NEW n \in c + 1 .. m - 1 PROVE Own(n) \notin p
    <3>1. n \in c + 1 .. Nodes /\ ~ (m <= n)
      BY <1>1, <2>1
    <3> QED  BY <2>3, <3>1
  <2> QED  BY <2>1, <2>6, <2>7, <2>8 DEF m
<1> QED  BY <1>7, <1>8 DEF t

LEMMA ZonePassInv == ZoneInv /\ Zones!Pass => ZoneInv'
<1> SUFFICES ASSUME ZoneInv, Zones!Pass PROVE ZoneInv'
  OBVIOUS
<1>1. /\ reading = "outer" /\ reading' = "outer" /\ rest # <<>> /\ rest' = Tail(rest)
      /\ ~ IsHead(Head(rest))
      /\ UNCHANGED <<populated, sub, printed>>
  BY DEF Zones!Pass, Zones!Reads, Zones!l, IsHead
<1>2. PICK c \in 0 .. Nodes : HasNodes(populated, rest, c) /\ ToldUpTo(c)
  BY <1>1 DEF ZoneInv, InOuter
<1>3. Head(rest) = rest[1]
  BY <1>1, <1>2, TailIs DEF HasNodes
<1>4. HasNodes(populated', rest', c) /\ ToldUpTo(c)'
  BY <1>1, <1>2, <1>3, RestHasNodes DEF ToldUpTo
<1>5. ZoneTypes'
  BY <1>1 DEF ZoneInv, ZoneTypes, Zones!Tells
<1> QED  BY <1>1, <1>4, <1>5 DEF ZoneInv, InOuter, InNode, InInner, InSub

(* Nodes without a head have no memory in their Normal zone.               *)
LEMMA NoneBetween ==
  ASSUME NEW c \in 0 .. Nodes, NEW m \in c + 1 .. Nodes, ToldUpTo(c),
         \A n \in c + 1 .. m - 1 : Own(n) \notin populated
  PROVE  m \in 1 .. Nodes /\ ToldUpTo(m - 1)
<1>1. Nodes \in Nat
  BY SizesAssumption DEF Zones!Sizes
<1>2. m \in 1 .. Nodes /\ c <= m - 1 /\ c \in Int
  BY <1>1
<1>3. ASSUME NEW n \in 1 .. m - 1, Own(n) \in populated
      PROVE  \E i \in DOMAIN printed : printed[i].node = n
  <2>1. n \in 1 .. c
    BY <1>2, <1>3
  <2> QED  BY <1>3, <2>1 DEF ToldUpTo
<1>4. \A i \in DOMAIN printed : printed[i].node \in 1 .. m - 1
  BY <1>2 DEF ToldUpTo
<1> QED  BY <1>2, <1>3, <1>4 DEF ToldUpTo

LEMMA EnterZoneInv == ZoneInv /\ Zones!Enter => ZoneInv'
<1> SUFFICES ASSUME ZoneInv, Zones!Enter PROVE ZoneInv'
  OBVIOUS
<1>1. /\ reading = "outer" /\ reading' = "inner" /\ rest # <<>> /\ rest' = Tail(rest)
      /\ IsHead(Head(rest)) /\ zoneid' = Head(rest).node
      /\ inactive' = Zones!None /\ cnt_got' = 0
      /\ UNCHANGED <<populated, sub, printed>>
  BY DEF Zones!Enter, Zones!Reads, Zones!l, IsHead
<1>2. PICK c \in 0 .. Nodes : HasNodes(populated, rest, c) /\ ToldUpTo(c)
  BY <1>1 DEF ZoneInv, InOuter
<1>3. Head(rest) = rest[1]
  BY <1>1, <1>2, TailIs DEF HasNodes
<1>4. /\ HasNodes(populated, rest', zoneid') /\ BlockAt(populated, rest', 1, zoneid')
      /\ zoneid' \in c + 1 .. Nodes
      /\ \A n \in c + 1 .. zoneid' - 1 : Own(n) \notin populated
  BY <1>1, <1>2, <1>3, RestHasNodes
<1>5. zoneid' \in 1 .. Nodes /\ ToldUpTo(zoneid' - 1)
  BY <1>2, <1>4, NoneBetween
<1>6. ToldUpTo(zoneid - 1)'
  BY <1>1, <1>5 DEF ToldUpTo
<1>7. ZoneTypes'
  BY <1>1 DEF ZoneInv, ZoneTypes, Zones!Tells
<1> QED
  BY <1>1, <1>4, <1>5, <1>6, <1>7 DEF ZoneInv, InOuter, InNode, InInner, InSub, NoneGot

(* A line inside of a node, and what is behind it.                         *)
LEMMA NextLine ==
  ASSUME ZoneInv, reading # "outer", rest # <<>>, ~ IsHead(rest[1])
  PROVE  /\ HasNodes(populated, Tail(rest), zoneid) /\ Head(rest) = rest[1]
         /\ Copied(rest, 1, Tail(rest), 0) /\ rest \in Seq(ZoneLine)
<1>1. HasNodes(populated, rest, zoneid)
  BY DEF ZoneInv, InNode
<1>2. rest \in Seq(ZoneLine)
  BY <1>1 DEF HasNodes
<1> QED  BY <1>1, <1>2, TailIs, TailCopied, RestHasNodes

(* A node's line is kept apart from the rest of the invariant.             *)
LEMMA StaysInside ==
  ASSUME ZoneInv, reading # "outer", reading' \in {"inner", "sub"},
         HasNodes(populated, rest', zoneid), sub' \in Nat,
         UNCHANGED <<populated, zoneid, printed>>
  PROVE  ZoneTypes' /\ InOuter' /\ InNode'
<1>1. ZoneTypes'
  BY DEF ZoneInv, ZoneTypes, Zones!Tells
<1>2. ToldUpTo(zoneid - 1)'
  BY DEF ZoneInv, InNode, ToldUpTo
<1> QED  BY <1>1, <1>2 DEF ZoneInv, InOuter, InNode

(* The values of a node are printed when there are two of them.            *)
LEMMA PrintInv ==
  ASSUME ZoneInv, reading # "outer", HasNodes(populated, rest', zoneid),
         \/ /\ free' = Own(zoneid) /\ low' = Own(zoneid)
            /\ inactive' \in {Own(zoneid), Stats(zoneid)}
         \/ /\ free' = Spare(zoneid) /\ low' = Spare(zoneid)
            /\ inactive' = Zones!None /\ Own(zoneid) \notin populated,
         cnt_got' = 2, UNCHANGED <<populated, zoneid, sub>>, Zones!PrintIfBoth
  PROVE  ZoneInv'
<1> DEFINE x == [node |-> zoneid, free |-> free', low |-> low', inactive |-> inactive']
           u == Len(printed) + 1
<1>1. printed' = Append(printed, x) /\ reading' = "outer"
  BY DEF Zones!PrintIfBoth
<1>2. /\ zoneid \in 1 .. Nodes /\ Nodes \in Nat /\ ZoneTypes /\ ToldUpTo(zoneid - 1)
      /\ printed \in Seq(PrintedLine) /\ Len(printed) \in Nat
      /\ DOMAIN printed = 1 .. Len(printed)
  BY SizesAssumption DEF ZoneInv, InNode, ZoneTypes, Zones!Sizes
<1>3. x \in PrintedLine
  <2>1. /\ Own(zoneid) \in Origins /\ Stats(zoneid) \in Origins /\ Spare(zoneid) \in Origins
        /\ Zones!None \in Origins
    BY <1>2 DEF Own, Stats, Spare, Origins, Zones!None
  <2> QED  BY <1>2, <2>1 DEF PrintedLine
<1>4. Zones!Tells(x)
  BY <1>2 DEF Zones!Tells, Zones!Node, Own, Stats, Spare
<1>5. x.node = zoneid
  OBVIOUS
<1> HIDE DEF x
<1>6. /\ printed' \in Seq(PrintedLine)
      /\ DOMAIN printed' = 1 .. u /\ printed'[u] = x /\ u \in 1 .. u
      /\ \A ix \in 1 .. Len(printed) : printed'[ix] = printed[ix]
  BY <1>1, <1>2, <1>3
<1> HIDE DEF u
<1>7. ASSUME NEW ix \in DOMAIN printed', ix # u
      PROVE  ix \in DOMAIN printed /\ printed'[ix] = printed[ix] /\ ix < u
  BY <1>2, <1>6, <1>7 DEF u
<1>8. ASSUME NEW ix \in DOMAIN printed' PROVE Zones!Tells(printed'[ix])
  <2>1. CASE ix = u
    BY <1>4, <1>6, <2>1
  <2>2. CASE ix # u
    BY <1>2, <1>7, <2>2 DEF ZoneTypes
  <2> QED  BY <2>1, <2>2
<1>9. ASSUME NEW ix \in DOMAIN printed', ix # u PROVE printed'[ix].node \in 1 .. zoneid - 1
  BY <1>2, <1>7, <1>9 DEF ToldUpTo
<1>10. ASSUME NEW j \in DOMAIN printed', NEW ix \in DOMAIN printed', j < ix
       PROVE  printed'[j].node < printed'[ix].node
  <2>1. j # u
    <3>1. ix <= u /\ j \in Nat /\ ix \in Nat /\ u \in Nat
      BY <1>2, <1>6 DEF u
    <3> QED  BY <1>10, <3>1
  <2>2. CASE ix = u
    <3>1. printed'[j].node \in 1 .. zoneid - 1 /\ printed'[ix].node = zoneid
      BY <1>5, <1>6, <1>9, <2>1, <2>2
    <3> QED  BY <1>2, <3>1
  <2>3. CASE ix # u
    <3>1. j \in DOMAIN printed /\ ix \in DOMAIN printed
          /\ printed'[j] = printed[j] /\ printed'[ix] = printed[ix]
      BY <1>7, <2>1, <2>3
    <3> QED  BY <1>2, <1>10, <3>1 DEF ZoneTypes
  <2> QED  BY <2>2, <2>3
<1>11. ZoneTypes'
  <2>1. ASSUME NEW ix \in DOMAIN printed' PROVE Zones!Tells(printed[ix])'
    BY <1>8 DEF Zones!Tells
  <2>2. sub' \in Nat
    BY DEF ZoneInv, ZoneTypes
  <2> QED  BY <1>1, <1>6, <1>10, <2>1, <2>2 DEF ZoneTypes
<1>12. \A ix \in DOMAIN printed' : printed'[ix].node \in 1 .. zoneid
  <2> SUFFICES ASSUME NEW ix \in DOMAIN printed' PROVE printed'[ix].node \in 1 .. zoneid
    OBVIOUS
  <2>1. CASE ix = u
    BY <1>2, <1>5, <1>6, <2>1
  <2>2. CASE ix # u
    BY <1>2, <1>9, <2>2
  <2> QED  BY <2>1, <2>2
<1>13. ASSUME NEW n \in 1 .. zoneid, Own(n) \in populated
       PROVE  \E ix \in DOMAIN printed' : printed'[ix].node = n
  <2>1. CASE n = zoneid
    BY <1>5, <1>6, <2>1
  <2>2. CASE n # zoneid
    <3>1. n \in 1 .. zoneid - 1
      BY <1>2, <2>2
    <3>2. PICK ix \in DOMAIN printed : printed[ix].node = n
      BY <1>2, <1>13, <3>1 DEF ToldUpTo
    <3>3. ix \in DOMAIN printed' /\ printed'[ix] = printed[ix]
      BY <1>2, <1>6 DEF u
    <3> QED  BY <3>2, <3>3
  <2> QED  BY <2>1, <2>2
<1>14. ToldUpTo(zoneid)' /\ HasNodes(populated, rest, zoneid)' /\ zoneid' \in 0 .. Nodes
  BY <1>2, <1>12, <1>13 DEF ToldUpTo
<1> QED  BY <1>1, <1>11, <1>14 DEF ZoneInv, InOuter, InNode, InInner, InSub

(* What the inner loop reads next.                                         *)
LowIsNext ==
  LowGot /\ free = Own(zoneid) /\ low = Own(zoneid)

LEMMA InnerReads ==
  ASSUME ZoneInv, reading = "inner"
  PROVE  /\ rest # <<>> /\ ~ IsHead(rest[1])
         /\ \/ /\ NoneGot /\ IsInactive(rest, 1, Stats(zoneid))
               /\ ZoneAt(populated, rest, 1 + 1, zoneid)
            \/ (NoneGot \/ StatsGot) /\ ZoneAt(populated, rest, 1, zoneid)
            \/ LowIsNext /\ IsInactive(rest, 1, Own(zoneid))
            \/ /\ LowIsNext /\ Own(zoneid) \notin populated
               /\ Has(rest, 1, {"zone"}, Spare(zoneid)) /\ MovableAt(rest, 1 + 1, zoneid)
            \/ LowIsNext /\ Own(zoneid) \notin populated /\ MovableAt(rest, 1, zoneid)
<1>1. InInner /\ rest \in Seq(ZoneLine)
  BY DEF ZoneInv, InNode, HasNodes
<1>2. ASSUME NEW kinds, NEW w, Has(rest, 1, kinds, w), kinds \subseteq Kinds, "zone" \notin kinds
      PROVE  rest # <<>> /\ ~ IsHead(rest[1])
  BY <1>1, <1>2 DEF Has, IsHead
<1>3. ASSUME NEW w, Has(rest, 1, {"zone"}, w), w[2] # "Normal"
      PROVE  rest # <<>> /\ ~ IsHead(rest[1])
  BY <1>1, <1>3 DEF Has, IsHead, Zones!From
<1>4. ASSUME NEW w, IsInactive(rest, 1, w) PROVE rest # <<>> /\ ~ IsHead(rest[1])
  BY <1>2, <1>4 DEF IsInactive, Kinds
<1>5. ASSUME NEW y, NEW w, FreeAt(rest, 1, y, w) PROVE rest # <<>> /\ ~ IsHead(rest[1])
  BY <1>2, <1>5 DEF FreeAt, Kinds
<1>6. CASE NoneGot /\ BlockAt(populated, rest, 1, zoneid)
  BY <1>4, <1>5, <1>6 DEF BlockAt, ZoneAt
<1>7. CASE StatsGot /\ ZoneAt(populated, rest, 1, zoneid)
  BY <1>5, <1>7 DEF ZoneAt
<1>8. CASE LowIsNext /\ EndAt(populated, rest, 1, zoneid)
  <2>1. Spare(zoneid)[2] # "Normal"
    BY DEF Spare
  <2> QED  BY <1>3, <1>4, <1>8, <2>1 DEF EndAt
<1>9. CASE LowIsNext /\ Own(zoneid) \notin populated /\ MovableAt(rest, 1, zoneid)
  BY <1>4, <1>5, <1>9 DEF MovableAt
<1> QED  BY <1>1, <1>6, <1>7, <1>8, <1>9 DEF InInner, LowIsNext

(* The next line is of one kind.                                           *)
LEMMA KindIs ==
  ASSUME NEW kinds, NEW w, Has(rest, 1, kinds, w), Head(rest) = rest[1]
  PROVE  Head(rest).kind \in kinds /\ Zones!From(Head(rest)) = w
BY DEF Has

LEMMA InactiveInv == ZoneInv /\ Zones!Inactive => ZoneInv'
<1> SUFFICES ASSUME ZoneInv, Zones!Inactive PROVE ZoneInv'
  OBVIOUS
<1>1. /\ reading = "inner" /\ rest' = Tail(rest)
      /\ Head(rest).kind \in {"nr_zone_inactive_file", "nr_inactive_file"}
      /\ IF inactive = Zones!None
           THEN inactive' = Zones!From(Head(rest)) /\ cnt_got' = cnt_got + 1
           ELSE UNCHANGED <<inactive, cnt_got>>
      /\ Zones!PrintIfBoth
      /\ UNCHANGED <<populated, free, low, zoneid, sub>>
  BY DEF Zones!Inactive, Zones!Reads, Zones!l
<1>2. /\ rest # <<>> /\ HasNodes(populated, rest', zoneid) /\ Head(rest) = rest[1]
      /\ Copied(rest, 1, rest', 0)
  BY <1>1, InnerReads, NextLine
<1>3. CASE NoneGot /\ IsInactive(rest, 1, Stats(zoneid)) /\ ZoneAt(populated, rest, 1 + 1, zoneid)
  <2>1. inactive' = Stats(zoneid) /\ cnt_got' = 1
    BY <1>1, <1>2, <1>3, KindIs DEF NoneGot, IsInactive
  <2>2. reading' = "inner" /\ UNCHANGED printed
    BY <1>1, <2>1 DEF Zones!PrintIfBoth
  <2>3. ZoneTypes' /\ InOuter' /\ InNode'
    <3>1. sub' \in Nat
      BY <1>1 DEF ZoneInv, ZoneTypes
    <3> QED  BY <1>1, <1>2, <2>2, <3>1, StaysInside
  <2>4. ZoneAt(populated, rest', 0 + 1, zoneid)
    <3>1. 1 \in Nat \ {0}
      OBVIOUS
    <3> QED  BY <1>2, <1>3, <3>1, NextBlock
  <2>5. InInner'
    BY <1>1, <2>1, <2>4 DEF InInner, StatsGot, Stats
  <2> QED  BY <2>2, <2>3, <2>5 DEF ZoneInv, InSub
<1>4. CASE LowIsNext /\ \E w \in {Own(zoneid), Stats(zoneid)} : IsInactive(rest, 1, w)
  <2>1. PICK w \in {Own(zoneid), Stats(zoneid)} : IsInactive(rest, 1, w)
    BY <1>4
  <2>2. inactive' = w /\ cnt_got' = 2 /\ free' = Own(zoneid) /\ low' = Own(zoneid)
    BY <1>1, <1>2, <1>4, <2>1, KindIs DEF LowIsNext, LowGot, IsInactive
  <2> QED  BY <1>1, <1>2, <2>2, PrintInv
<1>5. ~ ZoneAt(populated, rest, 1, zoneid)
  BY <1>1, <1>2 DEF ZoneAt, FreeAt, Has
<1>6. ~ Has(rest, 1, {"zone"}, Spare(zoneid))
  BY <1>1, <1>2 DEF Has
<1>7. MovableAt(rest, 1, zoneid) => IsInactive(rest, 1, Stats(zoneid))
  BY <1>1, <1>2 DEF MovableAt, FreeAt, Has
<1> QED  BY <1>1, <1>3, <1>4, <1>5, <1>6, <1>7, InnerReads

LEMMA FreeZoneInv == ZoneInv /\ Zones!Free => ZoneInv'
<1> SUFFICES ASSUME ZoneInv, Zones!Free PROVE ZoneInv'
  OBVIOUS
<1>1. /\ reading = "inner" /\ reading' = "sub" /\ rest' = Tail(rest) /\ sub' = 0
      /\ Head(rest).kind = "free" /\ free' = Zones!From(Head(rest))
      /\ UNCHANGED <<populated, zoneid, low, inactive, cnt_got, printed>>
  BY DEF Zones!Free, Zones!Reads, Zones!l
<1>2. /\ rest # <<>> /\ HasNodes(populated, rest', zoneid) /\ Head(rest) = rest[1]
      /\ Copied(rest, 1, rest', 0)
  BY <1>1, InnerReads, NextLine
<1>3. ZoneTypes' /\ InOuter' /\ InNode'
  BY <1>1, <1>2, StaysInside
<1>4. CASE (NoneGot \/ StatsGot) /\ ZoneAt(populated, rest, 1, zoneid)
  <2>1. PICK y \in 1 .. 2 :
          FreeAt(rest, 1, y, Own(zoneid)) /\ EndAt(populated, rest, 1 + 1 + y + 1, zoneid)
    BY <1>4 DEF ZoneAt
  <2>2. /\ y \in 0 .. 2 /\ sub' + y <= 2 /\ y + 2 \in Nat \ {0}
        /\ 1 + 1 + y + 1 = 1 + (y + 2) /\ 0 + (y + 2) = 1 + y + 1 /\ 0 + 1 = 1
        /\ 0 \in Nat /\ 1 \in Nat /\ 1 \in Nat \ {0}
    BY <1>1
  <2>3. EndAt(populated, rest', 0 + (y + 2), zoneid)
    <3> DEFINE m == y + 2
    <3>1. EndAt(populated, rest, 1 + m, zoneid) /\ m \in Nat \ {0}
      BY <2>1, <2>2
    <3> HIDE DEF m
    <3>2. EndAt(populated, rest', 0 + m, zoneid)
      BY <1>2, <2>2, <3>1, BlockCopied
    <3> QED  BY <3>2 DEF m
  <2>4. LowAt(rest', 0 + 1, y, Own(zoneid))
    <3>1. LowAt(rest, 1 + 1, y, Own(zoneid))
      BY <2>1 DEF FreeAt
    <3> QED  BY <1>2, <2>2, <3>1, LowCopied
  <2>5. free' = Own(zoneid)
    BY <1>1, <1>2, <2>1, KindIs DEF FreeAt
  <2>6. EndAt(populated, rest', 1 + y + 1, zoneid) /\ LowAt(rest', 1, y, Own(zoneid))
    BY <2>2, <2>3, <2>4
  <2>7. InSub'
    BY <1>1, <1>4, <2>2, <2>5, <2>6 DEF InSub, NoneGot, StatsGot
  <2> QED  BY <1>1, <1>3, <2>7 DEF ZoneInv, InInner
<1>5. CASE /\ LowIsNext /\ Own(zoneid) \notin populated
           /\ \E y \in 1 .. 2 : FreeAt(rest, 1, y, Spare(zoneid))
  <2>1. PICK y \in 1 .. 2 : FreeAt(rest, 1, y, Spare(zoneid))
    BY <1>5
  <2>2. y \in 0 .. 2 /\ sub' + y <= 2 /\ 0 + 1 = 1
    BY <1>1
  <2>3. LowAt(rest', 0 + 1, y, Spare(zoneid))
    <3>1. LowAt(rest, 1 + 1, y, Spare(zoneid))
      BY <2>1 DEF FreeAt
    <3> QED  BY <1>2, <2>2, <3>1, LowCopied
  <2>4. free' = Spare(zoneid)
    BY <1>1, <1>2, <2>1, KindIs DEF FreeAt
  <2>5. LowAt(rest', 1, y, Spare(zoneid))
    BY <2>2, <2>3
  <2>6. InSub'
    BY <1>1, <1>5, <2>2, <2>4, <2>5 DEF InSub, LowIsNext, LowGot
  <2> QED  BY <1>1, <1>3, <2>6 DEF ZoneInv, InInner
<1>6. \A w : ~ IsInactive(rest, 1, w) /\ ~ Has(rest, 1, {"zone"}, w)
  BY <1>1, <1>2 DEF Has, IsInactive
<1> QED  BY <1>1, <1>4, <1>5, <1>6, InnerReads DEF MovableAt

(* Only the head of the Movable zone is skipped.                           *)
LEMMA IgnoreInv == ZoneInv /\ Zones!Ignore => ZoneInv'
<1> SUFFICES ASSUME ZoneInv, Zones!Ignore PROVE ZoneInv'
  OBVIOUS
<1>1. /\ reading = "inner" /\ rest' = Tail(rest)
      /\ Head(rest).kind \notin {"nr_zone_inactive_file", "nr_inactive_file", "free"}
      /\ UNCHANGED <<populated, reading, zoneid, free, low, inactive, cnt_got, sub, printed>>
  BY DEF Zones!Ignore, Zones!Reads, Zones!l
<1>2. /\ rest # <<>> /\ HasNodes(populated, rest', zoneid) /\ Head(rest) = rest[1]
      /\ Copied(rest, 1, rest', 0)
  BY <1>1, InnerReads, NextLine
<1>3. \A w : ~ IsInactive(rest, 1, w) /\ ~ Has(rest, 1, {"free"}, w)
  BY <1>1, <1>2 DEF Has, IsInactive
<1>4. LowIsNext /\ Own(zoneid) \notin populated /\ MovableAt(rest, 1 + 1, zoneid)
  BY <1>1, <1>3, InnerReads DEF MovableAt, ZoneAt, FreeAt
<1>5. MovableAt(rest', 0 + 1, zoneid) /\ 0 + 1 = 1
  BY <1>2, <1>4, LowCopied
<1>6. ZoneTypes' /\ InOuter' /\ InNode'
  <2>1. sub' \in Nat
    BY <1>1 DEF ZoneInv, ZoneTypes
  <2> QED  BY <1>1, <1>2, <2>1, StaysInside
<1>7. MovableAt(rest', 1, zoneid)
  BY <1>5
<1>8. InInner'
  BY <1>1, <1>4, <1>7 DEF InInner, LowIsNext, LowGot
<1> QED  BY <1>1, <1>6, <1>8 DEF ZoneInv, InSub

LEMMA LowInv == ZoneInv /\ Zones!Low => ZoneInv'
<1> SUFFICES ASSUME ZoneInv, Zones!Low PROVE ZoneInv'
  OBVIOUS
<1>1. /\ reading = "sub" /\ rest # <<>> /\ rest' = Tail(rest)
      /\ Head(rest).kind = "low" /\ low' = Zones!From(Head(rest)) /\ cnt_got' = cnt_got + 1
      /\ Zones!PrintIfBoth
      /\ UNCHANGED <<populated, free, inactive, zoneid, sub>>
  BY DEF Zones!Low, Zones!Reads, Zones!l
<1>2. rest \in Seq(ZoneLine) /\ Head(rest) = rest[1]
  BY <1>1, TailIs DEF ZoneInv, InNode, HasNodes
<1>3. HasNodes(populated, rest', zoneid) /\ Copied(rest, 1, rest', 0)
  <2>1. ~ IsHead(rest[1])
    BY <1>1, <1>2 DEF IsHead
  <2> QED  BY <1>1, <2>1, NextLine
<1>4. ASSUME NEW y \in 0 .. 2, NEW w, LowAt(rest, 1, y, w)
      PROVE  y = 0 /\ low' = w
  <2>1. y = 0
    BY <1>1, <1>2, <1>4 DEF LowAt, MinAt
  <2>2. Has(rest, 1, {"low"}, w)
    BY <1>4, <2>1 DEF LowAt
  <2> QED  BY <1>1, <1>2, <2>1, <2>2, KindIs
<1>5. PICK y \in 0 .. 2 :
        \/ /\ free = Own(zoneid) /\ (NoneGot \/ StatsGot)
           /\ LowAt(rest, 1, y, Own(zoneid)) /\ EndAt(populated, rest, 1 + y + 1, zoneid)
        \/ /\ free = Spare(zoneid) /\ LowGot /\ Own(zoneid) \notin populated
           /\ LowAt(rest, 1, y, Spare(zoneid))
  BY <1>1 DEF ZoneInv, InSub
<1>6. CASE free = Own(zoneid) /\ NoneGot /\ LowAt(rest, 1, y, Own(zoneid))
           /\ EndAt(populated, rest, 1 + y + 1, zoneid)
  <2>1. reading' = "inner" /\ UNCHANGED printed /\ cnt_got' = 1 /\ inactive' = Zones!None
    BY <1>1, <1>6 DEF Zones!PrintIfBoth, NoneGot
  <2>2. EndAt(populated, rest, 1 + 1, zoneid)
    BY <1>4, <1>6
  <2>3. EndAt(populated, rest', 0 + 1, zoneid) /\ 0 + 1 = 1
    BY <1>3, <2>2, BlockCopied
  <2>4. ZoneTypes' /\ InOuter' /\ InNode'
    <3>1. sub' \in Nat
      BY <1>1 DEF ZoneInv, ZoneTypes
    <3> QED  BY <1>1, <1>3, <2>1, <3>1, StaysInside
  <2>5. EndAt(populated, rest', 1, zoneid)
    BY <2>3
  <2>6. low' = Own(zoneid) /\ free' = Own(zoneid)
    BY <1>1, <1>4, <1>6
  <2>7. InInner'
    BY <1>1, <2>1, <2>5, <2>6 DEF InInner, LowGot
  <2> QED  BY <2>1, <2>4, <2>7 DEF ZoneInv, InSub
<1>7. CASE free = Own(zoneid) /\ StatsGot /\ LowAt(rest, 1, y, Own(zoneid))
  <2>1. low' = Own(zoneid) /\ free' = Own(zoneid) /\ inactive' = Stats(zoneid) /\ cnt_got' = 2
    BY <1>1, <1>4, <1>7 DEF StatsGot
  <2> QED  BY <1>1, <1>3, <2>1, PrintInv
<1>8. CASE free = Spare(zoneid) /\ LowGot /\ Own(zoneid) \notin populated
           /\ LowAt(rest, 1, y, Spare(zoneid))
  <2>1. low' = Spare(zoneid) /\ free' = Spare(zoneid) /\ inactive' = Zones!None /\ cnt_got' = 2
    BY <1>1, <1>4, <1>8 DEF LowGot
  <2> QED  BY <1>1, <1>3, <1>8, <2>1, PrintInv
<1> QED  BY <1>5, <1>6, <1>7, <1>8

(* A line nearer to the low pages.                                         *)
LEMMA Nearer ==
  ASSUME NEW w, NEW y \in 0 .. 2, LowAt(rest, 1, y, w), rest \in Seq(ZoneLine),
         rest # <<>>, rest[1].kind # "low"
  PROVE  y - 1 \in 0 .. 1 /\ ~ IsHead(rest[1]) /\ LowAt(Tail(rest), 1, y - 1, w)
<1>1. y # 0
  BY DEF LowAt, Has
<1>2. ~ IsHead(rest[1]) /\ y - 1 \in 0 .. 1
  BY <1>1 DEF LowAt, MinAt, IsHead
<1>3. LowAt(rest, 1 + 1, y - 1, w)
  <2>1. 1 + 1 + (y - 1) = 1 + y
    OBVIOUS
  <2>2. Has(rest, 1 + 1 + (y - 1), {"low"}, w)
    BY <2>1 DEF LowAt
  <2>3. y - 1 >= 1 => MinAt(rest, 1 + 1)
    BY DEF LowAt
  <2>4. ~ (y - 1 >= 2)
    OBVIOUS
  <2> QED  BY <2>2, <2>3, <2>4 DEF LowAt
<1>4. Copied(rest, 1, Tail(rest), 0) /\ y - 1 \in 0 .. 2 /\ 0 + 1 = 1
      /\ 0 \in Nat /\ 1 \in Nat /\ 1 \in Nat \ {0}
  BY <1>2, TailCopied
<1>5. LowAt(Tail(rest), 0 + 1, y - 1, w)
  <2> DEFINE u == y - 1
  <2>1. LowAt(rest, 1 + 1, u, w) /\ u \in 0 .. 2
    BY <1>3, <1>4
  <2> HIDE DEF u
  <2>2. LowAt(Tail(rest), 0 + 1, u, w)
    BY <1>4, <2>1, LowCopied
  <2> QED  BY <2>2 DEF u
<1> QED  BY <1>2, <1>5

LEMMA NotLowInv == ZoneInv /\ Zones!NotLow => ZoneInv'
<1> SUFFICES ASSUME ZoneInv, Zones!NotLow PROVE ZoneInv'
  OBVIOUS
<1>1. /\ reading = "sub" /\ rest # <<>> /\ rest' = Tail(rest)
      /\ Head(rest).kind # "low" /\ sub' = sub + 1
      /\ reading' = IF sub' < 3 THEN "sub" ELSE "inner"
      /\ UNCHANGED <<populated, zoneid, free, low, inactive, cnt_got, printed>>
  BY DEF Zones!NotLow, Zones!Reads, Zones!l, Zones!Within
<1>2. rest \in Seq(ZoneLine) /\ Head(rest) = rest[1] /\ sub \in Nat
  BY <1>1, TailIs DEF ZoneInv, InNode, HasNodes, ZoneTypes
<1>3. PICK y \in 0 .. 2 :
        /\ sub + y <= 2
        /\ \/ /\ free = Own(zoneid) /\ (NoneGot \/ StatsGot)
              /\ LowAt(rest, 1, y, Own(zoneid)) /\ EndAt(populated, rest, 1 + y + 1, zoneid)
           \/ /\ free = Spare(zoneid) /\ LowGot /\ Own(zoneid) \notin populated
              /\ LowAt(rest, 1, y, Spare(zoneid))
  BY <1>1 DEF ZoneInv, InSub
<1>4. y - 1 \in 0 .. 1 /\ ~ IsHead(rest[1])
  BY <1>1, <1>2, <1>3, Nearer
<1>5. HasNodes(populated, rest', zoneid) /\ Copied(rest, 1, rest', 0)
  BY <1>1, <1>4, NextLine
<1>6. y - 1 \in 0 .. 2 /\ sub' + (y - 1) <= 2 /\ reading' = "sub" /\ sub' \in Nat
  BY <1>1, <1>2, <1>3, <1>4
<1>7. ZoneTypes' /\ InOuter' /\ InNode'
  BY <1>1, <1>5, <1>6, StaysInside
<1>8. CASE /\ free = Own(zoneid) /\ (NoneGot \/ StatsGot)
           /\ LowAt(rest, 1, y, Own(zoneid)) /\ EndAt(populated, rest, 1 + y + 1, zoneid)
  <2>1. LowAt(rest', 1, y - 1, Own(zoneid))
    BY <1>1, <1>2, <1>8, Nearer
  <2>2. y + 1 \in Nat \ {0} /\ 1 + y + 1 = 1 + (y + 1) /\ 0 + (y + 1) = 1 + (y - 1) + 1
    OBVIOUS
  <2>3. EndAt(populated, rest', 0 + (y + 1), zoneid)
    <3>1. EndAt(populated, rest, 1 + (y + 1), zoneid)
      BY <1>8, <2>2
    <3> QED  BY <1>5, <2>2, <3>1, BlockCopied
  <2>4. EndAt(populated, rest', 1 + (y - 1) + 1, zoneid)
    BY <2>2, <2>3
  <2>5. InSub'
    BY <1>1, <1>6, <1>8, <2>1, <2>4 DEF InSub, NoneGot, StatsGot
  <2> QED  BY <1>6, <1>7, <2>5 DEF ZoneInv, InInner
<1>9. CASE /\ free = Spare(zoneid) /\ LowGot /\ Own(zoneid) \notin populated
           /\ LowAt(rest, 1, y, Spare(zoneid))
  <2>1. LowAt(rest', 1, y - 1, Spare(zoneid))
    BY <1>1, <1>2, <1>9, Nearer
  <2>2. InSub'
    BY <1>1, <1>6, <1>9, <2>1 DEF InSub, LowGot
  <2> QED  BY <1>6, <1>7, <2>2 DEF ZoneInv, InInner
<1> QED  BY <1>3, <1>8, <1>9

LEMMA ZoneStep == ZoneInv /\ [Zones!Next]_zoneVars => ZoneInv'
<1>1. ASSUME ZoneInv, UNCHANGED zoneVars PROVE ZoneInv'
  <2>1. ZoneTypes'
    BY <1>1 DEF ZoneInv, ZoneTypes, Zones!Tells, zoneVars
  <2>2. InOuter' /\ InNode'
    BY <1>1 DEF ZoneInv, InOuter, InNode, ToldUpTo, zoneVars
  <2>3. InInner' /\ InSub'
    BY <1>1 DEF ZoneInv, InInner, InSub, NoneGot, StatsGot, LowGot, zoneVars
  <2> QED  BY <2>1, <2>2, <2>3 DEF ZoneInv
<1>2. ASSUME ZoneInv, Zones!Finished PROVE ZoneInv'
  BY <1>1, <1>2 DEF Zones!Finished, Zones!vars, zoneVars
<1> QED
  BY <1>1, <1>2, ZonePassInv, EnterZoneInv, InactiveInv, FreeZoneInv, IgnoreInv, LowInv,
     NotLowInv DEF Zones!Next

(* The file as it is put together, piece by piece.                         *)
Quiet(q) == q \in Seq(ZoneLine) /\ \A i \in 1 .. Len(q) : ~ IsHead(q[i])

Led(q, z) ==
  /\ q \in Seq(ZoneLine) /\ Len(q) # 0
  /\ q[1] = z
  /\ \A i \in 2 .. Len(q) : ~ IsHead(q[i])

LEMMA LinesJoined ==
  ASSUME NEW a \in Seq(ZoneLine), NEW b \in Seq(ZoneLine)
  PROVE  /\ a \o b \in Seq(ZoneLine) /\ Len(a \o b) = Len(a) + Len(b)
         /\ Len(a) \in Nat /\ Len(b) \in Nat
         /\ \A i \in 1 .. Len(a) : (a \o b)[i] = a[i]
         /\ \A i \in 1 .. Len(b) : (a \o b)[Len(a) + i] = b[i]
         /\ \A i \in 1 .. Len(a) + Len(b) : i \notin 1 .. Len(a) =>
              i - Len(a) \in 1 .. Len(b) /\ (a \o b)[i] = b[i - Len(a)]
<1> DEFINE q == a \o b
<1>1. /\ q \in Seq(ZoneLine) /\ Len(q) = Len(a) + Len(b)
      /\ Len(a) \in Nat /\ Len(b) \in Nat
      /\ \A i \in 1 .. Len(a) + Len(b) :
           q[i] = IF i <= Len(a) THEN a[i] ELSE b[i - Len(a)]
  BY ConcatProperties
<1> HIDE DEF q
<1>2. ASSUME NEW i \in 1 .. Len(b) PROVE q[Len(a) + i] = b[i]
  <2>1. Len(a) + i \in 1 .. Len(a) + Len(b) /\ ~ (Len(a) + i <= Len(a)) /\ Len(a) + i - Len(a) = i
    BY <1>1
  <2> QED  BY <1>1, <2>1
<1>3. ASSUME NEW i \in 1 .. Len(a) PROVE q[i] = a[i]
  BY <1>1
<1>4. ASSUME NEW i \in 1 .. Len(a) + Len(b), i \notin 1 .. Len(a)
      PROVE  i - Len(a) \in 1 .. Len(b) /\ q[i] = b[i - Len(a)]
  BY <1>1, <1>4
<1> QED  BY <1>1, <1>2, <1>3, <1>4 DEF q

LEMMA QuietJoined ==
  ASSUME NEW a, NEW b, Quiet(b)
  PROVE  /\ Quiet(a) => Quiet(a \o b)
         /\ \A n : Led(a, n) => Led(a \o b, n)
<1>1. ASSUME Quiet(a) PROVE Quiet(a \o b)
  <2> DEFINE q == a \o b
  <2>1. /\ q \in Seq(ZoneLine) /\ Len(q) = Len(a) + Len(b) /\ Len(a) \in Nat
        /\ \A i \in 1 .. Len(a) : q[i] = a[i]
        /\ \A i \in 1 .. Len(a) + Len(b) : i \notin 1 .. Len(a) =>
             i - Len(a) \in 1 .. Len(b) /\ q[i] = b[i - Len(a)]
    BY <1>1, LinesJoined DEF Quiet
  <2> HIDE DEF q
  <2>2. ASSUME NEW i \in 1 .. Len(q) PROVE ~ IsHead(q[i])
    BY <1>1, <2>1 DEF Quiet
  <2>3. Quiet(q)
    BY <2>1, <2>2 DEF Quiet
  <2> QED  BY <2>3 DEF q
<1>2. ASSUME NEW n, Led(a, n) PROVE Led(a \o b, n)
  <2> DEFINE q == a \o b
  <2>1. /\ q \in Seq(ZoneLine) /\ Len(q) = Len(a) + Len(b) /\ Len(a) \in Nat /\ Len(b) \in Nat
        /\ \A i \in 1 .. Len(a) : q[i] = a[i]
        /\ \A i \in 1 .. Len(a) + Len(b) : i \notin 1 .. Len(a) =>
             i - Len(a) \in 1 .. Len(b) /\ q[i] = b[i - Len(a)]
    BY <1>2, LinesJoined DEF Quiet, Led
  <2> HIDE DEF q
  <2>2. Len(a) # 0
    BY <1>2 DEF Led
  <2>3. ASSUME NEW i \in 2 .. Len(q) PROVE ~ IsHead(q[i])
    <3>1. CASE i \in 1 .. Len(a)
      <4>1. i \in 2 .. Len(a) /\ q[i] = a[i]
        BY <2>1, <3>1
      <4> QED  BY <1>2, <4>1 DEF Led
    <3>2. CASE i \notin 1 .. Len(a)
      <4>1. i \in 1 .. Len(a) + Len(b)
        BY <2>1
      <4>2. i - Len(a) \in 1 .. Len(b) /\ q[i] = b[i - Len(a)]
        BY <2>1, <3>2, <4>1
      <4> QED  BY <4>2 DEF Quiet
    <3> QED  BY <3>1, <3>2
  <2>4. 1 \in 1 .. Len(a) /\ Len(q) # 0
    BY <2>1, <2>2
  <2>5. Led(q, n)
    BY <1>2, <2>1, <2>3, <2>4 DEF Led
  <2> QED  BY <2>5 DEF q
<1> QED  BY <1>1, <1>2

Joined(q, a, b) == q = a \o b

Following(q, a, b) ==
  /\ Len(q) = Len(a) + Len(b)
  /\ \A i \in 1 .. Len(a) : q[i] = a[i]
  /\ \A i \in 1 .. Len(b) : q[Len(a) + i] = b[i]

LEMMA PieceBehind ==
  ASSUME NEW q, NEW a, NEW b, NEW n, Joined(q, a, b), Led(a, n), Quiet(b)
  PROVE  Led(q, n) /\ Following(q, a, b)
<1>1. Led(q, n) /\ q = a \o b
  BY QuietJoined DEF Joined
<1>2. a \in Seq(ZoneLine) /\ b \in Seq(ZoneLine)
  BY DEF Led, Quiet
<1>3. Following(q, a, b)
  BY <1>1, <1>2, LinesJoined DEF Following
<1> QED  BY <1>1, <1>3

LEMMA JoinCopied ==
  ASSUME NEW a \in Seq(ZoneLine), NEW b \in Seq(ZoneLine)
  PROVE  Copied(a, 0, a \o b, 0) /\ Copied(b, 0, a \o b, Len(a))
<1> DEFINE q == a \o b
<1>1. /\ Len(q) = Len(a) + Len(b) /\ Len(a) \in Nat /\ Len(b) \in Nat
      /\ \A i \in 1 .. Len(a) : q[i] = a[i]
      /\ \A i \in 1 .. Len(b) : q[Len(a) + i] = b[i]
  BY LinesJoined
<1> HIDE DEF q
<1>2. ASSUME NEW e \in Nat \ {0}, 0 + e \in 1 .. Len(a)
      PROVE  0 + e \in 1 .. Len(q) /\ q[0 + e] = a[0 + e]
  BY <1>1, <1>2
<1>3. ASSUME NEW e \in Nat \ {0}, 0 + e \in 1 .. Len(b)
      PROVE  Len(a) + e \in 1 .. Len(q) /\ q[Len(a) + e] = b[0 + e]
  BY <1>1, <1>3
<1> QED  BY <1>2, <1>3 DEF Copied, q

LEMMA BlockMoves ==
  ASSUME NEW a \in Seq(ZoneLine), NEW b \in Seq(ZoneLine), NEW p, NEW i \in Nat \ {0}, NEW n
  PROVE  /\ BlockAt(p, a, i, n) => BlockAt(p, a \o b, i, n)
         /\ BlockAt(p, b, i, n) => BlockAt(p, a \o b, Len(a) + i, n)
         /\ EndAt(p, b, i, n) => EndAt(p, a \o b, Len(a) + i, n)
         /\ EndAt(p, a, i, n) => EndAt(p, a \o b, i, n)
         /\ \A y \in 0 .. 2 : \A w : FreeAt(a, i, y, w) => FreeAt(a \o b, i, y, w)
<1> DEFINE q == a \o b
<1>1. Copied(a, 0, q, 0) /\ Copied(b, 0, q, Len(a)) /\ Len(a) \in Nat /\ 0 \in Nat /\ 0 + i = i
  BY JoinCopied
<1> HIDE DEF q
<1>2. /\ BlockAt(p, a, 0 + i, n) => BlockAt(p, q, 0 + i, n)
      /\ EndAt(p, a, 0 + i, n) => EndAt(p, q, 0 + i, n)
  BY <1>1, BlockCopied
<1>3. /\ BlockAt(p, b, 0 + i, n) => BlockAt(p, q, Len(a) + i, n)
      /\ EndAt(p, b, 0 + i, n) => EndAt(p, q, Len(a) + i, n)
  BY <1>1, BlockCopied
<1>4. \A y \in 0 .. 2 : \A w : FreeAt(a, 0 + i, y, w) => FreeAt(q, 0 + i, y, w)
  BY <1>1, LowCopied
<1> QED  BY <1>1, <1>2, <1>3, <1>4 DEF q

LEMMA QuietBefore ==
  ASSUME NEW p, NEW a, NEW b, NEW c, Quiet(a), HasNodes(p, b, c)
  PROVE  HasNodes(p, a \o b, c)
<1> DEFINE q == a \o b
<1>1. /\ q \in Seq(ZoneLine) /\ Len(q) = Len(a) + Len(b) /\ Len(a) \in Nat /\ Len(b) \in Nat
      /\ \A i \in 1 .. Len(a) : q[i] = a[i]
      /\ \A i \in 1 .. Len(b) : q[Len(a) + i] = b[i]
      /\ \A i \in 1 .. Len(a) + Len(b) : i \notin 1 .. Len(a) =>
           i - Len(a) \in 1 .. Len(b) /\ q[i] = b[i - Len(a)]
      /\ b \in Seq(ZoneLine) /\ c \in 0 .. Nodes
  BY LinesJoined DEF Quiet, HasNodes
<1>0. ASSUME NEW i \in Nat \ {0}, NEW n, BlockAt(p, b, i, n)
      PROVE  BlockAt(p, q, Len(a) + i, n)
  BY <1>0, BlockMoves DEF Quiet, HasNodes
<1> HIDE DEF q
<1>2. ASSUME NEW i \in 1 .. Len(q), IsHead(q[i])
      PROVE  i - Len(a) \in 1 .. Len(b) /\ q[i] = b[i - Len(a)]
  <2>1. i \notin 1 .. Len(a)
    BY <1>1, <1>2 DEF Quiet
  <2> QED  BY <1>1, <2>1
<1>3. ASSUME NEW i \in 1 .. Len(q), IsHead(q[i])
      PROVE  q[i].node \in c + 1 .. Nodes /\ BlockAt(p, q, i + 1, q[i].node)
  <2>1. i - Len(a) \in 1 .. Len(b) /\ q[i] = b[i - Len(a)]
    BY <1>2, <1>3
  <2>2. /\ q[i].node \in c + 1 .. Nodes
        /\ BlockAt(p, b, i - Len(a) + 1, q[i].node)
    BY <1>3, <2>1 DEF HasNodes
  <2>3. i - Len(a) + 1 \in Nat \ {0} /\ Len(a) + (i - Len(a) + 1) = i + 1
    BY <1>1, <2>1
  <2>4. BlockAt(p, q, Len(a) + (i - Len(a) + 1), q[i].node)
    BY <1>0, <2>2, <2>3
  <2> QED  BY <2>2, <2>3, <2>4
<1>4. ASSUME NEW i \in 1 .. Len(q), NEW j \in 1 .. Len(q), IsHead(q[i]), IsHead(q[j]), i < j
      PROVE  q[i].node < q[j].node
  <2>1. /\ i - Len(a) \in 1 .. Len(b) /\ q[i] = b[i - Len(a)]
        /\ j - Len(a) \in 1 .. Len(b) /\ q[j] = b[j - Len(a)]
    BY <1>2, <1>4
  <2>2. i - Len(a) < j - Len(a)
    BY <1>1, <1>4
  <2> QED  BY <1>4, <2>1, <2>2 DEF HasNodes
<1>5. ASSUME NEW n \in c + 1 .. Nodes, Own(n) \in p
      PROVE  \E i \in 1 .. Len(q) : IsHead(q[i]) /\ q[i].node = n
  <2>1. PICK i \in 1 .. Len(b) : IsHead(b[i]) /\ b[i].node = n
    BY <1>5 DEF HasNodes
  <2>2. Len(a) + i \in 1 .. Len(q) /\ q[Len(a) + i] = b[i]
    BY <1>1
  <2> QED  BY <2>1, <2>2
<1>6. HasNodes(p, q, c)
  BY <1>1, <1>3, <1>4, <1>5 DEF HasNodes
<1> QED  BY <1>6 DEF q

LEMMA ZoneBefore ==
  ASSUME NEW p, NEW a, NEW b, NEW c \in Nat, NEW z, Led(a, z), IsHead(z), z.node = c + 1,
         BlockAt(p, a \o b, 2, c + 1), HasNodes(p, b, c + 1)
  PROVE  HasNodes(p, a \o b, c)
<1> DEFINE q == a \o b
<1>1. /\ q \in Seq(ZoneLine) /\ Len(q) = Len(a) + Len(b) /\ Len(a) \in Nat /\ Len(b) \in Nat
      /\ \A i \in 1 .. Len(a) : q[i] = a[i]
      /\ \A i \in 1 .. Len(b) : q[Len(a) + i] = b[i]
      /\ \A i \in 1 .. Len(a) + Len(b) : i \notin 1 .. Len(a) =>
           i - Len(a) \in 1 .. Len(b) /\ q[i] = b[i - Len(a)]
      /\ a \in Seq(ZoneLine) /\ b \in Seq(ZoneLine) /\ c + 1 \in 0 .. Nodes /\ Nodes \in Nat
  BY LinesJoined, SizesAssumption DEF Led, HasNodes, Zones!Sizes
<1>0. ASSUME NEW i \in Nat \ {0}, NEW n, BlockAt(p, b, i, n)
      PROVE  BlockAt(p, q, Len(a) + i, n)
  BY <1>0, BlockMoves DEF Led, HasNodes
<1>2. Len(a) # 0
  BY DEF Led
<1> HIDE DEF q
<1>3. 1 \in 1 .. Len(a) /\ 1 \in 1 .. Len(q) /\ q[1] = a[1] /\ IsHead(q[1]) /\ q[1].node = c + 1
  BY <1>1, <1>2 DEF Led
<1>4. BlockAt(p, q, 2, c + 1)
  BY DEF q
<1>5. ASSUME NEW i \in 1 .. Len(q), IsHead(q[i]), i # 1
      PROVE  i - Len(a) \in 1 .. Len(b) /\ q[i] = b[i - Len(a)]
  <2>1. i \notin 1 .. Len(a)
    <3> SUFFICES ASSUME i \in 1 .. Len(a) PROVE FALSE
      OBVIOUS
    <3>1. i \in 2 .. Len(a) /\ q[i] = a[i]
      BY <1>1, <1>5
    <3> QED  BY <1>5, <3>1 DEF Led
  <2> QED  BY <1>1, <2>1
<1>6. ASSUME NEW i \in 1 .. Len(q), IsHead(q[i]), i # 1
      PROVE  q[i].node \in c + 1 + 1 .. Nodes /\ BlockAt(p, q, i + 1, q[i].node)
  <2>1. i - Len(a) \in 1 .. Len(b) /\ q[i] = b[i - Len(a)]
    BY <1>5, <1>6
  <2>2. /\ q[i].node \in c + 1 + 1 .. Nodes
        /\ BlockAt(p, b, i - Len(a) + 1, q[i].node)
    BY <1>6, <2>1 DEF HasNodes
  <2>3. i - Len(a) + 1 \in Nat \ {0} /\ Len(a) + (i - Len(a) + 1) = i + 1
    BY <1>1, <2>1
  <2>4. BlockAt(p, q, Len(a) + (i - Len(a) + 1), q[i].node)
    BY <1>0, <2>2, <2>3
  <2> QED  BY <2>2, <2>3, <2>4
<1>7. ASSUME NEW i \in 1 .. Len(q), NEW j \in 1 .. Len(q), IsHead(q[i]), IsHead(q[j]), i < j
      PROVE  q[i].node < q[j].node
  <2>1. j # 1 /\ j - Len(a) \in 1 .. Len(b) /\ q[j] = b[j - Len(a)]
        /\ q[j].node \in c + 1 + 1 .. Nodes
    <3>1. j # 1
      BY <1>7
    <3> QED  BY <1>5, <1>6, <1>7, <3>1
  <2>2. CASE i = 1
    BY <1>1, <1>3, <2>1, <2>2
  <2>3. CASE i # 1
    <3>1. i - Len(a) \in 1 .. Len(b) /\ q[i] = b[i - Len(a)]
      BY <1>5, <1>7, <2>3
    <3>2. i - Len(a) < j - Len(a)
      BY <1>1, <1>7
    <3> QED  BY <1>7, <2>1, <3>1, <3>2 DEF HasNodes
  <2> QED  BY <2>2, <2>3
<1>8. ASSUME NEW n \in c + 1 .. Nodes, Own(n) \in p
      PROVE  \E i \in 1 .. Len(q) : IsHead(q[i]) /\ q[i].node = n
  <2>1. CASE n = c + 1
    BY <1>3, <2>1
  <2>2. CASE n # c + 1
    <3>1. n \in c + 1 + 1 .. Nodes
      BY <1>1, <2>2
    <3>2. PICK i \in 1 .. Len(b) : IsHead(b[i]) /\ b[i].node = n
      BY <1>8, <3>1 DEF HasNodes
    <3>3. Len(a) + i \in 1 .. Len(q) /\ q[Len(a) + i] = b[i]
      BY <1>1
    <3> QED  BY <3>2, <3>3
  <2> QED  BY <2>1, <2>2
<1>9. ASSUME NEW i \in 1 .. Len(q), IsHead(q[i])
      PROVE  q[i].node \in c + 1 .. Nodes /\ BlockAt(p, q, i + 1, q[i].node)
  <2>1. CASE i = 1
    BY <1>1, <1>3, <1>4, <2>1
  <2>2. CASE i # 1
    <3>1. q[i].node \in c + 1 + 1 .. Nodes /\ BlockAt(p, q, i + 1, q[i].node)
      BY <1>6, <1>9, <2>2
    <3> QED  BY <3>1
  <2> QED  BY <2>1, <2>2
<1>10. HasNodes(p, q, c)
  BY <1>1, <1>7, <1>8, <1>9 DEF HasNodes
<1> QED  BY <1>10 DEF q

(* A node without a head has no memory in its Normal zone.                 *)
LEMMA NodeSkipped ==
  ASSUME NEW p, NEW q, NEW n \in Nat \ {0}, HasNodes(p, q, n), Own(n) \notin p
  PROVE  HasNodes(p, q, n - 1)
<1>1. n - 1 \in 0 .. Nodes /\ n - 1 + 1 = n /\ Nodes \in Nat
  BY SizesAssumption DEF HasNodes, Zones!Sizes
<1>2. ASSUME NEW m \in n .. Nodes, Own(m) \in p
      PROVE  \E i \in 1 .. Len(q) : IsHead(q[i]) /\ q[i].node = m
  <2>1. m \in n + 1 .. Nodes
    BY <1>1, <1>2
  <2> QED  BY <1>2, <2>1 DEF HasNodes
<1>3. ASSUME NEW i \in 1 .. Len(q), IsHead(q[i])
      PROVE  q[i].node \in n .. Nodes /\ BlockAt(p, q, i + 1, q[i].node)
  <2>1. q[i].node \in n + 1 .. Nodes /\ BlockAt(p, q, i + 1, q[i].node)
    BY <1>3 DEF HasNodes
  <2> QED  BY <1>1, <2>1
<1> QED  BY <1>1, <1>2, <1>3 DEF HasNodes

Layouts == {"old", "new", "boost"}

LEMMA LinesAre ==
  ASSUME NEW node \in Zones!Node, NEW zone \in Zones!Zone \cup {"node"}, NEW kind \in Kinds
  PROVE  Zones!Line(kind, node, zone) \in ZoneLine
<1>1. node \in Int
  BY SizesAssumption DEF Zones!Node, Zones!Sizes
<1> QED  BY <1>1 DEF Zones!Zone, Zones!Line, ZoneLine

LEMMA QuietOnes ==
  /\ Quiet(<<>>)
  /\ \A x \in ZoneLine : ~ IsHead(x) => Quiet(<<x>>)
  /\ \A x, y \in ZoneLine : ~ IsHead(x) /\ ~ IsHead(y) => Quiet(<<x, y>>)
BY DEF Quiet

(* A zone's lines, with u for those of its node, v for the one newer       *)
(* kernels have, and e for its inactive pages.                             *)
ZoneLines(q, node, zone, u, v, e) ==
  /\ Led(q, Zones!Line("zone", node, zone))
  /\ Len(q) = 4 + u + v + e
  /\ u = 1 => IsInactive(q, 2, Stats(node))
  /\ FreeAt(q, 2 + u, 1 + v, <<node, zone>>)
  /\ e = 1 => IsInactive(q, 5 + u + v, <<node, zone>>)

LEMMA PiecesJoined ==
  ASSUME NEW node \in Zones!Node, NEW zone \in Zones!Zone,
         NEW a2 \in {<<>>, << Zones!Line("nr_inactive_file", node, "node") >>},
         NEW a4 \in {<<>>, << Zones!Line("boost", node, zone) >>},
         NEW a6 \in {<<>>, << Zones!Line("nr_zone_inactive_file", node, zone) >>}
  PROVE  ZoneLines(<< Zones!Line("zone", node, zone) >> \o a2
                   \o << Zones!Line("free", node, zone) >> \o a4
                   \o << Zones!Line("min", node, zone), Zones!Line("low", node, zone) >> \o a6,
                   node, zone, Len(a2), Len(a4), Len(a6))
<1> DEFINE z == Zones!Line("zone", node, zone)
           h == Zones!Line("nr_inactive_file", node, "node")
           f == Zones!Line("free", node, zone)
           b == Zones!Line("boost", node, zone)
           m == Zones!Line("min", node, zone)
           w == Zones!Line("low", node, zone)
           y == Zones!Line("nr_zone_inactive_file", node, zone)
<1>1. {z, h, f, b, m, w, y} \subseteq ZoneLine
  BY LinesAre DEF Kinds
<1>2. ~ IsHead(h) /\ ~ IsHead(f) /\ ~ IsHead(b) /\ ~ IsHead(m) /\ ~ IsHead(w) /\ ~ IsHead(y)
  BY DEF IsHead, Zones!Line
<1>3. /\ h.kind = "nr_inactive_file" /\ Zones!From(h) = Stats(node)
      /\ f.kind = "free" /\ Zones!From(f) = <<node, zone>>
      /\ b.kind = "boost" /\ m.kind = "min"
      /\ w.kind = "low" /\ Zones!From(w) = <<node, zone>>
      /\ y.kind = "nr_zone_inactive_file" /\ Zones!From(y) = <<node, zone>>
  BY DEF Zones!From, Zones!Line, Stats
<1>4. a2 \in {<<>>, <<h>>} /\ a4 \in {<<>>, <<b>>} /\ a6 \in {<<>>, <<y>>}
  BY Zenon
<1> HIDE DEF z, h, f, b, m, w, y
<1> DEFINE f1 == <<f>>  m1 == <<m, w>>
           q1 == <<z>>  q2 == q1 \o a2  q3 == q2 \o f1  q4 == q3 \o a4
           q5 == q4 \o m1  q6 == q5 \o a6  u == Len(a2)  v == Len(a4)  e == Len(a6)
<1>5. Quiet(a2) /\ Quiet(f1) /\ Quiet(a4) /\ Quiet(m1) /\ Quiet(a6)
  BY <1>1, <1>2, <1>4, QuietOnes
<1>6. /\ u \in 0 .. 1 /\ (u = 1 => a2[1] = h)
      /\ v \in 0 .. 1 /\ (v = 1 => a4[1] = b)
      /\ e \in 0 .. 1 /\ (e = 1 => a6[1] = y)
  BY <1>4
<1>7. Led(q1, z) /\ Len(q1) = 1
  BY <1>1 DEF Led
<1>8. Len(f1) = 1 /\ f1[1] = f /\ Len(m1) = 2 /\ m1[1] = m /\ m1[2] = w
  OBVIOUS
<1>9. Len(a2) = u /\ Len(a4) = v /\ Len(a6) = e
  OBVIOUS
<1> HIDE DEF f1, m1, q1, u, v, e
<1>10. Led(q2, z) /\ Len(q2) = 1 + u /\ (u = 1 => q2[2] = h)
  <2>1. Joined(q2, q1, a2)
    BY Zenon DEF Joined
  <2> HIDE DEF q2
  <2>2. Led(q2, z) /\ Following(q2, q1, a2)
    BY <1>5, <1>7, <2>1, PieceBehind
  <2> QED  BY <1>6, <1>7, <1>9, <2>2 DEF Following
<1> HIDE DEF q2
<1>11. Led(q3, z) /\ Len(q3) = 2 + u /\ (u = 1 => q3[2] = h) /\ q3[2 + u] = f
  <2>1. Joined(q3, q2, f1)
    BY Zenon DEF Joined
  <2> HIDE DEF q3
  <2>2. Led(q3, z) /\ Following(q3, q2, f1)
    BY <1>5, <1>10, <2>1, PieceBehind
  <2> QED  BY <1>6, <1>8, <1>10, <2>2 DEF Following
<1> HIDE DEF q3
<1>12. /\ Led(q4, z) /\ Len(q4) = 2 + u + v
       /\ u = 1 => q4[2] = h
       /\ q4[2 + u] = f
       /\ v = 1 => q4[3 + u] = b
  <2>1. Joined(q4, q3, a4)
    BY Zenon DEF Joined
  <2> HIDE DEF q4
  <2>2. Led(q4, z) /\ Following(q4, q3, a4)
    BY <1>5, <1>11, <2>1, PieceBehind
  <2> QED  BY <1>6, <1>9, <1>11, <2>2 DEF Following
<1> HIDE DEF q4
<1>13. /\ Led(q5, z) /\ Len(q5) = 4 + u + v
       /\ u = 1 => q5[2] = h
       /\ q5[2 + u] = f
       /\ v = 1 => q5[3 + u] = b
       /\ q5[3 + u + v] = m /\ q5[4 + u + v] = w
  <2>1. Joined(q5, q4, m1)
    BY Zenon DEF Joined
  <2> HIDE DEF q5
  <2>2. Led(q5, z) /\ Following(q5, q4, m1)
    BY <1>5, <1>12, <2>1, PieceBehind
  <2> QED  BY <1>6, <1>8, <1>12, <2>2 DEF Following
<1> HIDE DEF q5
<1>14. /\ Led(q6, z) /\ Len(q6) = 4 + u + v + e
       /\ u = 1 => q6[2] = h
       /\ q6[2 + u] = f
       /\ v = 1 => q6[3 + u] = b
       /\ q6[3 + u + v] = m /\ q6[4 + u + v] = w
       /\ e = 1 => q6[5 + u + v] = y
  <2>1. Joined(q6, q5, a6)
    BY Zenon DEF Joined
  <2> HIDE DEF q6
  <2>2. Led(q6, z) /\ Following(q6, q5, a6)
    BY <1>5, <1>13, <2>1, PieceBehind
  <2> QED  BY <1>6, <1>9, <1>13, <2>2 DEF Following
<1> HIDE DEF q6
<1>15. FreeAt(q6, 2 + u, 1 + v, <<node, zone>>)
  <2>1. Has(q6, 2 + u + 1 + (1 + v), {"low"}, <<node, zone>>)
    BY <1>3, <1>6, <1>14 DEF Has
  <2>2. MinAt(q6, 2 + u + 1)
    BY <1>3, <1>6, <1>14 DEF MinAt
  <2>3. 1 + v >= 2 => MinAt(q6, 2 + u + 1 + 1)
    BY <1>3, <1>6, <1>14 DEF MinAt
  <2>4. Has(q6, 2 + u, {"free"}, <<node, zone>>)
    BY <1>3, <1>6, <1>14 DEF Has
  <2> QED  BY <2>1, <2>2, <2>3, <2>4 DEF FreeAt, LowAt
<1>16. /\ u = 1 => IsInactive(q6, 2, Stats(node))
       /\ e = 1 => IsInactive(q6, 5 + u + v, <<node, zone>>)
  BY <1>3, <1>6, <1>14 DEF Has, IsInactive
<1>17. ZoneLines(q6, node, zone, u, v, e)
  BY <1>14, <1>15, <1>16 DEF ZoneLines, z
<1> QED  BY <1>17, Zenon DEF q6, q5, q4, q3, q2, q1, f1, m1, u, v, e, z, h, f, b, m, w, y

LEMMA NewLines ==
  ASSUME NEW p, NEW node \in Zones!Node, NEW zone \in Zones!Zone, NEW boost \in BOOLEAN
  PROVE  \E u, v, e \in 0 .. 1 :
           /\ ZoneLines(Zones!NewZone(boost, p, node, zone), node, zone, u, v, e)
           /\ IF <<node, zone>> \in p THEN e = 1 ELSE u = 0 /\ e = 0
<1> DEFINE a2 == IF <<node, zone>> \in p /\ Zones!FirstOf(p, node)[1] = zone
                   THEN << Zones!Line("nr_inactive_file", node, "node") >> ELSE <<>>
           a4 == IF boost THEN << Zones!Line("boost", node, zone) >> ELSE <<>>
           a6 == IF <<node, zone>> \in p
                   THEN << Zones!Line("nr_zone_inactive_file", node, zone) >> ELSE <<>>
<1>1. Zones!NewZone(boost, p, node, zone)
        = << Zones!Line("zone", node, zone) >> \o a2
          \o << Zones!Line("free", node, zone) >> \o a4
          \o << Zones!Line("min", node, zone), Zones!Line("low", node, zone) >> \o a6
  BY Zenon DEF Zones!NewZone
<1>2. /\ a2 \in {<<>>, << Zones!Line("nr_inactive_file", node, "node") >>}
      /\ a4 \in {<<>>, << Zones!Line("boost", node, zone) >>}
      /\ a6 \in {<<>>, << Zones!Line("nr_zone_inactive_file", node, zone) >>}
  BY Zenon
<1>3. Len(a2) \in 0 .. 1 /\ Len(a4) \in 0 .. 1 /\ Len(a6) \in 0 .. 1
  BY <1>2
<1>4. IF <<node, zone>> \in p THEN Len(a6) = 1 ELSE Len(a2) = 0 /\ Len(a6) = 0
  OBVIOUS
<1> HIDE DEF a2, a4, a6
<1>5. ZoneLines(Zones!NewZone(boost, p, node, zone), node, zone, Len(a2), Len(a4), Len(a6))
  BY <1>1, <1>2, PiecesJoined, Zenon
<1> QED  BY <1>3, <1>4, <1>5

LEMMA OldLines ==
  ASSUME NEW p, NEW node \in Zones!Node, NEW zone \in Zones!Zone
  PROVE  IF <<node, zone>> \in p
           THEN ZoneLines(Zones!OldZone(p, node, zone), node, zone, 0, 0, 1)
           ELSE Zones!OldZone(p, node, zone) = <<>>
<1> DEFINE z == Zones!Line("zone", node, zone)
           f == Zones!Line("free", node, zone)
           m == Zones!Line("min", node, zone)
           w == Zones!Line("low", node, zone)
           y == Zones!Line("nr_inactive_file", node, zone)
           q == <<z, f, m, w, y>>
<1>1. {z, f, m, w, y} \subseteq ZoneLine
  BY LinesAre DEF Kinds
<1>2. ~ IsHead(f) /\ ~ IsHead(m) /\ ~ IsHead(w) /\ ~ IsHead(y)
  BY DEF IsHead, Zones!Line
<1>3. /\ f.kind = "free" /\ Zones!From(f) = <<node, zone>>
      /\ m.kind = "min"
      /\ w.kind = "low" /\ Zones!From(w) = <<node, zone>>
      /\ y.kind = "nr_inactive_file" /\ Zones!From(y) = <<node, zone>>
  BY DEF Zones!From, Zones!Line
<1>4. <<node, zone>> \in p => Zones!OldZone(p, node, zone) = q
  BY DEF Zones!OldZone
<1>5. <<node, zone>> \notin p => Zones!OldZone(p, node, zone) = <<>>
  BY DEF Zones!OldZone
<1> HIDE DEF z, f, m, w, y
<1>6. /\ q \in Seq(ZoneLine) /\ Len(q) = 5
      /\ q[1] = z /\ q[2] = f /\ q[3] = m /\ q[4] = w /\ q[5] = y
  BY <1>1
<1> HIDE DEF q
<1>7. Led(q, z)
  <2>1. ASSUME NEW i \in 2 .. 5 PROVE ~ IsHead(q[i])
    <3>1. i \in {2, 3, 4, 5}
      OBVIOUS
    <3> QED  BY <1>2, <1>6, <3>1
  <2> QED  BY <1>6, <2>1 DEF Led
<1>8. FreeAt(q, 2, 1, <<node, zone>>) /\ IsInactive(q, 5, <<node, zone>>)
  BY <1>3, <1>6 DEF FreeAt, LowAt, Has, MinAt, IsInactive
<1>9. ZoneLines(q, node, zone, 0, 0, 1)
  BY <1>6, <1>7, <1>8 DEF ZoneLines, z
<1> QED  BY <1>4, <1>5, <1>9

(* Zones other than Normal have no head the program looks for.             *)
LEMMA LinesOf ==
  ASSUME NEW layout \in Layouts, NEW p, NEW node \in Zones!Node, NEW zone \in Zones!Zone
  PROVE  LET q == Zones!ZoneOf(layout, p, node, zone)
         IN  /\ \/ \E u, v, e \in 0 .. 1 :
                     /\ ZoneLines(q, node, zone, u, v, e)
                     /\ IF <<node, zone>> \in p THEN e = 1 ELSE u = 0 /\ e = 0
                \/ q = <<>> /\ layout = "old" /\ <<node, zone>> \notin p
             /\ zone # "Normal" => Quiet(q)
             /\ q \in Seq(ZoneLine)
<1> DEFINE q == Zones!ZoneOf(layout, p, node, zone)
<1>1. \/ \E u, v, e \in 0 .. 1 :
           /\ ZoneLines(q, node, zone, u, v, e)
           /\ IF <<node, zone>> \in p THEN e = 1 ELSE u = 0 /\ e = 0
      \/ q = <<>> /\ layout = "old" /\ <<node, zone>> \notin p
  <2>1. CASE layout = "old"
    <3>1. q = Zones!OldZone(p, node, zone)
      BY <2>1 DEF Zones!ZoneOf
    <3> HIDE DEF q
    <3>2. CASE <<node, zone>> \in p
      <4>1. ZoneLines(q, node, zone, 0, 0, 1)
        BY <3>1, <3>2, OldLines
      <4>2. 0 \in 0 .. 1 /\ 1 \in 0 .. 1
        OBVIOUS
      <4> QED  BY <3>2, <4>1, <4>2
    <3>3. CASE <<node, zone>> \notin p
      BY <2>1, <3>1, <3>3, OldLines
    <3> QED  BY <3>2, <3>3
  <2>2. CASE layout # "old"
    <3>1. PICK boost \in BOOLEAN : q = Zones!NewZone(boost, p, node, zone)
      BY <2>2 DEF Zones!ZoneOf, Layouts
    <3> HIDE DEF q
    <3> QED  BY <3>1, NewLines
  <2> QED  BY <2>1, <2>2
<1> HIDE DEF q
<1>2. q = <<>> \/ Led(q, Zones!Line("zone", node, zone))
  BY <1>1 DEF ZoneLines
<1>3. q \in Seq(ZoneLine)
  BY <1>2, QuietOnes DEF Led, Quiet
<1>4. ASSUME zone # "Normal" PROVE Quiet(q)
  <2>1. ~ IsHead(Zones!Line("zone", node, zone))
    BY <1>4 DEF IsHead, Zones!Line
  <2>2. CASE q = <<>>
    BY <2>2, QuietOnes
  <2>3. CASE Led(q, Zones!Line("zone", node, zone))
    <3>1. ASSUME NEW i \in 1 .. Len(q) PROVE ~ IsHead(q[i])
      <4>1. CASE i = 1
        BY <2>1, <2>3, <4>1 DEF Led
      <4>2. CASE i # 1
        BY <2>3, <4>2 DEF Led
      <4> QED  BY <4>1, <4>2
    <3> QED  BY <1>3, <3>1 DEF Quiet
  <2> QED  BY <1>2, <2>2, <2>3
<1> QED  BY <1>1, <1>3, <1>4 DEF q

(* What a node's Normal and Movable zones tell, the second if the first has no *)
(* memory.                                                                 *)
LEMMA NodeLines ==
  ASSUME NEW layout \in Layouts, NEW p, NEW node \in Zones!Node, NEW q \in Seq(ZoneLine)
  PROVE  LET b == Zones!ZoneOf(layout, p, node, "Normal")
             c == Zones!ZoneOf(layout, p, node, "Movable")
         IN  \/ /\ Led(b, Zones!Line("zone", node, "Normal"))
                /\ BlockAt(p, b \o (c \o q), 2, node)
             \/ b = <<>> /\ Own(node) \notin p
<1> DEFINE b == Zones!ZoneOf(layout, p, node, "Normal")
           c == Zones!ZoneOf(layout, p, node, "Movable")
           d == c \o q
           z == Zones!Line("zone", node, "Normal")
<1>1. /\ b \in Seq(ZoneLine) /\ c \in Seq(ZoneLine)
      /\ \/ \E u, v, e \in 0 .. 1 :
              ZoneLines(b, node, "Normal", u, v, e)
              /\ IF Own(node) \in p THEN e = 1 ELSE u = 0 /\ e = 0
         \/ b = <<>> /\ layout = "old" /\ Own(node) \notin p
      /\ \/ \E u, v, e \in 0 .. 1 : ZoneLines(c, node, "Movable", u, v, e)
         \/ layout = "old"
  <2>1. "Normal" \in Zones!Zone /\ "Movable" \in Zones!Zone
    BY DEF Zones!Zone
  <2>2. /\ b \in Seq(ZoneLine)
        /\ \/ \E u, v, e \in 0 .. 1 :
                /\ ZoneLines(b, node, "Normal", u, v, e)
                /\ IF <<node, "Normal">> \in p THEN e = 1 ELSE u = 0 /\ e = 0
           \/ b = <<>> /\ layout = "old" /\ <<node, "Normal">> \notin p
    BY <2>1, LinesOf
  <2>3. /\ c \in Seq(ZoneLine)
        /\ \/ \E u, v, e \in 0 .. 1 : ZoneLines(c, node, "Movable", u, v, e)
           \/ layout = "old"
    BY <2>1, LinesOf
  <2> HIDE DEF b, c
  <2> QED  BY <2>2, <2>3 DEF Own
<1>2. layout = "old" /\ Own(node) \notin p => b = <<>>
  <2>1. "Normal" \in Zones!Zone
    BY DEF Zones!Zone
  <2> QED  BY <2>1, OldLines DEF Zones!ZoneOf, Own
<1> HIDE DEF b, c
<1>3. d \in Seq(ZoneLine)
  BY <1>1, LinesJoined
<1> HIDE DEF d
<1>4. CASE b # <<>>
  <2>1. PICK u \in 0 .. 1, v \in 0 .. 1, e \in 0 .. 1 :
          /\ ZoneLines(b, node, "Normal", u, v, e)
          /\ IF Own(node) \in p THEN e = 1 ELSE u = 0 /\ e = 0
    BY <1>1, <1>4
  <2>2. /\ Led(b, z) /\ Len(b) = 4 + u + v + e
        /\ FreeAt(b, 2 + u, 1 + v, Own(node))
        /\ u = 1 => IsInactive(b, 2, Stats(node))
        /\ e = 1 => IsInactive(b, 5 + u + v, Own(node))
    BY <2>1 DEF ZoneLines, Own
  <2>3. CASE Own(node) \in p
    <3>1. EndAt(p, b, 2 + u + 1 + (1 + v) + 1, node)
      <4>1. 2 + u + 1 + (1 + v) + 1 = 5 + u + v /\ e = 1
        BY <2>1, <2>3
      <4> QED  BY <2>2, <4>1 DEF EndAt
    <3>2. ZoneAt(p, b, 2 + u, node)
      <4>1. 1 + v \in 1 .. 2
        OBVIOUS
      <4> QED  BY <2>2, <3>1, <4>1 DEF ZoneAt
    <3>3. BlockAt(p, b, 2, node)
      <4>1. CASE u = 0
        BY <3>2, <4>1 DEF BlockAt
      <4>2. CASE u = 1
        BY <2>2, <3>2, <4>2 DEF BlockAt
      <4> QED  BY <4>1, <4>2
    <3>4. 2 \in Nat \ {0}
      OBVIOUS
    <3>5. BlockAt(p, b \o d, 2, node)
      BY <1>1, <1>3, <3>3, <3>4, BlockMoves
    <3> QED  BY <2>2, <3>5 DEF d, b, c, z
  <2>4. CASE Own(node) \notin p
    <3>1. u = 0 /\ e = 0 /\ layout # "old"
      BY <1>2, <1>4, <2>1, <2>4
    <3>2. EndAt(p, c, 1, node)
      <4>1. PICK i \in 0 .. 1, j \in 0 .. 1, ix \in 0 .. 1 : ZoneLines(c, node, "Movable", i, j, ix)
        BY <1>1, <3>1
      <4>2. /\ Led(c, Zones!Line("zone", node, "Movable"))
            /\ FreeAt(c, 2 + i, 1 + j, Spare(node))
            /\ i = 1 => IsInactive(c, 2, Stats(node))
        BY <4>1 DEF ZoneLines, Spare
      <4>3. Has(c, 1, {"zone"}, Spare(node))
        BY <4>2 DEF Led, Has, Spare, Zones!Line, Zones!From
      <4>4. MovableAt(c, 1 + 1, node)
        <5>1. 1 + j \in 1 .. 2 /\ 1 + 1 = 2
          OBVIOUS
        <5>2. CASE i = 0
          <6>1. FreeAt(c, 1 + 1, 1 + j, Spare(node))
            BY <4>2, <5>2
          <6> QED  BY <5>1, <6>1 DEF MovableAt
        <5>3. CASE i = 1
          BY <4>2, <5>3 DEF MovableAt
        <5> QED  BY <5>2, <5>3
      <4> QED  BY <2>4, <4>3, <4>4 DEF EndAt
    <3>3. EndAt(p, d, 1, node)
      <4>1. 1 \in Nat \ {0}
        OBVIOUS
      <4> QED  BY <1>1, <3>2, <4>1, BlockMoves DEF d
    <3>4. EndAt(p, b \o d, Len(b) + 1, node)
      <4>1. 1 \in Nat \ {0}
        OBVIOUS
      <4> QED  BY <1>1, <1>3, <3>3, <4>1, BlockMoves
    <3>5. FreeAt(b \o d, 2, 1 + v, Own(node))
      <4>1. 2 \in Nat \ {0} /\ 1 + v \in 0 .. 2 /\ FreeAt(b, 2, 1 + v, Own(node))
        BY <2>2, <3>1
      <4> QED  BY <1>1, <1>3, <4>1, BlockMoves
    <3>6. 2 + 1 + (1 + v) + 1 = Len(b) + 1 /\ 1 + v \in 1 .. 2
      BY <2>2, <3>1
    <3>7. EndAt(p, b \o d, 2 + 1 + (1 + v) + 1, node)
      BY <3>4, <3>6
    <3>8. BlockAt(p, b \o d, 2, node)
      BY <3>5, <3>6, <3>7 DEF BlockAt, ZoneAt
    <3> QED  BY <2>2, <3>8 DEF d, b, c, z
  <2> QED  BY <2>3, <2>4
<1>5. ASSUME b = <<>> PROVE Own(node) \notin p
  BY <1>1, <1>5 DEF ZoneLines, Led
<1> QED  BY <1>4, <1>5 DEF b

(* The lines of a node before those of the later ones.                     *)
LEMMA LinesBefore ==
  ASSUME NEW layout \in Layouts, NEW p, NEW node \in Zones!Node, NEW q \in Seq(ZoneLine)
  PROVE  /\ Zones!NodeBefore(layout, p, node, q) \in Seq(ZoneLine)
         /\ HasNodes(p, q, node) =>
              HasNodes(p, Zones!NodeBefore(layout, p, node, q), node - 1)
<1> DEFINE a == Zones!ZoneOf(layout, p, node, "DMA")
           b == Zones!ZoneOf(layout, p, node, "Normal")
           c == Zones!ZoneOf(layout, p, node, "Movable")
           z == Zones!Line("zone", node, "Normal")
<1>1. "DMA" \in Zones!Zone /\ "Normal" \in Zones!Zone /\ "Movable" \in Zones!Zone
  BY DEF Zones!Zone
<1>2. Quiet(a) /\ b \in Seq(ZoneLine) /\ Quiet(c)
  BY <1>1, LinesOf
<1>3. \/ Led(b, z) /\ BlockAt(p, b \o (c \o q), 2, node)
      \/ b = <<>> /\ Own(node) \notin p
  BY NodeLines
<1>4. Zones!NodeBefore(layout, p, node, q) = a \o (b \o (c \o q))
  BY DEF Zones!NodeBefore
<1>5. IsHead(z) /\ z.node = node
  BY DEF IsHead, Zones!Line
<1> HIDE DEF a, b, c, z
<1>6. c \o q \in Seq(ZoneLine)
  BY <1>2, LinesJoined DEF Quiet
<1>7. b \o (c \o q) \in Seq(ZoneLine)
  BY <1>2, <1>6, LinesJoined
<1>8. a \o (b \o (c \o q)) \in Seq(ZoneLine)
  BY <1>2, <1>7, LinesJoined DEF Quiet
<1>9. ASSUME HasNodes(p, q, node) PROVE HasNodes(p, a \o (b \o (c \o q)), node - 1)
  <2>1. node - 1 \in Nat /\ (node - 1) + 1 = node /\ node \in Nat \ {0}
    BY SizesAssumption DEF Zones!Node, Zones!Sizes
  <2>2. HasNodes(p, c \o q, node)
    BY <1>2, <1>9, QuietBefore
  <2>3. CASE Led(b, z) /\ BlockAt(p, b \o (c \o q), 2, node)
    <3>1. HasNodes(p, b \o (c \o q), node - 1)
      BY <1>5, <2>1, <2>2, <2>3, ZoneBefore
    <3> QED  BY <1>2, <3>1, QuietBefore
  <2>4. CASE b = <<>> /\ Own(node) \notin p
    <3>1. HasNodes(p, c \o q, node - 1)
      BY <2>1, <2>2, <2>4, NodeSkipped
    <3>2. HasNodes(p, b \o (c \o q), node - 1)
      BY <2>4, <3>1, QuietOnes, QuietBefore
    <3> QED  BY <1>2, <3>2, QuietBefore
  <2> QED  BY <1>3, <2>3, <2>4
<1> QED  BY <1>4, <1>8, <1>9, Zenon

LEMMA LastAre ==
  ASSUME NEW layout \in Layouts, NEW p
  PROVE  /\ Zones!LastNodes(layout, p)[0] = <<>>
         /\ \A n \in 1 .. Nodes :
              Zones!LastNodes(layout, p)[n]
                = Zones!NodeBefore(layout, p, Nodes - n + 1, Zones!LastNodes(layout, p)[n - 1])
<1> DEFINE V == Seq(ZoneLine)
           before(n, q) == Zones!NodeBefore(layout, p, Nodes - n + 1, q)
           F == [n \in Nat |-> [q \in V |-> IF n \in 1 .. Nodes THEN before(n, q) ELSE <<>>]]
<1>0. Nodes \in Nat \ {0} /\ <<>> \in V
  BY SizesAssumption DEF Zones!Sizes
<1>1. F \in StepsIn(V)
  <2>1. ASSUME NEW n \in Nat, NEW q \in V
        PROVE  (IF n \in 1 .. Nodes THEN before(n, q) ELSE <<>>) \in V
    <3>1. CASE n \in 1 .. Nodes
      <4>1. Nodes - n + 1 \in Zones!Node
        BY <1>0, <3>1 DEF Zones!Node
      <4>2. before(n, q) \in V
        BY <4>1, LinesBefore
      <4> HIDE DEF before, V
      <4> QED  BY <3>1, <4>2
    <3>2. CASE n \notin 1 .. Nodes
      BY <1>0, <3>2
    <3> QED  BY <3>1, <3>2
  <2> HIDE DEF V, before
  <2> QED  BY <2>1 DEF StepsIn
<1> HIDE DEF V
<1>2. PICK g \in [Nat -> V] :
        g[0] = <<>> /\ \A n \in Nat \ {0} : g[n] = F[n][g[n - 1]]
  <2> HIDE DEF F
  <2>1. HasRecursion(V, <<>>, F)
    BY <1>0, <1>1, RecursionDefines
  <2> QED  BY <2>1 DEF HasRecursion
<1> HIDE DEF before
<1>3. ASSUME NEW n \in 1 .. Nodes PROVE g[n] = before(n, g[n - 1]) /\ g[n - 1] \in V
  <2>1. n \in Nat \ {0} /\ n - 1 \in Nat
    BY <1>0
  <2>2. g[n] = F[n][g[n - 1]] /\ g[n - 1] \in V
    <3> HIDE DEF F
    <3> QED  BY <1>2, <2>1
  <2>3. F[n][g[n - 1]] = IF n \in 1 .. Nodes THEN before(n, g[n - 1]) ELSE <<>>
    BY <2>1, <2>2
  <2> HIDE DEF F
  <2> QED  BY <2>2, <2>3
<1> HIDE DEF F
<1> DEFINE h == [n \in 0 .. Nodes |-> g[n]]
<1>4. h = [n \in 0 .. Nodes |-> IF n = 0 THEN <<>> ELSE before(n, h[n - 1])]
  <2>1. ASSUME NEW n \in 0 .. Nodes, n # 0 PROVE h[n] = before(n, h[n - 1])
    <3>1. n \in 1 .. Nodes /\ n - 1 \in 0 .. Nodes
      BY <1>0, <2>1
    <3>2. h[n] = g[n] /\ h[n - 1] = g[n - 1]
      BY <3>1
    <3> QED  BY <1>3, <3>1, <3>2
  <2>2. h[0] = <<>>
    <3>1. 0 \in 0 .. Nodes
      BY <1>0
    <3> QED  BY <1>2, <3>1
  <2>3. h = [n \in 0 .. Nodes |-> h[n]]
    OBVIOUS
  <2> HIDE DEF h
  <2> QED  BY <2>1, <2>2, <2>3
<1> HIDE DEF h
<1> DEFINE last == Zones!LastNodes(layout, p)
<1>5. last = [n \in 0 .. Nodes |-> IF n = 0 THEN <<>> ELSE before(n, last[n - 1])]
  BY <1>4, Zenon DEF Zones!LastNodes, before
<1>6. 0 \in 0 .. Nodes
  BY <1>0
<1> HIDE DEF last
<1>7. last[0] = <<>>
  BY <1>5, <1>6
<1>8. ASSUME NEW n \in 1 .. Nodes PROVE last[n] = before(n, last[n - 1])
  <2>1. n \in 0 .. Nodes /\ n # 0
    BY <1>0
  <2> QED  BY <1>5, <2>1
<1> QED  BY <1>7, <1>8 DEF last, before

LEMMA FileHasNodes ==
  ASSUME NEW layout \in Layouts, NEW p
  PROVE  HasNodes(p, Zones!FileOf(layout, p), 0)
<1> DEFINE last == Zones!LastNodes(layout, p)
           Lacking == {n \in 0 .. Nodes : ~ HasNodes(p, last[n], Nodes - n)}
<1>0. Nodes \in Nat \ {0}
  BY SizesAssumption DEF Zones!Sizes
<1>1. /\ last[0] = <<>>
      /\ \A n \in 1 .. Nodes :
           last[n] = Zones!NodeBefore(layout, p, Nodes - n + 1, last[n - 1])
  BY LastAre
<1> HIDE DEF last
<1>2. Lacking = {}
  <2> SUFFICES ASSUME Lacking # {} PROVE FALSE
    OBVIOUS
  <2>1. PICK n \in Lacking : \A i \in Lacking : n <= i
    <3>1. Lacking \in SUBSET Nat
      OBVIOUS
    <3> HIDE DEF Lacking
    <3> QED  BY <3>1, LeastNumber
  <2>2. n # 0
    <3>1. HasNodes(p, <<>>, Nodes)
      BY <1>0 DEF HasNodes
    <3>2. Nodes - 0 = Nodes
      BY <1>0
    <3> QED  BY <1>1, <2>1, <3>1, <3>2
  <2>3. n \in 1 .. Nodes /\ n - 1 \in 0 .. Nodes /\ n - 1 \notin Lacking
    BY <1>0, <2>1, <2>2
  <2>4. HasNodes(p, last[n - 1], Nodes - (n - 1))
    BY <2>3
  <2>5. /\ Nodes - (n - 1) = Nodes - n + 1 /\ Nodes - n + 1 \in Zones!Node
        /\ (Nodes - n + 1) - 1 = Nodes - n
    BY <1>0, <2>3 DEF Zones!Node
  <2>6. last[n - 1] \in Seq(ZoneLine)
    BY <2>4 DEF HasNodes
  <2>7. HasNodes(p, last[n], Nodes - n)
    BY <1>1, <2>3, <2>4, <2>5, <2>6, LinesBefore
  <2> QED  BY <2>1, <2>7
<1>3. Nodes \in 0 .. Nodes /\ Nodes - Nodes = 0
  BY <1>0
<1>4. HasNodes(p, last[Nodes], 0)
  BY <1>2, <1>3
<1> QED  BY <1>4 DEF last, Zones!FileOf

LEMMA ZoneInit == ProgramsInit => ZoneInv
<1> SUFFICES ASSUME ProgramsInit PROVE ZoneInv
  OBVIOUS
<1>1. PICK layout \in Layouts, p \in SUBSET (Zones!Node \X Zones!Zone) : Zones!Start(layout, p)
  BY DEF ProgramsInit, Zones!Init, Layouts
<1>2. /\ populated = p /\ rest = Zones!FileOf(layout, p) /\ reading = "outer"
      /\ sub = 0 /\ printed = <<>>
  BY <1>1 DEF Zones!Start
<1>3. HasNodes(populated, rest, 0) /\ ToldUpTo(0)
  BY <1>2, FileHasNodes DEF ToldUpTo
<1>4. ZoneTypes
  BY <1>2 DEF ZoneTypes
<1>5. 0 \in 0 .. Nodes
  BY SizesAssumption DEF Zones!Sizes
<1> QED  BY <1>2, <1>3, <1>4, <1>5 DEF ZoneInv, InOuter, InNode, InInner, InSub

(* On each of the kernels, for any number of nodes and whichever zones     *)
(* have memory: no line printed mixes two nodes, the nodes come in order   *)
(* and none twice, and each node whose Normal zone has memory is printed,  *)
(* with free, low and inactive pages of its own (getMemoryInfo.c:29-115).  *)
THEOREM NodesAreOwn == ProgramsSpec => []NodesGetTheirOwn
<1>1. ZoneInv /\ [ProgramsNext]_programsVars => ZoneInv'
  BY Frame, ZoneStep
<1>2. ZoneInv => NodesGetTheirOwn
  <2> SUFFICES ASSUME ZoneInv, rest = <<>>, NEW n \in Zones!Node, Own(n) \in populated
               PROVE  \E ix \in DOMAIN printed : printed[ix].node = n
    BY DEF NodesGetTheirOwn, Zones!NodesGetTheirOwn, Own, ZoneInv, ZoneTypes
  <2>1. reading # "inner"
    BY InnerReads
  <2>2. reading # "sub"
    BY DEF ZoneInv, InSub, LowAt, Has
  <2>3. PICK c \in 0 .. Nodes : HasNodes(populated, <<>>, c) /\ ToldUpTo(c)
    BY <2>1, <2>2 DEF ZoneInv, ZoneTypes, InOuter
  <2>4. n \notin c + 1 .. Nodes
    BY <2>3 DEF HasNodes
  <2>5. n \in 1 .. c
    BY <2>4, SizesAssumption DEF Zones!Node, Zones!Sizes
  <2> QED  BY <2>3, <2>5 DEF ToldUpTo
<1> QED  BY <1>1, <1>2, ZoneInit, PTL DEF ProgramsSpec
=============================================================================

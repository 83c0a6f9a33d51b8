---------------------------- MODULE MemLatProofs ----------------------------
(***************************************************************************)
(* Proofs about the tests of mem_lat.c: for every size of the buffer, of   *)
(* its segments and of the two teams, rings start in a clean buffer, are   *)
(* closed over the segments they use, and nothing else is ever followed.   *)
(***************************************************************************)
EXTENDS MemLat, SequenceTheorems, TLAPS

-----------------------------------------------------------------------------
(* The words of the buffer.                                                *)

(* The second word of a segment is its own: -d 16 or more.                 *)
Wide == Stride >= 2

LEMMA Sizes ==
  /\ Threads \in Nat \ {0} /\ NumThreads \in Nat \ {0}
  /\ Part \in Nat \ {0} /\ Stride \in Nat \ {0} /\ Stride <= Part
  /\ Threads * Part \in Nat \ {0} /\ Part <= Threads * Part
<1>1. /\ Threads \in Nat \ {0} /\ NumThreads \in Nat \ {0} /\ Part \in Nat \ {0}
      /\ Stride \in Nat \ {0} /\ Stride <= Part
  BY TeamsAssumption, BufferAssumption
<1>2. ASSUME NEW a \in Nat \ {0}, NEW b \in Nat \ {0}
      PROVE  a * b \in Nat \ {0} /\ b <= a * b
  <2>1. a * b = (a - 1) * b + b /\ (a - 1) * b \in Nat
    OBVIOUS
  <2> QED  BY <2>1
<1> QED  BY <1>1, <1>2

LEMMA Multiples ==
  ASSUME NEW c \in Nat, NEW a \in Nat, NEW b \in Nat
  PROVE  /\ a * c \in Nat /\ b * c \in Nat
         /\ a < b => a * c + c <= b * c
         /\ (a + b) * c = a * c + b * c
<1>1. /\ a * c \in Nat /\ b * c \in Nat
  OBVIOUS
<1>2. (a + b) * c = a * c + b * c
  OBVIOUS
<1>3. ASSUME a < b PROVE a * c + c <= b * c
  <2>1. PICK d \in Nat : b = (a + 1) + d
    <3>1. b - (a + 1) \in Nat /\ b = (a + 1) + (b - (a + 1))
      BY <1>3
    <3> QED  BY <3>1
  <2>2. b * c = (a * c + c) + d * c
    BY <2>1
  <2>3. d * c \in Nat
    OBVIOUS
  <2> QED  BY <1>1, <2>2, <2>3
<1> QED  BY <1>1, <1>2, <1>3

LEMMA PartIs ==
  ASSUME NEW t \in 0 .. Threads - 1
  PROVE  /\ t * Part \in Nat /\ PartOf(t) \subseteq Word
         /\ t * Part \in PartOf(t)
         /\ \A u \in 0 .. Threads - 1 : u # t => PartOf(t) \cap PartOf(u) = {}
<1>1. /\ t \in Nat /\ Part \in Nat \ {0} /\ t < Threads /\ Threads \in Nat
      /\ Threads * Part \in Nat
  BY Sizes
<1>2. t * Part \in Nat /\ t * Part + Part <= Threads * Part
  BY <1>1, Multiples
<1>3. ASSUME NEW u \in 0 .. Threads - 1, u # t
      PROVE  PartOf(t) \cap PartOf(u) = {}
  <2>1. u \in Nat /\ (u < t \/ t < u)
    BY <1>1, <1>3
  <2>2. /\ u * Part \in Nat
        /\ u < t => u * Part + Part <= t * Part
        /\ t < u => t * Part + Part <= u * Part
    BY <1>1, <2>1, Multiples
  <2> QED  BY <1>1, <1>2, <2>1, <2>2 DEF PartOf
<1> QED  BY <1>1, <1>2, <1>3 DEF PartOf, Word

(* The segments that fit into so many words are all in them.               *)
LEMMA Fits ==
  ASSUME NEW n \in Nat, Stride <= n
  PROVE  /\ n \div Stride \in Nat \ {0}
         /\ \A s \in 0 .. n \div Stride - 1 :
              s * Stride \in Nat /\ s * Stride + Stride <= n
<1> DEFINE m == n \div Stride
<1>1. /\ m \in Nat /\ m * Stride <= n /\ n < m * Stride + Stride
  BY Sizes
<1> HIDE DEF m
<1>2. m # 0
  BY <1>1, Sizes
<1>3. ASSUME NEW s \in 0 .. m - 1
      PROVE  s * Stride \in Nat /\ s * Stride + Stride <= n
  <2>1. s \in Nat /\ s < m
    BY <1>1
  <2>2. s * Stride \in Nat /\ s * Stride + Stride <= m * Stride /\ m * Stride \in Nat
    BY <1>1, <2>1, Sizes, Multiples
  <2> QED  BY <1>1, <2>2, Sizes
<1> QED  BY <1>1, <1>2, <1>3 DEF m

AllHeads == {s * Stride : s \in 0 .. (Threads * Part) \div Stride - 1}
PartHeads(t) == {t * Part + s * Stride : s \in 0 .. Part \div Stride - 1}

LEMMA AllHeadsAre ==
  /\ 0 \in AllHeads
  /\ \A h \in AllHeads : h \in Word
  /\ Wide => \A h \in AllHeads : h + 1 \in Word /\ h + 1 \notin AllHeads
<1>1. /\ (Threads * Part) \div Stride \in Nat \ {0}
      /\ \A s \in 0 .. (Threads * Part) \div Stride - 1 :
           s * Stride \in Nat /\ s * Stride + Stride <= Threads * Part
  BY Sizes, Fits
<1> DEFINE m == (Threads * Part) \div Stride
<1> HIDE DEF m
<1>2. /\ m \in Nat \ {0} /\ AllHeads = {s * Stride : s \in 0 .. m - 1}
      /\ \A s \in 0 .. m - 1 : s * Stride \in Nat /\ s * Stride + Stride <= Threads * Part
  BY <1>1 DEF m, AllHeads
<1>3. 0 \in AllHeads
  <2>1. 0 \in 0 .. m - 1 /\ 0 * Stride = 0
    BY <1>2, Sizes
  <2> QED  BY <1>2, <2>1
<1>4. ASSUME NEW h \in AllHeads
      PROVE  h \in Word /\ (Wide => h + 1 \in Word /\ h + 1 \notin AllHeads)
  <2>1. PICK s \in 0 .. m - 1 : h = s * Stride
    BY <1>2
  <2>2. s \in Nat /\ h \in Nat /\ h + Stride <= Threads * Part
    BY <1>2, <2>1
  <2>3. h \in Word /\ (Wide => h + 1 \in Word)
    BY <2>2, Sizes DEF Word, Wide
  <2>4. ASSUME Wide, NEW u \in 0 .. m - 1 PROVE h + 1 # u * Stride
    <3>1. u \in Nat /\ u * Stride \in Nat
      BY <1>2
    <3>2. s < u => h + Stride <= u * Stride
      BY <2>1, <2>2, <3>1, Sizes, Multiples
    <3>3. u < s => u * Stride + Stride <= h
      BY <2>1, <2>2, <3>1, Sizes, Multiples
    <3>4. u = s => u * Stride = h
      BY <2>1
    <3> QED  BY <2>2, <2>4, <3>1, <3>2, <3>3, <3>4, Sizes DEF Wide
  <2> QED  BY <1>2, <2>3, <2>4
<1> QED  BY <1>3, <1>4

(* The segments of a part lie in it, from its first word on; those of the  *)
(* first are also the first of the buffer.                                 *)
LEMMA PartHeadsAre ==
  ASSUME NEW t \in 0 .. Threads - 1
  PROVE  /\ t * Part \in PartHeads(t)
         /\ \A h \in PartHeads(t) : h \in PartOf(t)
         /\ Wide => \A h \in PartHeads(t) : h + 1 \in PartOf(t) /\ h + 1 \notin PartHeads(t)
         /\ PartHeads(0) \subseteq AllHeads
<1> DEFINE m == Part \div Stride
<1>1. /\ m \in Nat \ {0}
      /\ \A s \in 0 .. m - 1 : s * Stride \in Nat /\ s * Stride + Stride <= Part
  BY Sizes, Fits
<1>2. PartHeads(t) = {t * Part + s * Stride : s \in 0 .. m - 1}
  BY DEF PartHeads
<1>3. t * Part \in Nat
  BY PartIs
<1>4. PartHeads(0) \subseteq AllHeads
  <2> DEFINE k == (Threads * Part) \div Stride
  <2>1. /\ m * Stride <= Part /\ k \in Nat /\ Threads * Part < k * Stride + Stride
    BY Sizes
  <2>2. PartHeads(0) = {0 * Part + s * Stride : s \in 0 .. m - 1}
        /\ AllHeads = {s * Stride : s \in 0 .. k - 1}
    BY DEF PartHeads, AllHeads
  <2> HIDE DEF m, k
  <2>3. m <= k
    <3>1. k < m => k * Stride + Stride <= m * Stride
      BY <1>1, <2>1, Sizes, Multiples
    <3>2. m * Stride \in Nat /\ k * Stride \in Nat
      BY <1>1, <2>1, Sizes
    <3> QED  BY <1>1, <2>1, <3>1, <3>2, Sizes
  <2>4. ASSUME NEW s \in 0 .. m - 1
        PROVE  0 * Part + s * Stride = s * Stride /\ s \in 0 .. k - 1
    BY <1>1, <2>1, <2>3, Sizes
  <2> QED  BY <2>2, <2>4
<1> HIDE DEF m
<1>5. t * Part \in PartHeads(t)
  <2>1. 0 \in 0 .. m - 1 /\ t * Part + 0 * Stride = t * Part
    BY <1>1, <1>3, Sizes
  <2> QED  BY <1>2, <2>1
<1>6. ASSUME NEW h \in PartHeads(t)
      PROVE  /\ h \in PartOf(t)
             /\ Wide => h + 1 \in PartOf(t) /\ h + 1 \notin PartHeads(t)
  <2>1. PICK s \in 0 .. m - 1 : h = t * Part + s * Stride
    BY <1>2
  <2>2. s \in Nat /\ s * Stride \in Nat /\ s * Stride + Stride <= Part
    BY <1>1, <2>1
  <2>3. h \in PartOf(t) /\ (Wide => h + 1 \in PartOf(t))
    BY <1>3, <2>1, <2>2, Sizes DEF PartOf, Wide
  <2>4. ASSUME Wide, NEW u \in 0 .. m - 1 PROVE h + 1 # t * Part + u * Stride
    <3>1. u \in Nat /\ u * Stride \in Nat
      BY <1>1
    <3>2. s < u => s * Stride + Stride <= u * Stride
      BY <2>2, <3>1, Sizes, Multiples
    <3>3. u < s => u * Stride + Stride <= s * Stride
      BY <2>2, <3>1, Sizes, Multiples
    <3>4. u = s \/ s < u \/ u < s
      BY <2>2, <3>1
    <3>5. s * Stride + 1 # u * Stride
      BY <2>2, <2>4, <3>1, <3>2, <3>3, <3>4, Sizes DEF Wide
    <3> QED  BY <1>3, <2>1, <2>2, <3>1, <3>5
  <2> QED  BY <1>2, <2>3, <2>4
<1> QED  BY <1>4, <1>5, <1>6

-----------------------------------------------------------------------------
(* The regions by their numbers.                                           *)

LEMMA Concatenated ==
  ASSUME NEW S, NEW a \in Seq(S), NEW b \in Seq(S)
  PROVE  /\ a \o b \in Seq(S) /\ Len(a \o b) = Len(a) + Len(b)
         /\ a \o b = [n \in 1 .. Len(a) + Len(b) |->
                        IF n <= Len(a) THEN a[n] ELSE b[n - Len(a)]]
<1> DEFINE c == a \o b
<1>1. /\ c \in Seq(S) /\ Len(c) = Len(a) + Len(b)
      /\ \A n \in 1 .. Len(a) + Len(b) :
           c[n] = IF n <= Len(a) THEN a[n] ELSE b[n - Len(a)]
  BY ConcatProperties
<1> HIDE DEF c
<1>2. c = [n \in 1 .. Len(c) |-> c[n]]
  BY <1>1
<1>3. c = [n \in 1 .. Len(a) + Len(b) |-> IF n <= Len(a) THEN a[n] ELSE b[n - Len(a)]]
  BY <1>1, <1>2
<1> QED  BY <1>1, <1>3 DEF c

LEMMA Regions ==
  /\ Len(Program) = 17
  /\ \A n \in {1, 7, 13} : Program[n] = Region("wipe", Threads, TRUE)
  /\ Program[2] = Region("ring", 1, FALSE) /\ Program[8] = Region("ring", Threads, TRUE)
  /\ Program[14] = Region("ring", 1, FALSE)
  /\ Program[3] = Region("read", 1, FALSE) /\ Program[4] = Region("read", NumThreads, FALSE)
  /\ Program[5] = Region("fill", 1, FALSE) /\ Program[6] = Region("fill", NumThreads, FALSE)
  /\ Program[9] = Region("read", 1, FALSE) /\ Program[10] = Region("read", Threads, TRUE)
  /\ Program[11] = Region("fill", 1, FALSE) /\ Program[12] = Region("fill", Threads, TRUE)
  /\ Program[15] = Region("read", 2, FALSE) /\ Program[16] = Region("read", 1, FALSE)
  /\ Program[17] = Region("fill", 1, FALSE)
<1> DEFINE R == { Region("wipe", Threads, TRUE),
                  Region("ring", 1, FALSE), Region("ring", Threads, TRUE),
                  Region("read", 1, FALSE), Region("read", 2, FALSE),
                  Region("read", NumThreads, FALSE), Region("read", Threads, TRUE),
                  Region("fill", 1, FALSE), Region("fill", NumThreads, FALSE),
                  Region("fill", Threads, TRUE) }
<1>1. Clear \in Seq(R) /\ Len(Clear) = 1 /\ Clear[1] = Region("wipe", Threads, TRUE)
  BY DEF Clear
<1>2. /\ SimpleTest \in Seq(R) /\ Len(SimpleTest) = 5
      /\ SimpleTest[1] = Region("ring", 1, FALSE)
      /\ SimpleTest[2] = Region("read", 1, FALSE)
      /\ SimpleTest[3] = Region("read", NumThreads, FALSE)
      /\ SimpleTest[4] = Region("fill", 1, FALSE)
      /\ SimpleTest[5] = Region("fill", NumThreads, FALSE)
  BY DEF SimpleTest
<1>3. /\ ParallelTest \in Seq(R) /\ Len(ParallelTest) = 5
      /\ ParallelTest[1] = Region("ring", Threads, TRUE)
      /\ ParallelTest[2] = Region("read", 1, FALSE)
      /\ ParallelTest[3] = Region("read", Threads, TRUE)
      /\ ParallelTest[4] = Region("fill", 1, FALSE)
      /\ ParallelTest[5] = Region("fill", Threads, TRUE)
  BY DEF ParallelTest
<1>4. /\ ModifyRead \in Seq(R) /\ Len(ModifyRead) = 4
      /\ ModifyRead[1] = Region("ring", 1, FALSE)
      /\ ModifyRead[2] = Region("read", 2, FALSE)
      /\ ModifyRead[3] = Region("read", 1, FALSE)
      /\ ModifyRead[4] = Region("fill", 1, FALSE)
  BY DEF ModifyRead
<1> HIDE DEF R
<1> DEFINE P2 == Clear \o SimpleTest
           P3 == P2 \o Clear
           P4 == P3 \o ParallelTest
           P5 == P4 \o Clear
           P6 == P5 \o ModifyRead
<1> HIDE DEF P2, P3, P4, P5, P6
<1>6. /\ P2 \in Seq(R) /\ Len(P2) = 6 /\ P2[1] = Clear[1]
      /\ \A n \in 1 .. 5 : P2[1 + n] = SimpleTest[n]
  <2>1. /\ P2 \in Seq(R) /\ Len(P2) = Len(Clear) + Len(SimpleTest)
        /\ P2 = [n \in 1 .. Len(Clear) + Len(SimpleTest) |->
                   IF n <= Len(Clear) THEN Clear[n] ELSE SimpleTest[n - Len(Clear)]]
    <3>1. Clear \in Seq(R) /\ SimpleTest \in Seq(R)
      BY <1>1, <1>2
    <3> QED  BY <3>1, Concatenated, Zenon DEF P2
  <2>2. /\ P2 \in Seq(R) /\ Len(P2) = 1 + 5
        /\ P2 = [n \in 1 .. 1 + 5 |->
                   IF n <= 1 THEN Clear[n] ELSE SimpleTest[n - 1]]
    BY <1>1, <1>2, <2>1, Zenon
  <2> QED  BY <2>2
<1>7. /\ P3 \in Seq(R) /\ Len(P3) = 7 /\ P3[6 + 1] = Clear[1]
      /\ \A n \in 1 .. 6 : P3[n] = P2[n]
  <2>1. /\ P3 \in Seq(R) /\ Len(P3) = Len(P2) + Len(Clear)
        /\ P3 = [n \in 1 .. Len(P2) + Len(Clear) |->
                   IF n <= Len(P2) THEN P2[n] ELSE Clear[n - Len(P2)]]
    <3>1. P2 \in Seq(R) /\ Clear \in Seq(R)
      BY <1>6, <1>1
    <3> QED  BY <3>1, Concatenated, Zenon DEF P3
  <2>2. /\ P3 \in Seq(R) /\ Len(P3) = 6 + 1
        /\ P3 = [n \in 1 .. 6 + 1 |->
                   IF n <= 6 THEN P2[n] ELSE Clear[n - 6]]
    BY <1>6, <1>1, <2>1, Zenon
  <2> QED  BY <2>2
<1>8. /\ P4 \in Seq(R) /\ Len(P4) = 12 /\ \A n \in 1 .. 7 : P4[n] = P3[n]
      /\ \A n \in 1 .. 5 : P4[7 + n] = ParallelTest[n]
  <2>1. /\ P4 \in Seq(R) /\ Len(P4) = Len(P3) + Len(ParallelTest)
        /\ P4 = [n \in 1 .. Len(P3) + Len(ParallelTest) |->
                   IF n <= Len(P3) THEN P3[n] ELSE ParallelTest[n - Len(P3)]]
    <3>1. P3 \in Seq(R) /\ ParallelTest \in Seq(R)
      BY <1>7, <1>3
    <3> QED  BY <3>1, Concatenated, Zenon DEF P4
  <2>2. /\ P4 \in Seq(R) /\ Len(P4) = 7 + 5
        /\ P4 = [n \in 1 .. 7 + 5 |->
                   IF n <= 7 THEN P3[n] ELSE ParallelTest[n - 7]]
    BY <1>7, <1>3, <2>1, Zenon
  <2> QED  BY <2>2
<1>9. /\ P5 \in Seq(R) /\ Len(P5) = 13 /\ P5[12 + 1] = Clear[1]
      /\ \A n \in 1 .. 12 : P5[n] = P4[n]
  <2>1. /\ P5 \in Seq(R) /\ Len(P5) = Len(P4) + Len(Clear)
        /\ P5 = [n \in 1 .. Len(P4) + Len(Clear) |->
                   IF n <= Len(P4) THEN P4[n] ELSE Clear[n - Len(P4)]]
    <3>1. P4 \in Seq(R) /\ Clear \in Seq(R)
      BY <1>8, <1>1
    <3> QED  BY <3>1, Concatenated, Zenon DEF P5
  <2>2. /\ P5 \in Seq(R) /\ Len(P5) = 12 + 1
        /\ P5 = [n \in 1 .. 12 + 1 |->
                   IF n <= 12 THEN P4[n] ELSE Clear[n - 12]]
    BY <1>8, <1>1, <2>1, Zenon
  <2> QED  BY <2>2
<1>10. /\ P6 \in Seq(R) /\ Len(P6) = 17 /\ \A n \in 1 .. 13 : P6[n] = P5[n]
       /\ \A n \in 1 .. 4 : P6[13 + n] = ModifyRead[n]
  <2>1. /\ P6 \in Seq(R) /\ Len(P6) = Len(P5) + Len(ModifyRead)
        /\ P6 = [n \in 1 .. Len(P5) + Len(ModifyRead) |->
                   IF n <= Len(P5) THEN P5[n] ELSE ModifyRead[n - Len(P5)]]
    <3>1. P5 \in Seq(R) /\ ModifyRead \in Seq(R)
      BY <1>9, <1>4
    <3> QED  BY <3>1, Concatenated, Zenon DEF P6
  <2>2. /\ P6 \in Seq(R) /\ Len(P6) = 13 + 4
        /\ P6 = [n \in 1 .. 13 + 4 |->
                   IF n <= 13 THEN P5[n] ELSE ModifyRead[n - 13]]
    BY <1>9, <1>4, <2>1, Zenon
  <2> QED  BY <2>2
<1>11. Program = P6
  BY DEF Program, P2, P3, P4, P5, P6
<1>12. /\ \A n \in 1 .. 13 : Program[n] = P5[n]
       /\ \A n \in 1 .. 12 : Program[n] = P4[n]
       /\ \A n \in 1 .. 7 : Program[n] = P3[n]
       /\ \A n \in 1 .. 6 : Program[n] = P2[n]
  BY <1>7, <1>8, <1>9, <1>10, <1>11
<1>13. Program[1] = Clear[1] /\ Program[7] = Clear[1] /\ Program[13] = Clear[1]
  BY <1>6, <1>7, <1>9, <1>12
<1>14. /\ Program[2] = SimpleTest[1] /\ Program[3] = SimpleTest[2]
       /\ Program[4] = SimpleTest[3] /\ Program[5] = SimpleTest[4]
       /\ Program[6] = SimpleTest[5]
  <2>1. \A n \in 1 .. 5 : Program[1 + n] = SimpleTest[n]
    BY <1>6, <1>12
  <2> QED  BY <2>1
<1>15. /\ Program[8] = ParallelTest[1] /\ Program[9] = ParallelTest[2]
       /\ Program[10] = ParallelTest[3] /\ Program[11] = ParallelTest[4]
       /\ Program[12] = ParallelTest[5]
  <2>1. \A n \in 1 .. 5 : Program[7 + n] = ParallelTest[n]
    BY <1>8, <1>12
  <2> QED  BY <2>1
<1>16. /\ Program[14] = ModifyRead[1] /\ Program[15] = ModifyRead[2]
       /\ Program[16] = ModifyRead[3] /\ Program[17] = ModifyRead[4]
  <2>1. \A n \in 1 .. 4 : Program[13 + n] = ModifyRead[n]
    BY <1>10, <1>11
  <2> QED  BY <2>1
<1>17. Len(Program) = 17
  BY <1>10, <1>11
<1> QED  BY <1>1, <1>2, <1>3, <1>4, <1>13, <1>14, <1>15, <1>16, <1>17

Wiping == stage \in {1, 7, 13}
Linking == stage \in {2, 8, 14}
Chasing == stage \in (3 .. 6) \cup (9 .. 12) \cup (15 .. 17)
Parted == stage \in 8 .. 12  \* each part has a ring of its own

LEMMA StagesAre ==
  /\ Running /\ stage \in 1 .. Killed => Wiping \/ Linking \/ Chasing
  /\ Wiping => Running /\ Now.do = "wipe" /\ Now.own /\ Now.team = Threads
  /\ Linking => /\ Running /\ Now.do = "ring" /\ (Now.own <=> Parted)
                /\ Now.team = IF Parted THEN Threads ELSE 1
  /\ Chasing => /\ Running /\ Now.do \in {"read", "fill"}
                /\ Now.team \in {1, 2, Threads, NumThreads}
                /\ Now.own => Parted /\ Now.team = Threads
                /\ ~ Now.own /\ Parted => Now.team = 1
BY Regions DEF Running, Killed, Now, Wiping, Linking, Chasing, Parted, Region

-----------------------------------------------------------------------------
(* Between two clearings the buffer holds a ring, or one for each part.    *)

Rings == IF Parted THEN 0 .. Threads - 1 ELSE {0}
RingBase(r) == IF Parted THEN r * Part ELSE 0
RingHeads(r) == IF Parted THEN PartHeads(r) ELSE AllHeads

Used(h) == mem[h] # Null
Open(r) == Linking /\ r \in busy

(* A word that a ring may use.                                             *)
OnRing(w) == \E r \in Rings : w \in RingHeads(r)

(* No signal has ended the process; a region has no more threads than its  *)
(* team.                                                                   *)
Team == stage <= Ended /\ (Running => busy \subseteq 0 .. Now.team - 1)

(* Words that are no segment's first hold NULL or what the fill test put.  *)
BesideHeads ==
  Linking \/ Chasing => \A w \in Word : ~ OnRing(w) => mem[w] \in {Null, One}

Wiped ==
  Wiping => \A t \in 0 .. Threads - 1 :
              IF t \in busy THEN pos[t] = t * Part
                            ELSE \A w \in PartOf(t) : mem[w] = Null

(* The used segments of a ring lead to used ones, but for the end of a     *)
(* chain that is not closed yet.                                           *)
Ringed ==
  Linking \/ Chasing => \A r \in Rings :
    /\ Used(RingBase(r)) \/ (Open(r) /\ pos[r] = RingBase(r))
    /\ \A h \in RingHeads(r) : Used(h) =>
         /\ mem[h] \in RingHeads(r)
         /\ Used(mem[h]) \/ (Open(r) /\ mem[h] = pos[r])

Chains ==
  \A r \in Rings : Open(r) =>
    /\ pos[r] \in RingHeads(r)
    /\ count[r] = 0 => \A h \in RingHeads(r) : mem[h] = Null

RingOf(t) == IF Now.own THEN t ELSE 0

Cursors ==
  Chasing => \A t \in busy : pos[t] \in RingHeads(RingOf(t)) /\ Used(pos[t])

IInv == Wide /\ TypeOK /\ Team /\ BesideHeads /\ Wiped /\ Ringed /\ Chains /\ Cursors

LEMMA ThreadsAre ==
  \A n \in {1, 2, Threads, NumThreads} : 0 .. n - 1 \subseteq Thread
<1> DEFINE S == {Threads, NumThreads, 2}
           top == CHOOSE n \in S : \A m \in S : m <= n
<1>1. \E n \in S : \A m \in S : m <= n
  <2>1. CASE Threads >= NumThreads /\ Threads >= 2
    BY <2>1, Sizes
  <2>2. CASE NumThreads >= Threads /\ NumThreads >= 2
    BY <2>2, Sizes
  <2>3. CASE 2 >= Threads /\ 2 >= NumThreads
    BY <2>3, Sizes
  <2> QED  BY <2>1, <2>2, <2>3, Sizes
<1>2. S \subseteq Nat /\ Threads \in S /\ NumThreads \in S /\ 2 \in S
  BY Sizes
<1>3. Thread = 0 .. top - 1
  BY DEF Thread
<1>4. top \in S /\ \A m \in S : m <= top
  <2> HIDE DEF S
  <2> QED  BY <1>1, Zenon
<1> HIDE DEF top, S
<1>5. top \in Nat /\ Threads <= top /\ NumThreads <= top /\ 2 <= top
  BY <1>2, <1>4
<1> QED  BY <1>3, <1>5, Sizes

LEMMA RingsAre ==
  /\ \A r \in Rings : /\ RingBase(r) \in RingHeads(r)
                      /\ \A h \in RingHeads(r) : h \in Word
                      /\ Wide => \A h \in RingHeads(r) : h + 1 \in Word /\ ~ OnRing(h + 1)
  /\ \A r, q \in Rings : r # q => RingHeads(r) \cap RingHeads(q) = {}
<1>1. CASE Parted
  <2>1. ASSUME NEW r \in 0 .. Threads - 1
        PROVE  /\ r * Part \in PartHeads(r)
               /\ \A h \in PartHeads(r) : h \in Word
               /\ \A q \in 0 .. Threads - 1 : r # q => PartHeads(r) \cap PartHeads(q) = {}
    BY PartHeadsAre, PartIs
  <2>2. ASSUME Wide, NEW r \in 0 .. Threads - 1, NEW h \in PartHeads(r)
        PROVE  h + 1 \in Word /\ \A q \in 0 .. Threads - 1 : h + 1 \notin PartHeads(q)
    <3>1. h + 1 \in PartOf(r) /\ h + 1 \notin PartHeads(r) /\ PartOf(r) \subseteq Word
      BY <2>2, PartHeadsAre, PartIs
    <3>2. ASSUME NEW q \in 0 .. Threads - 1, q # r PROVE h + 1 \notin PartHeads(q)
      BY <3>1, <3>2, PartHeadsAre, PartIs
    <3> QED  BY <3>1, <3>2
  <2>3. /\ Rings = 0 .. Threads - 1
        /\ \A r : RingHeads(r) = PartHeads(r) /\ RingBase(r) = r * Part
    BY <1>1 DEF Rings, RingHeads, RingBase
  <2> QED  BY <2>1, <2>2, <2>3 DEF OnRing
<1>2. CASE ~ Parted
  <2>1. Rings = {0} /\ \A r : RingHeads(r) = AllHeads /\ RingBase(r) = 0
    BY <1>2 DEF Rings, RingHeads, RingBase
  <2> QED  BY <2>1, AllHeadsAre DEF OnRing
<1> QED  BY <1>1, <1>2

(* The segments a thread of a region works on are a ring's, or all.        *)
LEMMA HeadsAre ==
  /\ Running /\ Now.own => \A t : Heads(t) = PartHeads(t)
  /\ Running /\ ~ Now.own => \A t : Heads(t) = AllHeads
<1>1. ASSUME NEW t, Now.own PROVE Heads(t) = PartHeads(t)
  BY <1>1 DEF Heads, SegOf, Base, Segs, Size, PartHeads
<1>2. ASSUME NEW t, ~ Now.own PROVE Heads(t) = AllHeads
  <2>1. \A s \in 0 .. (Threads * Part) \div Stride - 1 : 0 + s * Stride = s * Stride
    BY Sizes
  <2> QED  BY <1>2, <2>1 DEF Heads, SegOf, Base, Segs, Size, AllHeads
<1> QED  BY <1>1, <1>2

LEMMA InitInv == Wide /\ Init => IInv
<1> SUFFICES ASSUME Wide, Init PROVE IInv
  OBVIOUS
<1>1. /\ stage = 1 /\ busy = 0 .. Threads - 1 /\ mem = [w \in Word |-> Junk]
      /\ pos = [t \in Thread |-> IF t < Threads THEN t * Part ELSE 0]
      /\ count = [t \in Thread |-> 0]
  BY DEF Init
<1>2. 0 .. Threads - 1 \subseteq Thread /\ 0 \in Word
  BY ThreadsAre, Sizes DEF Word
<1>3. ASSUME NEW t \in Thread PROVE (IF t < Threads THEN t * Part ELSE 0) \in Word
  <2>1. t \in Nat
    BY DEF Thread
  <2>2. t < Threads => t \in 0 .. Threads - 1
    BY <2>1, Sizes
  <2> QED  BY <1>2, <2>2, PartIs
<1>4. TypeOK
  BY <1>1, <1>2, <1>3, Regions DEF TypeOK, Killed
<1>5. Wiping /\ ~ Linking /\ ~ Chasing
  BY <1>1 DEF Wiping, Linking, Chasing
<1>6. Team
  BY <1>1, <1>5, StagesAre, Regions DEF Team, Ended
<1>7. Wiped
  <2>1. \A t \in 0 .. Threads - 1 : t \in busy /\ pos[t] = t * Part
    BY <1>1, <1>2, Sizes
  <2> QED  BY <2>1 DEF Wiped
<1> QED
  BY <1>4, <1>5, <1>6, <1>7 DEF IInv, BesideHeads, Ringed, Chains, Cursors, Open

LEMMA WipeInv ==
  ASSUME IInv, NEW t \in Thread, Wipe(t)
  PROVE  IInv'
<1>1. /\ Running /\ t \in busy /\ Now.do = "wipe"
      /\ mem' = [w \in Word |-> IF w \in Base(t) .. Base(t) + Part - 1
                                THEN Null ELSE mem[w]]
      /\ busy' = busy \ {t} /\ UNCHANGED <<stage, pos, count>>
  BY DEF Wipe, Does
<1>2. Wiping /\ ~ Linking /\ ~ Chasing
  BY <1>1, StagesAre DEF IInv, TypeOK, Wiping, Linking, Chasing
<1>3. ~ Linking' /\ ~ Chasing'
  BY <1>1, <1>2 DEF Linking, Chasing
<1>4. Now.own /\ Now.team = Threads /\ t \in 0 .. Threads - 1
  BY <1>1, <1>2, StagesAre DEF IInv, Team
<1>5. Base(t) .. Base(t) + Part - 1 = PartOf(t)
  BY <1>4 DEF Base, PartOf
<1>6. TypeOK'
  <2>1. mem' \in [Word -> Word \cup {Null, One, Junk}]
    BY <1>1 DEF IInv, TypeOK
  <2> QED  BY <1>1, <2>1 DEF IInv, TypeOK
<1>7. Team'
  BY <1>1 DEF IInv, Team, Running, Now
<1>8. Wiped'
  <2>1. ASSUME NEW u \in 0 .. Threads - 1
        PROVE  IF u \in busy' THEN pos'[u] = u * Part
                              ELSE \A w \in PartOf(u) : mem'[w] = Null
    <3>1. CASE u = t
      <4>1. \A w \in PartOf(t) : w \in Word
        BY <1>4, PartIs
      <4> QED  BY <1>1, <1>5, <3>1, <4>1
    <3>2. CASE u # t /\ u \in busy
      BY <1>1, <1>2, <3>2 DEF IInv, Wiped
    <3>3. CASE u # t /\ u \notin busy
      <4>1. \A w \in PartOf(u) : mem[w] = Null /\ w \in Word
        BY <1>2, <3>3, PartIs DEF IInv, Wiped
      <4> QED  BY <1>1, <3>3, <4>1
    <3> QED  BY <3>1, <3>2, <3>3
  <2> QED  BY <2>1 DEF Wiped, PartOf
<1> QED
  BY <1>3, <1>6, <1>7, <1>8 DEF IInv, BesideHeads, Ringed, Chains, Cursors, Open

(* A link goes from the end of a chain to a segment of the same ring.      *)
LEMMA LinkInv ==
  ASSUME IInv, NEW t \in Thread, NEW s \in 0 .. (Threads * Part) \div Stride - 1,
         Link(t, s)
  PROVE  IInv'
<1> DEFINE h0 == SegOf(t, s)
<1>1. /\ Running /\ t \in busy /\ Now.do = "ring" /\ s < Segs
      /\ mem[h0] = Null
      /\ mem' = [mem EXCEPT ![pos[t]] = h0]
      /\ pos' = [pos EXCEPT ![t] = h0]
      /\ count' = [count EXCEPT ![t] = count[t] + 1]
      /\ UNCHANGED <<stage, busy>>
  BY DEF Link, Does
<1>2. Linking /\ ~ Wiping /\ ~ Chasing
  BY <1>1, StagesAre DEF IInv, TypeOK, Wiping, Linking, Chasing
<1>3. /\ Linking' /\ ~ Wiping' /\ ~ Chasing' /\ Rings' = Rings
      /\ (\A r : RingHeads(r)' = RingHeads(r) /\ RingBase(r)' = RingBase(r))
      /\ (\A r : Open(r)' <=> Open(r))
  BY <1>1, <1>2 DEF Linking, Wiping, Chasing, Rings, RingHeads, RingBase, Parted, Open
<1>4. t \in Rings /\ Open(t)
  BY <1>1, <1>2, StagesAre DEF IInv, Team, Rings, Open
<1>5. h0 \in RingHeads(t)
  <2>1. s \in 0 .. Segs - 1
    <3>1. Size \in Nat
      BY Sizes DEF Size
    <3>2. Segs \in Nat
      BY <3>1, Sizes DEF Segs
    <3> QED  BY <1>1, <3>2
  <2>2. h0 \in Heads(t)
    BY <2>1 DEF Heads
  <2> QED  BY <1>2, <2>2, StagesAre, HeadsAre DEF RingHeads
<1>6. pos[t] \in RingHeads(t)
  BY <1>4 DEF IInv, Chains
<1>7. h0 \in Word /\ pos[t] \in Word /\ OnRing(pos[t])
  BY <1>4, <1>5, <1>6, RingsAre DEF OnRing
<1> HIDE DEF h0
<1>8. /\ mem'[pos[t]] = h0 /\ \A w \in Word : w # pos[t] => mem'[w] = mem[w]
      /\ pos'[t] = h0 /\ \A u \in Thread : u # t => pos'[u] = pos[u]
      /\ count'[t] # 0 /\ \A u \in Thread : u # t => count'[u] = count[u]
  BY <1>1, <1>7 DEF IInv, TypeOK
<1>9. TypeOK'
  <2>1. mem' \in [Word -> Word \cup {Null, One, Junk}]
    BY <1>1, <1>7 DEF IInv, TypeOK
  <2>2. pos' \in [Thread -> Word \cup {One}] /\ count' \in [Thread -> Nat]
    BY <1>1, <1>7 DEF IInv, TypeOK
  <2> QED  BY <1>1, <2>1, <2>2 DEF IInv, TypeOK
<1>10. Team' /\ Wiped' /\ Cursors'
  BY <1>1, <1>3 DEF IInv, Team, Running, Now, Wiped, Cursors
<1>11. BesideHeads'
  <2>1. \A w \in Word : ~ OnRing(w) => mem'[w] = mem[w]
    BY <1>7, <1>8
  <2>2. \A w : OnRing(w)' <=> OnRing(w)
    BY <1>3 DEF OnRing
  <2> QED  BY <1>2, <2>1, <2>2 DEF IInv, BesideHeads
<1>12. h0 # Null
  BY <1>7, ValueAssumption
<1>13. \A r \in Rings : \A h \in RingHeads(r) : h \in Word
  BY RingsAre
<1>14. ASSUME NEW r \in Rings, r # t
       PROVE  \A h \in RingHeads(r) : mem'[h] = mem[h]
  <2>1. pos[t] \notin RingHeads(r)
    BY <1>4, <1>6, <1>14, RingsAre
  <2> QED  BY <1>8, <1>13, <2>1
<1>15. \A r \in Rings : Open(r) => r \in Thread
  BY DEF Open, IInv, TypeOK
<1>16. Ringed'
  <2>1. ASSUME NEW r \in Rings
        PROVE  /\ Used(RingBase(r))' \/ (Open(r) /\ pos'[r] = RingBase(r))
               /\ \A h \in RingHeads(r) : Used(h)' =>
                    /\ mem'[h] \in RingHeads(r)
                    /\ mem'[mem'[h]] # Null \/ (Open(r) /\ mem'[h] = pos'[r])
    <3>1. /\ Used(RingBase(r)) \/ (Open(r) /\ pos[r] = RingBase(r))
          /\ \A h \in RingHeads(r) : Used(h) =>
               /\ mem[h] \in RingHeads(r)
               /\ Used(mem[h]) \/ (Open(r) /\ mem[h] = pos[r])
      BY <1>2 DEF IInv, Ringed
    <3>2. RingBase(r) \in RingHeads(r)
      BY RingsAre
    <3>3. CASE r # t
      BY <1>3, <1>8, <1>14, <1>15, <3>1, <3>2, <3>3 DEF Used
    <3>4. CASE r = t
      <4>1. \A h \in RingHeads(t) : mem[h] # Null => mem'[h] # Null
        BY <1>8, <1>12, <1>13, <1>4
      <4>2. Used(RingBase(t))'
        <5>1. CASE RingBase(t) = pos[t]
          BY <1>3, <1>8, <1>12, <5>1 DEF Used
        <5>2. CASE RingBase(t) # pos[t]
          BY <1>3, <3>1, <3>2, <3>4, <4>1, <5>2 DEF Used
        <5> QED  BY <5>1, <5>2
      <4>3. ASSUME NEW h \in RingHeads(t), mem'[h] # Null
            PROVE  /\ mem'[h] \in RingHeads(t)
                   /\ mem'[mem'[h]] # Null \/ mem'[h] = pos'[t]
        <5>1. CASE h = pos[t]
          BY <1>5, <1>8, <5>1
        <5>2. CASE h # pos[t]
          <6>1. mem'[h] = mem[h] /\ mem[h] \in RingHeads(t)
            BY <1>4, <1>8, <1>13, <3>1, <3>4, <4>3, <5>2 DEF Used
          <6>2. mem[mem[h]] # Null \/ mem[h] = pos[t]
            BY <1>8, <3>1, <3>4, <4>3, <6>1 DEF Used
          <6> QED  BY <1>8, <1>12, <4>1, <6>1, <6>2
        <5> QED  BY <5>1, <5>2
      <4> QED  BY <1>4, <3>4, <4>2, <4>3 DEF Used
    <3> QED  BY <3>3, <3>4
  <2> QED  BY <1>3, <2>1 DEF Ringed, Used
<1>17. Chains'
  <2>1. ASSUME NEW r \in Rings, Open(r)
        PROVE  /\ pos'[r] \in RingHeads(r)
               /\ count'[r] = 0 => \A h \in RingHeads(r) : mem'[h] = Null
    <3>1. CASE r = t
      BY <1>5, <1>8, <3>1
    <3>2. CASE r # t
      BY <1>8, <1>14, <1>15, <2>1, <3>2 DEF IInv, Chains
    <3> QED  BY <3>1, <3>2
  <2> QED  BY <1>3, <2>1 DEF Chains
<1> QED  BY <1>9, <1>10, <1>11, <1>16, <1>17 DEF IInv

(* The last link leads back to the base, from where the chain started.     *)
LEMMA CloseInv ==
  ASSUME IInv, NEW t \in Thread, Close(t)
  PROVE  IInv'
<1>1. /\ Running /\ t \in busy /\ Now.do = "ring"
      /\ mem' = [mem EXCEPT ![pos[t]] = Base(t)]
      /\ busy' = busy \ {t} /\ UNCHANGED <<stage, pos, count>>
  BY DEF Close, Does
<1>2. Linking /\ ~ Wiping /\ ~ Chasing
  BY <1>1, StagesAre DEF IInv, TypeOK, Wiping, Linking, Chasing
<1>3. /\ Linking' /\ ~ Wiping' /\ ~ Chasing' /\ Rings' = Rings
      /\ (\A r : RingHeads(r)' = RingHeads(r) /\ RingBase(r)' = RingBase(r))
      /\ ~ Open(t)' /\ (\A r : r # t => (Open(r)' <=> Open(r)))
  BY <1>1, <1>2 DEF Linking, Wiping, Chasing, Rings, RingHeads, RingBase, Parted, Open
<1>4. t \in Rings /\ Open(t) /\ Base(t) = RingBase(t)
  BY <1>1, <1>2, StagesAre DEF IInv, Team, Rings, Open, Base, RingBase
<1>5. pos[t] \in RingHeads(t) /\ RingBase(t) \in RingHeads(t)
  BY <1>4, RingsAre DEF IInv, Chains
<1>6. RingBase(t) \in Word /\ pos[t] \in Word /\ OnRing(pos[t])
  BY <1>4, <1>5, RingsAre DEF OnRing
<1>7. mem'[pos[t]] = RingBase(t) /\ \A w \in Word : w # pos[t] => mem'[w] = mem[w]
  BY <1>1, <1>4, <1>6 DEF IInv, TypeOK
<1>8. TypeOK'
  <2>1. mem' \in [Word -> Word \cup {Null, One, Junk}]
    BY <1>1, <1>4, <1>6 DEF IInv, TypeOK
  <2> QED  BY <1>1, <2>1 DEF IInv, TypeOK
<1>9. Team' /\ Wiped' /\ Cursors'
  BY <1>1, <1>3 DEF IInv, Team, Running, Now, Wiped, Cursors
<1>10. BesideHeads'
  <2>1. \A w \in Word : ~ OnRing(w) => mem'[w] = mem[w]
    BY <1>6, <1>7
  <2>2. \A w : OnRing(w)' <=> OnRing(w)
    BY <1>3 DEF OnRing
  <2> QED  BY <1>2, <2>1, <2>2 DEF IInv, BesideHeads
<1>11. RingBase(t) # Null
  BY <1>6, ValueAssumption
<1>12. \A r \in Rings : \A h \in RingHeads(r) : h \in Word
  BY RingsAre
<1>13. ASSUME NEW r \in Rings, r # t
       PROVE  \A h \in RingHeads(r) : mem'[h] = mem[h]
  <2>1. pos[t] \notin RingHeads(r)
    BY <1>4, <1>5, <1>13, RingsAre
  <2> QED  BY <1>7, <1>12, <2>1
<1>14. Ringed'
  <2>1. ASSUME NEW r \in Rings
        PROVE  /\ mem'[RingBase(r)] # Null \/ (Open(r)' /\ pos[r] = RingBase(r))
               /\ \A h \in RingHeads(r) : mem'[h] # Null =>
                    /\ mem'[h] \in RingHeads(r)
                    /\ mem'[mem'[h]] # Null \/ (Open(r)' /\ mem'[h] = pos[r])
    <3>1. /\ mem[RingBase(r)] # Null \/ (Open(r) /\ pos[r] = RingBase(r))
          /\ \A h \in RingHeads(r) : mem[h] # Null =>
               /\ mem[h] \in RingHeads(r)
               /\ mem[mem[h]] # Null \/ (Open(r) /\ mem[h] = pos[r])
      BY <1>2 DEF IInv, Ringed, Used
    <3>2. RingBase(r) \in RingHeads(r)
      BY RingsAre
    <3>3. CASE r # t
      BY <1>3, <1>13, <3>1, <3>2, <3>3
    <3>4. CASE r = t
      <4>1. \A h \in RingHeads(t) : mem[h] # Null => mem'[h] # Null
        BY <1>4, <1>7, <1>11, <1>12
      <4>2. mem'[RingBase(t)] # Null
        BY <1>5, <1>7, <1>11, <3>1, <3>4, <4>1
      <4>3. ASSUME NEW h \in RingHeads(t), mem'[h] # Null
            PROVE  mem'[h] \in RingHeads(t) /\ mem'[mem'[h]] # Null
        <5>1. CASE h = pos[t]
          BY <1>5, <1>7, <4>2, <5>1
        <5>2. CASE h # pos[t]
          <6>1. mem'[h] = mem[h] /\ mem[h] \in RingHeads(t)
            BY <1>4, <1>7, <1>12, <3>1, <3>4, <4>3, <5>2
          <6>2. mem[mem[h]] # Null \/ mem[h] = pos[t]
            BY <3>1, <3>4, <4>3, <6>1
          <6> QED  BY <1>7, <1>11, <4>1, <6>1, <6>2
        <5> QED  BY <5>1, <5>2
      <4> QED  BY <3>4, <4>2, <4>3
    <3> QED  BY <3>3, <3>4
  <2> QED  BY <1>1, <1>3, <2>1 DEF Ringed, Used
<1>15. Chains'
  <2>1. ASSUME NEW r \in Rings, Open(r), r # t
        PROVE  /\ pos[r] \in RingHeads(r)
               /\ count[r] = 0 => \A h \in RingHeads(r) : mem'[h] = Null
    BY <1>13, <2>1 DEF IInv, Chains
  <2> QED  BY <1>1, <1>3, <2>1 DEF Chains
<1> QED  BY <1>8, <1>9, <1>10, <1>14, <1>15 DEF IInv

(* What the threads of a measurement follow are the links of closed rings. *)
LEMMA CursorIs ==
  ASSUME IInv, Chasing, NEW t \in busy
  PROVE  /\ t \in Thread /\ RingOf(t) \in Rings
         /\ pos[t] \in RingHeads(RingOf(t))
         /\ pos[t] \in Word /\ OnRing(pos[t])
         /\ mem[pos[t]] \in RingHeads(RingOf(t)) /\ Used(mem[pos[t]])
<1>1. t \in Thread /\ pos[t] \in RingHeads(RingOf(t)) /\ Used(pos[t])
  BY DEF IInv, TypeOK, Cursors
<1>2. RingOf(t) \in Rings
  <2>1. Running /\ t \in 0 .. Now.team - 1 /\ (Now.own => Parted /\ Now.team = Threads)
    BY StagesAre DEF IInv, Team
  <2> QED  BY <2>1, Sizes DEF RingOf, Rings
<1>3. ~ Open(RingOf(t))
  BY DEF Open, Linking, Chasing
<1> QED  BY <1>1, <1>2, <1>3, RingsAre DEF IInv, Ringed, OnRing

LEMMA ReadInv ==
  ASSUME IInv, NEW t \in Thread, Read(t)
  PROVE  IInv'
<1>1. /\ Running /\ t \in busy /\ Now.do = "read"
      /\ pos' = [pos EXCEPT ![t] = mem[pos[t]]]
      /\ count' = [count EXCEPT ![t] = count[t] + 1]
      /\ UNCHANGED <<mem, stage, busy>>
  BY DEF Read, Does
<1>2. Chasing /\ ~ Wiping /\ ~ Linking
  BY <1>1, StagesAre DEF IInv, TypeOK, Wiping, Linking, Chasing
<1>3. /\ Chasing' /\ ~ Wiping' /\ ~ Linking' /\ Rings' = Rings
      /\ (\A r : RingHeads(r)' = RingHeads(r) /\ RingBase(r)' = RingBase(r))
      /\ (\A r : ~ Open(r) /\ ~ Open(r)') /\ (\A u : RingOf(u)' = RingOf(u))
  BY <1>1, <1>2
  DEF Linking, Wiping, Chasing, Rings, RingHeads, RingBase, Parted, Open, RingOf, Now
<1>4. mem[pos[t]] \in RingHeads(RingOf(t)) /\ Used(mem[pos[t]]) /\ mem[pos[t]] \in Word
  BY <1>1, <1>2, CursorIs, RingsAre
<1>5. TypeOK'
  <2>1. pos' \in [Thread -> Word \cup {One}] /\ count' \in [Thread -> Nat]
    BY <1>1, <1>4 DEF IInv, TypeOK
  <2> QED  BY <1>1, <2>1 DEF IInv, TypeOK
<1>6. Team' /\ Wiped' /\ Chains'
  BY <1>1, <1>3 DEF IInv, Team, Running, Now, Wiped, Chains
<1>7. BesideHeads'
  <2>1. \A w : OnRing(w)' <=> OnRing(w)
    BY <1>3 DEF OnRing
  <2> QED  BY <1>1, <1>2, <2>1 DEF IInv, BesideHeads
<1>8. Ringed'
  BY <1>1, <1>2, <1>3 DEF IInv, Ringed, Used
<1>9. Cursors'
  <2>1. ASSUME NEW u \in busy
        PROVE  pos'[u] \in RingHeads(RingOf(u)) /\ Used(pos'[u])
    <3>1. CASE u = t
      BY <1>1, <1>4, <3>1 DEF IInv, TypeOK
    <3>2. CASE u # t
      BY <1>1, <1>2, <3>2 DEF IInv, TypeOK, Cursors
    <3> QED  BY <3>1, <3>2
  <2> QED  BY <1>1, <1>3, <2>1 DEF Cursors, Used
<1> QED  BY <1>5, <1>6, <1>7, <1>8, <1>9 DEF IInv

(* The fill test stores beside the heads.                                  *)
LEMMA FillBeside ==
  ASSUME IInv, NEW t \in Thread, Fill(t)
  PROVE  /\ Chasing /\ t \in busy
         /\ pos[t] + 1 \in Word /\ ~ OnRing(pos[t] + 1)
         /\ mem' = [w \in Word |-> IF w = pos[t] + 1 THEN One ELSE mem[w]]
         /\ pos' = [pos EXCEPT ![t] = mem'[pos[t]]]
         /\ count' = [count EXCEPT ![t] = count[t] + 1]
         /\ UNCHANGED <<stage, busy>>
<1>1. Running /\ t \in busy /\ Now.do = "fill"
  BY DEF Fill, Does
<1>2. Chasing
  BY <1>1, StagesAre DEF IInv, TypeOK, Wiping, Linking, Chasing
<1>3. pos[t] \in Word /\ pos[t] + 1 \in Word /\ ~ OnRing(pos[t] + 1)
  BY <1>1, <1>2, CursorIs, RingsAre DEF IInv
<1>4. Survives(t) = {TRUE}
  BY <1>3 DEF Survives, Beside
<1> QED  BY <1>1, <1>2, <1>3, <1>4 DEF Fill, Beside

LEMMA FillInv ==
  ASSUME IInv, NEW t \in Thread, Fill(t)
  PROVE  IInv'
<1>1. /\ Chasing /\ ~ Wiping /\ ~ Linking /\ t \in busy
      /\ pos[t] + 1 \in Word /\ ~ OnRing(pos[t] + 1)
      /\ mem' = [w \in Word |-> IF w = pos[t] + 1 THEN One ELSE mem[w]]
      /\ \A w \in Word : OnRing(w) => mem'[w] = mem[w]
  BY FillBeside DEF Chasing, Wiping, Linking
<1>2. /\ pos' = [pos EXCEPT ![t] = mem'[pos[t]]]
      /\ count' = [count EXCEPT ![t] = count[t] + 1]
      /\ UNCHANGED <<stage, busy>>
  BY FillBeside
<1>3. /\ Chasing' /\ ~ Wiping' /\ ~ Linking' /\ Rings' = Rings
      /\ (\A r : RingHeads(r)' = RingHeads(r) /\ RingBase(r)' = RingBase(r))
      /\ (\A r : ~ Open(r) /\ ~ Open(r)') /\ (\A u : RingOf(u)' = RingOf(u))
  BY <1>1, <1>2
  DEF Linking, Wiping, Chasing, Rings, RingHeads, RingBase, Parted, Open, RingOf, Now
<1>4. /\ RingOf(t) \in Rings /\ pos[t] \in Word /\ OnRing(pos[t])
      /\ mem[pos[t]] \in RingHeads(RingOf(t)) /\ Used(mem[pos[t]])
  BY <1>1, CursorIs
<1>5. \A r \in Rings : /\ RingBase(r) \in RingHeads(r)
                       /\ \A h \in RingHeads(r) : h \in Word /\ mem'[h] = mem[h]
  BY <1>1, RingsAre DEF OnRing
<1>6. /\ mem'[pos[t]] \in RingHeads(RingOf(t)) /\ mem'[mem'[pos[t]]] # Null
      /\ mem'[pos[t]] \in Word
  <2>1. mem'[pos[t]] = mem[pos[t]]
    BY <1>1, <1>4
  <2> QED  BY <1>4, <1>5, <2>1 DEF Used
<1>7. TypeOK'
  <2>1. mem' \in [Word -> Word \cup {Null, One, Junk}]
    BY <1>1 DEF IInv, TypeOK
  <2>2. pos' \in [Thread -> Word \cup {One}] /\ count' \in [Thread -> Nat]
    BY <1>2, <1>6 DEF IInv, TypeOK
  <2> QED  BY <1>2, <2>1, <2>2 DEF IInv, TypeOK
<1>8. Team' /\ Wiped' /\ Chains'
  BY <1>2, <1>3 DEF IInv, Team, Running, Now, Wiped, Chains
<1>9. BesideHeads'
  <2>1. \A w \in Word : ~ OnRing(w) => mem'[w] \in {Null, One}
    BY <1>1 DEF IInv, BesideHeads
  <2>2. \A w : OnRing(w)' <=> OnRing(w)
    BY <1>3 DEF OnRing
  <2> QED  BY <2>1, <2>2 DEF BesideHeads
<1>10. Ringed'
  <2>1. ASSUME NEW r \in Rings
        PROVE  /\ mem'[RingBase(r)] # Null
               /\ \A h \in RingHeads(r) : mem'[h] # Null =>
                    mem'[h] \in RingHeads(r) /\ mem'[mem'[h]] # Null
    <3>1. /\ mem[RingBase(r)] # Null
          /\ \A h \in RingHeads(r) : mem[h] # Null =>
               mem[h] \in RingHeads(r) /\ mem[mem[h]] # Null
      BY <1>1, <1>3 DEF IInv, Ringed, Used
    <3> QED  BY <1>1, <1>5, <3>1
  <2> QED  BY <1>3, <2>1 DEF Ringed, Used
<1>11. Cursors'
  <2>1. ASSUME NEW u \in busy
        PROVE  pos'[u] \in RingHeads(RingOf(u)) /\ mem'[pos'[u]] # Null
    <3>1. u \in Thread /\ pos[u] \in RingHeads(RingOf(u)) /\ mem[pos[u]] # Null
          /\ pos[u] \in Word /\ RingOf(u) \in Rings
      BY <1>1, CursorIs DEF IInv, Cursors, Used
    <3>2. CASE u = t
      <4>1. pos'[t] = mem'[pos[t]]
        BY <1>2 DEF IInv, TypeOK
      <4> QED  BY <1>6, <3>2, <4>1
    <3>3. CASE u # t
      <4>1. pos'[u] = pos[u]
        BY <1>2, <3>1, <3>3 DEF IInv, TypeOK
      <4> QED  BY <1>5, <3>1, <4>1
    <3> QED  BY <3>2, <3>3
  <2> QED  BY <1>2, <1>3, <2>1 DEF Cursors, Used
<1> QED  BY <1>7, <1>8, <1>9, <1>10, <1>11 DEF IInv

LEMMA LeaveInv ==
  ASSUME IInv, NEW t \in Thread, Leave(t)
  PROVE  IInv'
<1>1. /\ Running /\ Now.do \in {"read", "fill"}
      /\ busy' = busy \ {t} /\ UNCHANGED <<mem, stage, pos, count>>
  BY DEF Leave, Does
<1>2. Chasing /\ ~ Wiping /\ ~ Linking
  BY <1>1, StagesAre DEF IInv, TypeOK, Wiping, Linking, Chasing
<1>3. /\ Chasing' /\ ~ Wiping' /\ ~ Linking' /\ Rings' = Rings
      /\ (\A r : RingHeads(r)' = RingHeads(r) /\ RingBase(r)' = RingBase(r))
      /\ (\A r : ~ Open(r) /\ ~ Open(r)') /\ (\A u : RingOf(u)' = RingOf(u))
  BY <1>1, <1>2
  DEF Linking, Wiping, Chasing, Rings, RingHeads, RingBase, Parted, Open, RingOf, Now
<1>4. TypeOK' /\ Team' /\ Wiped' /\ Chains'
  BY <1>1, <1>3 DEF IInv, TypeOK, Team, Running, Now, Wiped, Chains
<1>5. BesideHeads' /\ Ringed' /\ Cursors'
  <2>1. \A w : OnRing(w)' <=> OnRing(w)
    BY <1>3 DEF OnRing
  <2> QED  BY <1>1, <1>2, <1>3, <2>1 DEF IInv, BesideHeads, Ringed, Cursors, Used
<1> QED  BY <1>4, <1>5 DEF IInv

(* The parts make up the buffer.                                           *)
LEMMA PartsCover ==
  \A w \in Word : \E t \in 0 .. Threads - 1 : w \in PartOf(t)
<1> SUFFICES ASSUME NEW w \in Word PROVE \E t \in 0 .. Threads - 1 : w \in PartOf(t)
  OBVIOUS
<1>1. w \in Nat /\ Part \in Nat \ {0} /\ w < Threads * Part /\ Threads \in Nat
  BY Sizes DEF Word
<1> DEFINE d == w \div Part
<1>2. d \in Nat /\ d * Part <= w /\ w < d * Part + Part
  <2> QED  BY <1>1
<1> HIDE DEF d
<1>3. d < Threads
  <2>1. Threads <= d => Threads * Part <= d * Part
    BY <1>1, <1>2, Multiples
  <2> QED  BY <1>1, <1>2, <2>1, Multiples
<1>4. d \in 0 .. Threads - 1 /\ w \in PartOf(d)
  <2>1. d * Part \in Nat
    BY <1>1, <1>2, Multiples
  <2> QED  BY <1>1, <1>2, <1>3, <2>1 DEF PartOf
<1> QED  BY <1>4

(* The teams and the parts of the regions, by their numbers.               *)
LEMMA TeamsAre ==
  /\ \A k \in 1 .. 17 : Program[k].team \in {1, 2, Threads, NumThreads}
  /\ \A k \in {1, 7, 13} : Program[k].own /\ Program[k].team = Threads
  /\ \A k \in {2, 8, 14} : /\ Program[k].own <=> k = 8
                           /\ Program[k].team = IF k = 8 THEN Threads ELSE 1
  /\ \A k \in (3 .. 6) \cup (9 .. 12) \cup (15 .. 17) :
       /\ Program[k].own => k \in 8 .. 12 /\ Program[k].team = Threads
       /\ ~ Program[k].own /\ k \in 8 .. 12 => Program[k].team = 1
BY Regions DEF Region

(* What the start of a region leaves.                                      *)
LEMMA ForkIs ==
  ASSUME IInv, Barrier
  PROVE  /\ stage \in 1 .. 17 /\ stage' = stage + 1 /\ busy = {} /\ mem' = mem
         /\ count' = [t \in Thread |-> 0]
         /\ Running' => /\ stage' \in 1 .. 17 /\ busy' = 0 .. Program[stage'].team - 1
                        /\ pos' = [t \in Thread |-> IF Program[stage'].own /\ t < Threads
                                                    THEN t * Part ELSE 0]
         /\ ~ Running' => busy' = {} /\ pos' = [t \in Thread |-> 0]
         /\ Now' = Program[stage']
<1>1. stage \in 1 .. 17 /\ stage' = stage + 1 /\ busy = {} /\ mem' = mem
      /\ count' = [t \in Thread |-> 0]
  BY Regions DEF Barrier, Running, IInv, TypeOK, Fork
<1>2. Running' <=> stage' <= 17
  BY Regions DEF Running
<1>3. stage + 1 <= Len(Program) <=> Running'
  BY <1>1, <1>2, Regions
<1>4. Running' => /\ busy' = 0 .. Program[stage'].team - 1
                  /\ pos' = [t \in Thread |-> IF Program[stage'].own /\ t < Threads
                                              THEN t * Part ELSE 0]
  BY <1>1, <1>3 DEF Barrier, Fork
<1>5. ~ Running' => busy' = {} /\ pos' = [t \in Thread |-> 0]
  BY <1>1, <1>3 DEF Barrier, Fork
<1> QED  BY <1>1, <1>2, <1>4, <1>5 DEF Now

LEMMA ForkType ==
  ASSUME IInv, Barrier
  PROVE  TypeOK' /\ Team'
<1>1. ASSUME NEW t \in Thread PROVE (IF t < Threads THEN t * Part ELSE 0) \in Word
  <2>1. t \in Nat
    BY DEF Thread
  <2>2. t < Threads => t \in 0 .. Threads - 1
    BY <2>1, Sizes
  <2> QED  BY <2>2, PartIs, Sizes DEF Word
<1>2. 0 \in Word
  BY Sizes DEF Word
<1>3. count' \in [Thread -> Nat] /\ stage' \in 1 .. Killed
      /\ mem' \in [Word -> Word \cup {Null, One, Junk}]
  BY ForkIs, Regions DEF IInv, TypeOK, Killed
<1>4. pos' \in [Thread -> Word \cup {One}]
  BY <1>1, <1>2, ForkIs
<1>5. busy' \subseteq Thread
  BY ForkIs, TeamsAre, ThreadsAre
<1>6. Team'
  <2>1. stage' <= 18
    BY ForkIs
  <2>3. Running' => busy' \subseteq 0 .. Now'.team - 1
    BY ForkIs, Zenon
  <2>2. Len(Program) = 17
    BY Regions
  <2> QED  BY <2>1, <2>2, <2>3 DEF Team, Ended
<1> QED  BY <1>3, <1>4, <1>5, <1>6 DEF TypeOK

(* A ring starts when every part has been cleared.                         *)
LEMMA AfterWipe ==
  ASSUME IInv, Barrier, Wiping
  PROVE  IInv'
<1>1. /\ stage' \in {2, 8, 14} /\ busy = {} /\ mem' = mem
      /\ busy' = 0 .. Program[stage'].team - 1
      /\ pos' = [t \in Thread |-> IF Program[stage'].own /\ t < Threads
                                  THEN t * Part ELSE 0]
  BY ForkIs, Regions DEF Wiping, Running
<1>2. Linking' /\ ~ Wiping' /\ ~ Chasing' /\ (Parted' <=> stage' = 8)
  BY <1>1 DEF Linking, Wiping, Chasing, Parted
<1>3. \A w \in Word : mem'[w] = Null
  BY <1>1, PartsCover DEF IInv, Wiped
<1>4. /\ Rings' = IF stage' = 8 THEN 0 .. Threads - 1 ELSE {0}
      /\ \A r : RingHeads(r)' = IF stage' = 8 THEN PartHeads(r) ELSE AllHeads
      /\ \A r : RingBase(r)' = IF stage' = 8 THEN r * Part ELSE 0
  BY <1>2 DEF Rings, RingHeads, RingBase
<1>5. ASSUME NEW r \in Rings'
      PROVE  /\ Open(r)' /\ pos'[r] = RingBase(r)' /\ pos'[r] \in RingHeads(r)'
             /\ \A h \in RingHeads(r)' : mem'[h] = Null
  <2> DEFINE team == Program[stage'].team
  <2>0. /\ team = IF stage' = 8 THEN Threads ELSE 1
        /\ Program[stage'].own <=> stage' = 8
        /\ Threads \in Nat \ {0}
    BY <1>1, TeamsAre, TeamsAssumption
  <2> HIDE DEF team
  <2>1. r \in busy' /\ r \in Thread
    <3>1. busy' = 0 .. team - 1
      BY <1>1 DEF team
    <3>2. r \in busy'
      BY <1>4, <2>0, <3>1
    <3>3. 0 .. team - 1 \subseteq Thread
      BY <2>0, ThreadsAre
    <3> QED  BY <3>1, <3>2, <3>3
  <2>2. pos'[r] = RingBase(r)'
    <3>1. stage' = 8 => r < Threads
      BY <1>4, <2>0
    <3> QED  BY <1>1, <1>4, <2>0, <2>1, <3>1
  <2>3. RingBase(r)' \in RingHeads(r)' /\ \A h \in RingHeads(r)' : h \in Word
    <3>1. CASE stage' = 8
      BY <1>4, <3>1, PartHeadsAre, PartIs
    <3>2. CASE stage' # 8
      BY <1>4, <3>2, AllHeadsAre
    <3> QED  BY <3>1, <3>2
  <2> QED  BY <1>2, <1>3, <2>1, <2>2, <2>3 DEF Open
<1>6. BesideHeads'
  BY <1>3 DEF BesideHeads
<1>7. Ringed' /\ Chains'
  BY <1>5 DEF Ringed, Chains, Used
<1>8. Wiped' /\ Cursors'
  BY <1>2 DEF Wiped, Cursors
<1> QED  BY <1>6, <1>7, <1>8, ForkType DEF IInv

(* A measurement starts at the bases of rings that are closed.             *)
LEMMA AfterRing ==
  ASSUME IInv, Barrier, Linking \/ Chasing, Chasing'
  PROVE  IInv'
<1>1. /\ stage' = stage + 1 /\ busy = {} /\ mem' = mem
      /\ stage' \in (3 .. 6) \cup (9 .. 12) \cup (15 .. 17)
  BY ForkIs DEF Chasing
<1>2. /\ busy' = 0 .. Program[stage'].team - 1 /\ Now' = Program[stage']
      /\ pos' = [t \in Thread |-> IF Program[stage'].own /\ t < Threads
                                  THEN t * Part ELSE 0]
  BY <1>1, ForkIs, Regions DEF Running
<1>3. (Parted' <=> Parted) /\ ~ Wiping' /\ ~ Linking'
  BY <1>1, ForkIs DEF Linking, Wiping, Chasing, Parted
<1>4. /\ Rings' = Rings
      /\ (\A r : RingHeads(r)' = RingHeads(r) /\ RingBase(r)' = RingBase(r))
      /\ (\A r : ~ Open(r) /\ ~ Open(r)')
  BY <1>1, <1>3 DEF Rings, RingHeads, RingBase, Open
<1>5. ASSUME NEW r \in Rings
      PROVE  /\ mem[RingBase(r)] # Null /\ RingBase(r) \in RingHeads(r)
             /\ \A h \in RingHeads(r) : mem[h] # Null =>
                  mem[h] \in RingHeads(r) /\ mem[mem[h]] # Null
  BY <1>4, RingsAre DEF IInv, Ringed, Used
<1>6. Ringed'
  BY <1>1, <1>4, <1>5 DEF Ringed, Used
<1>7. BesideHeads'
  <2>1. \A w : OnRing(w)' <=> OnRing(w)
    BY <1>4 DEF OnRing
  <2> QED  BY <1>1, <2>1 DEF IInv, BesideHeads
<1>8. Wiped' /\ Chains'
  BY <1>3, <1>4 DEF Wiped, Chains
<1>9. Cursors'
  <2>1. ASSUME NEW t \in busy'
        PROVE  pos'[t] \in RingHeads(RingOf(t)') /\ mem[pos'[t]] # Null
    <3>1. t \in Thread
      <4>1. Program[stage'].team \in {1, 2, Threads, NumThreads}
        BY <1>1, TeamsAre
      <4> QED  BY <1>2, <4>1, ThreadsAre
    <3>2. /\ RingOf(t)' = IF Program[stage'].own THEN t ELSE 0
          /\ RingOf(t)' \in Rings /\ pos'[t] = RingBase(RingOf(t)')
      <4>1. CASE Program[stage'].own
        <5>1. Parted /\ t \in 0 .. Threads - 1
          BY <1>1, <1>2, <1>3, <4>1, TeamsAre DEF Parted
        <5>2. t < Threads
          BY <5>1, Sizes
        <5> QED  BY <1>2, <3>1, <4>1, <5>1, <5>2 DEF RingOf, Rings, RingBase
      <4>2. CASE ~ Program[stage'].own
        <5>1. 0 \in 0 .. Threads - 1 /\ 0 * Part = 0
          BY Sizes
        <5> QED  BY <1>2, <3>1, <4>2, <5>1 DEF RingOf, Rings, RingBase
      <4> QED  BY <4>1, <4>2
    <3> QED  BY <1>5, <3>2
  <2> QED  BY <1>1, <1>4, <2>1 DEF Cursors, Used
<1> QED  BY <1>6, <1>7, <1>8, <1>9, ForkType DEF IInv

LEMMA BarrierInv ==
  ASSUME IInv, Barrier
  PROVE  IInv'
<1>1. Wiping \/ Linking \/ Chasing
  BY StagesAre DEF Barrier, IInv, TypeOK
<1>2. stage \in 1 .. 17 /\ stage' = stage + 1
  BY ForkIs
<1>3. CASE Linking
  <2>1. Chasing'
    BY <1>2, <1>3 DEF Linking, Chasing
  <2> QED  BY <1>3, <2>1, AfterRing
<1>4. CASE Chasing /\ Chasing'
  BY <1>4, AfterRing
<1>5. CASE Chasing /\ ~ Chasing'
  <2>1. stage' \in {7, 13, 18}
    BY <1>2, <1>5 DEF Chasing
  <2>2. ~ Linking' /\ ~ Chasing'
    BY <2>1 DEF Linking, Chasing
  <2>3. Wiped'
    <3>1. CASE stage' = 18
      BY <3>1 DEF Wiped, Wiping
    <3>2. CASE stage' \in {7, 13}
      <4>1. /\ busy' = 0 .. Program[stage'].team - 1
            /\ pos' = [t \in Thread |-> IF Program[stage'].own /\ t < Threads
                                        THEN t * Part ELSE 0]
        BY <3>2, ForkIs, Regions DEF Running
      <4>2. Program[stage'].own /\ Program[stage'].team = Threads
        BY <3>2, TeamsAre
      <4>3. \A t \in 0 .. Threads - 1 : t \in busy' /\ pos'[t] = t * Part
        BY <4>1, <4>2, ThreadsAre, Sizes
      <4> QED  BY <4>3 DEF Wiped
    <3> QED  BY <2>1, <3>1, <3>2
  <2> QED  BY <2>2, <2>3, ForkType
           DEF IInv, BesideHeads, Ringed, Chains, Cursors, Open
<1> QED  BY <1>1, <1>3, <1>4, <1>5, AfterWipe

LEMMA StepInv == IInv /\ [Next]_vars => IInv'
<1> SUFFICES ASSUME IInv, [Next]_vars PROVE IInv'
  OBVIOUS
<1>1. ASSUME NEW t \in Thread, Step(t) PROVE IInv'
  BY <1>1, WipeInv, CloseInv, ReadInv, FillInv, LeaveInv, LinkInv DEF Step
<1>2. CASE Barrier
  BY <1>2, BarrierInv
<1>3. CASE UNCHANGED vars
  <2>1. TypeOK' /\ Team' /\ Wiped'
    BY <1>3 DEF vars, IInv, TypeOK, Team, Running, Now, Wiped, Wiping
  <2>2. /\ (Linking' <=> Linking) /\ (Chasing' <=> Chasing) /\ Rings' = Rings
        /\ (\A r : RingHeads(r)' = RingHeads(r) /\ RingBase(r)' = RingBase(r))
        /\ (\A r : Open(r)' <=> Open(r)) /\ (\A u : RingOf(u)' = RingOf(u))
    BY <1>3 DEF vars, Linking, Chasing, Rings, RingHeads, RingBase, Parted, Open,
                RingOf, Now
  <2>3. Ringed' /\ Chains' /\ Cursors'
    BY <1>3, <2>2 DEF vars, IInv, Ringed, Chains, Cursors, Used
  <2>4. BesideHeads'
    <3>1. \A w : OnRing(w)' <=> OnRing(w)
      BY <2>2 DEF OnRing
    <3> QED  BY <1>3, <2>2, <3>1 DEF vars, IInv, BesideHeads
  <2> QED  BY <2>1, <2>3, <2>4 DEF IInv
<1> QED  BY <1>1, <1>2, <1>3 DEF Next, Finished

-----------------------------------------------------------------------------

(* What the regions of mem_lat.c leave to each other, for good, when the   *)
(* stride has room for the word the fill test stores to.                   *)
THEOREM Invariance == Wide /\ Spec => []IInv
BY InitInv, StepInv, PTL DEF Spec

(* Words, threads, cursors and counts keep their kinds in every region, for*)
(* every size of the buffer and of the teams and every stride of two words *)
(* or more.                                                                *)
THEOREM TypeCorrect == Wide /\ Spec => []TypeOK
<1>1. IInv => TypeOK
  BY DEF IInv
<1> QED  BY <1>1, Invariance, PTL

(* With such a stride no thread of setup_rnd(), of RD_ONE or of WR_ONE ever*)
(* follows a NULL, a 1 that the fill test stored, or a pointer into a      *)
(* neighbour's part, and no signal ends the program.                       *)
THEOREM OnlyHeadsAreFollowed == Wide /\ Spec => [](CursorsOnHeads /\ stage # Killed)
<1>1. IInv => CursorsOnHeads
  <2> SUFFICES ASSUME IInv, Running, NEW t \in busy
               PROVE  pos[t] \in Heads(t)
    BY DEF CursorsOnHeads
  <2>1. t \in 0 .. Now.team - 1
    BY DEF IInv, Team
  <2>2. CASE Wiping
    <3>1. t \in 0 .. Threads - 1 /\ Heads(t) = PartHeads(t) /\ pos[t] = t * Part
      BY <2>1, <2>2, StagesAre, HeadsAre DEF IInv, Wiped
    <3> QED  BY <3>1, PartHeadsAre
  <2>3. CASE Linking
    <3>1. t \in Rings /\ Open(t)
      BY <2>1, <2>3, StagesAre DEF Rings, Open
    <3>2. Heads(t) = RingHeads(t)
      BY <2>3, StagesAre, HeadsAre DEF RingHeads
    <3> QED  BY <3>1, <3>2 DEF IInv, Chains
  <2>4. CASE Chasing
    <3>1. pos[t] \in RingHeads(RingOf(t))
      BY <2>4, CursorIs
    <3>2. CASE Now.own
      BY <2>4, <3>1, <3>2, StagesAre, HeadsAre DEF RingHeads, RingOf
    <3>3. CASE ~ Now.own
      <4>1. Heads(t) = AllHeads /\ RingOf(t) = 0
        BY <3>3, HeadsAre DEF RingOf
      <4>2. 0 \in 0 .. Threads - 1
        BY Sizes
      <4>3. PartHeads(0) \subseteq AllHeads
        BY <4>2, PartHeadsAre
      <4> QED  BY <3>1, <4>1, <4>3 DEF RingHeads
    <3> QED  BY <3>2, <3>3
  <2> QED  BY <2>2, <2>3, <2>4, StagesAre DEF IInv, TypeOK
<1>2. IInv => stage # Killed
  BY Regions DEF IInv, Team, Ended, Killed
<1> QED  BY <1>1, <1>2, Invariance, PTL

(* setup_rnd() finds every segment it may use free: main() has cleared the *)
(* ring, and what the fill test left, before each of its three calls.      *)
THEOREM StartsClean == Wide /\ Spec => []RingsStartClean
<1>1. IInv => RingsStartClean
  <2> SUFFICES ASSUME IInv, Running, Now.do = "ring",
                      NEW t \in busy, count[t] = 0, NEW h \in Heads(t)
               PROVE  mem[h] = Null
    BY DEF RingsStartClean
  <2>1. Linking
    BY StagesAre DEF IInv, TypeOK, Wiping, Linking, Chasing
  <2>2. t \in Rings /\ Open(t)
    BY <2>1, StagesAre DEF IInv, Team, Rings, Open
  <2>3. Heads(t) = RingHeads(t)
    BY <2>1, StagesAre, HeadsAre DEF RingHeads
  <2> QED  BY <2>2, <2>3 DEF IInv, Chains
<1> QED  BY <1>1, Invariance, PTL

(* The threads of parallel_test() each have a ring that stays in their own *)
(* part of the buffer.                                                     *)
THEOREM PartsAreApart == Wide /\ Spec => []PartsKeepApart
<1>1. IInv => PartsKeepApart
  <2> SUFFICES ASSUME IInv, Running, Now.own, Now.do # "wipe",
                      NEW t \in 0 .. Now.team - 1, NEW w \in PartOf(t)
               PROVE  mem[w] \in PartOf(t) \cup {Null, One}
    BY DEF PartsKeepApart
  <2>1. (Linking \/ Chasing) /\ Parted /\ t \in 0 .. Threads - 1
    BY StagesAre DEF IInv, TypeOK
  <2>2. /\ Rings = 0 .. Threads - 1 /\ w \in Word
        /\ \A r \in Rings : RingHeads(r) = PartHeads(r)
    BY <2>1, PartIs DEF Rings, RingHeads
  <2>3. CASE w \in PartHeads(t)
    <3>1. Used(w) => mem[w] \in PartHeads(t)
      BY <2>1, <2>2, <2>3 DEF IInv, Ringed
    <3> QED  BY <2>1, <3>1, PartHeadsAre DEF Used
  <2>4. CASE w \notin PartHeads(t)
    <3>1. ASSUME NEW r \in Rings PROVE w \notin RingHeads(r)
      BY <2>1, <2>2, <2>4, PartHeadsAre, PartIs
    <3> QED  BY <2>1, <2>2, <3>1 DEF IInv, BesideHeads, OnRing
  <2> QED  BY <2>3, <2>4
<1> QED  BY <1>1, Invariance, PTL

(* However many threads fill one ring, none of their stores changes a      *)
(* pointer of it, if the stride is of two words or more.                   *)
THEOREM FillsLeaveTheRing == Wide /\ Spec => FillKeepsRing
<1> DEFINE Kept == Running /\ Now.do = "fill" =>
                     \A w \in Word : mem[w] \in Word => mem'[w] = mem[w]
<1>1. IInv /\ [Next]_vars => Kept \/ UNCHANGED vars
  <2> SUFFICES ASSUME IInv, Next, Running, Now.do = "fill",
                      NEW w \in Word, mem[w] \in Word
               PROVE  mem'[w] = mem[w]
    OBVIOUS
  <2>1. CASE Barrier \/ Finished
    BY <2>1 DEF Barrier, Finished
  <2>2. ASSUME NEW t \in Thread, Step(t) PROVE mem'[w] = mem[w]
    <3>1. CASE Fill(t)
      <4>1. /\ Chasing /\ ~ OnRing(pos[t] + 1)
            /\ mem' = [v \in Word |-> IF v = pos[t] + 1 THEN One ELSE mem[v]]
        BY <3>1, FillBeside
      <4>2. OnRing(w)
        BY <4>1, ValueAssumption DEF IInv, BesideHeads
      <4> QED  BY <4>1, <4>2
    <3>2. CASE Leave(t)
      BY <3>2 DEF Leave
    <3>3. ~ Wipe(t) /\ ~ Close(t) /\ ~ Read(t) /\ \A s : ~ Link(t, s)
      BY DEF Wipe, Close, Read, Link, Does
    <3> QED  BY <2>2, <3>1, <3>2, <3>3 DEF Step
  <2> QED  BY <2>1, <2>2 DEF Next
<1>2. IInv /\ [Next]_vars => [Kept]_vars
  BY <1>1
<1> QED  BY <1>2, Invariance, PTL DEF Spec, FillKeepsRing
=============================================================================

--------------------------- MODULE RndRingProofs ---------------------------
(***************************************************************************)
(* Proofs about setup_rnd() for every number of segments, every sentinel   *)
(* and every setting of the early exit: what it leaves is one ring, and    *)
(* the pointer chase stays on it.                                          *)
(***************************************************************************)
EXTENDS RndRing, TLAPS

USE NSegsAssumption, EmptyAssumption, CursorsAssumption

(* What the loop condition says while the ring is built, and why a chase   *)
(* reads no NULL: a program whose sentinel is NULL has one cursor, on the  *)
(* ring.                                                                   *)
Counts ==
  /\ pc = "build" => nDone < NSegs
  /\ pc = "chase" /\ Empty # 0 => cell[at[0]] # Empty

IInv == TypeOK /\ Counts /\ Chain /\ Ring

LEMMA InitChain == Init => Chain
<1> SUFFICES ASSUME Init
             PROVE  \E n \in 0 .. nDone : \E f \in [0 .. n -> Seg] : ChainOrder(f, n)
  BY DEF Chain
<1> DEFINE g == [k \in 0 .. 0 |-> 0]
<1>1. 0 \in Seg /\ 0 \in 0 .. nDone
  BY DEF Init, Seg
<1>2. g \in [0 .. 0 -> Seg]
  BY <1>1
<1>3. ChainOrder(g, 0)
  BY <1>1 DEF ChainOrder, IsPath, RestIsFree, Init
<1> QED  BY <1>1, <1>2, <1>3

(* A free segment is not one of the path's, or it is its end.              *)
LEMMA FreeIsNew ==
  ASSUME TypeOK, NEW n \in Nat, NEW f \in [0 .. n -> Seg], ChainOrder(f, n),
         NEW s \in Seg, cell[s] = Empty, NEW k \in 0 .. n, f[k] = s
  PROVE  k = n
<1> SUFFICES ASSUME k # n PROVE FALSE
  OBVIOUS
<1>1. k \in 0 .. n - 1 /\ k + 1 \in 0 .. n /\ 0 \in 0 .. n /\ k + 1 # 0
  OBVIOUS
<1>2. cell[s] = f[k + 1]
  BY <1>1 DEF ChainOrder, IsPath
<1>3. f[k + 1] \in Seg
  BY <1>1
<1>4. f[k + 1] # 0
  BY <1>1 DEF ChainOrder, IsPath
<1> QED  BY <1>2, <1>3, <1>4

(* Linking the end of the chain to itself changes nothing of the path.     *)
LEMMA LinkSame ==
  ASSUME IInv, Link(pos), NEW n \in 0 .. nDone, NEW f \in [0 .. n -> Seg],
         ChainOrder(f, n)
  PROVE  ChainOrder(f, n)'
<1>1. /\ cell' = [cell EXCEPT ![pos] = pos] /\ pos' = pos
      /\ pos \in Seg /\ n \in Nat /\ n \in 0 .. n
      /\ cell \in [Seg -> Seg \cup {Empty}]
  BY DEF Link, IInv, TypeOK
<1>2. \A k \in 0 .. n - 1 : k \in 0 .. n /\ f[k] # pos
  BY <1>1 DEF ChainOrder, IsPath
<1>3. IsPath(f, n)'
  BY <1>1, <1>2 DEF ChainOrder, IsPath
<1>4. RestIsFree(f, n)'
  BY <1>1 DEF ChainOrder, RestIsFree
<1> QED  BY <1>1, <1>3, <1>4 DEF ChainOrder

(* Linking to another segment makes the path one longer.                   *)
LEMMA LinkNew ==
  ASSUME IInv, NEW s \in Seg, Link(s), s # pos,
         NEW n \in 0 .. nDone, NEW f \in [0 .. n -> Seg], ChainOrder(f, n)
  PROVE  \E g \in [0 .. n + 1 -> Seg] : ChainOrder(g, n + 1)'
<1> DEFINE g == [k \in 0 .. n + 1 |-> IF k = n + 1 THEN s ELSE f[k]]
<1>1. /\ cell' = [cell EXCEPT ![pos] = s] /\ pos' = s
      /\ pos \in Seg /\ n \in Nat
      /\ cell \in [Seg -> Seg \cup {Empty}] /\ cell[s] = Empty
  BY DEF Link, IInv, TypeOK
<1>2. \A k \in 0 .. n : f[k] # s
  <2> SUFFICES ASSUME NEW k \in 0 .. n, f[k] = s PROVE FALSE
    OBVIOUS
  <2>1. k = n
    BY <1>1, FreeIsNew DEF IInv
  <2> QED  BY <2>1 DEF ChainOrder
<1>3. \A k \in 0 .. n : g[k] = f[k]
  BY <1>1
<1>4. g[n + 1] = s /\ g \in [0 .. n + 1 -> Seg] /\ n + 1 \in 0 .. n + 1
  BY <1>1
<1> HIDE DEF g
<1>5. \A k \in 0 .. n + 1 : k \in 0 .. n \/ k = n + 1
  BY <1>1
<1>6. 0 \in 0 .. n /\ n \in 0 .. n
  BY <1>1
<1>7. \A j, k \in 0 .. n + 1 : g[j] = g[k] => j = k
  BY <1>2, <1>3, <1>4, <1>5 DEF ChainOrder, IsPath
<1>8. \A k \in 0 .. n : cell'[g[k]] = g[k + 1]
  <2> SUFFICES ASSUME NEW k \in 0 .. n PROVE cell'[g[k]] = g[k + 1]
    OBVIOUS
  <2>1. CASE k = n
    BY <1>1, <1>3, <1>4, <1>6, <2>1 DEF ChainOrder
  <2>2. CASE k # n
    <3>1. k \in 0 .. n - 1 /\ k + 1 \in 0 .. n
      BY <1>1, <2>2
    <3>2. f[k] # pos /\ f[k] \in Seg
      BY <1>6, <2>2 DEF ChainOrder, IsPath
    <3>3. cell[f[k]] = f[k + 1]
      BY <3>1 DEF ChainOrder, IsPath
    <3> QED  BY <1>1, <1>3, <3>1, <3>2, <3>3
  <2> QED  BY <2>1, <2>2
<1>9. IsPath(g, n + 1)'
  <2>1. g[0] = 0
    BY <1>3, <1>6 DEF ChainOrder, IsPath
  <2>2. (n + 1) - 1 = n
    BY <1>1
  <2> QED  BY <1>4, <1>7, <1>8, <2>1, <2>2 DEF IsPath
<1>10. RestIsFree(g, n + 1)'
  <2> SUFFICES ASSUME NEW r \in Seg, \A k \in 0 .. n + 1 : g[k] # r
               PROVE  cell'[r] = Empty
    BY DEF RestIsFree
  <2>1. \A k \in 0 .. n : k \in 0 .. n + 1
    BY <1>1
  <2>2. \A k \in 0 .. n : f[k] # r
    BY <1>3, <2>1
  <2>3. cell[r] = Empty /\ r # pos
    BY <1>6, <2>2 DEF ChainOrder, RestIsFree
  <2> QED  BY <1>1, <2>3
<1>11. cell'[pos'] = Empty
  BY <1>1
<1> QED  BY <1>1, <1>4, <1>9, <1>10, <1>11 DEF ChainOrder

LEMMA LinkInv ==
  ASSUME IInv, NEW s \in Seg, Link(s)
  PROVE  IInv'
<1>1. pc = "build" /\ nDone' = nDone + 1 /\ nDone \in Nat /\ nDone < NSegs
  BY DEF Link, IInv, TypeOK, Counts
<1>2. TypeOK'
  BY <1>1 DEF Link, IInv, TypeOK
<1>3. Counts' /\ Ring'
  BY <1>1 DEF Link, IInv, TypeOK, Counts, Ring
<1>4. Chain'
  <2>1. PICK n \in 0 .. nDone : \E f \in [0 .. n -> Seg] : ChainOrder(f, n)
    BY <1>1 DEF IInv, Chain
  <2>2. PICK f \in [0 .. n -> Seg] : ChainOrder(f, n)
    BY <2>1
  <2>3. n \in 0 .. nDone' /\ n + 1 \in 0 .. nDone'
    BY <1>1
  <2>4. CASE s = pos
    <3>1. ChainOrder(f, n)'
      BY <2>2, <2>4, LinkSame
    <3> QED  BY <2>3, <3>1 DEF Chain
  <2>5. CASE s # pos
    <3>1. \E g \in [0 .. n + 1 -> Seg] : ChainOrder(g, n + 1)'
      BY <2>2, <2>5, LinkNew
    <3> QED  BY <2>3, <3>1 DEF Chain
  <2> QED  BY <2>4, <2>5
<1> QED  BY <1>2, <1>3, <1>4 DEF IInv

(* Steps that store no pointer.                                            *)
LEMMA Unlinked ==
  ASSUME IInv, UNCHANGED <<cell, pos, nDone, pc>>
  PROVE  Chain' /\ Ring'
<1>1. Chain'
  BY DEF IInv, Chain, ChainOrder, IsPath, RestIsFree
<1>2. Ring'
  BY DEF IInv, Ring, RingOrder, IsPath, RestIsFree
<1> QED  BY <1>1, <1>2

LEMMA GiveUpInv ==
  ASSUME IInv, NEW s \in Seg, GiveUp(s)
  PROVE  IInv'
<1>1. TypeOK' /\ Counts' /\ Ring'
  BY DEF GiveUp, IInv, TypeOK, Counts, Ring
<1>2. Chain'
  BY DEF GiveUp, IInv, Chain, ChainOrder, IsPath, RestIsFree
<1> QED  BY <1>1, <1>2 DEF IInv

(* The pointer from the end of the chain to segment 0 closes the ring.     *)
LEMMA CloseRing ==
  ASSUME IInv, Close, NEW n \in 0 .. nDone, NEW f \in [0 .. n -> Seg],
         ChainOrder(f, n)
  PROVE  RingOrder(f, n)'
<1>1. /\ cell' = [cell EXCEPT ![pos] = 0] /\ pos \in Seg
      /\ n \in Nat /\ n \in 0 .. n
      /\ cell \in [Seg -> Seg \cup {Empty}]
  BY DEF Close, IInv, TypeOK
<1>2. \A k \in 0 .. n - 1 : k \in 0 .. n /\ f[k] # pos
  BY <1>1 DEF ChainOrder, IsPath
<1>3. IsPath(f, n)'
  BY <1>1, <1>2 DEF ChainOrder, IsPath
<1>4. RestIsFree(f, n)'
  BY <1>1 DEF ChainOrder, RestIsFree
<1>5. cell'[f[n]] = 0
  BY <1>1 DEF ChainOrder
<1> QED  BY <1>3, <1>4, <1>5 DEF RingOrder

LEMMA CloseInv ==
  ASSUME IInv, Close
  PROVE  IInv'
<1>1. PICK n \in 0 .. nDone : \E f \in [0 .. n -> Seg] : ChainOrder(f, n)
  BY DEF IInv, Chain, Close
<1>2. PICK f \in [0 .. n -> Seg] : ChainOrder(f, n)
  BY <1>1
<1>3. RingOrder(f, n)' /\ pc' = "chase" /\ nDone' = nDone
  BY <1>2, CloseRing DEF Close
<1>4. 0 \in Seg /\ 0 \in Cursor /\ Cursor \subseteq Seg
  BY DEF Seg, Cursor
<1>5. TypeOK'
  BY <1>4 DEF Close, IInv, TypeOK
<1>6. Ring' /\ Chain'
  BY <1>3 DEF Ring, Chain
<1>7. Counts'
  <2> SUFFICES ASSUME Empty # 0 PROVE cell'[at'[0]] # Empty
    BY <1>3 DEF Counts
  <2>1. at'[0] = 0
    BY <1>4 DEF Close
  <2>2. CASE n = 0
    <3>1. cell'[0] = 0
      BY <1>3, <2>2 DEF RingOrder, IsPath
    <3> QED  BY <2>1, <3>1
  <2>3. CASE n # 0
    <3>1. 0 \in 0 .. n - 1 /\ 1 \in 0 .. n
      BY <2>3, <1>1 DEF IInv, TypeOK
    <3>2. cell'[0] = f[1] /\ f[1] \in Seg
      BY <1>3, <3>1 DEF RingOrder, IsPath
    <3> QED  BY <2>1, <3>2
  <2> QED  BY <2>2, <2>3
<1> QED  BY <1>5, <1>6, <1>7 DEF IInv

(* A pointer of the ring leads to a segment of the ring, which is not free.*)
LEMMA RingPointer ==
  ASSUME TypeOK, Empty # 0, NEW n \in Nat, NEW f \in [0 .. n -> Seg],
         RingOrder(f, n), NEW s \in Seg, cell[s] # Empty
  PROVE  cell[s] \in Seg /\ cell[cell[s]] # Empty
<1>1. PICK k \in 0 .. n : f[k] = s
  BY DEF RingOrder, RestIsFree
<1>2. \A j \in 0 .. n : cell[f[j]] \in Seg
  <2> SUFFICES ASSUME NEW j \in 0 .. n PROVE cell[f[j]] \in Seg
    OBVIOUS
  <2>1. CASE j = n
    <3>1. 0 \in Seg
      BY DEF Seg
    <3> QED  BY <2>1, <3>1 DEF RingOrder
  <2>2. CASE j # n
    <3>1. j \in 0 .. n - 1 /\ j + 1 \in 0 .. n
      BY <2>2
    <3> QED  BY <3>1 DEF RingOrder, IsPath
  <2> QED  BY <2>1, <2>2
<1>3. \E j \in 0 .. n : cell[s] = f[j]
  <2>1. CASE k = n
    BY <1>1, <2>1 DEF RingOrder, IsPath
  <2>2. CASE k # n
    <3>1. k \in 0 .. n - 1 /\ k + 1 \in 0 .. n
      BY <2>2
    <3> QED  BY <1>1, <3>1 DEF RingOrder, IsPath
  <2> QED  BY <2>1, <2>2
<1> QED  BY <1>1, <1>2, <1>3

LEMMA ChaseInv ==
  ASSUME IInv, Chase
  PROVE  IInv'
<1>1. pc = "chase" /\ UNCHANGED <<cell, pos, nDone, pc>>
  BY DEF Chase
<1>2. PICK n \in 0 .. nDone : \E f \in [0 .. n -> Seg] : RingOrder(f, n)
  BY <1>1 DEF IInv, Ring
<1>3. PICK f \in [0 .. n -> Seg] : RingOrder(f, n)
  BY <1>2
<1>4. n \in Nat /\ 0 \in Cursor
  BY DEF IInv, TypeOK, Cursor
<1>5. CASE Empty = 0
  <2>1. \A c \in Cursor : cell[at[c]] \in Seg
    BY <1>5 DEF IInv, TypeOK, Seg
  <2>2. TypeOK' /\ Counts'
    BY <1>1, <1>5, <2>1 DEF Chase, IInv, TypeOK, Counts
  <2> QED  BY <1>1, <2>2, Unlinked DEF IInv
<1>6. CASE Empty # 0
  <2>1. Cursor = {0}
    BY <1>6 DEF Cursor
  <2>2. cell[at[0]] \in Seg /\ cell[cell[at[0]]] # Empty
    BY <1>1, <1>3, <1>4, <1>6, RingPointer DEF IInv, TypeOK, Counts
  <2>3. at' \in [Cursor -> Seg] /\ cell'[at'[0]] # Empty
    BY <2>1, <2>2 DEF Chase
  <2>4. TypeOK' /\ Counts'
    BY <1>1, <2>3 DEF IInv, TypeOK, Counts
  <2> QED  BY <1>1, <2>4, Unlinked DEF IInv
<1> QED  BY <1>5, <1>6

THEOREM Invariance == SafeSpec => []IInv
<1>1. Init => IInv
  <2> SUFFICES ASSUME Init PROVE IInv
    OBVIOUS
  <2>1. 0 \in Seg
    BY DEF Seg
  <2>2. TypeOK /\ Counts /\ Ring
    BY <2>1 DEF Init, TypeOK, Counts, Ring
  <2> QED  BY <2>2, InitChain DEF IInv
<1>2. IInv /\ [Next]_vars => IInv'
  <2> SUFFICES ASSUME IInv, [Next]_vars PROVE IInv'
    OBVIOUS
  <2>1. ASSUME NEW s \in Seg, Link(s) PROVE IInv'
    BY <2>1, LinkInv
  <2>2. ASSUME NEW s \in Seg, GiveUp(s) PROVE IInv'
    BY <2>2, GiveUpInv
  <2>3. CASE Close
    BY <2>3, CloseInv
  <2>4. CASE Chase
    BY <2>4, ChaseInv
  <2>5. CASE UNCHANGED vars
    <3>1. TypeOK' /\ Counts'
      BY <2>5 DEF vars, IInv, TypeOK, Counts
    <3> QED  BY <2>5, <3>1, Unlinked DEF vars, IInv
  <2> QED  BY <2>1, <2>2, <2>3, <2>4, <2>5 DEF Next
<1> QED  BY <1>1, <1>2, PTL DEF SafeSpec

(* No cursor ever leaves the buffer or reads a NULL pointer.               *)
THEOREM TypeCorrect == SafeSpec => []TypeOK
<1>1. IInv => TypeOK
  BY DEF IInv
<1> QED  BY <1>1, Invariance, PTL

(* However the random numbers fall, a link never enters the chain but at   *)
(* its end.                                                                *)
THEOREM StaysChain == SafeSpec => []Chain
<1>1. IInv => Chain
  BY DEF IInv
<1> QED  BY <1>1, Invariance, PTL

(* However the random numbers fall and whether or not the loop gives up    *)
(* early, the buffer that is timed holds one ring through its start.       *)
THEOREM EndsAsRing == SafeSpec => []Ring
<1>1. IInv => Ring
  BY DEF IInv
<1> QED  BY <1>1, Invariance, PTL

-----------------------------------------------------------------------------

(* In a ring of every segment no two pointers are the same.                *)
LEMMA WholeRingInjective ==
  ASSUME NEW n \in Nat, NEW f \in [0 .. n -> Seg], RingOrder(f, n), WholeRing,
         EmptyAssumption, NEW r \in Seg, NEW s \in Seg,
         cell \in [Seg -> Seg \cup {Empty}], cell[r] = cell[s]
  PROVE  r = s
<1>1. \A j \in 0 .. n :
        \/ j = n /\ cell[f[j]] = f[0]
        \/ j + 1 \in 0 .. n /\ cell[f[j]] = f[j + 1]
  <2> SUFFICES ASSUME NEW j \in 0 .. n, j # n
               PROVE  j + 1 \in 0 .. n /\ cell[f[j]] = f[j + 1]
    BY DEF RingOrder, IsPath
  <2>1. j \in 0 .. n - 1 /\ j + 1 \in 0 .. n
    OBVIOUS
  <2> QED  BY <2>1 DEF RingOrder, IsPath
<1>2. \A q \in Seg : \E k \in 0 .. n : f[k] = q
  <2> SUFFICES ASSUME NEW q \in Seg, \A k \in 0 .. n : f[k] # q PROVE FALSE
    OBVIOUS
  <2>1. PICK p \in Seg : cell[p] = q
    BY DEF WholeRing
  <2>2. CASE \E j \in 0 .. n : f[j] = p
    <3>1. 0 \in 0 .. n
      OBVIOUS
    <3> QED  BY <1>1, <2>1, <2>2, <3>1
  <2>3. CASE \A j \in 0 .. n : f[j] # p
    <3>1. q = Empty
      BY <2>1, <2>3 DEF RingOrder, RestIsFree
    <3>2. q = f[0] /\ 0 \in 0 .. n
      BY <3>1 DEF RingOrder, IsPath
    <3> QED  BY <3>2
  <2> QED  BY <2>2, <2>3
<1>3. PICK j \in 0 .. n : f[j] = r
  BY <1>2
<1>4. PICK k \in 0 .. n : f[k] = s
  BY <1>2
<1>5. \A a, b \in 0 .. n : f[a] = f[b] => a = b
  BY DEF RingOrder, IsPath
<1>6. 0 \in 0 .. n /\ \A a \in 0 .. n : a + 1 # 0
  OBVIOUS
<1>7. CASE j = n /\ k = n
  BY <1>3, <1>4, <1>7
<1>8. CASE j # n /\ k # n
  <2>1. j + 1 \in 0 .. n /\ k + 1 \in 0 .. n /\ f[j + 1] = f[k + 1]
    BY <1>1, <1>3, <1>4, <1>8
  <2>2. j + 1 = k + 1
    BY <1>5, <2>1
  <2>3. j = k
    BY <2>2
  <2> QED  BY <1>3, <1>4, <2>3
<1>9. CASE j = n /\ k # n
  <2>1. k + 1 \in 0 .. n /\ f[k + 1] = f[0]
    BY <1>1, <1>3, <1>4, <1>9
  <2> QED  BY <1>5, <1>6, <2>1
<1>10. CASE j # n /\ k = n
  <2>1. j + 1 \in 0 .. n /\ f[j + 1] = f[0]
    BY <1>1, <1>3, <1>4, <1>10
  <2> QED  BY <1>5, <1>6, <2>1
<1> QED  BY <1>7, <1>8, <1>9, <1>10

LEMMA ParallelNext ==
  ASSUME IInv, LoadsAreParallel, [Next]_vars
  PROVE  LoadsAreParallel'
<1>1. ASSUME NEW s \in Seg, Link(s) \/ GiveUp(s) PROVE LoadsAreParallel'
  <2>1. pc' # "chase"
    BY <1>1 DEF Link, GiveUp
  <2> QED  BY <2>1 DEF LoadsAreParallel
<1>2. CASE Close
  BY <1>2 DEF Close, LoadsAreParallel
<1>3. CASE Chase
  <2> SUFFICES ASSUME WholeRing, NEW c \in Cursor, NEW d \in Cursor, at'[c] = at'[d]
               PROVE  c = d
    BY <1>3 DEF Chase, LoadsAreParallel, WholeRing
  <2>1. PICK n \in 0 .. nDone : \E f \in [0 .. n -> Seg] : RingOrder(f, n)
    BY <1>3 DEF Chase, IInv, Ring
  <2>2. PICK f \in [0 .. n -> Seg] : RingOrder(f, n)
    BY <2>1
  <2>3. at[c] \in Seg /\ at[d] \in Seg /\ n \in Nat
    BY DEF IInv, TypeOK
  <2>4. cell[at[c]] = cell[at[d]]
    BY <1>3 DEF Chase
  <2>5. at[c] = at[d]
    BY <2>2, <2>3, <2>4, WholeRingInjective DEF IInv, TypeOK
  <2> QED  BY <1>3, <2>5 DEF Chase, LoadsAreParallel
<1>4. CASE UNCHANGED vars
  BY <1>4 DEF vars, LoadsAreParallel, WholeRing
<1> QED  BY <1>1, <1>2, <1>3, <1>4 DEF Next

(* On a ring of every segment PRL loads stay PRL different loads.          *)
THEOREM StaysParallel == SafeSpec => []LoadsAreParallel
<1>1. Init => LoadsAreParallel
  BY DEF Init, LoadsAreParallel
<1>2. IInv /\ LoadsAreParallel /\ [Next]_vars => LoadsAreParallel'
  BY ParallelNext
<1> QED  BY <1>1, <1>2, Invariance, PTL DEF SafeSpec
=============================================================================

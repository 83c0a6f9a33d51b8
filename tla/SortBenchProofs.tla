-------------------------- MODULE SortBenchProofs --------------------------
(***************************************************************************)
(* Proofs about qs_recsv() for every length of the array and every set of  *)
(* values: no pointer leaves its range, every call is smaller than its     *)
(* caller, no value is lost, and, with the lengths of sortSpeed.cpp, the   *)
(* array is returned sorted.  Then about my_qsort_AVX2(): the partition in *)
(* assembly loses nothing, and the driver sorts.  And about radix_sort():  *)
(* the slots of a pass are the elements' own, and three passes sort.       *)
(***************************************************************************)
EXTENDS SortBench, TLAPS, FiniteSetTheorems

USE NAssumption, ValueAssumption, MiddleAssumption, CutAssumption

(* The calls still to be made have elements and lie side by side, from     *)
(* left to right, behind the running one.                                  *)
Apart ==
  /\ \A k \in 1 .. Len(todo) : todo[k][1] <= todo[k][2]
  /\ \A j, k \in 1 .. Len(todo) : j < k => todo[j][2] < todo[k][1]
  /\ pc # "call" => lo <= hi /\ \A k \in 1 .. Len(todo) : hi < todo[k][1]

(* What lies behind the two pointers is on its side of the pivot.  Either  *)
(* both have swapped an element, or the pivot is still between them.       *)
Parted ==
  pc # "call" =>
    /\ lo <= l /\ r <= hi
    /\ \A x \in Index : lo <= x /\ x < l => a[x] <= pivot
    /\ \A x \in Index : r < x /\ x <= hi => a[x] >= pivot
    /\ (l > lo /\ r < hi) \/ \E x \in Index : l <= x /\ x <= r /\ a[x] = pivot

(* Ahead of a running pointer there is an element that stops it: the pivot *)
(* in the first round, the element last swapped afterwards.                *)
Guarded ==
  /\ pc = "up" => \E x \in Index : l <= x /\ x <= hi /\ a[x] >= pivot
  /\ pc \in {"up", "down"} => \E x \in Index : lo <= x /\ x <= r /\ a[x] <= pivot
  /\ pc \in {"down", "meet"} => l <= hi /\ a[l] >= pivot
  /\ pc = "meet" => lo <= r /\ a[r] <= pivot
  /\ pc = "return" => r < l /\ lo < l /\ r < hi

IInv == TypeOK /\ Apart /\ Parted /\ Guarded

LEMMA Types ==
  ASSUME TypeOK
  PROVE  /\ Index = 0 .. N - 1 /\ Index \subseteq Int
         /\ a \in [Index -> Int] /\ pivot \in Int
         /\ lo \in Index /\ hi \in Index
         /\ lo \in Int /\ hi \in Int /\ l \in Int /\ r \in Int
         /\ todo \in Seq(Index \X Index) /\ Len(todo) \in Nat
         /\ \A k \in 1 .. Len(todo) : todo[k][1] \in Int /\ todo[k][2] \in Int
<1>1. Index = 0 .. N - 1 /\ Index \subseteq Int
  BY DEF Index
<1>2. /\ a \in [Index -> Value] /\ pivot \in Value
      /\ lo \in Index /\ hi \in Index /\ l \in Int /\ r \in Int
      /\ todo \in Seq(Index \X Index)
  BY DEF TypeOK
<1>3. a \in [Index -> Int] /\ pivot \in Int /\ lo \in Int /\ hi \in Int
  BY <1>1, <1>2
<1>4. \A k \in 1 .. Len(todo) : todo[k] \in Index \X Index
  BY <1>2
<1>5. \A k \in 1 .. Len(todo) : todo[k][1] \in Int /\ todo[k][2] \in Int
  BY <1>1, <1>4
<1> QED  BY <1>1, <1>2, <1>3, <1>5

LEMMA InitIInv == Init => IInv
<1> SUFFICES ASSUME Init PROVE IInv
  OBVIOUS
<1> USE DEF Init
<1>1. 0 \in Index /\ N - 1 \in Index /\ Index \subseteq Int
  BY DEF Index
<1>2. <<0, N - 1>> \in Index \X Index
  BY <1>1
<1>3. todo \in Seq(Index \X Index) /\ Len(todo) = 1 /\ todo[1] = <<0, N - 1>>
  BY <1>2
<1>4. input[0] \in Value
  BY <1>1
<1>5. TypeOK
  BY <1>1, <1>3, <1>4 DEF TypeOK
<1>6. Apart
  BY <1>3 DEF Apart
<1>7. Parted /\ Guarded
  BY DEF Parted, Guarded
<1> QED  BY <1>5, <1>6, <1>7 DEF IInv

LEMMA CallIInv == IInv /\ Call => IInv'
<1> SUFFICES ASSUME IInv, Call PROVE IInv'
  OBVIOUS
<1> DEFINE h == todo[1]
<1>1. /\ todo \in Seq(Index \X Index) /\ Len(todo) \in Nat /\ Len(todo) >= 1
      /\ todo' = Tail(todo) /\ h \in Index \X Index
      /\ lo' = h[1] /\ hi' = h[2] /\ l' = h[1] /\ r' = h[2]
      /\ a' = a /\ pc' = "up" /\ input' = input
  BY DEF Call, IInv, TypeOK
<1>2. h[1] \in Index /\ h[2] \in Index /\ Index \subseteq Int
  BY <1>1 DEF Index
<1>3. /\ todo' \in Seq(Index \X Index) /\ Len(todo') = Len(todo) - 1
      /\ \A k \in 1 .. Len(todo') : todo'[k] = todo[k + 1] /\ k + 1 \in 1 .. Len(todo)
  BY <1>1
<1>4. h[1] <= h[2]
  BY <1>1, 1 \in 1 .. Len(todo) DEF IInv, Apart
<1>c. PICK middle \in Middle : pivot' = a[PivotAt(middle, h[1], h[2])]
  BY <1>1 DEF Call
<1> DEFINE p == PivotAt(middle, h[1], h[2])
<1>7. p \in Index /\ h[1] <= p /\ p <= h[2]
  BY <1>2, <1>4 DEF PivotAt, Index
<1>a. a[p] \in Value /\ a[p] \in Int /\ pivot' = a[p]
  BY <1>c, <1>7 DEF IInv, TypeOK
<1> HIDE DEF p
<1>5. TypeOK'
  BY <1>1, <1>2, <1>3, <1>a DEF IInv, TypeOK
<1>6. Apart'
  <2>1. \A k \in 1 .. Len(todo') : todo'[k][1] <= todo'[k][2]
    BY <1>3 DEF IInv, Apart
  <2>2. \A j, k \in 1 .. Len(todo') : j < k => todo'[j][2] < todo'[k][1]
    BY <1>1, <1>3 DEF IInv, Apart
  <2>3. \A k \in 1 .. Len(todo') : hi' < todo'[k][1]
    BY <1>1, <1>3, 1 \in 1 .. Len(todo) DEF IInv, Apart
  <2> QED  BY <2>1, <2>2, <2>3, <1>1, <1>4 DEF Apart
<1>b. h[1] \in Int /\ h[2] \in Int
  BY <1>2
<1>8. Parted'
  BY <1>1, <1>2, <1>4, <1>7, <1>a, <1>b DEF Parted
<1>9. Guarded'
  <2>1. pc' = "up" /\ l' = h[1] /\ r' = h[2] /\ lo' = h[1] /\ hi' = h[2] /\ a' = a
    BY <1>1
  <2>2. a[p] >= pivot' /\ a[p] <= pivot'
    BY <1>a
  <2> QED  BY <2>1, <2>2, <1>7 DEF Guarded
<1> QED  BY <1>5, <1>6, <1>8, <1>9 DEF IInv

LEMMA UpIInv == IInv /\ Up => IInv'
<1> SUFFICES ASSUME IInv, Up PROVE IInv'
  OBVIOUS
<1>a. pc = "up" /\ Index \subseteq Int /\ Index = 0 .. N - 1
  BY DEF Up, Index
<1>b. /\ a \in [Index -> Int] /\ pivot \in Int
       /\ lo \in Index /\ hi \in Index /\ l \in Int /\ r \in Int
  BY DEF IInv, TypeOK
<1>c. l \in Index /\ l <= hi
  <2>1. PICK x \in Index : l <= x /\ x <= hi
    BY <1>a DEF IInv, Guarded
  <2>2. lo <= l
    BY <1>a DEF IInv, Parted
  <2> QED  BY <1>a, <1>b, <2>1, <2>2
<1>1. /\ pc = "up" /\ Index \subseteq Int /\ l \in Index /\ l <= hi
      /\ a \in [Index -> Int] /\ pivot \in Int /\ lo \in Int /\ hi \in Int /\ r \in Int
  BY <1>a, <1>b, <1>c
<1>2. a[l] \in Int
  BY <1>1
<1>3. UNCHANGED <<input, a, todo, lo, hi, r, pivot>>
  BY DEF Up
<1>4. CASE a[l] < pivot
  <2>1. l' = l + 1 /\ pc' = "up"
    BY <1>1, <1>4 DEF Up
  <2>2. TypeOK' /\ Apart'
    BY <1>1, <1>3, <2>1 DEF IInv, TypeOK, Apart
  <2>3. (l + 1 > lo /\ r < hi) \/ \E x \in Index : l + 1 <= x /\ x <= r /\ a[x] = pivot
    <3>1. CASE l > lo /\ r < hi
      BY <1>1, <3>1
    <3>2. CASE \E x \in Index : l <= x /\ x <= r /\ a[x] = pivot
      <4>1. PICK x \in Index : l <= x /\ x <= r /\ a[x] = pivot
        BY <3>2
      <4>2. x # l /\ x \in Int
        BY <1>1, <1>4, <4>1
      <4> QED  BY <1>1, <4>1, <4>2
    <3> QED  BY <1>1, <3>1, <3>2 DEF IInv, Parted
  <2>4. lo <= l + 1 /\ \A x \in Index : lo <= x /\ x < l + 1 => a[x] <= pivot
    <3>1. \A x \in Index : lo <= x /\ x < l => a[x] <= pivot
      BY <1>1 DEF IInv, Parted
    <3>2. \A x \in Index : x < l + 1 => x < l \/ x = l
      BY <1>1
    <3> QED  BY <1>1, <1>2, <1>4, <3>1, <3>2 DEF IInv, Parted
  <2>c. Parted'
    BY <1>1, <1>3, <2>1, <2>3, <2>4 DEF IInv, Parted
  <2>5. PICK x \in Index : l <= x /\ x <= hi /\ a[x] >= pivot
    BY <1>1 DEF IInv, Guarded
  <2>6. x # l
    BY <1>1, <1>2, <1>4, <2>5
  <2>7. l + 1 <= x
    BY <1>1, <2>5, <2>6
  <2>8. Guarded'
    BY <1>1, <1>3, <2>1, <2>5, <2>7 DEF IInv, Guarded
  <2> QED  BY <2>2, <2>c, <2>8 DEF IInv
<1>5. CASE ~(a[l] < pivot)
  <2>1. l' = l /\ pc' = "down"
    BY <1>1, <1>5 DEF Up
  <2>2. TypeOK' /\ Apart' /\ Parted'
    BY <1>1, <1>3, <2>1 DEF IInv, TypeOK, Apart, Parted
  <2>3. a[l] >= pivot
    BY <1>1, <1>2, <1>5
  <2>4. Guarded'
    BY <1>1, <1>3, <2>1, <2>3 DEF IInv, Guarded
  <2> QED  BY <2>2, <2>4 DEF IInv
<1> QED  BY <1>4, <1>5

LEMMA DownIInv == IInv /\ Down => IInv'
<1> SUFFICES ASSUME IInv, Down PROVE IInv'
  OBVIOUS
<1>a. pc = "down" /\ Index \subseteq Int /\ Index = 0 .. N - 1
  BY DEF Down, Index
<1>b. /\ a \in [Index -> Int] /\ pivot \in Int
       /\ lo \in Index /\ hi \in Index /\ l \in Int /\ r \in Int
  BY DEF IInv, TypeOK
<1>c. r \in Index /\ lo <= r
  <2>1. PICK x \in Index : lo <= x /\ x <= r
    BY <1>a DEF IInv, Guarded
  <2>2. r <= hi
    BY <1>a DEF IInv, Parted
  <2> QED  BY <1>a, <1>b, <2>1, <2>2
<1>1. /\ pc = "down" /\ Index \subseteq Int /\ r \in Index /\ lo <= r
      /\ a \in [Index -> Int] /\ pivot \in Int /\ lo \in Int /\ hi \in Int /\ l \in Int
  BY <1>a, <1>b, <1>c
<1>2. a[r] \in Int
  BY <1>1
<1>3. UNCHANGED <<input, a, todo, lo, hi, l, pivot>>
  BY DEF Down
<1>4. CASE a[r] > pivot
  <2>1. r' = r - 1 /\ pc' = "down"
    BY <1>1, <1>4 DEF Down
  <2>2. TypeOK' /\ Apart'
    BY <1>1, <1>3, <2>1 DEF IInv, TypeOK, Apart
  <2>3. (l > lo /\ r - 1 < hi) \/ \E x \in Index : l <= x /\ x <= r - 1 /\ a[x] = pivot
    <3>1. CASE l > lo /\ r < hi
      BY <1>1, <3>1
    <3>2. CASE \E x \in Index : l <= x /\ x <= r /\ a[x] = pivot
      <4>1. PICK x \in Index : l <= x /\ x <= r /\ a[x] = pivot
        BY <3>2
      <4>2. x # r /\ x \in Int
        BY <1>1, <1>4, <4>1
      <4> QED  BY <1>1, <4>1, <4>2
    <3> QED  BY <1>1, <3>1, <3>2 DEF IInv, Parted
  <2>a. r - 1 <= hi /\ \A x \in Index : r - 1 < x /\ x <= hi => a[x] >= pivot
    <3>1. r <= hi /\ \A x \in Index : r < x /\ x <= hi => a[x] >= pivot
      BY <1>1 DEF IInv, Parted
    <3>2. \A x \in Index : r - 1 < x => r < x \/ x = r
      BY <1>1
    <3> QED  BY <1>1, <1>2, <1>4, <3>1, <3>2
  <2>4. Parted'
    BY <1>1, <1>3, <2>1, <2>3, <2>a DEF IInv, Parted
  <2>5. PICK x \in Index : lo <= x /\ x <= r /\ a[x] <= pivot
    BY <1>1 DEF IInv, Guarded
  <2>6. x # r
    BY <1>1, <1>2, <1>4, <2>5
  <2>7. x <= r - 1
    BY <1>1, <2>5, <2>6
  <2>8. Guarded'
    BY <1>1, <1>3, <2>1, <2>5, <2>7 DEF IInv, Guarded
  <2> QED  BY <2>2, <2>4, <2>8 DEF IInv
<1>5. CASE ~(a[r] > pivot)
  <2>1. r' = r /\ pc' = "meet"
    BY <1>1, <1>5 DEF Down
  <2>2. TypeOK' /\ Apart' /\ Parted'
    BY <1>1, <1>3, <2>1 DEF IInv, TypeOK, Apart, Parted
  <2>3. a[r] <= pivot
    BY <1>1, <1>2, <1>5
  <2>4. Guarded'
    BY <1>1, <1>3, <2>1, <2>3 DEF IInv, Guarded
  <2> QED  BY <2>2, <2>4 DEF IInv
<1> QED  BY <1>4, <1>5

(* What the swap leaves where.                                             *)
LEMMA Swapped ==
  ASSUME IInv, Meet, l <= r
  PROVE  /\ l \in Index /\ r \in Index /\ lo \in Index /\ hi \in Index
         /\ lo <= l /\ l <= r /\ r <= hi
         /\ a[r] <= pivot /\ a[l] >= pivot
         /\ l' = l + 1 /\ r' = r - 1
         /\ a' \in [Index -> Value]
         /\ a'[l] = a[r] /\ a'[r] = a[l]
         /\ \A x \in Index : x # l /\ x # r => a'[x] = a[x]
<1>1. /\ pc = "meet" /\ Index = 0 .. N - 1 /\ a \in [Index -> Value]
      /\ lo \in Index /\ hi \in Index /\ l \in Int /\ r \in Int
  BY DEF Meet, Index, IInv, TypeOK
<1>2. lo <= l /\ r <= hi /\ a[r] <= pivot /\ a[l] >= pivot
  BY <1>1 DEF IInv, Parted, Guarded
<1>3. l \in Index /\ r \in Index
  BY <1>1, <1>2
<1>4. a' = [a EXCEPT ![l] = a[r], ![r] = a[l]] /\ l' = l + 1 /\ r' = r - 1
  BY DEF Meet
<1> QED  BY <1>1, <1>2, <1>3, <1>4

LEMMA MeetIInv == IInv /\ Meet => IInv'
<1> SUFFICES ASSUME IInv, Meet PROVE IInv'
  OBVIOUS
<1>a. pc = "meet" /\ Index = 0 .. N - 1 /\ Index \subseteq Int
  BY DEF Meet, Index
<1>b. /\ a \in [Index -> Int] /\ pivot \in Int
      /\ lo \in Index /\ hi \in Index /\ l \in Int /\ r \in Int
  BY DEF IInv, TypeOK
<1>1. /\ pc = "meet" /\ Index = 0 .. N - 1 /\ Index \subseteq Int
      /\ a \in [Index -> Int] /\ pivot \in Int
      /\ lo \in Index /\ hi \in Index /\ l \in Int /\ r \in Int
  BY <1>a, <1>b
<1>2. UNCHANGED <<input, todo, lo, hi, pivot>>
  BY DEF Meet
<1>3. CASE l <= r
  <2>1. /\ l \in Index /\ r \in Index
        /\ lo <= l /\ r <= hi
        /\ a[r] <= pivot /\ a[l] >= pivot
        /\ l' = l + 1 /\ r' = r - 1
        /\ a' \in [Index -> Value]
        /\ a'[l] = a[r] /\ a'[r] = a[l]
        /\ \A x \in Index : x # l /\ x # r => a'[x] = a[x]
    BY <1>3, Swapped
  <2>2. pc' = IF l' <= r' THEN "up" ELSE "return"
    BY DEF Meet
  <2>3. TypeOK'
    BY <1>1, <1>2, <2>1, <2>2 DEF IInv, TypeOK
  <2>4. Apart'
    BY <1>1, <1>2, <2>2 DEF IInv, Apart
  <2>5. \A x \in Index : lo <= x /\ x < l' => a'[x] <= pivot
    <3> SUFFICES ASSUME NEW x \in Index, lo <= x, x < l' PROVE a'[x] <= pivot
      OBVIOUS
    <3>1. CASE x = l
      BY <2>1, <3>1
    <3>2. CASE x # l
      <4>1. x < l /\ x # r
        BY <1>1, <1>3, <2>1, <3>2
      <4>2. a[x] <= pivot
        BY <1>1, <4>1 DEF IInv, Parted
      <4> QED  BY <2>1, <4>1, <4>2
    <3> QED  BY <3>1, <3>2
  <2>6. \A x \in Index : r' < x /\ x <= hi => a'[x] >= pivot
    <3> SUFFICES ASSUME NEW x \in Index, r' < x, x <= hi PROVE a'[x] >= pivot
      OBVIOUS
    <3>1. CASE x = r
      BY <2>1, <3>1
    <3>2. CASE x # r
      <4>1. r < x /\ x # l
        BY <1>1, <1>3, <2>1, <3>2
      <4>2. a[x] >= pivot
        BY <1>1, <4>1 DEF IInv, Parted
      <4> QED  BY <2>1, <4>1, <4>2
    <3> QED  BY <3>1, <3>2
  <2>7. Parted'
    BY <1>1, <1>2, <2>1, <2>5, <2>6 DEF Parted
  <2>8. Guarded'
    BY <1>1, <1>2, <1>3, <2>1, <2>2 DEF Guarded
  <2> QED  BY <2>3, <2>4, <2>7, <2>8 DEF IInv
<1>4. CASE ~(l <= r)
  <2>1. UNCHANGED <<a, l, r>>
    BY <1>4 DEF Meet
  <2>2. pc' = "return"
    BY <1>4, <2>1 DEF Meet
  <2>3. TypeOK' /\ Apart' /\ Parted'
    BY <1>1, <1>2, <2>1, <2>2 DEF IInv, TypeOK, Apart, Parted
  <2>4. ~ \E x \in Index : l <= x /\ x <= r /\ a[x] = pivot
    BY <1>1, <1>4
  <2>5. l > lo /\ r < hi
    BY <1>1, <2>4 DEF IInv, Parted
  <2>6. Guarded'
    BY <1>1, <1>2, <1>4, <2>1, <2>2, <2>5 DEF Guarded
  <2> QED  BY <2>3, <2>6 DEF IInv
<1> QED  BY <1>3, <1>4

LEMMA Concatenated ==
  ASSUME NEW S, NEW s \in Seq(S), NEW t \in Seq(S)
  PROVE  /\ s \o t \in Seq(S) /\ Len(s \o t) = Len(s) + Len(t)
         /\ \A k \in 1 .. Len(s \o t) :
              (s \o t)[k] = IF k <= Len(s) THEN s[k] ELSE t[k - Len(s)]
OBVIOUS

(* The calls to be made after a partition, by number: first its own parts, *)
(* then the ones that were there.                                          *)
New == LeftPart \o RightPart

LEMMA Parts ==
  ASSUME IInv, Return
  PROVE  /\ todo' \in Seq(Index \X Index)
         /\ Len(New) \in 0 .. 2 /\ Len(todo') = Len(New) + Len(todo)
         /\ \A k \in 1 .. Len(New) :
              /\ todo'[k] = New[k]
              /\ \/ New[k] = <<lo, r - Cut>> /\ lo < r /\ k = 1
                 \/ New[k] = <<l, hi - Cut>> /\ l < hi /\ k = Len(New)
         /\ \A k \in 1 .. Len(todo') : k > Len(New) =>
              k - Len(New) \in 1 .. Len(todo) /\ todo'[k] = todo[k - Len(New)]
         /\ lo < r => 1 \in 1 .. Len(New) /\ New[1] = <<lo, r - Cut>>
         /\ l < hi => Len(New) \in 1 .. Len(New) /\ New[Len(New)] = <<l, hi - Cut>>
<1>1. /\ pc = "return" /\ Index = 0 .. N - 1
      /\ lo \in Index /\ hi \in Index /\ l \in Int /\ r \in Int
      /\ todo \in Seq(Index \X Index)
  BY DEF Return, Index, IInv, TypeOK
<1>2. r < l /\ lo < l /\ r < hi
  BY <1>1 DEF IInv, Guarded
<1>3. lo < r => <<lo, r - Cut>> \in Index \X Index
  BY <1>1, <1>2
<1>4. l < hi => <<l, hi - Cut>> \in Index \X Index
  BY <1>1, <1>2
<1>5. /\ LeftPart \in Seq(Index \X Index) /\ RightPart \in Seq(Index \X Index)
      /\ Len(LeftPart) = (IF lo < r THEN 1 ELSE 0)
      /\ Len(RightPart) = (IF l < hi THEN 1 ELSE 0)
      /\ lo < r => LeftPart[1] = <<lo, r - Cut>>
      /\ l < hi => RightPart[1] = <<l, hi - Cut>>
  BY <1>3, <1>4 DEF LeftPart, RightPart
<1>6. /\ New \in Seq(Index \X Index)
      /\ Len(New) = Len(LeftPart) + Len(RightPart)
      /\ \A k \in 1 .. Len(New) :
           New[k] = IF k <= Len(LeftPart) THEN LeftPart[k] ELSE RightPart[k - Len(LeftPart)]
  BY <1>5, Concatenated DEF New
<1>7. todo' = New \o todo
  BY <1>1, <1>5 DEF Return, New
<1>8. Len(New) \in 0 .. 2
  BY <1>5, <1>6
<1>9. ASSUME NEW k \in 1 .. Len(New)
      PROVE  \/ New[k] = <<lo, r - Cut>> /\ lo < r /\ k = 1
             \/ New[k] = <<l, hi - Cut>> /\ l < hi /\ k = Len(New)
  <2>1. CASE lo < r /\ k = 1
    BY <1>5, <1>6, <2>1
  <2>2. CASE ~(lo < r /\ k = 1)
    <3>1. /\ Len(LeftPart) = (IF lo < r THEN 1 ELSE 0)
          /\ Len(New) = Len(LeftPart) + (IF l < hi THEN 1 ELSE 0)
      BY <1>5, <1>6
    <3>2. l < hi /\ k = Len(New) /\ ~(k <= Len(LeftPart)) /\ k - Len(LeftPart) = 1
      BY <2>2, <3>1
    <3> QED  BY <1>5, <1>6, <3>2
  <2> QED  BY <2>1, <2>2
<1>10. /\ todo' \in Seq(Index \X Index) /\ Len(todo') = Len(New) + Len(todo)
       /\ \A k \in 1 .. Len(todo') :
            todo'[k] = IF k <= Len(New) THEN New[k] ELSE todo[k - Len(New)]
  BY <1>1, <1>6, <1>7, Concatenated
<1>11. Len(todo) \in Nat
  BY <1>1
<1>12. \A k \in 1 .. Len(New) : k \in 1 .. Len(todo') /\ todo'[k] = New[k]
  BY <1>8, <1>10, <1>11
<1>13. \A k \in 1 .. Len(todo') : k > Len(New) =>
         k - Len(New) \in 1 .. Len(todo) /\ todo'[k] = todo[k - Len(New)]
  BY <1>8, <1>10, <1>11
<1>14. ASSUME lo < r PROVE 1 \in 1 .. Len(New) /\ New[1] = <<lo, r - Cut>>
  <2>1. Len(LeftPart) = 1 /\ LeftPart[1] = <<lo, r - Cut>> /\ Len(RightPart) \in Nat
    BY <1>5, <1>14
  <2> QED  BY <1>6, <2>1
<1>15. ASSUME l < hi PROVE Len(New) \in 1 .. Len(New) /\ New[Len(New)] = <<l, hi - Cut>>
  <2>1. Len(RightPart) = 1 /\ RightPart[1] = <<l, hi - Cut>> /\ Len(LeftPart) \in Nat
    BY <1>5, <1>15
  <2> QED  BY <1>6, <2>1
<1> QED  BY <1>8, <1>9, <1>10, <1>12, <1>13, <1>14, <1>15

LEMMA ReturnIInv == IInv /\ Return => IInv'
<1> SUFFICES ASSUME IInv, Return PROVE IInv'
  OBVIOUS
<1>1. /\ pc = "return" /\ Index = 0 .. N - 1 /\ Index \subseteq Int
      /\ lo \in Int /\ hi \in Int /\ l \in Int /\ r \in Int
      /\ Len(todo) \in Nat /\ pc' = "call" /\ r < l
      /\ UNCHANGED <<input, a, lo, hi, l, r, pivot>>
  BY DEF Return, Index, IInv, TypeOK, Guarded
<1>2. /\ lo < l /\ r < hi /\ Cut \in {0, 1}
      /\ \A k \in 1 .. Len(todo) : hi < todo[k][1]
  BY <1>1 DEF IInv, Guarded, Apart
<1>3. TypeOK'
  BY <1>1, Parts DEF IInv, TypeOK
<1>4. Parted' /\ Guarded'
  BY <1>1 DEF Parted, Guarded
<1>5. \A k \in 1 .. Len(todo') : todo'[k] \in Int \X Int
  BY <1>1, Parts
<1>6. ASSUME NEW k \in 1 .. Len(todo') PROVE todo'[k][1] <= todo'[k][2]
  <2>1. CASE k > Len(New)
    BY <1>1, <2>1, Parts DEF IInv, Apart
  <2>2. CASE ~(k > Len(New))
    <3>1. k \in 1 .. Len(New)
      BY <2>2, Parts
    <3>2. \/ todo'[k] = <<lo, r - Cut>> /\ lo < r /\ k = 1
          \/ todo'[k] = <<l, hi - Cut>> /\ l < hi /\ k = Len(New)
      BY <3>1, Parts
    <3> QED  BY <1>1, <1>2, <3>2
  <2> QED  BY <2>1, <2>2
<1>7. ASSUME NEW j \in 1 .. Len(todo'), NEW k \in 1 .. Len(todo'), j < k
      PROVE  todo'[j][2] < todo'[k][1]
  <2>1. CASE j > Len(New)
    <3>1. /\ k > Len(New) /\ j - Len(New) < k - Len(New)
          /\ j - Len(New) \in 1 .. Len(todo) /\ todo'[j] = todo[j - Len(New)]
      BY <1>7, <2>1, Parts
    <3>2. k - Len(New) \in 1 .. Len(todo) /\ todo'[k] = todo[k - Len(New)]
      BY <3>1, Parts
    <3> QED  BY <3>1, <3>2 DEF IInv, Apart
  <2>2. CASE ~(j > Len(New))
    <3>1. j \in 1 .. Len(New)
      BY <2>2, Parts
    <3>2. \/ todo'[j] = <<lo, r - Cut>> /\ lo < r /\ j = 1
          \/ todo'[j] = <<l, hi - Cut>> /\ l < hi /\ j = Len(New)
      BY <3>1, Parts
    <3>3. CASE k > Len(New)
      <4>1. todo'[j][2] <= hi
        BY <1>1, <1>2, <3>2
      <4>2. hi < todo'[k][1]
        BY <1>2, <3>3, Parts
      <4> QED  BY <1>1, <1>5, <4>1, <4>2
    <3>4. CASE ~(k > Len(New))
      <4>1. k \in 1 .. Len(New) /\ Len(New) \in Int
        BY <3>4, Parts
      <4>2. \/ todo'[k] = <<lo, r - Cut>> /\ lo < r /\ k = 1
            \/ todo'[k] = <<l, hi - Cut>> /\ l < hi /\ k = Len(New)
        BY <4>1, Parts
      <4>3. todo'[j] = <<lo, r - Cut>> /\ todo'[k] = <<l, hi - Cut>>
        BY <1>7, <3>1, <3>2, <4>1, <4>2
      <4> QED  BY <1>1, <1>2, <4>3
    <3> QED  BY <3>3, <3>4
  <2> QED  BY <2>1, <2>2
<1>8. Apart'
  BY <1>1, <1>6, <1>7 DEF Apart
<1> QED  BY <1>3, <1>4, <1>8 DEF IInv

LEMMA StepIInv == IInv /\ [Next]_vars => IInv'
<1> SUFFICES ASSUME IInv, [Next]_vars PROVE IInv'
  OBVIOUS
<1>1. CASE UNCHANGED vars
  BY <1>1 DEF vars, IInv, TypeOK, Apart, Parted, Guarded
<1> QED  BY <1>1, CallIInv, UpIInv, DownIInv, MeetIInv, ReturnIInv DEF Next, Finished

THEOREM Invariance == SafeSpec => []IInv
BY InitIInv, StepIInv, PTL DEF SafeSpec

-----------------------------------------------------------------------------
(* No variable leaves its type (qs_recsv, l.126-157).                      *)
THEOREM TypeCorrect == SafeSpec => []TypeOK
<1>1. IInv => TypeOK
  BY DEF IInv
<1> QED  BY <1>1, Invariance, PTL

(* Neither pointer reads outside its call's range (l.103, l.107).          *)
THEOREM NoOverrun == SafeSpec => []ReadsInRange
<1>1. ASSUME IInv PROVE ReadsInRange
  <2>1. lo \in Int /\ hi \in Int /\ l \in Int /\ r \in Int /\ Index \subseteq Int
    BY <1>1 DEF IInv, TypeOK, Index
  <2>2. ASSUME pc = "up" PROVE l \in lo .. hi
    <3>1. lo <= l
      BY <1>1, <2>2 DEF IInv, Parted
    <3>2. PICK x \in Index : l <= x /\ x <= hi
      BY <1>1, <2>2 DEF IInv, Guarded
    <3> QED  BY <2>1, <3>1, <3>2
  <2>3. ASSUME pc = "down" PROVE r \in lo .. hi
    <3>1. r <= hi
      BY <1>1, <2>3 DEF IInv, Parted
    <3>2. PICK x \in Index : lo <= x /\ x <= r
      BY <1>1, <2>3 DEF IInv, Guarded
    <3> QED  BY <2>1, <3>1, <3>2
  <2> QED  BY <2>2, <2>3 DEF ReadsInRange
<1> QED  BY <1>1, Invariance, PTL

(* A recursive call is smaller than its caller (l.143, l.151).             *)
THEOREM CallsShrink == SafeSpec => []CallsAreSmaller
<1>1. ASSUME IInv, pc = "return" PROVE hi - l < hi - lo /\ r - lo < hi - lo
  <2>1. lo \in Int /\ hi \in Int /\ l \in Int /\ r \in Int
    BY <1>1 DEF IInv, TypeOK, Index
  <2>2. lo < l /\ r < hi
    BY <1>1 DEF IInv, Guarded
  <2> QED  BY <2>1, <2>2
<1>2. IInv => CallsAreSmaller
  BY <1>1 DEF CallsAreSmaller
<1> QED  BY <1>2, Invariance, PTL

-----------------------------------------------------------------------------
(* Permutations.  A step is a permutation of the array.                    *)
LEMMA InitKeeps == Init => KeepsValues
<1> SUFFICES ASSUME Init PROVE KeepsValues
  OBVIOUS
<1> DEFINE id == [i \in Index |-> i]
<1>1. id \in Promise!Permutation
  BY DEF Promise!Permutation, Promise!Index, Index
<1>2. a = [i \in Index |-> input[id[i]]]
  BY DEF Init
<1> QED  BY <1>1, <1>2 DEF KeepsValues, Promise!Permuted, Promise!Index, Index

LEMMA MeetKeeps == IInv /\ KeepsValues /\ Meet => KeepsValues'
<1> SUFFICES ASSUME IInv, KeepsValues, Meet PROVE KeepsValues'
  OBVIOUS
<1>1. PICK p \in Promise!Permutation : a = [i \in Index |-> input[p[i]]]
  BY DEF KeepsValues, Promise!Permuted, Promise!Index, Index
<1>2. input' = input
  BY DEF Meet
<1>3. CASE l <= r
  <2> DEFINE q == [p EXCEPT ![l] = p[r], ![r] = p[l]]
  <2>1. /\ l \in Index /\ r \in Index
        /\ a' \in [Index -> Value] /\ a'[l] = a[r] /\ a'[r] = a[l]
        /\ \A x \in Index : x # l /\ x # r => a'[x] = a[x]
    BY <1>3, Swapped
  <2>2. p \in [Index -> Index] /\ \A w \in Index : \E v \in Index : p[v] = w
    BY DEF Promise!Permutation, Promise!Index, Index
  <2>3. /\ q \in [Index -> Index] /\ q[l] = p[r] /\ q[r] = p[l]
        /\ \A x \in Index : x # l /\ x # r => q[x] = p[x]
    BY <2>1, <2>2
  <2>4. ASSUME NEW w \in Index PROVE \E v \in Index : q[v] = w
    <3>1. PICK v \in Index : p[v] = w
      BY <2>2
    <3>2. CASE v = l
      BY <2>1, <2>3, <3>1, <3>2
    <3>3. CASE v = r
      BY <2>1, <2>3, <3>1, <3>3
    <3>4. CASE v # l /\ v # r
      BY <2>3, <3>1, <3>4
    <3> QED  BY <3>2, <3>3, <3>4
  <2>5. q \in Promise!Permutation
    BY <2>3, <2>4 DEF Promise!Permutation, Promise!Index, Index
  <2>6. ASSUME NEW i \in Index PROVE a'[i] = input[q[i]]
    <3>1. CASE i = l
      BY <1>1, <2>1, <2>3, <3>1
    <3>2. CASE i = r
      BY <1>1, <2>1, <2>3, <3>2
    <3>3. CASE i # l /\ i # r
      BY <1>1, <2>1, <2>3, <3>3
    <3> QED  BY <3>1, <3>2, <3>3
  <2>7. a' = [i \in Index |-> input'[q[i]]]
    BY <1>2, <2>1, <2>6
  <2> QED  BY <2>5, <2>7 DEF KeepsValues, Promise!Permuted, Promise!Index, Index
<1>4. CASE ~(l <= r)
  <2>1. a' = a
    BY <1>4 DEF Meet
  <2> QED  BY <1>2, <2>1 DEF KeepsValues, Promise!Permuted, Promise!Index
<1> QED  BY <1>3, <1>4

LEMMA StepKeeps == IInv /\ KeepsValues /\ [Next]_vars => KeepsValues'
<1> SUFFICES ASSUME IInv, KeepsValues, [Next]_vars PROVE KeepsValues'
  OBVIOUS
<1>1. CASE Meet
  BY <1>1, MeetKeeps
<1>2. CASE ~Meet
  <2>1. UNCHANGED <<input, a>>
    BY <1>2 DEF Next, vars, Call, Up, Down, Return
  <2> QED  BY <2>1 DEF KeepsValues, Promise!Permuted, Promise!Index
<1> QED  BY <1>1, <1>2

(* The array always holds the values it was given (l.112-114).             *)
THEOREM NothingIsLost == SafeSpec => []KeepsValues
<1>1. SafeSpec => [](IInv /\ KeepsValues)
  BY Invariance, InitKeeps, StepKeeps, PTL DEF SafeSpec
<1> QED  BY <1>1, PTL

-----------------------------------------------------------------------------
(* Order, with the lengths of sortSpeed.cpp.                               *)
Inverted(x, y) == x < y /\ a[x] > a[y]
Pending(x, y) ==
  \/ pc # "call" /\ Within(x, y, lo, hi)
  \/ \E k \in 1 .. Len(todo) : Within(x, y, todo[k][1], todo[k][2])

LEMMA InitRest == Init => RestIsSorted
<1> SUFFICES ASSUME Init, NEW x \in Index, NEW y \in Index
             PROVE  \E k \in 1 .. Len(todo) : Within(x, y, todo[k][1], todo[k][2])
  BY DEF RestIsSorted
<1>1. Len(todo) = 1 /\ todo[1] = <<0, N - 1>> /\ 1 \in 1 .. Len(todo)
  BY DEF Init
<1>2. Within(x, y, todo[1][1], todo[1][2])
  BY <1>1 DEF Within, Index
<1> QED  BY <1>1, <1>2

LEMMA CallRest == IInv /\ RestIsSorted /\ Call => RestIsSorted'
<1> SUFFICES ASSUME IInv, RestIsSorted, Call, NEW x \in Index, NEW y \in Index,
                    Inverted(x, y)'
             PROVE  Pending(x, y)'
  BY DEF RestIsSorted, Inverted, Pending
<1>1. /\ a' = a /\ pc = "call" /\ pc' = "up"
      /\ lo' = todo[1][1] /\ hi' = todo[1][2] /\ todo' = Tail(todo) /\ todo # <<>>
  BY DEF Call, IInv, TypeOK
<1>2. /\ Len(todo') = Len(todo) - 1 /\ Len(todo) \in Nat
      /\ \A k \in 1 .. Len(todo') : todo'[k] = todo[k + 1]
  BY <1>1 DEF IInv, TypeOK
<1>3. PICK k \in 1 .. Len(todo) : Within(x, y, todo[k][1], todo[k][2])
  BY <1>1 DEF RestIsSorted, Inverted
<1>4. CASE k = 1
  BY <1>1, <1>3, <1>4 DEF Pending
<1>5. CASE k # 1
  <2>1. k - 1 \in 1 .. Len(todo') /\ todo'[k - 1] = todo[k]
    BY <1>2, <1>5
  <2> QED  BY <1>3, <2>1 DEF Pending
<1> QED  BY <1>4, <1>5

LEMMA MeetRest == IInv /\ RestIsSorted /\ Meet => RestIsSorted'
<1> SUFFICES ASSUME IInv, RestIsSorted, Meet, NEW x \in Index, NEW y \in Index,
                    Inverted(x, y)', ~Pending(x, y)'
             PROVE  FALSE
  BY DEF RestIsSorted, Inverted, Pending
<1>1. /\ pc = "meet" /\ pc' # "call" /\ UNCHANGED <<todo, lo, hi>>
      /\ Index \subseteq Int /\ a \in [Index -> Int]
  BY Types DEF Meet, IInv
<1>2. ~Within(x, y, lo, hi) /\ ~Pending(x, y)
  BY <1>1 DEF Pending, Within
<1>3. ASSUME NEW u \in Index, NEW v \in Index, u < v, ~Pending(u, v)
      PROVE  a[u] <= a[v]
  <2>1. ~(a[u] > a[v])
    BY <1>3 DEF RestIsSorted, Pending
  <2> QED  BY <1>1, <2>1
<1>4. CASE l <= r
  <2>1. /\ l \in Index /\ r \in Index /\ lo \in Index /\ hi \in Index
        /\ lo <= l /\ l <= r /\ r <= hi
        /\ a'[l] = a[r] /\ a'[r] = a[l]
        /\ \A z \in Index : z # l /\ z # r => a'[z] = a[z]
    BY <1>4, Swapped
  <2>2. x < y /\ a'[x] > a'[y]
    BY DEF Inverted
  <2>3. PICK u \in Index : a'[x] = a[u] /\ IF x \in {l, r} THEN u \in {l, r} ELSE u = x
    BY <2>1
  <2>4. PICK v \in Index : a'[y] = a[v] /\ IF y \in {l, r} THEN v \in {l, r} ELSE v = y
    BY <2>1
  <2>5. ~(lo <= x /\ y <= hi)
    BY <1>2 DEF Within
  <2>6. u < v /\ (lo <= x <=> lo <= u) /\ (y <= hi <=> v <= hi)
    BY <1>1, <2>1, <2>2, <2>3, <2>4, <2>5
  <2>7. ASSUME NEW k \in 1 .. Len(todo) PROVE ~Within(u, v, todo[k][1], todo[k][2])
    <3>1. hi < todo[k][1] /\ todo[k][1] \in Int /\ todo[k][2] \in Int
      BY <1>1, Types DEF IInv, Apart
    <3>2. ~Within(x, y, todo[k][1], todo[k][2])
      BY <1>2 DEF Pending
    <3>3. u = x \/ u <= hi
      BY <1>1, <2>1, <2>3
    <3>4. v = y \/ (v <= hi /\ u < v)
      BY <1>1, <2>1, <2>4, <2>6
    <3>5. x \in Int /\ y \in Int /\ u \in Int /\ v \in Int /\ hi \in Int
      BY <1>1, <2>1
    <3>6. ~(todo[k][1] <= u /\ v <= todo[k][2])
      BY <3>1, <3>2, <3>3, <3>4, <3>5 DEF Within
    <3> QED  BY <3>6 DEF Within
  <2>8. ~Pending(u, v)
    BY <2>5, <2>6, <2>7 DEF Pending, Within
  <2>9. a[u] <= a[v]
    BY <1>3, <2>6, <2>8
  <2> QED  BY <1>1, <2>2, <2>3, <2>4, <2>9
<1>5. CASE ~(l <= r)
  <2>1. a' = a
    BY <1>5 DEF Meet
  <2> QED  BY <1>1, <1>2, <1>3, <2>1 DEF Inverted
<1> QED  BY <1>4, <1>5

(* A pair that the partition leaves out of order lies in one of its parts. *)
LEMMA ReturnRest ==
  ASSUME Cut = 0, IInv, RestIsSorted, Return
  PROVE  RestIsSorted'
<1> SUFFICES ASSUME NEW x \in Index, NEW y \in Index, Inverted(x, y)'
             PROVE  \E k \in 1 .. Len(todo') : Within(x, y, todo'[k][1], todo'[k][2])
  BY DEF RestIsSorted, Inverted
<1>1. /\ pc = "return" /\ a' = a /\ todo' = LeftPart \o RightPart \o todo
      /\ Index \subseteq Int /\ a \in [Index -> Int] /\ pivot \in Int
      /\ lo \in Int /\ hi \in Int /\ l \in Int /\ r \in Int
      /\ todo \in Seq(Index \X Index) /\ Len(todo) \in Nat
  BY Types DEF Return, IInv
<1>2. x < y /\ a[x] > a[y] /\ x \in Int /\ y \in Int
  BY <1>1 DEF Inverted
<1>a. /\ Len(todo') = Len(New) + Len(todo) /\ Len(New) \in Nat
      /\ \A k \in 1 .. Len(todo') : k > Len(New) => todo'[k] = todo[k - Len(New)]
      /\ \A k \in 1 .. Len(New) : todo'[k] = New[k]
  BY Parts
<1>b. \A k \in 1 .. Len(New) : k \in 1 .. Len(todo')
  BY <1>1, <1>a
<1>3. /\ Len(todo') = Len(New) + Len(todo) /\ Len(New) \in Nat
      /\ \A k \in 1 .. Len(todo') : k > Len(New) => todo'[k] = todo[k - Len(New)]
      /\ \A k \in 1 .. Len(New) : todo'[k] = New[k] /\ k \in 1 .. Len(todo')
  BY <1>a, <1>b
<1>4. CASE \E k \in 1 .. Len(todo) : Within(x, y, todo[k][1], todo[k][2])
  <2>1. PICK k \in 1 .. Len(todo) : Within(x, y, todo[k][1], todo[k][2])
    BY <1>4
  <2>2. k + Len(New) \in 1 .. Len(todo') /\ k + Len(New) > Len(New)
        /\ k + Len(New) - Len(New) = k
    BY <1>1, <1>3
  <2>3. todo'[k + Len(New)] = todo[k]
    BY <1>3, <2>2
  <2> QED  BY <2>1, <2>2, <2>3
<1>5. CASE Within(x, y, lo, hi)
  <2>1. lo <= x /\ y <= hi
    BY <1>5 DEF Within
  <2>2. lo < l /\ r < hi /\ r < l
    BY <1>1 DEF IInv, Guarded
  <2>3. y <= r \/ l <= x
    <3>1. SUFFICES ASSUME ~(y <= r), ~(l <= x) PROVE FALSE
      OBVIOUS
    <3>2. a[x] <= pivot
      BY <1>1, <1>2, <2>1, <3>1 DEF IInv, Parted
    <3>3. a[y] >= pivot
      BY <1>1, <1>2, <2>1, <3>1 DEF IInv, Parted
    <3> QED  BY <1>1, <1>2, <3>2, <3>3
  <2>4. CASE y <= r
    <3>1. lo < r
      BY <1>1, <1>2, <2>1, <2>4
    <3>2. 1 \in 1 .. Len(New) /\ New[1] = <<lo, r>>
      BY <1>1, <3>1, Parts
    <3>3. Within(x, y, lo, r)
      BY <2>1, <2>4 DEF Within
    <3> QED  BY <1>3, <3>2, <3>3
  <2>5. CASE l <= x
    <3>1. l < hi
      BY <1>1, <1>2, <2>1, <2>5
    <3>2. Len(New) \in 1 .. Len(New) /\ New[Len(New)] = <<l, hi>>
      BY <1>1, <3>1, Parts
    <3>3. Within(x, y, l, hi)
      BY <2>1, <2>5 DEF Within
    <3> QED  BY <1>3, <3>2, <3>3
  <2> QED  BY <2>3, <2>4, <2>5
<1>6. Within(x, y, lo, hi) \/ \E k \in 1 .. Len(todo) : Within(x, y, todo[k][1], todo[k][2])
  BY <1>2 DEF RestIsSorted
<1> QED  BY <1>4, <1>5, <1>6

LEMMA StepRest ==
  ASSUME Cut = 0, IInv, RestIsSorted, [Next]_vars
  PROVE  RestIsSorted'
<1>1. CASE Up
  BY <1>1 DEF Up, RestIsSorted, Within
<1>2. CASE Down
  BY <1>2 DEF Down, RestIsSorted, Within
<1>3. CASE UNCHANGED vars
  BY <1>3 DEF vars, RestIsSorted, Within
<1> QED  BY <1>1, <1>2, <1>3, CallRest, MeetRest, ReturnRest DEF Next

(* What no call is left for is in order (sortSpeed.cpp:138-152).           *)
THEOREM StaysSorted ==
  ASSUME Cut = 0
  PROVE  SafeSpec => []RestIsSorted
<1>1. IInv /\ RestIsSorted /\ [Next]_vars => RestIsSorted'
  BY StepRest
<1>2. SafeSpec => [](IInv /\ RestIsSorted)
  BY Invariance, InitRest, <1>1, PTL DEF SafeSpec
<1> QED  BY <1>2, PTL

-----------------------------------------------------------------------------
LEMMA EndIsSorted ==
  ASSUME IInv, RestIsSorted, Finished
  PROVE  Promise!Sorted(a)
<1>1. Index \subseteq Int /\ a \in [Index -> Int]
  BY Types DEF IInv
<1>2. ~(\E k \in 1 .. Len(todo) : TRUE)
  BY DEF Finished
<1>3. \A x, y \in Index : x < y => ~(a[x] > a[y])
  BY <1>2 DEF RestIsSorted, Finished
<1> QED  BY <1>1, <1>3 DEF Promise!Sorted, Promise!Index, Index

LEMMA StepImplements ==
  ASSUME IInv, RestIsSorted', KeepsValues', IInv', [Next]_vars
  PROVE  [Promise!Next]_(Promise!vars)
<1>1. CASE UNCHANGED vars
  BY <1>1 DEF vars, Promise!vars, Finished
<1>2. CASE Return
  <2>1. UNCHANGED <<input, a>> /\ ~Finished
    BY <1>2 DEF Return, Finished
  <2>2. CASE Finished'
    <3>1. Promise!Sorted(a)'
      BY <2>2, EndIsSorted, PTL
    <3>2. Promise!Sorted(a) /\ Promise!Permuted(a, input)
      BY <2>1, <3>1 DEF KeepsValues, Promise!Sorted, Promise!Permuted, Promise!Index
    <3> QED  BY <2>1, <2>2, <3>2 DEF Promise!Next, Promise!Finish
  <2>3. CASE ~Finished'
    BY <2>1, <2>3 DEF Promise!vars
  <2> QED  BY <2>2, <2>3
<1>3. CASE Call \/ Up \/ Down \/ Meet
  <2>1. ~Finished /\ ~Finished' /\ input' = input
    BY <1>3 DEF Call, Up, Down, Meet, Finished
  <2>2. a' \in [Promise!Index -> Value]
    BY DEF IInv, TypeOK, Promise!Index, Index
  <2> QED  BY <2>1, <2>2 DEF Promise!Next, Promise!Rearrange
<1> QED  BY <1>1, <1>2, <1>3 DEF Next

(* qs_recsv() keeps the promise of a sort, for every array.                *)
THEOREM Implements ==
  ASSUME Cut = 0
  PROVE  SafeSpec => Sorts
<1>1. Init => Promise!Init
  BY DEF Init, Finished, Promise!Init, Promise!Index, Index
<1>2. IInv /\ (RestIsSorted /\ KeepsValues /\ IInv)' /\ [Next]_vars
        => [Promise!Next]_(Promise!vars)
  BY StepImplements
<1>3. SafeSpec => []IInv /\ []RestIsSorted /\ []KeepsValues
  BY Invariance, StaysSorted, NothingIsLost
<1> QED  BY <1>1, <1>2, <1>3, PTL DEF SafeSpec, Sorts, Promise!SafeSpec

-----------------------------------------------------------------------------
(* my_qsort_AVX2(): the parts still to be sorted lie one behind the other, *)
(* from right to left, and the insertion sort leaves a hole in the first.  *)

Signed(v) == Avx!Signed(v)
Slots == Avx!Index
Hole == Avx!From + inner

(* The part in the assembly: what is at the bottom, the words of temp, and *)
(* what has not been read yet.                                             *)
Behind == Avx!From + bottom
Kept == [x \in Slots |-> IF x \in Behind .. Behind + top - 1 THEN temp[x - Behind] ELSE d[x]]

(* The array with the element that is held aside in its hole, or with the  *)
(* words of temp where the assembly has stored others over them.           *)
Filled == IF where = "shift" THEN [d EXCEPT ![Hole] = tmp]
          ELSE IF where = "part" THEN Kept ELSE d

AvxTypes ==
  /\ handed \in [Slots -> Avx!UInt32] /\ d \in [Slots -> Avx!UInt32]
  /\ calls \in Seq(Nat \X Nat)
  /\ where \in {"loop", "part", "insert", "shift"}
  /\ outer \in Nat /\ inner \in Nat /\ tmp \in Avx!UInt32
  /\ temp \in [Slots -> Avx!UInt32] /\ piv \in Avx!UInt32
  /\ read \in Nat /\ bottom \in Nat /\ top \in Nat

Aligned ==
  /\ \A k \in 1 .. Len(calls) : calls[k][1] + calls[k][2] <= AvxN
  /\ \A m, k \in 1 .. Len(calls) : m < k => calls[k][1] + calls[k][2] <= calls[m][1]

(* The first elements of the part are in order, but for the one held.      *)
Inserting ==
  where \in {"insert", "shift"} =>
    /\ calls # <<>> /\ 1 <= outer /\ outer <= Avx!Length
    /\ where = "insert" =>
         \A x, y \in Slots : Avx!From <= x /\ x < y /\ y < Avx!From + outer
                               => Signed(d[x]) <= Signed(d[y])
    /\ where = "shift" =>
         /\ outer < Avx!Length /\ inner <= outer
         /\ \A x, y \in Slots \ {Hole} : Avx!From <= x /\ x < y /\ y <= Avx!From + outer
                                          => Signed(d[x]) <= Signed(d[y])
         /\ \A y \in Slots : Hole < y /\ y <= Avx!From + outer => Signed(tmp) < Signed(d[y])

(* What has been read is at the bottom or in temp, on its side of the      *)
(* pivot, which waits at the end.                                          *)
Parting ==
  where = "part" =>
    /\ calls # <<>> /\ read = bottom + top /\ read < Avx!Length
    /\ d[Avx!From + Avx!Length - 1] = piv
    /\ \A x \in Slots : Avx!From <= x /\ x < Behind => Signed(d[x]) <= Signed(piv)
    /\ \A k \in Slots : k < top => Signed(piv) <= Signed(temp[k])

(* Two elements out of order are in one part still to be sorted.           *)
InPart(x, y, c) == c[1] <= x /\ y < c[1] + c[2]
OutOfOrder(x, y) == x < y /\ Signed(Filled[x]) > Signed(Filled[y])
PartsAreRest ==
  \A x, y \in Slots : OutOfOrder(x, y) => \E k \in 1 .. Len(calls) : InPart(x, y, calls[k])

SameValues == Avx!Promise!Permuted(Filled, handed)

AvxInv == AvxTypes /\ Aligned /\ Inserting /\ Parting /\ PartsAreRest /\ SameValues

LEMMA AvxSizes ==
  /\ AvxN \in Nat \ {0} /\ Small \in Nat \ {0} /\ Small >= 2 /\ Half \in Nat \ {0}
  /\ Lanes \in Nat \ {0} /\ Slots = 0 .. AvxN - 1
  /\ \A v \in Avx!UInt32 : Signed(v) \in Int /\ Signed(v) \in Avx!Int32
BY SizesAssumption DEF Avx!Sizes, Slots, Avx!Index, Avx!UInt32, Avx!Int32, Signed, Avx!Signed

LEMMA PermutedIs ==
  ASSUME NEW f, NEW g
  PROVE  Avx!Promise!Permuted(f, g) <=>
           \E p \in [Slots -> Slots] : /\ \A w \in Slots : \E v \in Slots : p[v] = w
                                       /\ f = [x \in Slots |-> g[p[x]]]
BY DEF Avx!Promise!Permuted, Avx!Promise!Permutation, Avx!Promise!Index, Slots, Avx!Index

(* A rearrangement of a rearrangement is one.                              *)
LEMMA Composed ==
  ASSUME NEW f, NEW g, NEW h, Avx!Promise!Permuted(f, g),
         NEW q \in [Slots -> Slots], \A w \in Slots : \E v \in Slots : q[v] = w,
         h = [x \in Slots |-> f[q[x]]]
  PROVE  Avx!Promise!Permuted(h, g)
<1>1. PICK p \in [Slots -> Slots] : /\ \A w \in Slots : \E v \in Slots : p[v] = w
                                    /\ f = [x \in Slots |-> g[p[x]]]
  BY PermutedIs
<1> DEFINE c == [x \in Slots |-> p[q[x]]]
<1>2. c \in [Slots -> Slots]
  BY <1>1
<1>3. ASSUME NEW w \in Slots PROVE \E v \in Slots : c[v] = w
  <2>1. PICK u \in Slots : p[u] = w
    BY <1>1
  <2>2. PICK v \in Slots : q[v] = u
    OBVIOUS
  <2> QED  BY <2>1, <2>2
<1>4. h = [x \in Slots |-> g[c[x]]]
  BY <1>1
<1> QED  BY <1>2, <1>3, <1>4, PermutedIs

LEMMA AvxInit == Avx!Init => AvxInv
<1> SUFFICES ASSUME NEW g \in [Slots -> Avx!UInt32], Avx!Start(g) PROVE AvxInv
  BY DEF Avx!Init, Slots
<1> USE DEF Avx!Start
<1>1. Filled = d /\ where = "loop" /\ d = g /\ handed = g
  BY DEF Filled
<1>2. calls \in Seq(Nat \X Nat) /\ Len(calls) = 1 /\ calls[1] = <<0, AvxN>>
  <2>1. <<0, AvxN>> \in Nat \X Nat
    BY AvxSizes
  <2>2. calls = << <<0, AvxN>> >>
    OBVIOUS
  <2> QED  BY <2>1, <2>2
<1>3. AvxTypes
  <2>1. /\ temp = [x \in Slots |-> 0] /\ 0 \in Avx!UInt32 /\ tmp = 0 /\ piv = 0
        /\ outer = 0 /\ inner = 0 /\ read = 0 /\ bottom = 0 /\ top = 0
    BY AvxSizes DEF Slots, Avx!UInt32
  <2> QED  BY <1>1, <1>2, <2>1 DEF AvxTypes
<1>4. Aligned
  BY <1>2, AvxSizes DEF Aligned
<1>5. PartsAreRest
  <2>1. ASSUME NEW x \in Slots, NEW y \in Slots PROVE InPart(x, y, calls[1])
    BY <1>2, AvxSizes DEF InPart
  <2> QED  BY <1>2, <2>1 DEF PartsAreRest
<1>6. SameValues
  <2> DEFINE id == [x \in Slots |-> x]
  <2>1. id \in [Slots -> Slots] /\ \A w \in Slots : \E v \in Slots : id[v] = w
    OBVIOUS
  <2>2. Filled = [x \in Slots |-> handed[id[x]]]
    BY <1>1
  <2> HIDE DEF id
  <2> QED  BY <2>1, <2>2, PermutedIs DEF SameValues
<1> QED  BY <1>1, <1>3, <1>4, <1>5, <1>6 DEF AvxInv, Inserting, Parting

(* The part the running call works on, and those behind it.                *)
LEMMA FirstPart ==
  ASSUME AvxInv, calls # <<>>
  PROVE  /\ Len(calls) \in Nat \ {0} /\ Avx!From = calls[1][1] /\ Avx!Length = calls[1][2]
         /\ Avx!From \in Nat /\ Avx!Length \in Nat /\ Avx!From + Avx!Length <= AvxN
         /\ Tail(calls) \in Seq(Nat \X Nat) /\ Len(Tail(calls)) = Len(calls) - 1
         /\ \A k \in 1 .. Len(calls) - 1 : Tail(calls)[k] = calls[k + 1]
         /\ \A k \in 1 .. Len(calls) : calls[k] \in Nat \X Nat
         /\ \A k \in 2 .. Len(calls) : calls[k][1] + calls[k][2] <= Avx!From
<1>1. calls \in Seq(Nat \X Nat)
  BY DEF AvxInv, AvxTypes
<1>2. /\ Len(calls) \in Nat \ {0} /\ Head(calls) = calls[1]
      /\ Tail(calls) \in Seq(Nat \X Nat) /\ Len(Tail(calls)) = Len(calls) - 1
      /\ \A k \in 1 .. Len(calls) - 1 : Tail(calls)[k] = calls[k + 1]
      /\ \A k \in 1 .. Len(calls) : calls[k] \in Nat \X Nat
  BY <1>1
<1>3. 1 \in 1 .. Len(calls) /\ calls[1][1] \in Nat /\ calls[1][2] \in Nat
  BY <1>2
<1> QED  BY <1>2, <1>3 DEF AvxInv, Aligned, Avx!From, Avx!Length

(* Elements moved about inside the first part leave the others in order.   *)
LEMMA Rearranged ==
  ASSUME AvxInv, calls # <<>>, NEW q \in [Slots -> Slots], NEW e,
         \A x \in Slots : IF Avx!From <= x /\ x < Avx!From + Avx!Length
                            THEN Avx!From <= q[x] /\ q[x] < Avx!From + Avx!Length
                            ELSE q[x] = x,
         e = [x \in Slots |-> Filled[q[x]]],
         NEW x \in Slots, NEW y \in Slots, x < y, Signed(e[x]) > Signed(e[y])
  PROVE  \/ Avx!From <= x /\ y < Avx!From + Avx!Length
         \/ \E k \in 2 .. Len(calls) : InPart(x, y, calls[k])
<1> DEFINE F == Avx!From
           n == Avx!Length
<1>1. /\ F \in Nat /\ n \in Nat /\ Len(calls) \in Nat \ {0}
      /\ F = calls[1][1] /\ n = calls[1][2]
      /\ \A k \in 2 .. Len(calls) : /\ calls[k][1] \in Nat /\ calls[k][2] \in Nat
                                    /\ calls[k][1] + calls[k][2] <= F
  <2>1. \A k \in 2 .. Len(calls) : calls[k] \in Nat \X Nat
    BY FirstPart
  <2> QED  BY <2>1, FirstPart
<1>2. Slots \subseteq Nat
  BY AvxSizes
<1> SUFFICES ASSUME ~ (F <= x /\ y < F + n) PROVE \E k \in 2 .. Len(calls) : InPart(x, y, calls[k])
  OBVIOUS
<1>3. /\ IF F <= x /\ x < F + n THEN F <= q[x] /\ q[x] < F + n ELSE q[x] = x
      /\ IF F <= y /\ y < F + n THEN F <= q[y] /\ q[y] < F + n ELSE q[y] = y
      /\ q[x] \in Slots /\ q[y] \in Slots /\ q[x] \in Nat /\ q[y] \in Nat
      /\ x \in Nat /\ y \in Nat
  BY <1>2
<1>4. Signed(Filled[q[x]]) > Signed(Filled[q[y]])
  OBVIOUS
<1> HIDE DEF F, n
<1>5. q[x] < q[y]
  BY <1>1, <1>3
<1>6. PICK k \in 1 .. Len(calls) : InPart(q[x], q[y], calls[k])
  BY <1>3, <1>4, <1>5 DEF AvxInv, PartsAreRest, OutOfOrder
<1>7. k # 1
  <2> SUFFICES ASSUME k = 1 PROVE FALSE
    OBVIOUS
  <2>1. F <= q[x] /\ q[y] < F + n
    BY <1>1, <1>6 DEF InPart
  <2> QED  BY <1>1, <1>3, <1>5, <2>1
<1>8. k \in 2 .. Len(calls) /\ calls[k][1] \in Nat /\ calls[k][2] \in Nat
      /\ calls[k][1] + calls[k][2] <= F
  BY <1>1, <1>7
<1>9. calls[k][1] <= q[x] /\ q[y] < calls[k][1] + calls[k][2]
  BY <1>6 DEF InPart
<1>10. q[x] = x /\ q[y] = y
  BY <1>1, <1>3, <1>5, <1>8, <1>9
<1> QED  BY <1>6, <1>8, <1>10

(* Every step of the assembly and of the insertion sort moves elements     *)
(* about inside the first part.                                            *)
LEMMA Reordered ==
  ASSUME AvxInv, calls # <<>>, UNCHANGED <<handed, calls>>, NEW q \in [Slots -> Slots],
         \A x \in Slots : IF Avx!From <= x /\ x < Avx!From + Avx!Length
                            THEN Avx!From <= q[x] /\ q[x] < Avx!From + Avx!Length
                            ELSE q[x] = x,
         \A w \in Slots : \E u \in Slots : q[u] = w,
         Filled' = [x \in Slots |-> Filled[q[x]]]
  PROVE  PartsAreRest' /\ SameValues'
<1> DEFINE e == Filled'
<1>1. e = [x \in Slots |-> Filled[q[x]]]
  OBVIOUS
<1>2. PartsAreRest'
  <2> HIDE DEF e
  <2> SUFFICES ASSUME NEW x \in Slots, NEW y \in Slots, x < y, Signed(e[x]) > Signed(e[y])
               PROVE  \E k \in 1 .. Len(calls) : InPart(x, y, calls[k])
    BY DEF PartsAreRest, OutOfOrder, Signed, Avx!Signed, Slots, Avx!Index, e
  <2>1. \/ Avx!From <= x /\ y < Avx!From + Avx!Length
        \/ \E k \in 2 .. Len(calls) : InPart(x, y, calls[k])
    BY <1>1, Rearranged
  <2>2. CASE Avx!From <= x /\ y < Avx!From + Avx!Length
    <3>1. InPart(x, y, calls[1]) /\ 1 \in 1 .. Len(calls)
      BY <2>2, FirstPart DEF InPart
    <3> QED  BY <3>1
  <2>3. CASE \E k \in 2 .. Len(calls) : InPart(x, y, calls[k])
    BY <2>3
  <2> QED  BY <2>1, <2>2, <2>3
<1>3. SameValues'
  <2>1. Avx!Promise!Permuted(Filled, handed)
    BY DEF AvxInv, SameValues
  <2> HIDE DEF e
  <2>2. Avx!Promise!Permuted(e, handed)
    BY <1>1, <2>1, Composed
  <2> QED  BY <2>2, PermutedIs DEF SameValues, e
<1> QED  BY <1>2, <1>3

(* Behind c elements of S come t others and then the elements not in S:    *)
(* where the words of a block of w words that starts at f + b + t, and the *)
(* t words before it, are found when it has been split.                    *)
PlaceOf(f, b, t, w, c, left, right) == [x \in Slots |->
  CASE f + b <= x /\ x < f + b + c -> f + b + t + left[x - f - b]
    [] f + b + c <= x /\ x < f + b + c + t -> x - c
    [] f + b + c + t <= x /\ x < f + b + t + w -> f + b + t + right[x - f - b - c - t]
    [] OTHER -> x]

(* A row for S and one for the other words of the block.                   *)
Splits(w, S, c, left, right) ==
  /\ S \subseteq 0 .. w - 1 /\ c \in 0 .. w
  /\ \A k \in 0 .. c - 1 : left[k] \in S
  /\ \A m \in S : \E k \in 0 .. c - 1 : left[k] = m
  /\ \A k \in 0 .. w - c - 1 : right[k] \in (0 .. w - 1) \ S
  /\ \A m \in (0 .. w - 1) \ S : \E k \in 0 .. w - c - 1 : right[k] = m

LaidOut(f, n, b, t, w, c, left, right, q) ==
  /\ q \in [Slots -> Slots]
  /\ \A x \in Slots : IF f <= x /\ x < f + n THEN f <= q[x] /\ q[x] < f + n ELSE q[x] = x
  /\ \A v \in Slots : \E u \in Slots : q[u] = v
  /\ \A x \in Slots : f + b <= x /\ x < f + b + c => q[x] = f + b + t + left[x - f - b]
  /\ \A x \in Slots : f + b + c <= x /\ x < f + b + t + c => q[x] = x - c
  /\ \A x \in Slots : f + b + t + c <= x /\ x < f + b + t + w
                       => q[x] = f + b + t + right[x - f - b - t - c]
  /\ \A x \in Slots : x < f + b \/ f + b + t + w <= x => q[x] = x

LEMMA PlacesFit ==
  ASSUME NEW f \in Nat, NEW n \in Nat, NEW b \in Nat, NEW t \in Nat, NEW w \in Nat,
         b + t + w <= n, f + n <= AvxN,
         NEW S, NEW c, NEW left, NEW right, Splits(w, S, c, left, right),
         NEW q, q = PlaceOf(f, b, t, w, c, left, right)
  PROVE  LaidOut(f, n, b, t, w, c, left, right, q)
<1> c \in 0 .. w /\ S \subseteq 0 .. w - 1
  BY DEF Splits
<1> /\ \A k \in 0 .. c - 1 : left[k] \in S
    /\ \A m \in S : \E k \in 0 .. c - 1 : left[k] = m
    /\ \A k \in 0 .. w - c - 1 : right[k] \in (0 .. w - 1) \ S
    /\ \A m \in (0 .. w - 1) \ S : \E k \in 0 .. w - c - 1 : right[k] = m
  BY DEF Splits
<1> DEFINE s == f + b + t
<1>1. /\ Slots = 0 .. AvxN - 1 /\ AvxN \in Nat /\ c \in Nat /\ w - c \in Nat
      /\ s \in Nat /\ s + w <= f + n /\ f + b + c + t = s + c
  BY AvxSizes
<1>2. /\ \A x \in Slots : f + b <= x /\ x < f + b + c => q[x] = s + left[x - f - b]
      /\ \A x \in Slots : f + b + c <= x /\ x < s + c => q[x] = x - c
      /\ \A x \in Slots : s + c <= x /\ x < s + w => q[x] = s + right[x - s - c]
      /\ \A x \in Slots : x < f + b \/ s + w <= x => q[x] = x
  <2>1. ASSUME NEW x \in Slots
        PROVE  /\ f + b <= x /\ x < f + b + c => q[x] = s + left[x - f - b]
               /\ f + b + c <= x /\ x < s + c => q[x] = x - c
               /\ s + c <= x /\ x < s + w => q[x] = s + right[x - s - c]
               /\ x < f + b \/ s + w <= x => q[x] = x
    <3>1. x \in Nat /\ x - f - b - c - t = x - s - c
      BY <1>1
    <3>2. q[x] = CASE f + b <= x /\ x < f + b + c -> f + b + t + left[x - f - b]
                   [] f + b + c <= x /\ x < f + b + c + t -> x - c
                   [] f + b + c + t <= x /\ x < f + b + t + w
                        -> f + b + t + right[x - s - c]
                   [] OTHER -> x
      BY <3>1 DEF PlaceOf
    <3> HIDE DEF s
    <3>3. /\ f + b \in Nat /\ f + b + c \in Nat /\ f + b <= s /\ f + b + c <= s + c
          /\ s + c <= s + w /\ f + b + t = s /\ f + b + c + t = s + c /\ c \in Nat
      BY <1>1 DEF s
    <3>4. f + b + t + w = s + w
      BY <3>3
    <3>5. q[x] = CASE f + b <= x /\ x < f + b + c -> s + left[x - f - b]
                   [] f + b + c <= x /\ x < s + c -> x - c
                   [] s + c <= x /\ x < s + w -> s + right[x - s - c]
                   [] OTHER -> x
      BY <3>2, <3>3, <3>4
    <3> DEFINE y1 == s + left[x - f - b]
               y2 == s + right[x - s - c]
    <3> HIDE DEF y1, y2
    <3>6. q[x] = CASE f + b <= x /\ x < f + b + c -> y1
                   [] f + b + c <= x /\ x < s + c -> x - c
                   [] s + c <= x /\ x < s + w -> y2
                   [] OTHER -> x
      BY <3>5 DEF y1, y2
    <3>7. /\ f + b <= x /\ x < f + b + c => q[x] = y1
          /\ f + b + c <= x /\ x < s + c => q[x] = x - c
          /\ s + c <= x /\ x < s + w => q[x] = y2
          /\ x < f + b \/ s + w <= x => q[x] = x
      <4> DEFINE A == f + b <= x /\ x < f + b + c
                 B == f + b + c <= x /\ x < s + c
                 C == s + c <= x /\ x < s + w
                 D == x < f + b \/ s + w <= x
      <4>1. /\ A => ~ B /\ ~ C /\ ~ D
            /\ B => ~ A /\ ~ C /\ ~ D
            /\ C => ~ A /\ ~ B /\ ~ D
            /\ D => ~ A /\ ~ B /\ ~ C
        BY <1>1, <3>1, <3>3
      <4>2. q[x] = CASE A -> y1 [] B -> x - c [] C -> y2 [] OTHER -> x
        BY <3>6
      <4> HIDE DEF A, B, C, D
      <4>3. /\ A => q[x] = y1
            /\ B => q[x] = x - c
            /\ C => q[x] = y2
            /\ D => q[x] = x
        BY <4>1, <4>2
      <4> QED  BY <4>3 DEF A, B, C, D
    <3> QED  BY <3>7 DEF y1, y2
  <2> QED  BY <2>1
<1> HIDE DEF s
<1>3. ASSUME NEW x \in Slots
      PROVE  /\ q[x] \in Slots
             /\ IF f <= x /\ x < f + n THEN f <= q[x] /\ q[x] < f + n ELSE q[x] = x
  <2>1. x \in Nat
    BY <1>1
  <2>2. CASE f + b <= x /\ x < f + b + c
    <3>1. x - f - b \in 0 .. c - 1
      BY <1>1, <2>1, <2>2
    <3>2. left[x - f - b] \in 0 .. w - 1 /\ q[x] = s + left[x - f - b]
      BY <1>2, <2>2, <3>1
    <3> QED  BY <1>1, <2>1, <2>2, <3>2 DEF s
  <2>3. CASE f + b + c <= x /\ x < s + c
    BY <1>1, <1>2, <2>1, <2>3
  <2>4. CASE s + c <= x /\ x < s + w
    <3>1. x - s - c \in 0 .. w - c - 1
      BY <1>1, <2>1, <2>4
    <3>2. right[x - s - c] \in 0 .. w - 1 /\ q[x] = s + right[x - s - c]
      BY <1>2, <2>4, <3>1
    <3> QED  BY <1>1, <2>1, <2>4, <3>2 DEF s
  <2>5. CASE x < f + b \/ s + w <= x
    BY <1>1, <1>2, <2>1, <2>5
  <2> QED  BY <1>1, <2>1, <2>2, <2>3, <2>4, <2>5 DEF s
<1>4. q \in [Slots -> Slots]
  <2>1. \A x \in Slots : q[x] \in Slots
    BY <1>3
  <2>2. q = [x \in Slots |-> q[x]]
    BY DEF PlaceOf
  <2> QED  BY <2>1, <2>2
<1>5. ASSUME NEW v \in Slots PROVE \E u \in Slots : q[u] = v
  <2>1. v \in Nat
    BY <1>1
  <2>2. CASE v < f + b \/ s + w <= v
    BY <1>2, <2>2
  <2>3. CASE f + b <= v /\ v < s
    <3>1. /\ v + c \in Slots /\ f + b + c <= v + c /\ v + c < s + c /\ (v + c) - c = v
      BY <1>1, <2>1, <2>3
    <3> QED  BY <1>2, <3>1
  <2>4. CASE s <= v /\ v < s + w /\ v - s \in S
    <3>1. PICK k \in 0 .. c - 1 : left[k] = v - s
      BY <2>4
    <3>2. /\ f + b + k \in Slots /\ f + b <= f + b + k /\ f + b + k < f + b + c
          /\ (f + b + k) - f - b = k
      BY <1>1 DEF s
    <3>3. q[f + b + k] = s + left[k]
      BY <1>2, <3>2
    <3> QED  BY <1>1, <2>1, <3>1, <3>2, <3>3
  <2>5. CASE s <= v /\ v < s + w /\ v - s \notin S
    <3>1. v - s \in (0 .. w - 1) \ S
      BY <1>1, <2>1, <2>5
    <3>2. PICK k \in 0 .. w - c - 1 : right[k] = v - s
      BY <3>1
    <3>3. /\ s + c + k \in Slots /\ s + c <= s + c + k /\ s + c + k < s + w
          /\ (s + c + k) - s - c = k
      BY <1>1
    <3>4. q[s + c + k] = s + right[k]
      BY <1>2, <3>3
    <3> QED  BY <1>1, <2>1, <3>2, <3>3, <3>4
  <2> QED  BY <1>1, <2>1, <2>2, <2>3, <2>4, <2>5
<1>6. \A x \in Slots : s + c <= x /\ x < s + w => q[x] = s + right[x - f - b - t - c]
  <2>1. \A x \in Slots : x - f - b - t - c = x - s - c
    BY <1>1 DEF s
  <2> QED  BY <1>2, <2>1
<1> QED  BY <1>2, <1>3, <1>4, <1>5, <1>6 DEF s, LaidOut

(* The instance of Avx2Sort counts as this module does.                    *)
LEMMA LanesCounted ==
  ASSUME NEW S
  PROVE  Avx!CountOf(S) = Cardinality(S)
BY DEF Avx!CountOf, Avx!Cardinality, Cardinality

(* A row of the permutation tables takes every lane of its set once.       *)
LEMMA RowFills ==
  ASSUME NEW S, S \subseteq Avx!Lane
  PROVE  /\ Cardinality(S) \in 0 .. Lanes
         /\ Cardinality(Avx!Lane \ S) = Lanes - Cardinality(S)
         /\ Avx!PermTable(S) \in [Avx!Lane -> Avx!Lane]
         /\ \A k \in 0 .. Cardinality(S) - 1 : Avx!PermTable(S)[k] \in S
         /\ \A m \in S : \E k \in 0 .. Cardinality(S) - 1 : Avx!PermTable(S)[k] = m
<1> DEFINE T == Avx!Lane
           n == Cardinality(S)
           Less(m) == {x \in S : x < m}
           rank == [m \in S |-> Cardinality(Less(m))]
           row == Avx!PermTable(S)
<1>1. T = 0 .. Lanes - 1 /\ Lanes \in Nat \ {0} /\ S \subseteq Int
  BY AvxSizes DEF Avx!Lane
<1>2. IsFiniteSet(T) /\ Cardinality(T) = Lanes
  <2>1. 0 \in Int /\ Lanes - 1 \in Int
    BY <1>1
  <2>2. IsFiniteSet(0 .. Lanes - 1)
        /\ Cardinality(0 .. Lanes - 1) = IF 0 > Lanes - 1 THEN 0 ELSE Lanes - 1 - 0 + 1
    BY <2>1, FS_Interval, Zenon
  <2> QED  BY <1>1, <2>2
<1>3. IsFiniteSet(S) /\ n \in 0 .. Lanes
  <2>1. IsFiniteSet(S) /\ n <= Lanes
    BY <1>2, FS_Subset
  <2> QED  BY <1>1, <2>1, FS_CardinalityType
<1>4. Cardinality(T \ S) = Lanes - n
  <2>1. IsFiniteSet(T \ S) /\ S \cap (T \ S) = {} /\ S \cup (T \ S) = T
    BY <1>2, FS_Subset
  <2>2. Cardinality(T) = n + Cardinality(T \ S)
    <3>1. Cardinality(S \cup (T \ S))
            = Cardinality(S) + Cardinality(T \ S) - Cardinality(S \cap (T \ S))
      BY <1>3, <2>1, FS_Union
    <3>2. Cardinality(S \cap (T \ S)) = 0 /\ Cardinality(T \ S) \in Nat
      BY <2>1, FS_EmptySet, FS_CardinalityType
    <3>3. n \in Nat
      BY <1>1, <1>3
    <3>4. Cardinality(T) = n + Cardinality(T \ S) - 0
      BY <2>1, <3>1, <3>2
    <3> QED  BY <3>2, <3>3, <3>4
  <2>3. Cardinality(T \ S) \in Nat
    BY <2>1, FS_CardinalityType
  <2> QED  BY <1>1, <1>2, <1>3, <2>2, <2>3
<1>5. ASSUME NEW m \in S
      PROVE  /\ rank[m] \in 0 .. n - 1
             /\ \A k \in S : k < m => rank[k] < rank[m]
  <2>1. ASSUME NEW A, NEW B, A \subseteq B, B \subseteq S, NEW e \in B, e \notin A
        PROVE  Cardinality(A) \in Nat /\ Cardinality(B) \in Nat
               /\ Cardinality(A) < Cardinality(B)
    <3>1. IsFiniteSet(B) /\ IsFiniteSet(A) /\ A # B
      BY <1>3, <2>1, FS_Subset
    <3>2. Cardinality(A) <= Cardinality(B) /\ Cardinality(A) # Cardinality(B)
      BY <2>1, <3>1, FS_Subset
    <3> QED  BY <3>1, <3>2, FS_CardinalityType
  <2>2. Cardinality(Less(m)) \in Nat /\ Cardinality(Less(m)) < n
    <3>1. Less(m) \subseteq S /\ m \notin Less(m)
      BY <1>1
    <3> QED  BY <2>1, <3>1
  <2>3. ASSUME NEW k \in S, k < m PROVE rank[k] < rank[m]
    <3>1. Less(k) \subseteq Less(m) /\ Less(m) \subseteq S /\ k \in Less(m) /\ k \notin Less(k)
      <4>1. \A x \in S : x \in Int
        BY <1>1
      <4>2. \A x \in S : x < k => x < m
        BY <2>3, <4>1
      <4>3. ~ (k < k)
        BY <4>1
      <4> QED  BY <2>3, <4>2, <4>3
    <3> HIDE DEF Less
    <3>2. Cardinality(Less(k)) < Cardinality(Less(m))
      BY <2>1, <3>1
    <3> QED  BY <3>2
  <2> HIDE DEF Less
  <2>4. rank[m] = Cardinality(Less(m))
    OBVIOUS
  <2> QED  BY <1>3, <2>2, <2>3, <2>4
<1>6. ASSUME NEW k \in 0 .. n - 1 PROVE \E m \in S : rank[m] = k
  <2> HIDE DEF rank
  <2>1. \A m \in S : rank[m] \in 0 .. n - 1
    BY <1>5
  <2>2. \A m, p \in S : rank[m] = rank[p] => m = p
    BY <1>1, <1>3, <1>5
  <2>3. rank = [m \in S |-> rank[m]]
    BY DEF rank
  <2>4. rank \in Injection(S, 0 .. n - 1)
    BY <2>1, <2>2, <2>3 DEF Injection, IsInjective
  <2>5. IsFiniteSet(0 .. n - 1) /\ Cardinality(0 .. n - 1) = n
    <3>1. 0 \in Int /\ n - 1 \in Int
      BY <1>3
    <3>2. IsFiniteSet(0 .. n - 1)
          /\ Cardinality(0 .. n - 1) = IF 0 > n - 1 THEN 0 ELSE n - 1 - 0 + 1
      BY <3>1, FS_Interval, Zenon
    <3> QED  BY <1>3, <3>2
  <2>6. rank \in Surjection(S, 0 .. n - 1)
    BY <1>3, <2>4, <2>5, FS_Injection
  <2> QED  BY <2>6 DEF Surjection
<1>7. \A k \in T : row[k] = IF k < n THEN CHOOSE m \in S : rank[m] = k ELSE 0
  <2>1. \A k \in T : row[k] = IF k < n THEN CHOOSE m \in S : Cardinality(Less(m)) = k ELSE 0
    <3>1. \A k \in T : row[k] = IF k < Avx!CountOf(S)
                               THEN CHOOSE m \in S : Avx!CountOf(Less(m)) = k ELSE 0
      BY DEF Avx!PermTable
    <3>2. Avx!CountOf(S) = n /\ \A m \in S : Avx!CountOf(Less(m)) = Cardinality(Less(m))
      BY LanesCounted
    <3>3. \A k : (CHOOSE m \in S : Avx!CountOf(Less(m)) = k)
                   = (CHOOSE m \in S : Cardinality(Less(m)) = k)
      BY <3>2
    <3> HIDE DEF Less, T, row, n
    <3> QED  BY <3>1, <3>2, <3>3
  <2>2. \A k : (CHOOSE m \in S : Cardinality(Less(m)) = k) = (CHOOSE m \in S : rank[m] = k)
    OBVIOUS
  <2> QED  BY <2>1, <2>2
<1>8. DOMAIN row = T /\ row = [k \in T |-> row[k]]
  BY DEF Avx!PermTable
<1> HIDE DEF rank, row, T
<1>9. ASSUME NEW k \in 0 .. n - 1 PROVE row[k] \in S /\ rank[row[k]] = k
  <2>1. k \in T /\ k < n
    BY <1>1, <1>3
  <2>2. row[k] = CHOOSE m \in S : rank[m] = k
    BY <1>7, <2>1
  <2> QED  BY <1>6, <2>2
<1>10. ASSUME NEW m \in S PROVE \E k \in 0 .. n - 1 : row[k] = m
  <2>1. rank[m] \in 0 .. n - 1
    BY <1>5
  <2>2. row[rank[m]] \in S /\ rank[row[rank[m]]] = rank[m]
    BY <1>9, <2>1
  <2>3. row[rank[m]] = m
    <3> DEFINE p == row[rank[m]]
    <3>1. p \in S /\ rank[p] = rank[m] /\ p \in Int /\ m \in Int
      BY <1>1, <2>2
    <3> HIDE DEF p
    <3>2. rank[m] \in Int /\ rank[p] \in Int
      BY <1>3, <2>1, <3>1
    <3>3. ~ (p < m) /\ ~ (m < p)
      BY <1>5, <3>1, <3>2
    <3>4. p = m
      BY <3>1, <3>3
    <3> QED  BY <3>4 DEF p
  <2> QED  BY <2>1, <2>3
<1>11. row \in [T -> T]
  <2>1. ASSUME NEW k \in T PROVE row[k] \in T
    <3>1. CASE k < n
      <4>1. k \in 0 .. n - 1
        BY <1>1, <1>3, <3>1
      <4> QED  BY <1>9, <4>1 DEF T
    <3>2. CASE ~ (k < n)
      <4>1. row[k] = 0
        BY <1>7, <3>2
      <4> QED  BY <1>1, <4>1
    <3> QED  BY <3>1, <3>2
  <2> QED  BY <1>8, <2>1
<1> QED  BY <1>3, <1>4, <1>9, <1>10, <1>11 DEF row, T

(* The three elements are taken once each.                                 *)
LEMMA MedianIs ==
  ASSUME NEW a1 \in Nat, NEW a2 \in Nat, NEW a3 \in Nat
  PROVE  Avx!MedianOf(a1, a2, a3) \in
           {<<a1, a2, a3>>, <<a1, a3, a2>>, <<a2, a1, a3>>,
            <<a2, a3, a1>>, <<a3, a1, a2>>, <<a3, a2, a1>>}
<1> DEFINE e == IF a1 > a2 THEN <<a2, a1, a3>> ELSE <<a1, a2, a3>>
           f == IF e[2] > e[3] THEN <<e[1], e[3], e[2]>> ELSE e
<1>1. Avx!MedianOf(a1, a2, a3)
        = IF e[2] > e[3] /\ f[1] > f[2] THEN <<f[2], f[1], f[3]>> ELSE f
  BY DEF Avx!MedianOf
<1>2. CASE a1 > a2
  <2>1. e = <<a2, a1, a3>>
    BY <1>2
  <2>2. f \in {<<a2, a3, a1>>, <<a2, a1, a3>>}
    BY <2>1
  <2> HIDE DEF e, f
  <2> QED  BY <1>1, <2>2
<1>3. CASE ~ (a1 > a2)
  <2>1. e = <<a1, a2, a3>>
    BY <1>3
  <2>2. f \in {<<a1, a3, a2>>, <<a1, a2, a3>>}
    BY <2>1
  <2> HIDE DEF e, f
  <2> QED  BY <1>1, <2>2
<1> QED  BY <1>2, <1>3

LEMMA HalfIs ==
  ASSUME NEW m \in Nat, m >= 3
  PROVE  m \div 2 \in Nat /\ 1 <= m \div 2 /\ m \div 2 < m - 1
OBVIOUS

LEMMA MedianInv == AvxInv /\ Avx!Median => AvxInv'
<1> SUFFICES ASSUME AvxInv, Avx!Median PROVE AvxInv'
  OBVIOUS
<1> DEFINE F == Avx!From
           n == Avx!Length
           last == F + n - 1
           mid == F + n \div 2
           el == Avx!MedianOf(d[F], d[last], d[mid])
<1>1. /\ calls # <<>> /\ where = "loop" /\ where' = "part" /\ Small < n
      /\ read' = 0 /\ bottom' = 0 /\ top' = 0 /\ piv' = el[2]
      /\ UNCHANGED <<handed, calls, outer, inner, tmp, temp>>
      /\ d' = [d EXCEPT ![F] = el[1], ![mid] = el[3], ![last] = el[2]]
  <2>1. Avx!Median
    OBVIOUS
  <2>2. /\ calls # <<>> /\ where = "loop" /\ where' = "part" /\ n > Small
        /\ read' = 0 /\ bottom' = 0 /\ top' = 0 /\ piv' = el[2]
        /\ UNCHANGED <<handed, calls, outer, inner, tmp, temp>>
        /\ d' = [d EXCEPT ![F] = el[1], ![mid] = el[3], ![last] = el[2]]
    BY <2>1 DEF Avx!Median, Avx!Running
  <2>3. Small < n
    BY <2>2, AvxSizes, FirstPart
  <2> QED  BY <2>2, <2>3
<1>2. /\ F \in Nat /\ n \in Nat /\ F + n <= AvxN /\ n >= 3
      /\ Slots = 0 .. AvxN - 1 /\ AvxN \in Nat /\ d \in [Slots -> Avx!UInt32]
      /\ temp \in [Slots -> Avx!UInt32] /\ Avx!UInt32 \subseteq Nat
      /\ F' = F /\ n' = n
  <2>1. F \in Nat /\ n \in Nat /\ F + n <= AvxN
    BY <1>1, FirstPart
  <2>2. n >= 3
    BY <1>1, <2>1, AvxSizes
  <2>3. F' = F /\ n' = n
    BY <1>1 DEF Avx!From, Avx!Length
  <2>4. Slots = 0 .. AvxN - 1 /\ AvxN \in Nat /\ d \in [Slots -> Avx!UInt32]
        /\ temp \in [Slots -> Avx!UInt32] /\ Avx!UInt32 \subseteq Nat
    <3>1. d \in [Slots -> Avx!UInt32] /\ temp \in [Slots -> Avx!UInt32]
      BY DEF AvxInv, AvxTypes
    <3>2. Avx!UInt32 \subseteq Nat
      BY DEF Avx!UInt32
    <3> QED  BY <3>1, <3>2, AvxSizes
  <2> QED  BY <2>1, <2>2, <2>3, <2>4
<1>3. /\ F \in Slots /\ mid \in Slots /\ last \in Slots
      /\ F < mid /\ mid < last /\ last < F + n
  <2> HIDE DEF F, n
  <2>1. n \div 2 \in Nat /\ 1 <= n \div 2 /\ n \div 2 < n - 1
    BY <1>2, HalfIs
  <2> QED  BY <1>2, <2>1
<1>4. PICK i1 \in {F, mid, last}, i2 \in {F, mid, last}, i3 \in {F, mid, last} :
        /\ i1 # i2 /\ i1 # i3 /\ i2 # i3
        /\ el = <<d[i1], d[i2], d[i3]>>
  <2> DEFINE a1 == d[F]
             a2 == d[last]
             a3 == d[mid]
  <2>1. a1 \in Nat /\ a2 \in Nat /\ a3 \in Nat
    BY <1>2, <1>3
  <2>2. el \in {<<a1, a2, a3>>, <<a1, a3, a2>>, <<a2, a1, a3>>,
                <<a2, a3, a1>>, <<a3, a1, a2>>, <<a3, a2, a1>>}
    <3> HIDE DEF a1, a2, a3
    <3>1. Avx!MedianOf(a1, a2, a3) \in
            {<<a1, a2, a3>>, <<a1, a3, a2>>, <<a2, a1, a3>>,
             <<a2, a3, a1>>, <<a3, a1, a2>>, <<a3, a2, a1>>}
      BY <2>1, MedianIs
    <3> QED  BY <3>1 DEF a1, a2, a3
  <2>3. F # mid /\ F # last /\ mid # last
    <3> HIDE DEF F, mid, last, n
    <3> QED  BY <1>2, <1>3
  <2> HIDE DEF F, mid, last, n, el
  <2> QED  BY <2>2, <2>3
<1>5. el[1] = d[i1] /\ el[2] = d[i2] /\ el[3] = d[i3]
  BY <1>4
<1> DEFINE q == [x \in Slots |-> IF x = F THEN i1 ELSE IF x = last THEN i2
                                 ELSE IF x = mid THEN i3 ELSE x]
<1> HIDE DEF F, n, mid, last, el
<1>6. F # mid /\ F # last /\ mid # last
  BY <1>2, <1>3
<1>7. /\ q \in [Slots -> Slots]
      /\ \A x \in Slots : IF F <= x /\ x < F + n THEN F <= q[x] /\ q[x] < F + n ELSE q[x] = x
  BY <1>2, <1>3
<1>8. ASSUME NEW w \in Slots PROVE \E u \in Slots : q[u] = w
  <2>1. CASE w \in {F, mid, last}
    <3>1. w \in {i1, i2, i3}
      BY <1>4, <1>6, <2>1
    <3>2. q[F] = i1 /\ q[last] = i2 /\ q[mid] = i3
      BY <1>3, <1>6
    <3> QED  BY <1>3, <3>1, <3>2
  <2>2. CASE w \notin {F, mid, last}
    BY <2>2
  <2> QED  BY <2>1, <2>2
<1>9. d' = [x \in Slots |-> d[q[x]]] /\ d' \in [Slots -> Avx!UInt32]
  <2>1. d' = [x \in Slots |-> d[q[x]]]
    <3>1. d' \in [Slots -> {d[x] : x \in Slots}]
      BY <1>1, <1>2, <1>3, <1>4, <1>5
    <3>2. ASSUME NEW x \in Slots PROVE d'[x] = d[q[x]]
      BY <1>1, <1>2, <1>3, <1>5, <1>6
    <3> QED  BY <3>1, <3>2
  <2> HIDE DEF q
  <2> QED  BY <1>2, <1>7, <2>1
<1>10. Filled = d /\ Filled' = d' /\ d'[last] = el[2] /\ piv' = el[2]
  <2>1. Filled = d
    BY <1>1 DEF Filled
  <2>2. Filled' = Kept'
    BY <1>1 DEF Filled
  <2>3. Kept' = [x \in Slots |-> d'[x]]
    <3>1. Behind' = F /\ top' = 0
      BY <1>1, <1>2 DEF Behind, F
    <3>2. \A x : x \notin Behind' .. Behind' + top' - 1
      BY <1>2, <3>1
    <3>3. Slots' = Slots
      BY DEF Slots, Avx!Index
    <3> QED  BY <3>2, <3>3 DEF Kept
  <2>4. d'[last] = el[2]
    BY <1>1, <1>2, <1>3
  <2> QED  BY <1>1, <1>9, <2>1, <2>2, <2>3, <2>4
<1> HIDE DEF q
<1>11. PartsAreRest' /\ SameValues'
  <2>1. \A x \in Slots : IF Avx!From <= x /\ x < Avx!From + Avx!Length
                           THEN Avx!From <= q[x] /\ q[x] < Avx!From + Avx!Length
                           ELSE q[x] = x
    BY <1>7 DEF F, n
  <2>2. Filled' = [x \in Slots |-> Filled[q[x]]]
    BY <1>9, <1>10
  <2> QED  BY <1>1, <1>7, <1>8, <2>1, <2>2, Reordered
<1>12. AvxTypes'
  <2>1. piv' \in Avx!UInt32
    BY <1>3, <1>9, <1>10
  <2> QED  BY <1>1, <1>9, <2>1 DEF AvxInv, AvxTypes, Slots, Avx!Index, Avx!UInt32
<1>13. Parting'
  <2>1. Behind' = F /\ Avx!From' = F /\ Avx!Length' = n
    BY <1>1, <1>2 DEF Behind, F, n
  <2>2. \A x \in Slots : ~ (F <= x /\ x < F) /\ ~ (x < 0)
    BY <1>2
  <2>3. F + n - 1 = last /\ read' < n /\ read' = bottom' + top'
    BY <1>1, <1>2 DEF last
  <2>4. Slots' = Slots
    BY DEF Slots, Avx!Index
  <2> QED  BY <1>1, <1>10, <2>1, <2>2, <2>3, <2>4 DEF Parting
<1>14. Aligned' /\ Inserting'
  BY <1>1 DEF AvxInv, Aligned, Inserting
<1> QED  BY <1>11, <1>12, <1>13, <1>14 DEF AvxInv

(* What the invariant says of the part in the assembly.                    *)
LEMMA InPartition ==
  ASSUME AvxInv, where = "part"
  PROVE  /\ calls # <<>> /\ Slots = 0 .. AvxN - 1 /\ AvxN \in Nat /\ Filled = Kept
         /\ Avx!From \in Nat /\ Avx!Length \in Nat /\ Avx!From + Avx!Length <= AvxN
         /\ read = bottom + top /\ read < Avx!Length
         /\ read \in Nat /\ bottom \in Nat /\ top \in Nat /\ Behind = Avx!From + bottom
         /\ d \in [Slots -> Avx!UInt32] /\ temp \in [Slots -> Avx!UInt32]
         /\ piv \in Avx!UInt32 /\ Signed(piv) \in Int
         /\ \A v \in Avx!UInt32 : Signed(v) \in Int
         /\ Kept \in [Slots -> Avx!UInt32]
         /\ \A x \in Slots : Kept[x] = IF Behind <= x /\ x < Avx!From + read
                                         THEN temp[x - Behind] ELSE d[x]
<1>1. /\ calls # <<>> /\ read = bottom + top /\ read < Avx!Length
      /\ Slots = 0 .. AvxN - 1 /\ AvxN \in Nat /\ Filled = Kept
      /\ read \in Nat /\ bottom \in Nat /\ top \in Nat /\ Behind = Avx!From + bottom
      /\ d \in [Slots -> Avx!UInt32] /\ temp \in [Slots -> Avx!UInt32]
      /\ piv \in Avx!UInt32 /\ \A v \in Avx!UInt32 : Signed(v) \in Int
  BY AvxSizes DEF AvxInv, AvxTypes, Parting, Filled, Behind
<1>2. Avx!From \in Nat /\ Avx!Length \in Nat /\ Avx!From + Avx!Length <= AvxN
  BY <1>1, FirstPart
<1> DEFINE F == Avx!From
<1> HIDE DEF F
<1>3. F \in Nat /\ Behind = F + bottom
  BY <1>1, <1>2 DEF F
<1>4. \A x \in Slots : Kept[x] = IF Behind <= x /\ x < F + read THEN temp[x - Behind] ELSE d[x]
  <2>1. ASSUME NEW x \in Slots
        PROVE  x \in Behind .. Behind + top - 1 <=> Behind <= x /\ x < F + read
    BY <1>1, <1>3
  <2> QED  BY <2>1 DEF Kept
<1>5. Kept \in [Slots -> Avx!UInt32]
  <2>1. ASSUME NEW x \in Slots PROVE Kept[x] \in Avx!UInt32
    <3>1. CASE Behind <= x /\ x < F + read
      <4>1. x - Behind \in Slots
        BY <1>1, <1>3, <3>1
      <4> QED  BY <1>1, <1>4, <3>1, <4>1
    <3>2. CASE ~ (Behind <= x /\ x < F + read)
      BY <1>1, <1>4, <3>2
    <3> QED  BY <3>1, <3>2
  <2>2. Kept = [x \in Slots |-> Kept[x]]
    BY DEF Kept
  <2> QED  BY <2>1, <2>2
<1> QED  BY <1>1, <1>2, <1>4, <1>5 DEF F

(* A vector is split: what is smaller than the pivot is at the bottom, the *)
(* rest in temp, and no word of either is stored over.                     *)
LEMMA VectorInv == AvxInv /\ Avx!Vector => AvxInv'
<1> SUFFICES ASSUME AvxInv, Avx!Vector PROVE AvxInv'
  OBVIOUS
<1> DEFINE F == Avx!From
           n == Avx!Length
           block == [k \in Avx!Lane |-> d[F + read + k]]
           S == Avx!LeftLanes(block)
           c == Cardinality(S)
           left == Avx!PermTable(S)
           right == Avx!PermTable(Avx!Lane \ S)
<1>1. /\ where = "part" /\ where' = "part" /\ Lanes <= n - 1 - read
      /\ d' = Avx!Stored(d, F + bottom, block, S)
      /\ temp' = Avx!Stored(temp, top, block, Avx!Lane \ S)
      /\ bottom' = bottom + c /\ top' = top + Lanes - c /\ read' = read + Lanes
      /\ UNCHANGED <<handed, calls, outer, inner, tmp, piv>>
  <2>1. Avx!CountOf(S) = c
    BY LanesCounted
  <2>2. /\ where = "part" /\ where' = "part" /\ Lanes <= n - 1 - read
        /\ d' = Avx!Stored(d, F + bottom, block, S)
        /\ temp' = Avx!Stored(temp, top, block, Avx!Lane \ S)
        /\ bottom' = bottom + Avx!CountOf(S) /\ top' = top + Lanes - Avx!CountOf(S)
        /\ read' = read + Lanes
        /\ UNCHANGED <<handed, calls, outer, inner, tmp, piv>>
    BY DEF Avx!Vector
  <2> HIDE DEF S
  <2> QED  BY <2>1, <2>2
<1>2. /\ calls # <<>> /\ Slots = 0 .. AvxN - 1 /\ AvxN \in Nat
      /\ F \in Nat /\ n \in Nat /\ F + n <= AvxN
      /\ read = bottom + top /\ read < n
      /\ read \in Nat /\ bottom \in Nat /\ top \in Nat
      /\ Lanes \in Nat \ {0} /\ Avx!Lane = 0 .. Lanes - 1
      /\ F' = F /\ n' = n
  <2>1. F' = F /\ n' = n
    BY <1>1 DEF Avx!From, Avx!Length
  <2> QED  BY <1>1, <2>1, InPartition, AvxSizes DEF Avx!Lane
<1>3. /\ c \in 0 .. Lanes /\ S \subseteq Avx!Lane
      /\ left \in [Avx!Lane -> Avx!Lane] /\ right \in [Avx!Lane -> Avx!Lane]
      /\ \A k \in 0 .. c - 1 : left[k] \in S
      /\ \A m \in S : \E k \in 0 .. c - 1 : left[k] = m
      /\ \A k \in 0 .. Lanes - c - 1 : right[k] \in Avx!Lane \ S
      /\ \A m \in Avx!Lane \ S : \E k \in 0 .. Lanes - c - 1 : right[k] = m
  <2>1. S \subseteq Avx!Lane /\ Avx!Lane \ S \subseteq Avx!Lane
    BY DEF Avx!LeftLanes
  <2> HIDE DEF S
  <2>2. /\ Cardinality(S) \in 0 .. Lanes
        /\ Cardinality(Avx!Lane \ S) = Lanes - Cardinality(S)
        /\ left \in [Avx!Lane -> Avx!Lane]
        /\ \A k \in 0 .. Cardinality(S) - 1 : left[k] \in S
        /\ \A m \in S : \E k \in 0 .. Cardinality(S) - 1 : left[k] = m
    BY <2>1, RowFills
  <2> DEFINE R == Avx!Lane \ S
  <2> HIDE DEF R
  <2>3. /\ Avx!PermTable(R) \in [Avx!Lane -> Avx!Lane]
        /\ \A k \in 0 .. Cardinality(R) - 1 : Avx!PermTable(R)[k] \in R
        /\ \A m \in R : \E k \in 0 .. Cardinality(R) - 1 : Avx!PermTable(R)[k] = m
    <3>1. R \subseteq Avx!Lane
      BY <2>1 DEF R
    <3> QED  BY <3>1, RowFills
  <2>4. Cardinality(R) = Lanes - c /\ right = Avx!PermTable(R)
    BY <2>2 DEF R
  <2> HIDE DEF left, right, c
  <2>5. /\ \A k \in 0 .. Lanes - c - 1 : right[k] \in R
        /\ \A m \in R : \E k \in 0 .. Lanes - c - 1 : right[k] = m
        /\ right \in [Avx!Lane -> Avx!Lane]
    BY <2>3, <2>4
  <2>6. /\ c \in 0 .. Lanes
        /\ \A k \in 0 .. c - 1 : left[k] \in S
        /\ \A m \in S : \E k \in 0 .. c - 1 : left[k] = m
    BY <2>2 DEF c
  <2> QED  BY <2>1, <2>2, <2>5, <2>6 DEF R
<1>4. \A k \in Avx!Lane : block[k] = d[F + read + k] /\ F + read + k \in Slots
                          /\ (k \in S <=> Signed(piv) > Signed(d[F + read + k]))
  <2>1. ASSUME NEW k \in Avx!Lane PROVE F + read + k \in Slots
    <3> HIDE DEF F, n
    <3> QED  BY <1>1, <1>2
  <2> QED  BY <2>1 DEF Avx!LeftLanes, Signed
<1>5. /\ \A x \in Slots : d'[x] = IF F + bottom <= x /\ x < F + bottom + Lanes
                                    THEN d[F + read + left[x - F - bottom]] ELSE d[x]
      /\ \A x \in Slots : temp'[x] = IF top <= x /\ x < top + Lanes
                                       THEN d[F + read + right[x - top]] ELSE temp[x]
      /\ d' \in [Slots -> Avx!UInt32] /\ temp' \in [Slots -> Avx!UInt32]
  <2>1. ASSUME NEW f \in [Slots -> Avx!UInt32], NEW to \in Nat, NEW T, T \subseteq Avx!Lane
        PROVE  /\ \A x \in Slots : Avx!Stored(f, to, block, T)[x]
                    = IF to <= x /\ x < to + Lanes
                        THEN d[F + read + Avx!PermTable(T)[x - to]] ELSE f[x]
               /\ Avx!Stored(f, to, block, T) \in [Slots -> Avx!UInt32]
    <3> DEFINE row == Avx!PermTable(T)
               g == Avx!Stored(f, to, block, T)
    <3>1. row \in [Avx!Lane -> Avx!Lane]
      BY <2>1, RowFills
    <3>2. g = [x \in Slots |-> IF x \in to .. to + Lanes - 1 THEN block[row[x - to]] ELSE f[x]]
      BY DEF Avx!Stored, Slots
    <3> HIDE DEF row, g, block, F, n
    <3>3. ASSUME NEW x \in Slots
          PROVE  /\ g[x] = IF to <= x /\ x < to + Lanes THEN d[F + read + row[x - to]] ELSE f[x]
                 /\ g[x] \in Avx!UInt32
      <4>1. CASE to <= x /\ x < to + Lanes
        <5>1. x \in to .. to + Lanes - 1 /\ x - to \in Avx!Lane
          BY <1>2, <2>1, <4>1
        <5>2. row[x - to] \in Avx!Lane /\ g[x] = block[row[x - to]]
          BY <3>1, <3>2, <5>1
        <5>3. g[x] = d[F + read + row[x - to]] /\ F + read + row[x - to] \in Slots
          BY <1>4, <5>2
        <5>4. d \in [Slots -> Avx!UInt32]
          BY <1>1, InPartition
        <5>5. g[x] \in Avx!UInt32
          BY <5>3, <5>4
        <5> QED  BY <4>1, <5>3, <5>5
      <4>2. CASE ~ (to <= x /\ x < to + Lanes)
        <5>1. x \notin to .. to + Lanes - 1
          BY <1>2, <2>1, <4>2
        <5> QED  BY <2>1, <3>2, <4>2, <5>1
      <4> QED  BY <4>1, <4>2
    <3> QED  BY <3>2, <3>3 DEF row, g
  <2>2. d \in [Slots -> Avx!UInt32] /\ temp \in [Slots -> Avx!UInt32]
    BY <1>1, InPartition
  <2> HIDE DEF block, S, F, n
  <2>3. F + bottom \in Nat /\ top \in Nat /\ \A x \in Slots : x - (F + bottom) = x - F - bottom
    BY <1>2
  <2>4. /\ \A x \in Slots : d'[x] = IF F + bottom <= x /\ x < F + bottom + Lanes
                                      THEN d[F + read + left[x - (F + bottom)]] ELSE d[x]
        /\ d' \in [Slots -> Avx!UInt32]
    <3> DEFINE g == Avx!Stored(d, F + bottom, block, S)
    <3>1. /\ \A x \in Slots : g[x] = IF F + bottom <= x /\ x < F + bottom + Lanes
                                       THEN d[F + read + left[x - (F + bottom)]] ELSE d[x]
          /\ g \in [Slots -> Avx!UInt32]
      BY <1>3, <2>1, <2>2, <2>3
    <3>2. d' = g
      BY <1>1
    <3> HIDE DEF g, left
    <3> QED  BY <3>1, <3>2
  <2>5. /\ \A x \in Slots : temp'[x] = IF top <= x /\ x < top + Lanes
                                         THEN d[F + read + right[x - top]] ELSE temp[x]
        /\ temp' \in [Slots -> Avx!UInt32]
    <3> DEFINE R == Avx!Lane \ S
               g == Avx!Stored(temp, top, block, R)
    <3>1. R \subseteq Avx!Lane
      OBVIOUS
    <3> HIDE DEF R
    <3>2. /\ \A x \in Slots : g[x] = IF top <= x /\ x < top + Lanes
                                       THEN d[F + read + Avx!PermTable(R)[x - top]] ELSE temp[x]
          /\ g \in [Slots -> Avx!UInt32]
      BY <2>1, <2>2, <2>3, <3>1
    <3>3. temp' = g /\ right = Avx!PermTable(R)
      BY <1>1 DEF R
    <3> HIDE DEF g, right
    <3> QED  BY <3>2, <3>3
  <2> HIDE DEF left, right
  <2>6. \A x \in Slots : left[x - (F + bottom)] = left[x - F - bottom]
    BY <2>3
  <2> QED  BY <2>4, <2>5, <2>6
<1> DEFINE q == PlaceOf(F, bottom, top, Lanes, c, left, right)
<1> HIDE DEF F, n, block, S, c, left, right
<1>13. /\ c \in Nat /\ c <= Lanes /\ Lanes - c \in Nat
       /\ \A k \in 0 .. Lanes - 1 : left[k] \in Nat /\ right[k] \in Nat
  <2>1. c \in 0 .. Lanes /\ left \in [Avx!Lane -> Avx!Lane] /\ right \in [Avx!Lane -> Avx!Lane]
    BY <1>3
  <2>2. Avx!Lane = 0 .. Lanes - 1 /\ Lanes \in Nat
    BY <1>2
  <2> QED  BY <2>1, <2>2
<1>6. /\ q \in [Slots -> Slots]
      /\ \A x \in Slots : IF F <= x /\ x < F + n THEN F <= q[x] /\ q[x] < F + n ELSE q[x] = x
      /\ \A v \in Slots : \E u \in Slots : q[u] = v
      /\ \A x \in Slots : F + bottom <= x /\ x < F + bottom + c
                           => q[x] = F + read + left[x - F - bottom]
      /\ \A x \in Slots : F + bottom + c <= x /\ x < F + read + c => q[x] = x - c
      /\ \A x \in Slots : F + read + c <= x /\ x < F + read + Lanes
                           => q[x] = F + read + right[x - F - bottom - top - c]
      /\ \A x \in Slots : x < F + bottom \/ F + read + Lanes <= x => q[x] = x
  <2>1. F + read = F + bottom + top /\ bottom + top + Lanes <= n /\ Lanes \in Nat
    BY <1>1, <1>2
  <2>2. Splits(Lanes, S, c, left, right)
    <3>1. Avx!Lane = 0 .. Lanes - 1
      BY <1>2
    <3> QED  BY <1>3, <3>1, Zenon DEF Splits
  <2>3. /\ F \in Nat /\ n \in Nat /\ bottom \in Nat /\ top \in Nat /\ Lanes \in Nat
        /\ bottom + top + Lanes <= n /\ F + n <= AvxN
    BY <1>2, <2>1
  <2>4. LaidOut(F, n, bottom, top, Lanes, c, left, right, q)
    BY <2>2, <2>3, PlacesFit
  <2> HIDE DEF q
  <2> QED  BY <2>1, <2>4 DEF LaidOut
<1> HIDE DEF q
<1>7. /\ Filled = Kept /\ Filled' = Kept'
      /\ \A x \in Slots : Kept[x] = IF F + bottom <= x /\ x < F + read
                                      THEN temp[x - F - bottom] ELSE d[x]
      /\ \A x \in Slots : Kept'[x] = IF F + bottom + c <= x /\ x < F + read + Lanes
                                       THEN temp'[x - F - bottom - c] ELSE d'[x]
      /\ Kept' = [x \in Slots |-> Kept'[x]]
  <2>1. Filled = Kept /\ Filled' = Kept'
    BY <1>1 DEF Filled
  <2>2. ASSUME NEW x \in Slots
        PROVE  Kept[x] = IF F + bottom <= x /\ x < F + read
                           THEN temp[x - F - bottom] ELSE d[x]
    <3>1. Kept[x] = IF Behind <= x /\ x < F + read THEN temp[x - Behind] ELSE d[x]
      BY <1>1, InPartition DEF F
    <3>2. Behind = F + bottom /\ x - Behind = x - F - bottom
      BY <1>2 DEF Behind, F
    <3> QED  BY <3>1, <3>2
  <2>3. Behind' = F + bottom + c /\ top' = top + Lanes - c
    <3>1. Behind' = F' + bottom'
      BY DEF Behind, F
    <3>2. c \in Nat
      BY <1>2, <1>3
    <3> QED  BY <1>1, <1>2, <3>1, <3>2
  <2>4. Slots' = Slots
    BY DEF Slots, Avx!Index
  <2>5. Kept' = [x \in Slots |-> IF x \in Behind' .. Behind' + top' - 1
                                   THEN temp'[x - Behind'] ELSE d'[x]]
    BY <2>4 DEF Kept
  <2>6. ASSUME NEW x \in Slots
        PROVE  Kept'[x] = IF F + bottom + c <= x /\ x < F + read + Lanes
                            THEN temp'[x - F - bottom - c] ELSE d'[x]
    <3>1. /\ F \in Nat /\ bottom \in Nat /\ c \in Nat /\ top \in Nat /\ Lanes \in Nat
          /\ Lanes - c \in Nat /\ read = bottom + top /\ x \in Nat
      BY <1>2, <1>3
    <3>2. /\ x - Behind' = x - F - bottom - c
          /\ x \in Behind' .. Behind' + top' - 1
               <=> F + bottom + c <= x /\ x < F + read + Lanes
      BY <2>3, <3>1
    <3> QED  BY <2>5, <3>2
  <2> QED  BY <2>1, <2>2, <2>5, <2>6
<1>8. ASSUME NEW x \in Slots PROVE Filled'[x] = Filled[q[x]]
  <2>1. x \in Nat /\ c \in Nat /\ c <= Lanes /\ q[x] \in Slots
    BY <1>2, <1>6, <1>13
  <2>a. /\ F \in Nat /\ read \in Nat /\ bottom \in Nat /\ top \in Nat /\ Lanes \in Nat
        /\ read = bottom + top /\ Slots = 0 .. AvxN - 1 /\ AvxN \in Nat
    BY <1>2
  <2>b. /\ F + bottom <= x /\ x < F + bottom + c => q[x] = F + read + left[x - F - bottom]
        /\ F + bottom + c <= x /\ x < F + read + c => q[x] = x - c
        /\ F + read + c <= x /\ x < F + read + Lanes
             => q[x] = F + read + right[x - F - bottom - top - c]
        /\ x < F + bottom \/ F + read + Lanes <= x => q[x] = x
    BY <1>6
  <2>c. /\ d'[x] = IF F + bottom <= x /\ x < F + bottom + Lanes
                     THEN d[F + read + left[x - F - bottom]] ELSE d[x]
        /\ Filled'[x] = IF F + bottom + c <= x /\ x < F + read + Lanes
                          THEN temp'[x - F - bottom - c] ELSE d'[x]
        /\ Filled[q[x]] = IF F + bottom <= q[x] /\ q[x] < F + read
                            THEN temp[q[x] - F - bottom] ELSE d[q[x]]
    BY <1>5, <1>7, <2>1
  <2>2. CASE x < F + bottom
    <3>1. q[x] = x
      BY <2>b, <2>2
    <3>2. ~ (F + bottom <= x) /\ ~ (F + bottom + c <= x)
      BY <2>1, <2>a, <2>2
    <3> QED  BY <2>c, <3>1, <3>2
  <2>3. CASE F + bottom <= x /\ x < F + bottom + c
    <3>1. x - F - bottom \in 0 .. c - 1
      BY <2>a, <2>1, <2>3
    <3>2. left[x - F - bottom] \in Nat
      BY <1>13, <2>a, <3>1
    <3>3. q[x] = F + read + left[x - F - bottom]
      BY <2>b, <2>3
    <3>4. ~ (q[x] < F + read)
      BY <2>a, <3>2, <3>3
    <3>5. x < F + bottom + Lanes /\ ~ (F + bottom + c <= x)
      BY <2>a, <2>1, <2>3
    <3> QED  BY <2>c, <2>3, <3>3, <3>4, <3>5
  <2>4. CASE F + bottom + c <= x /\ x < F + read + c
    <3> DEFINE y == x - F - bottom - c
    <3>1. q[x] = x - c
      BY <2>b, <2>4
    <3>2. /\ y \in Slots /\ y < top /\ q[x] - F - bottom = y
          /\ F + bottom <= q[x] /\ q[x] < F + read /\ x < F + read + Lanes
      BY <2>a, <2>1, <2>4, <3>1
    <3>3. Filled'[x] = temp'[y]
      BY <2>c, <2>4, <3>2
    <3> HIDE DEF y
    <3>4. temp'[y] = temp[y]
      BY <1>5, <2>a, <3>2
    <3>5. Filled[q[x]] = temp[y]
      BY <2>c, <3>2
    <3> QED  BY <3>3, <3>4, <3>5
  <2>5. CASE F + read + c <= x /\ x < F + read + Lanes
    <3> DEFINE y == x - F - bottom - c
               k == x - F - bottom - top - c
    <3>1. /\ y \in Slots /\ top <= y /\ y < top + Lanes /\ y - top = k
          /\ k \in 0 .. Lanes - c - 1 /\ F + bottom + c <= x
      BY <2>a, <2>1, <2>5
    <3>2. Filled'[x] = temp'[y] /\ q[x] = F + read + right[k]
      BY <2>b, <2>c, <2>5, <3>1
    <3> HIDE DEF y, k
    <3>3. right[k] \in Nat
      BY <1>13, <2>a, <3>1
    <3>4. temp'[y] = d[F + read + right[k]]
      BY <1>5, <3>1
    <3>5. ~ (q[x] < F + read)
      BY <2>a, <3>2, <3>3
    <3> QED  BY <2>c, <3>2, <3>4, <3>5
  <2>6. CASE F + read + Lanes <= x
    <3>1. q[x] = x
      BY <2>b, <2>6
    <3>2. /\ ~ (x < F + bottom + Lanes) /\ ~ (x < F + read + Lanes) /\ ~ (x < F + read)
      BY <2>a, <2>1, <2>6
    <3> QED  BY <2>c, <3>1, <3>2
  <2>7. \/ x < F + bottom
        \/ F + bottom <= x /\ x < F + bottom + c
        \/ F + bottom + c <= x /\ x < F + read + c
        \/ F + read + c <= x /\ x < F + read + Lanes
        \/ F + read + Lanes <= x
    BY <2>a, <2>1
  <2> QED  BY <2>2, <2>3, <2>4, <2>5, <2>6, <2>7
<1>9. PartsAreRest' /\ SameValues'
  <2>1. Filled' = [x \in Slots |-> Filled[q[x]]]
    BY <1>7, <1>8
  <2>2. \A x \in Slots : IF Avx!From <= x /\ x < Avx!From + Avx!Length
                           THEN Avx!From <= q[x] /\ q[x] < Avx!From + Avx!Length
                           ELSE q[x] = x
    BY <1>6 DEF F, n
  <2> QED  BY <1>1, <1>2, <1>6, <2>1, <2>2, Reordered
<1>10. AvxTypes'
  <2>1. read' \in Nat /\ bottom' \in Nat /\ top' \in Nat
    BY <1>1, <1>2, <1>3
  <2> QED  BY <1>1, <1>5, <2>1 DEF AvxInv, AvxTypes, Slots, Avx!Index, Avx!UInt32
<1>11. Parting'
  <2>1. /\ Behind' = F + bottom + c /\ Avx!From' = F /\ Avx!Length' = n /\ Slots' = Slots
    <3>1. Behind' = F' + bottom' /\ c \in Nat
      BY <1>2, <1>3 DEF Behind, F
    <3>2. Slots' = Slots
      BY DEF Slots, Avx!Index
    <3>3. Avx!From' = F /\ Avx!Length' = n
      BY <1>2 DEF F, n
    <3> QED  BY <1>1, <1>2, <3>1, <3>2, <3>3
  <2>2. read' = bottom' + top' /\ read' < n
    BY <1>1, <1>2, <1>3
  <2>3. /\ d[F + n - 1] = piv
        /\ \A x \in Slots : F <= x /\ x < F + bottom => Signed(d[x]) <= Signed(piv)
        /\ \A k \in Slots : k < top => Signed(piv) <= Signed(temp[k])
    BY <1>1 DEF AvxInv, Parting, Behind, F, n
  <2>4. d'[F + n - 1] = piv
    <3>1. F + n - 1 \in Slots /\ ~ (F + n - 1 < F + bottom + Lanes)
      BY <1>1, <1>2
    <3> QED  BY <1>5, <2>3, <3>1
  <2>5. /\ Signed(piv) \in Int /\ \A v \in Avx!UInt32 : Signed(v) \in Int
        /\ d \in [Slots -> Avx!UInt32]
    BY <1>1, InPartition
  <2>6. ASSUME NEW x \in Slots, F <= x, x < F + bottom + c
        PROVE  Signed(d'[x]) <= Signed(piv)
    <3>1. CASE x < F + bottom
      <4>1. d'[x] = d[x]
        BY <1>2, <1>5, <3>1
      <4> QED  BY <2>3, <2>6, <3>1, <4>1
    <3>2. CASE F + bottom <= x
      <4>1. x - F - bottom \in 0 .. c - 1 /\ x < F + bottom + Lanes
        BY <1>2, <1>3, <2>6, <3>2
      <4>2. left[x - F - bottom] \in S /\ d'[x] = d[F + read + left[x - F - bottom]]
        BY <1>3, <1>5, <3>2, <4>1
      <4>3. Signed(piv) > Signed(d'[x]) /\ d'[x] \in Avx!UInt32
        BY <1>3, <1>4, <1>5, <4>2
      <4> QED  BY <2>5, <4>3
    <3> QED  BY <1>2, <3>1, <3>2
  <2>7. ASSUME NEW k \in Slots, k < top + Lanes - c
        PROVE  Signed(piv) <= Signed(temp'[k])
    <3>1. CASE k < top
      <4>1. temp'[k] = temp[k]
        BY <1>2, <1>5, <3>1
      <4> QED  BY <2>3, <3>1, <4>1
    <3>2. CASE top <= k
      <4>1. k - top \in 0 .. Lanes - c - 1 /\ k < top + Lanes
        BY <1>2, <1>3, <2>7, <3>2
      <4>2. right[k - top] \in Avx!Lane \ S /\ temp'[k] = d[F + read + right[k - top]]
        BY <1>3, <1>5, <3>2, <4>1
      <4>3. ~ (Signed(piv) > Signed(temp'[k])) /\ temp'[k] \in Avx!UInt32
        BY <1>4, <1>5, <4>2
      <4> QED  BY <2>5, <4>3
    <3> QED  BY <1>2, <3>1, <3>2
  <2>8. piv' = piv /\ top' = top + Lanes - c /\ calls' # <<>>
    BY <1>1, <1>2
  <2> QED  BY <2>1, <2>2, <2>4, <2>6, <2>7, <2>8 DEF Parting, Signed, Avx!Signed
<1>12. Aligned' /\ Inserting'
  BY <1>1 DEF AvxInv, Aligned, Inserting
<1> QED  BY <1>9, <1>10, <1>11, <1>12 DEF AvxInv

(* One word more is put behind those at the bottom, before those in temp.  *)
LEMMA OneMore ==
  ASSUME AvxInv, where = "part",
         NEW q, q = PlaceOf(Avx!From, bottom, top, 1, 1, [k \in {0} |-> 0], [k \in {0} |-> 0])
  PROVE  /\ q \in [Slots -> Slots]
         /\ \A x \in Slots : IF Avx!From <= x /\ x < Avx!From + Avx!Length
                               THEN Avx!From <= q[x] /\ q[x] < Avx!From + Avx!Length
                               ELSE q[x] = x
         /\ \A v \in Slots : \E u \in Slots : q[u] = v
         /\ \A x \in Slots : x = Behind => q[x] = Avx!From + read
         /\ \A x \in Slots : Behind < x /\ x <= Avx!From + read => q[x] = x - 1
         /\ \A x \in Slots : x < Behind \/ Avx!From + read < x => q[x] = x
<1> DEFINE f == Avx!From
           n == Avx!Length
           zero == [k \in {0} |-> 0]
<1>1. /\ f \in Nat /\ n \in Nat /\ bottom \in Nat /\ top \in Nat /\ f + n <= AvxN
      /\ bottom + top + 1 <= n /\ read = bottom + top /\ Behind = f + bottom
      /\ Slots = 0 .. AvxN - 1 /\ AvxN \in Nat
  <2> HIDE DEF f, n
  <2>1. /\ f \in Nat /\ n \in Nat /\ bottom \in Nat /\ top \in Nat /\ f + n <= AvxN
        /\ read < n /\ read = bottom + top /\ Behind = f + bottom
        /\ Slots = 0 .. AvxN - 1 /\ AvxN \in Nat
    BY InPartition DEF f, n
  <2> QED  BY <2>1
<1>2. Splits(1, {0}, 1, zero, zero)
  <2>1. 0 .. 1 - 1 = {0} /\ 0 .. 1 - 1 - 1 = {} /\ 1 \in 0 .. 1 /\ zero[0] = 0
    OBVIOUS
  <2> HIDE DEF zero
  <2> QED  BY <2>1 DEF Splits
<1>3. q = PlaceOf(f, bottom, top, 1, 1, zero, zero) /\ zero[0] = 0
  OBVIOUS
<1> HIDE DEF f, n, zero
<1>4. /\ q \in [Slots -> Slots]
      /\ \A x \in Slots : IF f <= x /\ x < f + n THEN f <= q[x] /\ q[x] < f + n ELSE q[x] = x
      /\ \A v \in Slots : \E u \in Slots : q[u] = v
      /\ \A x \in Slots : f + bottom <= x /\ x < f + bottom + 1
                           => q[x] = f + bottom + top + zero[x - f - bottom]
      /\ \A x \in Slots : f + bottom + 1 <= x /\ x < f + bottom + top + 1 => q[x] = x - 1
      /\ \A x \in Slots : x < f + bottom \/ f + bottom + top + 1 <= x => q[x] = x
  <2>1. LaidOut(f, n, bottom, top, 1, 1, zero, zero, q)
    BY <1>1, <1>2, <1>3, PlacesFit
  <2> QED  BY <2>1 DEF LaidOut
<1>5. ASSUME NEW x \in Slots
      PROVE  /\ x = Behind => q[x] = f + read
             /\ Behind < x /\ x <= f + read => q[x] = x - 1
             /\ x < Behind \/ f + read < x => q[x] = x
  <2>1. x \in Nat
    BY <1>1
  <2>2. CASE x = Behind
    <3>1. x - f - bottom = 0 /\ f + bottom <= x /\ x < f + bottom + 1
      BY <1>1, <2>2
    <3>2. q[x] = f + bottom + top + zero[0]
      BY <1>4, <3>1
    <3> QED  BY <1>1, <1>3, <2>2, <3>2
  <2>3. CASE Behind < x /\ x <= f + read
    <3>1. f + bottom + 1 <= x /\ x < f + bottom + top + 1 /\ x # Behind
          /\ ~ (x < Behind \/ f + read < x)
      BY <1>1, <2>1, <2>3
    <3>2. q[x] = x - 1
      BY <1>4, <3>1
    <3> QED  BY <3>1, <3>2
  <2>4. CASE x < Behind \/ f + read < x
    <3>1. /\ x < f + bottom \/ f + bottom + top + 1 <= x
          /\ x # Behind /\ ~ (Behind < x /\ x <= f + read)
      BY <1>1, <2>1, <2>4
    <3>2. q[x] = x
      BY <1>4, <3>1
    <3> QED  BY <3>1, <3>2
  <2> QED  BY <1>1, <2>1, <2>2, <2>3, <2>4
<1> QED  BY <1>4, <1>5 DEF f, n

LEMMA WordInv == AvxInv /\ Avx!Word => AvxInv'
<1> SUFFICES ASSUME AvxInv, Avx!Word PROVE AvxInv'
  OBVIOUS
<1> DEFINE F == Avx!From
           n == Avx!Length
           w == d[F + read]
<1>1. /\ where = "part" /\ where' = "part" /\ read < n - 1 /\ read' = read + 1
      /\ IF Signed(w) > Signed(piv)
           THEN temp' = [temp EXCEPT ![top] = w] /\ top' = top + 1 /\ d' = d /\ bottom' = bottom
           ELSE /\ d' = [d EXCEPT ![F + bottom] = w] /\ bottom' = bottom + 1
                /\ temp' = temp /\ top' = top
      /\ UNCHANGED <<handed, calls, outer, inner, tmp, piv>>
  BY DEF Avx!Word, Signed
<1>2. /\ calls # <<>> /\ Slots = 0 .. AvxN - 1 /\ AvxN \in Nat
      /\ F \in Nat /\ n \in Nat /\ F + n <= AvxN
      /\ read = bottom + top /\ read < n
      /\ read \in Nat /\ bottom \in Nat /\ top \in Nat
      /\ d \in [Slots -> Avx!UInt32] /\ temp \in [Slots -> Avx!UInt32]
      /\ Signed(piv) \in Int /\ \A v \in Avx!UInt32 : Signed(v) \in Int
      /\ Behind = F + bottom /\ Filled = Kept /\ Kept \in [Slots -> Avx!UInt32]
      /\ F' = F /\ n' = n /\ Slots' = Slots
  <2>1. F' = F /\ n' = n /\ Slots' = Slots
    BY <1>1 DEF Avx!From, Avx!Length, Slots, Avx!Index
  <2> QED  BY <1>1, <2>1, InPartition
<1>3. /\ F + read \in Slots /\ F + bottom \in Slots /\ top \in Slots
      /\ w \in Avx!UInt32 /\ Signed(w) \in Int /\ F + n - 1 \in Slots
      /\ F + bottom < F + n - 1
  <2> HIDE DEF F, n
  <2>1. F + read \in Slots /\ F + bottom \in Slots /\ top \in Slots /\ F + n - 1 \in Slots
        /\ F + bottom < F + n - 1
    BY <1>1, <1>2
  <2> QED  BY <1>2, <2>1
<1>4. /\ \A x \in Slots : Kept[x] = IF Behind <= x /\ x < F + read THEN temp[x - Behind] ELSE d[x]
      /\ d[F + n - 1] = piv
      /\ \A x \in Slots : F <= x /\ x < Behind => Signed(d[x]) <= Signed(piv)
      /\ \A k \in Slots : k < top => Signed(piv) <= Signed(temp[k])
  BY <1>1, InPartition DEF AvxInv, Parting
<1>5. /\ Filled' = Kept' /\ Behind' = F + bottom'
      /\ Kept' = [x \in Slots |-> IF x \in Behind' .. Behind' + top' - 1
                                    THEN temp'[x - Behind'] ELSE d'[x]]
  <2>1. Filled' = Kept'
    BY <1>1 DEF Filled
  <2>2. Behind' = F + bottom'
    BY <1>2 DEF Behind
  <2> QED  BY <1>2, <2>1, <2>2 DEF Kept
<1>6. /\ d' \in [Slots -> Avx!UInt32] /\ temp' \in [Slots -> Avx!UInt32]
      /\ bottom' \in Nat /\ top' \in Nat /\ read' \in Nat /\ read' = bottom' + top' /\ read' < n
      /\ d'[F + n - 1] = piv
      /\ \A x \in Slots : F <= x /\ x < Behind' => Signed(d'[x]) <= Signed(piv)
      /\ \A k \in Slots : k < top' => Signed(piv) <= Signed(temp'[k])
  <2> HIDE DEF F, n, w
  <2>1. CASE Signed(w) > Signed(piv)
    <3>1. d' = d /\ bottom' = bottom /\ temp' = [temp EXCEPT ![top] = w] /\ top' = top + 1
      BY <1>1, <2>1
    <3>2. temp' \in [Slots -> Avx!UInt32] /\ temp'[top] = w
          /\ \A k \in Slots : k # top => temp'[k] = temp[k]
      BY <1>2, <1>3, <3>1
    <3>3. ASSUME NEW k \in Slots, k < top' PROVE Signed(piv) <= Signed(temp'[k])
      <4>1. k = top \/ k < top
        BY <1>2, <3>1, <3>3
      <4> QED  BY <1>2, <1>3, <1>4, <2>1, <3>2, <4>1
    <3>4. Behind' = Behind
      BY <1>2, <1>5, <3>1
    <3>5. read' = bottom' + top' /\ read' < n /\ read' \in Nat /\ top' \in Nat
      BY <1>1, <1>2, <3>1
    <3> QED  BY <1>2, <1>4, <3>1, <3>2, <3>3, <3>4, <3>5
  <2>2. CASE ~ (Signed(w) > Signed(piv))
    <3>1. d' = [d EXCEPT ![F + bottom] = w] /\ bottom' = bottom + 1 /\ temp' = temp /\ top' = top
      BY <1>1, <2>2
    <3>2. d' \in [Slots -> Avx!UInt32] /\ d'[F + bottom] = w
          /\ \A x \in Slots : x # F + bottom => d'[x] = d[x]
      BY <1>2, <1>3, <3>1
    <3>3. ASSUME NEW x \in Slots, F <= x, x < Behind' PROVE Signed(d'[x]) <= Signed(piv)
      <4>1. x = F + bottom \/ x < Behind
        BY <1>2, <1>5, <3>1, <3>3
      <4>2. CASE x = F + bottom
        BY <1>2, <1>3, <2>2, <3>2, <4>2
      <4>3. CASE x # F + bottom /\ x < Behind
        BY <1>4, <3>2, <3>3, <4>3
      <4> QED  BY <4>1, <4>2, <4>3
    <3>4. d'[F + n - 1] = piv
      BY <1>2, <1>3, <1>4, <3>2
    <3>5. read' = bottom' + top' /\ read' < n /\ read' \in Nat /\ bottom' \in Nat
      BY <1>1, <1>2, <3>1
    <3> QED  BY <1>2, <1>4, <3>1, <3>2, <3>3, <3>4, <3>5
  <2> QED  BY <2>1, <2>2
<1>7. PartsAreRest' /\ SameValues'
  <2>1. CASE Signed(w) > Signed(piv)
    <3>1. Filled' = Filled
      <4> HIDE DEF F, n, w
      <4>1. d' = d /\ Behind' = Behind /\ temp' = [temp EXCEPT ![top] = w] /\ top' = top + 1
        BY <1>1, <1>2, <1>5, <2>1
      <4>2. ASSUME NEW x \in Slots PROVE Kept'[x] = Kept[x]
        <5>1. x \in Behind' .. Behind' + top' - 1 <=> Behind <= x /\ x <= F + read
          BY <1>2, <4>1
        <5>5. /\ Kept'[x] = IF Behind <= x /\ x <= F + read THEN temp'[x - Behind] ELSE d[x]
              /\ Kept[x] = IF Behind <= x /\ x < F + read THEN temp[x - Behind] ELSE d[x]
          BY <1>4, <1>5, <4>1, <5>1
        <5>2. CASE Behind <= x /\ x < F + read
          <6>1. x - Behind \in Slots /\ x - Behind # top
            BY <1>2, <5>2
          <6>2. temp'[x - Behind] = temp[x - Behind]
            BY <1>2, <1>3, <4>1, <6>1
          <6>3. x <= F + read
            BY <1>2, <5>2
          <6> QED  BY <5>2, <5>5, <6>2, <6>3
        <5>3. CASE x = F + read
          <6>1. x - Behind = top /\ Behind <= x /\ ~ (x < F + read)
            BY <1>2, <5>3
          <6>2. Kept'[x] = temp'[top] /\ temp'[top] = w
            <7>1. temp'[top] = w
              BY <1>2, <1>3, <4>1
            <7>2. x <= F + read
              BY <1>2, <5>3
            <7> QED  BY <5>5, <6>1, <7>1, <7>2
          <6> QED  BY <5>3, <5>5, <6>1, <6>2 DEF w
        <5>4. CASE ~ (Behind <= x /\ x <= F + read)
          <6>1. ~ (Behind <= x /\ x < F + read)
            BY <1>2, <5>4
          <6> QED  BY <5>4, <5>5, <6>1
        <5> QED  BY <1>2, <5>2, <5>3, <5>4
      <4> QED  BY <1>2, <1>5, <4>2
    <3> QED  BY <1>1, <3>1, PermutedIs
             DEF AvxInv, PartsAreRest, OutOfOrder, SameValues, Signed, Avx!Signed, Slots, Avx!Index
  <2>2. CASE ~ (Signed(w) > Signed(piv))
    <3> DEFINE q == PlaceOf(Avx!From, bottom, top, 1, 1, [k \in {0} |-> 0], [k \in {0} |-> 0])
    <3> HIDE DEF q
    <3>1. /\ q \in [Slots -> Slots]
          /\ \A x \in Slots : IF Avx!From <= x /\ x < Avx!From + Avx!Length
                                THEN Avx!From <= q[x] /\ q[x] < Avx!From + Avx!Length
                                ELSE q[x] = x
          /\ \A v \in Slots : \E u \in Slots : q[u] = v
          /\ \A x \in Slots : x = Behind => q[x] = F + read
          /\ \A x \in Slots : Behind < x /\ x <= F + read => q[x] = x - 1
          /\ \A x \in Slots : x < Behind \/ F + read < x => q[x] = x
      BY <1>1, OneMore DEF q
    <3>2. Filled' = [x \in Slots |-> Filled[q[x]]]
      <4> HIDE DEF F, n, w
      <4>1. /\ d' = [d EXCEPT ![Behind] = w] /\ Behind' = Behind + 1
            /\ temp' = temp /\ top' = top /\ Behind \in Slots
        BY <1>1, <1>2, <1>3, <1>5, <2>2
      <4>2. ASSUME NEW x \in Slots PROVE Kept'[x] = Kept[q[x]]
        <5>1. /\ x \in Behind' .. Behind' + top' - 1 <=> Behind < x /\ x <= F + read
              /\ x - Behind' = x - 1 - Behind /\ x \in Nat
          BY <1>2, <4>1
        <5>5. Kept'[x] = IF Behind < x /\ x <= F + read THEN temp[x - 1 - Behind] ELSE d'[x]
          BY <1>5, <4>1, <5>1
        <5>2. CASE Behind < x /\ x <= F + read
          <6>1. x - 1 \in Slots /\ Behind <= x - 1 /\ x - 1 < F + read /\ q[x] = x - 1
            BY <1>2, <3>1, <5>1, <5>2
          <6>2. Kept[x - 1] = temp[x - 1 - Behind]
            BY <1>4, <6>1
          <6> QED  BY <5>2, <5>5, <6>1, <6>2
        <5>3. CASE x = Behind
          <6>1. q[x] = F + read /\ ~ (q[x] < F + read) /\ q[x] \in Slots
            BY <1>2, <1>3, <3>1, <5>3
          <6>2. Kept[q[x]] = w
            BY <1>4, <6>1 DEF w
          <6>3. Kept'[x] = d'[x] /\ d'[x] = w
            BY <1>2, <1>5, <4>1, <5>1, <5>3
          <6> QED  BY <6>2, <6>3
        <5>4. CASE x < Behind \/ F + read < x
          <6>1. q[x] = x /\ x # Behind /\ ~ (Behind <= x /\ x < F + read)
                /\ ~ (Behind < x /\ x <= F + read)
            <7>1. q[x] = x
              BY <3>1, <5>4
            <7>2. F \in Nat /\ read \in Nat /\ bottom \in Nat /\ top \in Nat
                  /\ read = bottom + top /\ Behind = F + bottom
              BY <1>2
            <7>3. x # Behind /\ ~ (Behind <= x /\ x < F + read)
                  /\ ~ (Behind < x /\ x <= F + read)
              BY <5>1, <5>4, <7>2
            <7> QED  BY <7>1, <7>3
          <6>2. Kept'[x] = d'[x] /\ d'[x] = d[x]
            BY <1>2, <1>5, <4>1, <5>1, <6>1
          <6> QED  BY <1>4, <6>1, <6>2
        <5> QED  BY <1>2, <5>1, <5>2, <5>3, <5>4
      <4> QED  BY <1>2, <1>5, <4>2
    <3> QED  BY <1>1, <1>2, <3>1, <3>2, Reordered
  <2> QED  BY <2>1, <2>2
<1>8. AvxTypes'
  BY <1>1, <1>6 DEF AvxInv, AvxTypes, Slots, Avx!Index, Avx!UInt32
<1>9. Parting'
  BY <1>1, <1>2, <1>6 DEF Parting, Signed, Avx!Signed
<1>10. Aligned' /\ Inserting'
  BY <1>1 DEF AvxInv, Aligned, Inserting
<1> QED  BY <1>7, <1>8, <1>9, <1>10 DEF AvxInv

(* The pivot is put between the two sides, and each side is a part.        *)
LEMMA CopyBackInv == AvxInv /\ Avx!CopyBack => AvxInv'
<1> SUFFICES ASSUME AvxInv, Avx!CopyBack PROVE AvxInv'
  OBVIOUS
<1> DEFINE F == Avx!From
           n == Avx!Length
           v == F + bottom
           new_n == top
<1>1. /\ where = "part" /\ where' = "loop" /\ read = n - 1
      /\ calls' = Avx!Parts(F, n, new_n) \o Tail(calls)
      /\ UNCHANGED <<handed, outer, inner, tmp, temp, piv, read, bottom, top>>
      /\ d' = [x \in Slots |-> CASE x = v -> piv
                                  [] x \in v + 1 .. v + top -> temp[x - F - bottom - 1]
                                  [] OTHER -> d[x]]
      /\ Filled' = d'
  BY DEF Avx!CopyBack, Avx!partVars, Filled, Slots
<1>2. /\ calls # <<>> /\ Slots = 0 .. AvxN - 1 /\ AvxN \in Nat
      /\ F \in Nat /\ n \in Nat /\ F + n <= AvxN
      /\ read = bottom + top /\ bottom \in Nat /\ top \in Nat /\ new_n \in Nat /\ new_n < n
      /\ v \in Nat /\ F <= v /\ v < F + n /\ v = F + n - new_n - 1 /\ v + top = F + read
      /\ F + read = F + n - 1 /\ F + n - 1 \in Slots
      /\ d \in [Slots -> Avx!UInt32] /\ temp \in [Slots -> Avx!UInt32]
      /\ Behind = v /\ Filled = Kept /\ Kept \in [Slots -> Avx!UInt32]
      /\ Signed(piv) \in Int /\ \A u \in Avx!UInt32 : Signed(u) \in Int
  <2> HIDE DEF F, n
  <2>1. /\ calls # <<>> /\ Slots = 0 .. AvxN - 1 /\ AvxN \in Nat
        /\ F \in Nat /\ n \in Nat /\ F + n <= AvxN
        /\ read = bottom + top /\ bottom \in Nat /\ top \in Nat
        /\ d \in [Slots -> Avx!UInt32] /\ temp \in [Slots -> Avx!UInt32]
        /\ Behind = v /\ Filled = Kept /\ Kept \in [Slots -> Avx!UInt32]
        /\ Signed(piv) \in Int /\ \A u \in Avx!UInt32 : Signed(u) \in Int
    BY <1>1, InPartition DEF F, n
  <2>2. /\ v \in Nat /\ F <= v /\ v < F + n /\ v = F + n - new_n - 1 /\ v + top = F + read
        /\ F + read = F + n - 1 /\ F + n - 1 \in Slots /\ new_n < n
    <3>1. read = n - 1
      BY <1>1
    <3>2. /\ F \in Nat /\ n \in Nat /\ F + n <= AvxN /\ bottom \in Nat /\ top \in Nat
          /\ bottom + top = n - 1 /\ Slots = 0 .. AvxN - 1 /\ AvxN \in Nat
      BY <2>1, <3>1
    <3> QED  BY <3>1, <3>2
  <2> QED  BY <2>1, <2>2
<1>3. /\ \A x \in Slots : Kept[x] = IF v <= x /\ x < F + read THEN temp[x - v] ELSE d[x]
      /\ d[F + n - 1] = piv
      /\ \A x \in Slots : F <= x /\ x < v => Signed(d[x]) <= Signed(piv)
      /\ \A k \in Slots : k < top => Signed(piv) <= Signed(temp[k])
  BY <1>1, <1>2, InPartition DEF AvxInv, Parting
<1> DEFINE q == PlaceOf(Avx!From, bottom, top, 1, 1, [k \in {0} |-> 0], [k \in {0} |-> 0])
<1>4. /\ q \in [Slots -> Slots]
      /\ \A x \in Slots : IF F <= x /\ x < F + n THEN F <= q[x] /\ q[x] < F + n ELSE q[x] = x
      /\ \A u \in Slots : \E x \in Slots : q[x] = u
      /\ \A x \in Slots : x = v => q[x] = F + read
      /\ \A x \in Slots : v < x /\ x <= F + read => q[x] = x - 1
      /\ \A x \in Slots : x < v \/ F + read < x => q[x] = x
  <2>1. where = "part" /\ Behind = v
    BY <1>1, <1>2
  <2>2. q = PlaceOf(Avx!From, bottom, top, 1, 1, [k \in {0} |-> 0], [k \in {0} |-> 0])
    OBVIOUS
  <2> HIDE DEF q, v
  <2> QED  BY <2>1, <2>2, OneMore
<1> DEFINE first == Avx!Parts(F, n, new_n)
<1>5. /\ first \in Seq(Nat \X Nat) /\ Len(first) = 2
      /\ first[1] = <<v + 1, new_n>> /\ first[2] = <<F, n - new_n - 1>>
      /\ n - new_n - 1 \in Nat
  <2>1. <<F + n - new_n, new_n>> \in Nat \X Nat /\ <<F, n - new_n - 1>> \in Nat \X Nat
        /\ F + n - new_n = v + 1
    <3> HIDE DEF F, n, v
    <3>1. /\ F \in Nat /\ n \in Nat /\ top \in Nat /\ v \in Nat /\ new_n < n
          /\ v = F + n - new_n - 1
      BY <1>2
    <3> QED  BY <3>1
  <2> QED  BY <1>1, <1>2, <2>1 DEF Avx!Parts
<1> HIDE DEF F, n, v, first, new_n
<1>16. /\ Slots = 0 .. AvxN - 1 /\ AvxN \in Nat
       /\ F \in Nat /\ n \in Nat /\ F + n <= AvxN /\ new_n \in Nat /\ new_n < n
       /\ v \in Nat /\ F <= v /\ v < F + n /\ v = F + n - new_n - 1
       /\ F + read = F + n - 1 /\ F + read \in Nat
  BY <1>2
<1>6. /\ \A x \in Slots : x = v => d'[x] = piv
      /\ \A x \in Slots : v < x /\ x <= F + read => d'[x] = temp[x - 1 - v]
      /\ \A x \in Slots : x < v \/ F + read < x => d'[x] = d[x]
  <2>1. ASSUME NEW x \in Slots
        PROVE  d'[x] = IF x = v THEN piv
                       ELSE IF v < x /\ x <= F + read THEN temp[x - 1 - v] ELSE d[x]
    <3>1. /\ x - F - bottom - 1 = x - 1 - v
          /\ x \in v + 1 .. v + top <=> v < x /\ x <= F + read
      BY <1>2 DEF v
    <3> QED  BY <1>1, <3>1
  <2>2. \A x \in Slots : /\ x = v => ~ (v < x)
                         /\ x < v \/ F + read < x => ~ (x = v) /\ ~ (v < x /\ x <= F + read)
    BY <1>2
  <2> QED  BY <1>2, <2>1, <2>2
<1> HIDE DEF q
<1>7. ASSUME NEW x \in Slots PROVE d'[x] = Kept[q[x]]
  <2>1. x \in Nat /\ q[x] \in Slots
    <3>1. q \in [Slots -> Slots]
      BY <1>4
    <3>2. x \in Nat
      BY <1>16
    <3> QED  BY <3>1, <3>2
  <2>2. CASE x = v
    <3>1. q[x] = F + n - 1 /\ ~ (q[x] < F + read)
      <4>1. q[x] = F + read
        BY <1>4, <2>2
      <4> QED  BY <1>16, <4>1
    <3> QED  BY <1>3, <1>6, <2>1, <2>2, <3>1
  <2>3. CASE v < x /\ x <= F + read
    <3>1. x - 1 \in Slots /\ v <= x - 1 /\ x - 1 < F + read /\ q[x] = x - 1
      <4>1. q[x] = x - 1
        BY <1>4, <2>3
      <4> QED  BY <1>16, <2>1, <2>3, <4>1
    <3> QED  BY <1>3, <1>6, <2>3, <3>1
  <2>4. CASE x < v \/ F + read < x
    <3>1. q[x] = x /\ ~ (v <= x /\ x < F + read)
      <4>1. q[x] = x
        BY <1>4, <2>4
      <4> QED  BY <1>16, <2>1, <2>4, <4>1
    <3> QED  BY <1>3, <1>6, <2>4, <3>1
  <2> QED  BY <1>16, <2>1, <2>2, <2>3, <2>4
<1>8. d' = [x \in Slots |-> Filled[q[x]]] /\ d' \in [Slots -> Avx!UInt32]
  <2>1. d' = [x \in Slots |-> Filled[q[x]]]
    BY <1>1, <1>2, <1>7
  <2> QED  BY <1>2, <1>4, <2>1
<1>9. /\ calls' \in Seq(Nat \X Nat) /\ Len(calls') = Len(calls) + 1
      /\ calls'[1] = <<v + 1, new_n>> /\ calls'[2] = <<F, n - new_n - 1>>
      /\ \A k \in 3 .. Len(calls') : calls'[k] = calls[k - 1]
      /\ Len(calls) \in Nat \ {0}
  <2> DEFINE s == Tail(calls)
  <2>1. /\ s \in Seq(Nat \X Nat) /\ Len(s) = Len(calls) - 1 /\ Len(calls) \in Nat \ {0}
        /\ \A k \in 1 .. Len(calls) - 1 : s[k] = calls[k + 1]
    BY <1>2, FirstPart
  <2> DEFINE cat == first \o s
  <2>2. calls' = cat
    BY <1>1 DEF first
  <2> HIDE DEF s
  <2>3. /\ cat \in Seq(Nat \X Nat) /\ Len(cat) = Len(first) + Len(s)
        /\ \A k \in 1 .. Len(cat) : cat[k] = IF k <= Len(first) THEN first[k] ELSE s[k - Len(first)]
    <3>1. first \in Seq(Nat \X Nat) /\ s \in Seq(Nat \X Nat)
      BY <1>5, <2>1
    <3> QED  BY <3>1, Concatenated, Zenon
  <2> HIDE DEF cat
  <2>4. Len(calls') = Len(calls) + 1
    BY <1>5, <2>1, <2>2, <2>3
  <2>5. ASSUME NEW k \in 3 .. Len(calls') PROVE calls'[k] = calls[k - 1]
    <3>1. k \in 1 .. Len(cat) /\ ~ (k <= 2) /\ k - 2 \in 1 .. Len(calls) - 1 /\ (k - 2) + 1 = k - 1
      BY <2>1, <2>2, <2>4
    <3>2. cat[k] = s[k - 2] /\ s[k - 2] = calls[k - 1]
      BY <1>5, <2>1, <2>3, <3>1
    <3> QED  BY <2>2, <3>2
  <2>6. calls'[1] = first[1] /\ calls'[2] = first[2]
    <3>1. 1 \in 1 .. Len(cat) /\ 2 \in 1 .. Len(cat)
      BY <1>5, <2>1, <2>3
    <3> QED  BY <1>5, <2>2, <2>3, <3>1
  <2> QED  BY <1>5, <2>1, <2>2, <2>3, <2>4, <2>5, <2>6
<1>10. AvxTypes'
  BY <1>1, <1>8, <1>9 DEF AvxInv, AvxTypes
<1>11. Aligned'
  <2> DEFINE c == calls'
  <2>1. \A k \in 2 .. Len(calls) : /\ calls[k][1] \in Nat /\ calls[k][2] \in Nat
                                   /\ calls[k][1] + calls[k][2] <= F
                                   /\ calls[k][1] + calls[k][2] <= AvxN
    <3>1. \A k \in 2 .. Len(calls) : calls[k] \in Nat \X Nat
      BY <1>2, FirstPart
    <3>2. \A k \in 2 .. Len(calls) : /\ calls[k][1] + calls[k][2] <= F
                                     /\ calls[k][1] + calls[k][2] <= AvxN
      <4>1. Len(calls) \in Nat /\ calls[1][1] = F
        BY <1>2, FirstPart DEF F
      <4>2. \A k \in 2 .. Len(calls) : k \in 1 .. Len(calls) /\ 1 \in 1 .. Len(calls) /\ 1 < k
        BY <4>1
      <4> QED  BY <4>1, <4>2 DEF AvxInv, Aligned
    <3> QED  BY <3>1, <3>2
  <2>2. /\ c[1][1] = v + 1 /\ c[1][2] = new_n /\ c[2][1] = F /\ c[2][2] = n - new_n - 1
        /\ v + 1 + new_n = F + n /\ F + (n - new_n - 1) = v
    <3>1. v + 1 + new_n = F + n /\ F + (n - new_n - 1) = v
      BY <1>16
    <3>2. c[1] = <<v + 1, new_n>> /\ c[2] = <<F, n - new_n - 1>>
      BY <1>9
    <3> QED  BY <3>1, <3>2
  <2>3. \A k \in 3 .. Len(c) : k - 1 \in 2 .. Len(calls) /\ c[k] = calls[k - 1]
    BY <1>9
  <2>4. \A k \in 3 .. Len(c) : /\ c[k][1] \in Nat /\ c[k][2] \in Nat
                               /\ c[k][1] + c[k][2] <= F /\ c[k][1] + c[k][2] <= AvxN
    BY <2>1, <2>3
  <2>5. Len(c) \in Nat
    BY <1>9
  <2> HIDE DEF c
  <2>6. ASSUME NEW k \in 1 .. Len(c) PROVE c[k][1] + c[k][2] <= AvxN
    <3>1. k = 1 \/ k = 2 \/ k \in 3 .. Len(c)
      BY <2>5
    <3> QED  BY <1>16, <2>2, <2>4, <3>1
  <2>7. ASSUME NEW m \in 1 .. Len(c), NEW k \in 1 .. Len(c), m < k
        PROVE  c[k][1] + c[k][2] <= c[m][1]
    <3>1. CASE k = 2
      <4>1. m = 1
        BY <2>7, <3>1
      <4>2. c[k][1] = F /\ c[k][2] = n - new_n - 1 /\ c[m][1] = v + 1
        BY <2>2, <3>1, <4>1
      <4> QED  BY <1>16, <4>2
    <3>2. CASE k # 2 /\ m \in {1, 2}
      <4>1. k \in 3 .. Len(c)
        BY <2>5, <2>7, <3>2
      <4>2. F <= c[m][1]
        BY <1>16, <2>2, <3>2
      <4>3. c[m][1] \in Nat
        BY <1>16, <2>2, <3>2
      <4>4. c[k][1] + c[k][2] <= F /\ c[k][1] \in Nat /\ c[k][2] \in Nat
        BY <2>4, <4>1
      <4> QED  BY <1>16, <4>2, <4>3, <4>4
    <3>3. CASE k # 2 /\ m \notin {1, 2}
      <4>1. k \in 3 .. Len(c) /\ m \in 3 .. Len(c) /\ m - 1 < k - 1
        BY <2>5, <2>7, <3>3
      <4>2. /\ c[k] = calls[k - 1] /\ c[m] = calls[m - 1]
            /\ k - 1 \in 1 .. Len(calls) /\ m - 1 \in 1 .. Len(calls)
        BY <2>3, <4>1
      <4> QED  BY <4>1, <4>2 DEF AvxInv, Aligned
    <3> QED  BY <3>1, <3>2, <3>3
  <2> QED  BY <2>6, <2>7 DEF Aligned, c
<1>12. PartsAreRest'
  <2> SUFFICES ASSUME NEW x \in Slots, NEW y \in Slots, x < y, Signed(d'[x]) > Signed(d'[y])
               PROVE  \E k \in 1 .. Len(calls') : InPart(x, y, calls'[k])
    BY <1>1 DEF PartsAreRest, OutOfOrder, Signed, Avx!Signed, Slots, Avx!Index
  <2>1. \/ F <= x /\ y < F + n
        \/ \E k \in 2 .. Len(calls) : InPart(x, y, calls[k])
    <3>1. d' = [z \in Slots |-> Filled[q[z]]]
      BY <1>8
    <3>2. \A z \in Slots : IF Avx!From <= z /\ z < Avx!From + Avx!Length
                             THEN Avx!From <= q[z] /\ q[z] < Avx!From + Avx!Length
                             ELSE q[z] = z
      BY <1>4 DEF F, n
    <3>3. \/ Avx!From <= x /\ y < Avx!From + Avx!Length
          \/ \E k \in 2 .. Len(calls) : InPart(x, y, calls[k])
      BY <1>2, <1>4, <3>1, <3>2, Rearranged
    <3> QED  BY <3>3 DEF F, n
  <2>2. CASE \E k \in 2 .. Len(calls) : InPart(x, y, calls[k])
    <3>1. PICK k \in 2 .. Len(calls) : InPart(x, y, calls[k])
      BY <2>2
    <3>2. k + 1 \in 3 .. Len(calls') /\ k + 1 \in 1 .. Len(calls') /\ (k + 1) - 1 = k
      BY <1>9
    <3>3. calls'[k + 1] = calls[k]
      BY <1>9, <3>2
    <3> QED  BY <3>1, <3>2, <3>3
  <2>3. CASE F <= x /\ y < F + n
    <3>2. ~ (x <= v /\ v <= y)
      <4> SUFFICES ASSUME x <= v, v <= y PROVE FALSE
        OBVIOUS
      <4>1. Signed(d'[x]) <= Signed(piv)
        <5>1. x = v \/ x < v
          BY <1>2, <2>3
        <5>2. CASE x = v
          <6>1. d'[x] = piv /\ Signed(piv) \in Int
            BY <1>2, <1>6, <5>2
          <6> QED  BY <6>1
        <5>3. CASE x < v
          BY <1>3, <1>6, <2>3, <5>3
        <5> QED  BY <5>1, <5>2, <5>3
      <4>2. Signed(piv) <= Signed(d'[y])
        <5>1. CASE y = v
          BY <1>2, <1>6, <5>1
        <5>2. CASE v < y
          <6>1. y - 1 - v \in Slots /\ y - 1 - v < top /\ y <= F + read
            BY <1>2, <2>3, <5>2
          <6> QED  BY <1>3, <1>6, <5>2, <6>1
        <5> QED  BY <1>2, <5>1, <5>2
      <4>3. Signed(d'[x]) \in Int /\ Signed(d'[y]) \in Int /\ Signed(piv) \in Int
        BY <1>2, <1>8
      <4> QED  BY <4>1, <4>2, <4>3
    <3>3. v < x \/ y < v
      BY <1>2, <3>2
    <3>4. CASE v < x
      <4>1. InPart(x, y, calls'[1])
        BY <1>2, <1>9, <2>3, <3>4 DEF InPart
      <4>2. 1 \in 1 .. Len(calls')
        BY <1>9
      <4> QED  BY <4>1, <4>2
    <3>5. CASE y < v
      <4>1. InPart(x, y, calls'[2])
        BY <1>2, <1>9, <2>3, <3>5 DEF InPart
      <4>2. 2 \in 1 .. Len(calls')
        BY <1>9
      <4> QED  BY <4>1, <4>2
    <3> QED  BY <3>3, <3>4, <3>5
  <2> QED  BY <2>1, <2>2, <2>3
<1>13. SameValues'
  <2>1. Avx!Promise!Permuted(d', handed)
    <3>1. Avx!Promise!Permuted(Filled, handed)
      BY DEF AvxInv, SameValues
    <3> QED  BY <1>4, <1>8, <3>1, Composed
  <2> QED  BY <1>1, <2>1, PermutedIs DEF SameValues
<1> QED  BY <1>1, <1>10, <1>11, <1>12, <1>13 DEF AvxInv, Inserting, Parting

(* A part whose elements are in order needs no call any more.              *)
LEMMA Dropped ==
  ASSUME AvxInv, calls # <<>>, calls' = Tail(calls), where # "shift", where' = "loop",
         where # "part", UNCHANGED <<handed, d, outer, inner, tmp, temp, piv, read, bottom, top>>,
         \A x, y \in Slots : Avx!From <= x /\ x < y /\ y < Avx!From + Avx!Length
                               => Signed(d[x]) <= Signed(d[y])
  PROVE  AvxInv'
<1>1. /\ calls' \in Seq(Nat \X Nat) /\ Len(calls') = Len(calls) - 1 /\ Len(calls) \in Nat \ {0}
      /\ \A k \in 1 .. Len(calls') : calls'[k] = calls[k + 1]
      /\ Avx!From = calls[1][1] /\ Avx!Length = calls[1][2]
      /\ Filled = d /\ Filled' = d
  BY FirstPart DEF Filled
<1>2. AvxTypes'
  BY <1>1 DEF AvxInv, AvxTypes
<1>3. Aligned'
  <2> DEFINE c == calls'
  <2>1. \A k \in 1 .. Len(c) : k + 1 \in 1 .. Len(calls) /\ c[k] = calls[k + 1]
    BY <1>1
  <2> HIDE DEF c
  <2>2. ASSUME NEW k \in 1 .. Len(c) PROVE c[k][1] + c[k][2] <= AvxN
    BY <2>1 DEF AvxInv, Aligned
  <2>3. ASSUME NEW m \in 1 .. Len(c), NEW k \in 1 .. Len(c), m < k
        PROVE  c[k][1] + c[k][2] <= c[m][1]
    <3>1. m + 1 < k + 1
      BY <2>3
    <3> QED  BY <2>1, <3>1 DEF AvxInv, Aligned
  <2> QED  BY <2>2, <2>3 DEF Aligned, c
<1>4. PartsAreRest'
  <2> SUFFICES ASSUME NEW x \in Slots, NEW y \in Slots, x < y, Signed(d[x]) > Signed(d[y])
               PROVE  \E k \in 1 .. Len(calls') : InPart(x, y, calls'[k])
    BY <1>1 DEF PartsAreRest, OutOfOrder, Signed, Avx!Signed, Slots, Avx!Index
  <2>1. PICK k \in 1 .. Len(calls) : InPart(x, y, calls[k])
    BY <1>1 DEF AvxInv, PartsAreRest, OutOfOrder
  <2>2. k # 1
    <3> SUFFICES ASSUME k = 1 PROVE FALSE
      OBVIOUS
    <3>1. Avx!From <= x /\ y < Avx!From + Avx!Length
      BY <1>1, <2>1 DEF InPart
    <3>2. Signed(d[x]) <= Signed(d[y])
      BY <3>1
    <3>3. Signed(d[x]) \in Int /\ Signed(d[y]) \in Int
      BY AvxSizes DEF AvxInv, AvxTypes
    <3> QED  BY <3>2, <3>3
  <2>3. k - 1 \in 1 .. Len(calls') /\ (k - 1) + 1 = k
    BY <1>1, <2>2
  <2>4. calls'[k - 1] = calls[k]
    BY <1>1, <2>3
  <2> QED  BY <2>1, <2>3, <2>4
<1>5. SameValues'
  BY <1>1, PermutedIs DEF AvxInv, SameValues
<1> QED  BY <1>2, <1>3, <1>4, <1>5 DEF AvxInv, Inserting, Parting

LEMMA RemainInv == AvxInv /\ Avx!Remain => AvxInv'
<1> SUFFICES ASSUME AvxInv, Avx!Remain PROVE AvxInv'
  OBVIOUS
<1>1. /\ calls # <<>> /\ where = "loop" /\ UNCHANGED <<handed, d, inner, tmp, temp, piv, read, bottom, top>>
      /\ Avx!From \in Nat /\ Avx!Length \in Nat /\ Slots \subseteq Nat
  BY FirstPart, AvxSizes DEF Avx!Remain, Avx!partVars, Avx!Running
<1>2. CASE Avx!Length <= 1
  <2>1. calls' = Tail(calls) /\ where' = "loop" /\ outer' = outer
    BY <1>1, <1>2 DEF Avx!Remain
  <2>2. \A x, y \in Slots : ~ (Avx!From <= x /\ x < y /\ y < Avx!From + Avx!Length)
    BY <1>1, <1>2
  <2> QED  BY <1>1, <2>1, <2>2, Dropped
<1>3. CASE ~ (Avx!Length <= 1)
  <2>1. calls' = calls /\ where' = "insert" /\ outer' = 1
    BY <1>3 DEF Avx!Remain
  <2>2. Avx!From' = Avx!From /\ Avx!Length' = Avx!Length /\ Filled' = Filled
    BY <1>1, <2>1 DEF Avx!From, Avx!Length, Filled
  <2>3. Inserting'
    <3>1. \A x, y \in Slots : ~ (Avx!From <= x /\ x < y /\ y < Avx!From + 1)
      BY <1>1
    <3> QED  BY <1>1, <1>3, <2>1, <2>2, <3>1 DEF Inserting, Slots, Avx!Index
  <2>4. AvxTypes' /\ Aligned'
    BY <1>1, <2>1 DEF AvxInv, AvxTypes, Aligned
  <2>5. PartsAreRest' /\ SameValues'
    BY <1>1, <2>1, <2>2, PermutedIs DEF AvxInv, PartsAreRest, SameValues, OutOfOrder
  <2> QED  BY <2>1, <2>3, <2>4, <2>5 DEF AvxInv, Parting
<1> QED  BY <1>2, <1>3

LEMMA RemainedInv == AvxInv /\ Avx!Remained => AvxInv'
<1> SUFFICES ASSUME AvxInv, Avx!Remained PROVE AvxInv'
  OBVIOUS
<1>1. /\ where = "insert" /\ outer = Avx!Length /\ calls' = Tail(calls) /\ where' = "loop"
      /\ UNCHANGED <<handed, d, outer, inner, tmp, temp, piv, read, bottom, top>>
  BY DEF Avx!Remained, Avx!partVars
<1>2. /\ calls # <<>>
      /\ \A x, y \in Slots : Avx!From <= x /\ x < y /\ y < Avx!From + Avx!Length
                               => Signed(d[x]) <= Signed(d[y])
  BY <1>1 DEF AvxInv, Inserting
<1> QED  BY <1>1, <1>2, Dropped

(* The next element is taken out of its place, which is the hole.          *)
LEMMA TakeInv == AvxInv /\ Avx!Take => AvxInv'
<1> SUFFICES ASSUME AvxInv, Avx!Take PROVE AvxInv'
  OBVIOUS
<1>1. /\ where = "insert" /\ outer < Avx!Length /\ tmp' = d[Avx!From + outer]
      /\ inner' = outer /\ where' = "shift" /\ UNCHANGED <<handed, d, calls, outer, temp, piv, read, bottom, top>>
      /\ calls # <<>> /\ outer \in Nat /\ 1 <= outer
  BY DEF Avx!Take, Avx!partVars, AvxInv, AvxTypes, Inserting
<1>2. /\ Avx!From' = Avx!From /\ Avx!Length' = Avx!Length /\ Hole' = Avx!From + outer
      /\ Avx!From \in Nat /\ Avx!Length \in Nat /\ Avx!From + Avx!Length <= AvxN
      /\ Slots = 0 .. AvxN - 1 /\ AvxN \in Nat
      /\ d \in [Slots -> Avx!UInt32] /\ Slots' = Slots
  BY <1>1, FirstPart, AvxSizes DEF Avx!From, Avx!Length, Hole, AvxInv, AvxTypes, Slots, Avx!Index
<1>3. Avx!From + outer \in Slots
  BY <1>1, <1>2
<1>4. AvxTypes'
  BY <1>1, <1>2, <1>3 DEF AvxInv, AvxTypes, Slots, Avx!Index, Avx!UInt32
<1>5. Filled' = Filled
  BY <1>1, <1>2, <1>3 DEF Filled
<1>6. Inserting'
  <2>1. \A x, y \in Slots : Avx!From <= x /\ x < y /\ y < Avx!From + outer
                              => Signed(d[x]) <= Signed(d[y])
    BY <1>1 DEF AvxInv, Inserting
  <2> DEFINE F == Avx!From
  <2>3. \A y \in Slots : ~ (F + outer < y /\ y <= F + outer)
    BY <1>1, <1>2
  <2>4. ASSUME NEW x \in Slots, NEW y \in Slots, Avx!From' <= x, x < y,
               y <= Avx!From' + outer', y # Hole'
        PROVE  Signed(d'[x]) <= Signed(d'[y])
    <3>1. y < F + outer /\ F <= x
      BY <1>1, <1>2, <2>4
    <3>2. Signed(d[x]) <= Signed(d[y])
      BY <2>1, <2>4, <3>1
    <3> QED  BY <1>1, <3>2
  <2>5. /\ calls' # <<>> /\ 1 <= outer' /\ outer' <= Avx!Length' /\ outer' < Avx!Length'
        /\ inner' <= outer' /\ where' = "shift"
        /\ \A y \in Slots : ~ (Hole' < y /\ y <= Avx!From' + outer')
    BY <1>1, <1>2, <2>3
  <2>6. \A x, y \in Slots \ {Hole'} :
          Avx!From' <= x /\ x < y /\ y <= Avx!From' + outer' => Signed(d'[x]) <= Signed(d'[y])
    BY <2>4
  <2>7. \A y \in Slots : Hole' < y /\ y <= Avx!From' + outer'
                             => Signed(tmp') < Signed(d'[y])
    BY <2>5
  <2>8. (where' = "shift") # (where' = "insert")
    BY <2>5
  <2> QED  BY <1>2, <2>5, <2>6, <2>7, <2>8, Zenon DEF Inserting
<1>7. Aligned' /\ PartsAreRest' /\ SameValues'
  BY <1>1, <1>2, <1>5, PermutedIs DEF AvxInv, Aligned, PartsAreRest, SameValues, OutOfOrder, Signed,
     Avx!Signed
<1> QED  BY <1>1, <1>4, <1>6, <1>7 DEF AvxInv, Parting

(* The hole is filled: the element stands between smaller and larger ones. *)
LEMMA PutInv == AvxInv /\ Avx!Put => AvxInv'
<1> SUFFICES ASSUME AvxInv, Avx!Put PROVE AvxInv'
  OBVIOUS
<1>1. /\ where = "shift" /\ ~ (inner >= 1 /\ Signed(tmp) < Signed(d[Hole - 1]))
      /\ d' = [d EXCEPT ![Hole] = tmp] /\ outer' = outer + 1 /\ where' = "insert"
      /\ UNCHANGED <<handed, calls, inner, tmp, temp, piv, read, bottom, top>>
      /\ calls # <<>> /\ outer \in Nat /\ inner \in Nat /\ inner <= outer
      /\ 1 <= outer /\ outer < Avx!Length
  <2>1. /\ where = "shift" /\ ~ (inner >= 1 /\ Signed(tmp) < Signed(d[Hole - 1]))
        /\ d' = [d EXCEPT ![Hole] = tmp] /\ outer' = outer + 1 /\ where' = "insert"
        /\ UNCHANGED <<handed, calls, inner, tmp, temp, piv, read, bottom, top>>
    <3>1. where = "shift" /\ outer' = outer + 1 /\ where' = "insert"
          /\ UNCHANGED <<handed, calls, inner, tmp, temp, piv, read, bottom, top>>
      BY DEF Avx!Put, Avx!partVars
    <3>2. d' = [d EXCEPT ![Hole] = tmp]
      BY DEF Avx!Put, Avx!partVars, Hole
    <3>3. ~ (inner >= 1 /\ Signed(tmp) < Signed(d[Hole - 1]))
      <4>1. ~ (inner >= 1 /\ Signed(tmp) < Signed(d[Avx!From + (inner - 1)]))
        BY DEF Avx!Put, Avx!partVars, Signed
      <4>2. Avx!From \in Nat /\ inner \in Nat
        <5>1. calls # <<>>
          BY <3>1 DEF AvxInv, Inserting
        <5> QED  BY <5>1, FirstPart DEF AvxInv, AvxTypes
      <4>3. Avx!From + (inner - 1) = Hole - 1
        BY <4>2 DEF Hole
      <4> QED  BY <4>1, <4>3
    <3> QED  BY <3>1, <3>2, <3>3
  <2>2. /\ calls # <<>> /\ outer \in Nat /\ inner \in Nat /\ inner <= outer
        /\ 1 <= outer /\ outer < Avx!Length
    BY <2>1 DEF AvxInv, AvxTypes, Inserting
  <2> QED  BY <2>1, <2>2
<1>2. /\ Avx!From' = Avx!From /\ Avx!Length' = Avx!Length /\ Hole = Avx!From + inner
      /\ Avx!From \in Nat /\ Avx!Length \in Nat /\ Avx!From + Avx!Length <= AvxN
      /\ Slots = 0 .. AvxN - 1 /\ AvxN \in Nat
      /\ d \in [Slots -> Avx!UInt32] /\ tmp \in Avx!UInt32 /\ Slots' = Slots
  BY <1>1, FirstPart, AvxSizes DEF Avx!From, Avx!Length, Hole, AvxInv, AvxTypes, Slots, Avx!Index
<1>3. /\ Hole \in Slots /\ d' \in [Slots -> Avx!UInt32] /\ d'[Hole] = tmp
      /\ \A x \in Slots : x # Hole => d'[x] = d[x]
  <2>1. Hole \in Slots
    BY <1>1, <1>2
  <2> QED  BY <1>1, <1>2, <2>1
<1>4. AvxTypes'
  <2>1. outer' \in Nat /\ UNCHANGED <<handed, calls, inner, tmp, temp, piv, read, bottom, top>>
    BY <1>1
  <2>2. Avx!UInt32' = Avx!UInt32 /\ where' \in {"loop", "part", "insert", "shift"}
    BY <1>1 DEF Avx!UInt32
  <2> QED  BY <1>2, <1>3, <2>1, <2>2 DEF AvxInv, AvxTypes
<1>5. Filled' = Filled
  BY <1>1 DEF Filled
<1>6. Inserting'
  <2> DEFINE F == Avx!From
  <2>1. ASSUME NEW x \in Slots, NEW y \in Slots, F <= x, x < y, y < F + (outer + 1)
        PROVE  Signed(d'[x]) <= Signed(d'[y])
    <3>1. y <= F + outer /\ x \in Nat /\ y \in Nat
      BY <1>1, <1>2, <2>1
    <3>2. \A u, v \in Slots \ {Hole} : F <= u /\ u < v /\ v <= F + outer
                                         => Signed(d[u]) <= Signed(d[v])
      BY <1>1 DEF AvxInv, Inserting
    <3>3. \A v \in Slots : Hole < v /\ v <= F + outer => Signed(tmp) < Signed(d[v])
      BY <1>1 DEF AvxInv, Inserting
    <3>4. Signed(tmp) \in Int /\ \A v \in Slots : Signed(d[v]) \in Int
      BY <1>2, AvxSizes
    <3>5. CASE x # Hole /\ y # Hole
      BY <1>3, <2>1, <3>1, <3>2, <3>5
    <3>6. CASE x = Hole
      BY <1>3, <2>1, <3>1, <3>3, <3>4, <3>6
    <3>7. CASE y = Hole
      <4>1. /\ inner >= 1 /\ Hole - 1 \in Slots /\ x <= Hole - 1
            /\ F <= Hole - 1 /\ Hole - 1 <= F + outer
            /\ Hole - 1 # Hole
        BY <1>1, <1>2, <2>1, <3>1, <3>7
      <4>2. Signed(d[Hole - 1]) <= Signed(tmp)
        BY <1>1, <3>4, <4>1
      <4>3. x = Hole - 1 \/ Signed(d[x]) <= Signed(d[Hole - 1])
        <5>1. x # Hole - 1 => x < Hole - 1 /\ x # Hole
          BY <1>2, <3>1, <3>7, <2>1, <4>1
        <5> QED  BY <2>1, <3>2, <4>1, <5>1
      <4>4. x # Hole
        BY <2>1, <3>1, <3>7
      <4> QED  BY <1>3, <3>4, <3>7, <4>1, <4>2, <4>3, <4>4
    <3> QED  BY <3>5, <3>6, <3>7
  <2>2. 1 <= outer' /\ outer' <= Avx!Length'
    BY <1>1, <1>2
  <2> QED  BY <1>1, <1>2, <2>1, <2>2 DEF Inserting, Signed, Avx!Signed
<1>7. Aligned' /\ PartsAreRest' /\ SameValues'
  BY <1>1, <1>2, <1>5, PermutedIs DEF AvxInv, Aligned, PartsAreRest, SameValues, OutOfOrder, Signed,
     Avx!Signed
<1> QED  BY <1>1, <1>4, <1>6, <1>7 DEF AvxInv, Parting

(* A larger element moves up into the hole, and the hole moves down.       *)
LEMMA ShiftInv == AvxInv /\ Avx!Shift => AvxInv'
<1> SUFFICES ASSUME AvxInv, Avx!Shift PROVE AvxInv'
  OBVIOUS
<1>1. /\ where = "shift" /\ where' = "shift" /\ inner >= 1 /\ inner' = inner - 1
      /\ UNCHANGED <<handed, calls, outer, tmp, temp, piv, read, bottom, top>>
      /\ calls # <<>> /\ outer \in Nat /\ inner \in Nat /\ inner <= outer
      /\ 1 <= outer /\ outer < Avx!Length
  <2>1. where = "shift" /\ where' = "shift" /\ inner >= 1 /\ inner' = inner - 1
        /\ UNCHANGED <<handed, calls, outer, tmp, temp, piv, read, bottom, top>>
    BY DEF Avx!Shift, Avx!partVars
  <2> QED  BY <2>1 DEF AvxInv, AvxTypes, Inserting
<1>2. /\ Avx!From' = Avx!From /\ Avx!Length' = Avx!Length
      /\ Hole = Avx!From + inner /\ Hole' = Hole - 1
      /\ Avx!From \in Nat /\ Avx!Length \in Nat /\ Avx!From + Avx!Length <= AvxN
      /\ Slots = 0 .. AvxN - 1 /\ AvxN \in Nat
      /\ d \in [Slots -> Avx!UInt32] /\ tmp \in Avx!UInt32 /\ Slots' = Slots
  <2>1. Avx!From \in Nat /\ Avx!Length \in Nat /\ Avx!From + Avx!Length <= AvxN
    BY <1>1, FirstPart
  <2>2. Avx!From' = Avx!From /\ Avx!Length' = Avx!Length
    BY <1>1 DEF Avx!From, Avx!Length
  <2>3. Hole = Avx!From + inner /\ Hole' = Avx!From' + inner'
    BY DEF Hole
  <2>4. Hole' = Hole - 1
    BY <1>1, <2>1, <2>2, <2>3
  <2> QED  BY <2>1, <2>2, <2>3, <2>4, AvxSizes DEF AvxInv, AvxTypes, Slots, Avx!Index
<1> DEFINE F == Avx!From
           n == Avx!Length
           g == Hole
<1>3. /\ g \in Slots /\ g - 1 \in Slots /\ g - 1 # g /\ F <= g - 1 /\ g <= F + outer
      /\ g - 1 < F + n /\ g < F + n
  BY <1>1, <1>2
<1>4. /\ d' = [d EXCEPT ![g] = d[g - 1]] /\ Signed(tmp) < Signed(d[g - 1])
  <2>1. /\ d' = [d EXCEPT ![g] = d[F + (inner - 1)]]
        /\ Signed(tmp) < Signed(d[F + (inner - 1)])
    BY DEF Avx!Shift, Avx!partVars, Signed, Hole
  <2>2. F + (inner - 1) = g - 1
    BY <1>1, <1>2
  <2> QED  BY <2>1, <2>2
<1>5. /\ d' \in [Slots -> Avx!UInt32] /\ d'[g] = d[g - 1]
      /\ \A x \in Slots : x # g => d'[x] = d[x]
  BY <1>2, <1>3, <1>4
<1>6. Filled = [d EXCEPT ![g] = tmp] /\ Filled' = [d' EXCEPT ![g - 1] = tmp]
  BY <1>1, <1>2 DEF Filled
<1> DEFINE q == [x \in Slots |-> IF x = g THEN g - 1 ELSE IF x = g - 1 THEN g ELSE x]
<1> HIDE DEF F, n, g
<1>7. /\ q \in [Slots -> Slots] /\ q[g] = g - 1 /\ q[g - 1] = g
      /\ \A x \in Slots : x # g /\ x # g - 1 => q[x] = x
  BY <1>3
<1>8. \A w \in Slots : \E u \in Slots : q[u] = w
  BY <1>3
<1> HIDE DEF q
<1>9. Filled' = [x \in Slots |-> Filled[q[x]]]
  <2>1. /\ Filled \in [Slots -> Avx!UInt32] /\ Filled[g] = tmp
        /\ \A x \in Slots : x # g => Filled[x] = d[x]
    BY <1>2, <1>3, <1>6
  <2>2. /\ Filled' \in [Slots -> Avx!UInt32] /\ Filled'[g - 1] = tmp
        /\ \A x \in Slots : x # g - 1 => Filled'[x] = d'[x]
    BY <1>2, <1>3, <1>5, <1>6
  <2>3. ASSUME NEW x \in Slots PROVE Filled'[x] = Filled[q[x]]
    BY <1>3, <1>5, <1>7, <2>1, <2>2
  <2> QED  BY <2>2, <2>3
<1>10. AvxTypes'
  BY <1>1, <1>2, <1>5 DEF AvxInv, AvxTypes, Slots, Avx!Index, Avx!UInt32
<1>11. Inserting'
  <2>1. \A x, y \in Slots \ {g} : F <= x /\ x < y /\ y <= F + outer
                                  => Signed(d[x]) <= Signed(d[y])
    BY <1>1 DEF AvxInv, Inserting, F, g
  <2>2. \A y \in Slots : g < y /\ y <= F + outer => Signed(tmp) < Signed(d[y])
    BY <1>1 DEF AvxInv, Inserting, F, g
  <2>3. /\ Slots \subseteq Int /\ g \in Int /\ F \in Int /\ outer \in Int
    BY <1>1, <1>2, <1>3 DEF F
  <2>4. ASSUME NEW x \in Slots \ {g - 1}, NEW y \in Slots \ {g - 1}, F <= x, x < y, y <= F + outer
        PROVE  Signed(d'[x]) <= Signed(d'[y])
    <3>1. CASE x = g
      <4>1. g - 1 < y /\ y \in Slots \ {g} /\ g - 1 \in Slots \ {g}
        BY <1>3, <2>3, <2>4, <3>1
      <4>2. Signed(d[g - 1]) <= Signed(d[y])
        BY <1>3, <2>1, <2>4, <4>1
      <4> QED  BY <1>5, <3>1, <4>1, <4>2
    <3>2. CASE y = g
      <4>1. x < g - 1 /\ x \in Slots \ {g} /\ g - 1 \in Slots \ {g} /\ g - 1 <= F + outer
        BY <1>3, <2>3, <2>4, <3>2
      <4>2. Signed(d[x]) <= Signed(d[g - 1])
        BY <2>1, <2>4, <4>1
      <4> QED  BY <1>5, <3>2, <4>1, <4>2
    <3>3. CASE x # g /\ y # g
      BY <1>5, <2>1, <2>4, <3>3
    <3> QED  BY <3>1, <3>2, <3>3
  <2>5. ASSUME NEW y \in Slots, g - 1 < y, y <= F + outer
        PROVE  Signed(tmp) < Signed(d'[y])
    <3>1. CASE y = g
      BY <1>4, <1>5, <3>1
    <3>2. CASE y # g
      <4>1. g < y
        BY <2>3, <2>5, <3>2
      <4> QED  BY <1>5, <2>2, <2>5, <3>2, <4>1
    <3> QED  BY <3>1, <3>2
  <2>6. Hole' = g - 1 /\ Avx!From' = F /\ outer' = outer /\ tmp' = tmp /\ Avx!Length' = n
    BY <1>1, <1>2 DEF g, F, n
  <2>7. /\ calls' # <<>> /\ 1 <= outer' /\ outer' <= Avx!Length' /\ outer' < Avx!Length'
        /\ inner' <= outer' /\ where' = "shift"
    BY <1>1, <1>2
  <2>8. \A x, y \in Slots \ {Hole'} :
          Avx!From' <= x /\ x < y /\ y <= Avx!From' + outer' => Signed(d'[x]) <= Signed(d'[y])
    BY <2>4, <2>6
  <2>9. \A y \in Slots : Hole' < y /\ y <= Avx!From' + outer' => Signed(tmp') < Signed(d'[y])
    BY <2>5, <2>6
  <2>10. (where' = "shift") # (where' = "insert")
    BY <2>7
  <2> QED  BY <1>2, <2>7, <2>8, <2>9, <2>10, Zenon DEF Inserting
<1>12. Aligned'
  BY <1>1 DEF AvxInv, Aligned
<1>13. \A x \in Slots : IF Avx!From <= x /\ x < Avx!From + Avx!Length
                          THEN Avx!From <= q[x] /\ q[x] < Avx!From + Avx!Length
                          ELSE q[x] = x
  <2>1. /\ F \in Nat /\ n \in Nat /\ F <= g /\ Slots \subseteq Int /\ g \in Int
    BY <1>1, <1>2, <1>3 DEF F, n, g
  <2>2. ASSUME NEW x \in Slots
        PROVE  IF F <= x /\ x < F + n THEN F <= q[x] /\ q[x] < F + n ELSE q[x] = x
    <3>1. CASE x = g \/ x = g - 1
      BY <1>3, <1>7, <2>1, <3>1
    <3>2. CASE x # g /\ x # g - 1
      BY <1>7, <3>2
    <3> QED  BY <3>1, <3>2
  <2> QED  BY <2>2 DEF F, n
<1>14. PartsAreRest' /\ SameValues'
  BY <1>1, <1>7, <1>8, <1>9, <1>13, Reordered
<1> QED  BY <1>1, <1>10, <1>11, <1>12, <1>14 DEF AvxInv, Parting

LEMMA AvxStep == AvxInv /\ [Avx!Next]_avxVars => AvxInv'
<1>1. ASSUME AvxInv, UNCHANGED avxVars PROVE AvxInv'
  <2>1. UNCHANGED <<d, calls, where, outer, inner, tmp, handed, temp, piv, read, bottom, top>>
    BY <1>1 DEF avxVars
  <2>2. /\ Avx!From' = Avx!From /\ Avx!Length' = Avx!Length /\ Hole' = Hole /\ Behind' = Behind
        /\ Kept' = Kept /\ Filled' = Filled
    BY <2>1 DEF Filled, Hole, Behind, Kept, Avx!From, Avx!Length, Slots, Avx!Index
  <2> QED  BY <1>1, <2>1, <2>2, PermutedIs
           DEF AvxInv, AvxTypes, Aligned, Inserting, Parting, PartsAreRest, OutOfOrder, SameValues,
               Slots, Avx!Index, Avx!UInt32, Signed, Avx!Signed
<1>2. ASSUME AvxInv, Avx!Next PROVE AvxInv'
  <2>1. CASE Avx!Finished
    BY <1>1, <1>2, <2>1 DEF Avx!Finished, Avx!vars, Avx!partVars, avxVars
  <2> QED  BY <1>2, <2>1, MedianInv, VectorInv, WordInv, CopyBackInv,
              RemainInv, TakeInv, ShiftInv, PutInv, RemainedInv DEF Avx!Next
<1> QED  BY <1>1, <1>2

LEMMA AvxFrame ==
  /\ BenchInit => Avx!Init
  /\ [BenchNext]_benchVars => [Avx!Next]_avxVars
<1>1. ASSUME BenchInit PROVE Avx!Init
  <2>1. CASE test = "my_qsort_AVX2"
    BY <1>1, <2>1 DEF BenchInit
  <2>2. CASE test # "my_qsort_AVX2"
    <3>1. Avx!Start(Same(AvxN))
      BY <1>1, <2>2 DEF BenchInit
    <3>2. Same(AvxN) \in [Avx!Index -> Avx!UInt32]
      BY AvxSizes DEF Same, Avx!Index, Avx!UInt32
    <3> QED  BY <3>1, <3>2 DEF Avx!Init
  <2> QED  BY <2>1, <2>2
<1>2. ASSUME [BenchNext]_benchVars PROVE [Avx!Next]_avxVars
  <2>1. Avx!Next \/ UNCHANGED avxVars
    BY <1>2 DEF BenchNext, benchVars
  <2> QED  BY <2>1
<1> QED  BY <1>1, <1>2

Given == [k \in Slots |-> Signed(handed[k])]
Array == [k \in Slots |-> Signed(d[k])]

LEMMA PromiseIs ==
  /\ Avx!Promise!Init <=> /\ Given \in [Slots -> Avx!Int32] /\ Array = Given
                          /\ (calls # <<>>) = TRUE
  /\ Avx!Promise!Rearrange <=> /\ calls # <<>> /\ Array' \in [Slots -> Avx!Int32]
                               /\ Given' = Given /\ (calls' # <<>>) = (calls # <<>>)
  /\ Avx!Promise!Finish <=> /\ calls # <<>> /\ Avx!Promise!Permuted(Array, Given)
                            /\ \A x, y \in Slots : x < y => Array[x] <= Array[y]
                            /\ (calls' # <<>>) = FALSE
                            /\ Given' = Given /\ Array' = Array
  /\ Avx!Promise!vars' = Avx!Promise!vars
       <=> Given' = Given /\ Array' = Array /\ (calls' # <<>>) = (calls # <<>>)
BY DEF Avx!Promise!Init, Avx!Promise!Rearrange, Avx!Promise!Finish, Avx!Promise!vars,
       Avx!Promise!Sorted, Avx!Promise!Index, Avx!Index, Slots, Signed, Given, Array, Avx!Running

(* Every step rearranges the array, returns it sorted, or leaves it.       *)
LEMMA AvxImplementsStep ==
  ASSUME AvxInv, AvxInv', [Avx!Next]_avxVars
  PROVE  [Avx!Promise!Next]_(Avx!Promise!vars)
<1>1. CASE UNCHANGED <<handed, d, calls>>
  <2>1. Given' = Given /\ Array' = Array
    BY <1>1 DEF Given, Array, Slots, Avx!Index, Signed, Avx!Signed
  <2> QED  BY <1>1, <2>1, PromiseIs
<1>2. CASE ~ UNCHANGED <<handed, d, calls>>
  <2>1. \/ Avx!Median \/ Avx!Vector \/ Avx!Word \/ Avx!CopyBack
        \/ Avx!Remain \/ Avx!Shift \/ Avx!Put \/ Avx!Remained
    BY <1>2 DEF Avx!Next, Avx!Take, Avx!Finished, Avx!vars, Avx!partVars, avxVars
  <2>2. calls # <<>> /\ handed' = handed
    BY <2>1 DEF Avx!Median, Avx!Vector, Avx!Word, Avx!CopyBack, Avx!Running,
                Avx!Remain, Avx!Shift, Avx!Put, Avx!Remained, AvxInv, Inserting, Parting
  <2>3. Given' = Given
    BY <2>2 DEF Given, Slots, Avx!Index, Signed, Avx!Signed
  <2>4. CASE calls' # <<>>
    <3>1. d' \in [Slots -> Avx!UInt32]
      BY DEF AvxInv, AvxTypes, Slots, Avx!Index, Avx!UInt32
    <3>2. \A k \in Slots : Signed(d'[k]) \in Avx!Int32
      BY <3>1, AvxSizes
    <3>3. Array' = [k \in Slots |-> Signed(d'[k])]
      BY DEF Array, Slots, Avx!Index, Signed, Avx!Signed
    <3> QED  BY <2>2, <2>3, <2>4, <3>2, <3>3, PromiseIs DEF Avx!Promise!Next
  <2>5. CASE calls' = <<>>
    <3>1. d' = d
      <4>1. ASSUME Avx!CopyBack PROVE calls' # <<>>
        <5> DEFINE s == Tail(calls)
                   e == Avx!Parts(Avx!From, Avx!Length, top)
        <5>1. s \in Seq(Nat \X Nat)
          BY <2>2, FirstPart
        <5>2. Len(e) = 2 /\ e \in Seq({e[1], e[2]})
          BY DEF Avx!Parts
        <5>3. s \in Seq((Nat \X Nat) \cup {e[1], e[2]}) /\ e \in Seq((Nat \X Nat) \cup {e[1], e[2]})
          BY <5>1, <5>2
        <5>4. calls' = e \o s
          BY <4>1 DEF Avx!CopyBack
        <5> HIDE DEF s, e
        <5>5. Len(e \o s) = Len(e) + Len(s)
          BY <5>3, Concatenated, Zenon
        <5>6. Len(s) \in Nat
          BY <5>1
        <5> QED  BY <5>2, <5>4, <5>5, <5>6
      <4>2. ~ Avx!Median /\ ~ Avx!Vector /\ ~ Avx!Word /\ ~ Avx!Shift /\ ~ Avx!Put
        BY <2>2, <2>5 DEF Avx!Median, Avx!Vector, Avx!Word, Avx!Shift, Avx!Put
      <4> QED  BY <2>1, <2>5, <4>1, <4>2 DEF Avx!Remain, Avx!Remained
    <3>2. /\ Avx!Promise!Permuted(d, handed)
          /\ \A x, y \in Slots : x < y => Signed(d[x]) <= Signed(d[y])
      <4>1. /\ Avx!Promise!Permuted(d', handed')
            /\ \A x, y \in Slots : x < y => Signed(d'[x]) <= Signed(d'[y])
        <5>1. \E p \in [Slots -> Slots] : /\ \A w \in Slots : \E v \in Slots : p[v] = w
                                          /\ Filled' = [x \in Slots |-> handed'[p[x]]]
          BY PermutedIs DEF AvxInv, SameValues
        <5>2. Filled' = d'
          BY <2>5 DEF AvxInv, Inserting, Parting, AvxTypes, Filled
        <5>3. Avx!Promise!Permuted(d', handed')
          BY <5>1, <5>2, PermutedIs
        <5>4. Len(calls') = 0
          BY <2>5
        <5>5. ASSUME NEW x \in Slots, NEW y \in Slots, x < y
              PROVE  Signed(d'[x]) <= Signed(d'[y])
          <6>1. ~ (Signed(d'[x]) > Signed(d'[y]))
            BY <5>2, <5>4, <5>5 DEF AvxInv, PartsAreRest, OutOfOrder
          <6>2. d' \in [Slots -> Avx!UInt32]
            BY DEF AvxInv, AvxTypes, Slots, Avx!Index, Avx!UInt32
          <6>3. Signed(d'[x]) \in Int /\ Signed(d'[y]) \in Int
            BY <6>2, AvxSizes
          <6> QED  BY <6>1, <6>3
        <5> QED  BY <5>3, <5>5
      <4> QED  BY <2>2, <3>1, <4>1
    <3>3. Avx!Promise!Permuted(Array, Given)
      <4>1. PICK p \in [Slots -> Slots] : /\ \A w \in Slots : \E v \in Slots : p[v] = w
                                          /\ d = [x \in Slots |-> handed[p[x]]]
        BY <3>2, PermutedIs
      <4>2. Array = [x \in Slots |-> Given[p[x]]]
        BY <4>1 DEF Array, Given
      <4> QED  BY <4>1, <4>2, PermutedIs
    <3>4. \A x, y \in Slots : x < y => Array[x] <= Array[y]
      BY <3>2 DEF Array
    <3>5. Array' = Array
      BY <3>1 DEF Array, Slots, Avx!Index, Signed, Avx!Signed
    <3> QED  BY <2>2, <2>3, <2>5, <3>3, <3>4, <3>5, PromiseIs DEF Avx!Promise!Next
  <2> QED  BY <2>4, <2>5
<1> QED  BY <1>1, <1>2

(* The driver of sortSpeed.cpp (l.175-183), with the partition in assembly *)
(* (qsort_avx2_int32.s:43-439) and its insertion sort (l.163-173), returns *)
(* every array sorted as signed values, for vectors of every width.        *)
THEOREM AvxImplements == BenchSpec => AvxSorts
<1>1. BenchInit => AvxInv
  BY AvxFrame, AvxInit
<1>2. AvxInv /\ [BenchNext]_benchVars => AvxInv'
  BY AvxFrame, AvxStep
<1>3. BenchInit => Avx!Promise!Init
  <2> SUFFICES ASSUME NEW g \in [Slots -> Avx!UInt32], Avx!Start(g) PROVE Avx!Promise!Init
    BY AvxFrame DEF Avx!Init, Slots
  <2>1. handed = g /\ d = g /\ calls # <<>>
    BY DEF Avx!Start
  <2>2. \A k \in Slots : Signed(g[k]) \in Avx!Int32
    BY AvxSizes
  <2> QED  BY <2>1, <2>2, PromiseIs DEF Given, Array
<1>4. AvxInv /\ AvxInv' /\ [BenchNext]_benchVars => [Avx!Promise!Next]_(Avx!Promise!vars)
  BY AvxFrame, AvxImplementsStep
<1> QED  BY <1>1, <1>2, <1>3, <1>4, PTL DEF BenchSpec, AvxSorts, Avx!AvxSorts, Avx!Promise!SafeSpec

-----------------------------------------------------------------------------

(***************************************************************************)
(* The radix sort: the words of its tables count the digits of the array   *)
(* as it was handed over, their sums are the ranks of its elements, and a  *)
(* pass that puts every element at its rank leaves a rearrangement in the  *)
(* order of one digit more.                                                *)
(***************************************************************************)
Elems == 0 .. RadixN - 1
Base(p) == Radix!Base[p]
Table(p) == Radix!Table[p]
Data == Radix!Data
Digit(p, v) == Radix!Digit(p, v)

(* The tables lie one behind the other and before the data.                *)
LEMMA RadixSizes ==
  /\ RadixN \in Nat \ {0} /\ Spare \in Nat \ {0} /\ Junk \subseteq Nat
  /\ \A p \in 1 .. 3 : Base(p) \in Nat \ {0} /\ Table(p) \in Nat
  /\ Data \in Nat /\ Radix!Word = 0 .. Data + RadixN - 1 /\ Stray \subseteq Int
  /\ \A p \in 1 .. 3 : Table(p) + Base(p) < Data
  /\ \A q, p \in 1 .. 3 : q < p => Table(q) + Base(q) < Table(p)
<1>1. /\ {RadixN, Spare} \subseteq Nat \ {0}
      /\ {LowBase, MidBase, HighBase} \subseteq Nat \ {0, 1}
      /\ Junk \subseteq Nat /\ Stray \subseteq Int
  BY SizesAssumption DEF Radix!Sizes
<1>2. Base(1) = LowBase /\ Base(2) = MidBase /\ Base(3) = HighBase
  BY DEF Base, Radix!Base
<1>3. /\ Table(1) = 0 /\ Table(2) = LowBase + Spare
      /\ Table(3) = LowBase + MidBase + 2 * Spare
      /\ Data = LowBase + MidBase + 2 * Spare + HighBase + Spare
  BY <1>1 DEF Table, Data, Radix!Table, Radix!Data, Radix!Base
<1>4. Radix!Word = 0 .. Data + RadixN - 1
  BY DEF Radix!Word, Data
<1>6. Data \in Nat /\ \A p \in 1 .. 3 : Base(p) \in Nat \ {0} /\ Table(p) \in Nat
  BY <1>1, <1>2, <1>3
<1>7. \A p \in 1 .. 3 : Table(p) + Base(p) < Data
  BY <1>1, <1>2, <1>3
<1>8. \A q, p \in 1 .. 3 : q < p => Table(q) + Base(q) < Table(p)
  BY <1>1, <1>2, <1>3
<1> QED  BY <1>1, <1>4, <1>6, <1>7, <1>8

LEMMA Quotient ==
  ASSUME NEW x \in Nat, NEW y \in Nat \ {0}
  PROVE  /\ x \div y \in Nat /\ (x % y) \in 0 .. y - 1
         /\ x = y * (x \div y) + (x % y)
<1>1. x \div y \in Int /\ (x % y) \in 0 .. y - 1 /\ x = y * (x \div y) + (x % y)
  BY SMT
<1>2. x \div y >= 0
  BY SMT
<1> QED  BY <1>1, <1>2

LEMMA DigitIs ==
  ASSUME NEW v
  PROVE  /\ Digit(1, v) = v % Base(1)
         /\ Digit(2, v) = (v \div Base(1)) % Base(2)
         /\ Digit(3, v) = (v \div (Base(1) * Base(2))) % Base(3)
BY DEF Digit, Radix!Digit, Base

LEMMA DigitsInRange ==
  ASSUME NEW p \in 1 .. 3, NEW v \in Nat
  PROVE  Digit(p, v) \in 0 .. Base(p) - 1
<1>1. Base(1) \in Nat \ {0} /\ Base(2) \in Nat \ {0} /\ Base(3) \in Nat \ {0}
  BY RadixSizes
<1>2. CASE p = 1
  BY <1>1, <1>2, Quotient, DigitIs
<1>3. CASE p = 2
  <2>1. v \div Base(1) \in Nat
    BY <1>1, Quotient
  <2> QED  BY <1>1, <1>3, <2>1, Quotient, DigitIs
<1>4. CASE p = 3
  <2>1. Base(1) * Base(2) \in Nat \ {0}
    BY <1>1
  <2>2. v \div (Base(1) * Base(2)) \in Nat
    BY <2>1, Quotient
  <2> QED  BY <1>1, <1>4, <2>2, Quotient, DigitIs
<1> QED  BY <1>2, <1>3, <1>4

(* A remainder and a quotient are found again in one way only.             *)
LEMMA OnlyQuotient ==
  ASSUME NEW y \in Nat \ {0}, NEW q \in Nat, NEW w \in 0 .. y - 1
  PROVE  (y * q + w) \div y = q
<1> DEFINE x == y * q + w
           e == x \div y
           f == x % y
<1>1. x \in Nat
  OBVIOUS
<1>2. e \in Nat /\ f \in 0 .. y - 1 /\ x = y * e + f
  BY <1>1, Quotient
<1>3. y * q + w = y * e + f
  BY <1>2
<1> HIDE DEF e, f
<1>4. CASE e > q
  <2>1. PICK n \in Nat : e = q + 1 + n
    <3>1. e - q - 1 \in Nat /\ e = q + 1 + (e - q - 1)
      BY <1>2, <1>4
    <3> QED  BY <3>1
  <2>2. y * e = y * q + y + y * n /\ y * n \in Nat /\ y * q \in Nat
    BY <2>1
  <2> QED  BY <1>2, <1>3, <2>2
<1>5. CASE e < q
  <2>1. PICK n \in Nat : q = e + 1 + n
    <3>1. q - e - 1 \in Nat /\ q = e + 1 + (q - e - 1)
      BY <1>2, <1>5
    <3> QED  BY <3>1
  <2>2. y * q = y * e + y + y * n /\ y * n \in Nat /\ y * e \in Nat
    BY <1>2, <2>1
  <2> QED  BY <1>2, <1>3, <2>2
<1>6. e = q
  BY <1>2, <1>4, <1>5
<1> QED  BY <1>6 DEF e

(* A key is made of its three digits.                                      *)
LEMMA DigitsMake ==
  ASSUME NEW v \in Radix!Key
  PROVE  v = Digit(1, v) + Base(1) * (Digit(2, v) + Base(2) * Digit(3, v))
<1> DEFINE b1 == Base(1)
           b2 == Base(2)
           b3 == Base(3)
           x == v \div b1
           y == x \div b2
<1>1. b1 \in Nat \ {0} /\ b2 \in Nat \ {0} /\ b3 \in Nat \ {0}
  BY RadixSizes
<1>2. v \in Nat /\ v < b1 * b2 * b3
  BY <1>1 DEF Radix!Key, Base
<1>3. x \in Nat /\ v = b1 * x + Digit(1, v) /\ Digit(1, v) \in 0 .. b1 - 1
  <2>1. x \in Nat /\ v = b1 * x + (v % b1) /\ (v % b1) \in 0 .. b1 - 1
    BY <1>1, <1>2, Quotient, Zenon
  <2> QED  BY <2>1, DigitIs, Zenon
<1>4. y \in Nat /\ x = b2 * y + Digit(2, v) /\ Digit(2, v) \in 0 .. b2 - 1
  <2> HIDE DEF b2
  <2>1. y \in Nat /\ x = b2 * y + (x % b2) /\ (x % b2) \in 0 .. b2 - 1
    BY <1>1, <1>3, Quotient, Zenon
  <2> QED  BY <2>1, DigitIs, Zenon DEF b2
<1>5. Digit(3, v) = y
  <2> HIDE DEF x, y
  <2>1. v \div (b1 * b2) = y
    <3> DEFINE w == b1 * Digit(2, v) + Digit(1, v)
    <3>1. w \in 0 .. b1 * b2 - 1
      <4>1. b1 * Digit(2, v) <= b1 * (b2 - 1)
        BY <1>1, <1>4
      <4>2. b1 * (b2 - 1) = b1 * b2 - b1 /\ b1 * b2 \in Nat /\ b1 * Digit(2, v) \in Nat
        BY <1>1, <1>4
      <4> QED  BY <1>1, <1>3, <4>1, <4>2
    <3>2. v = b1 * (b2 * y + Digit(2, v)) + Digit(1, v)
      BY <1>3, <1>4
    <3>3. b1 * (b2 * y + Digit(2, v)) = (b1 * b2) * y + b1 * Digit(2, v)
      BY <1>1, <1>4
    <3>4. v = (b1 * b2) * y + w
      BY <1>1, <1>3, <1>4, <3>2, <3>3
    <3>5. b1 * b2 \in Nat \ {0}
      BY <1>1
    <3> QED  BY <1>4, <3>1, <3>4, <3>5, OnlyQuotient
  <2>2. y < b3
    <3>1. v < (b1 * b2) * b3 /\ b1 * b2 \in Nat \ {0}
      BY <1>1, <1>2
    <3> DEFINE z == b1 * b2
    <3>2. v = z * (v \div z) + (v % z) /\ (v % z) \in 0 .. z - 1 /\ v \div z = y
      <4>1. z \in Nat \ {0}
        BY <3>1
      <4> HIDE DEF z
      <4>2. v = z * (v \div z) + (v % z) /\ (v % z) \in 0 .. z - 1
        BY <1>2, <4>1, Quotient
      <4> QED  BY <2>1, <4>2 DEF z
    <3>3. (v % z) \in Nat
      <4> HIDE DEF z
      <4> QED  BY <3>2
    <3> HIDE DEF z
    <3>4. z * y < z * b3 /\ z \in Nat \ {0}
      <4> QED  BY <1>1, <1>4, <3>1, <3>2, <3>3 DEF z
    <3>5. CASE y >= b3
      <4>1. PICK n \in Nat : y = b3 + n
        <5>1. y - b3 \in Nat /\ y = b3 + (y - b3)
          BY <1>1, <1>4, <3>5
        <5> QED  BY <5>1
      <4>2. z * y = z * b3 + z * n /\ z * n \in Nat /\ z * b3 \in Nat
        BY <1>1, <3>4, <4>1
      <4> QED  BY <3>4, <4>2
    <3> QED  BY <1>1, <1>4, <3>5
  <2>3. y % b3 = y
    <3>1. y \div b3 \in Nat /\ (y % b3) \in 0 .. b3 - 1 /\ y = b3 * (y \div b3) + (y % b3)
      BY <1>1, <1>4, Quotient
    <3>2. (b3 * 0 + y) \div b3 = 0 /\ b3 * 0 + y = y
      BY <1>1, <1>4, <2>2, OnlyQuotient
    <3> QED  BY <1>1, <1>4, <3>1, <3>2
  <2> QED  BY <2>1, <2>3, DigitIs
<1> QED  BY <1>1, <1>3, <1>4, <1>5

(***************************************************************************)
(* Counting the elements with a digit, and with smaller ones.              *)
(***************************************************************************)
Below(f, c) == {k \in Elems : f[k] < c}
Before(f, c, n) == {k \in 0 .. n - 1 : f[k] = c}

(* The slot of an element: behind those with smaller digits, and those     *)
(* with the same digit that come before it.                                *)
Rank(f, k) == Cardinality(Below(f, f[k])) + Cardinality(Before(f, f[k], k))

LEMMA ElemsAre ==
  /\ \A k : k \in Elems <=> k \in Nat /\ k < RadixN
  /\ RadixN \in Nat
BY RadixSizes DEF Elems

LEMMA Finite ==
  /\ IsFiniteSet(Elems) /\ Cardinality(Elems) = RadixN
  /\ \A S : S \subseteq Elems => IsFiniteSet(S) /\ Cardinality(S) \in 0 .. RadixN
<1>1. IsFiniteSet(Elems) /\ Cardinality(Elems) = RadixN
  <2>1. RadixN \in Nat \ {0} /\ 0 \in Int /\ RadixN - 1 \in Int
    BY RadixSizes
  <2>2. IsFiniteSet(0 .. RadixN - 1)
        /\ Cardinality(0 .. RadixN - 1) = IF 0 > RadixN - 1 THEN 0 ELSE RadixN - 1 - 0 + 1
    BY <2>1, FS_Interval, Zenon
  <2> QED  BY <2>1, <2>2 DEF Elems
<1>2. ASSUME NEW S, S \subseteq Elems
      PROVE  IsFiniteSet(S) /\ Cardinality(S) \in 0 .. RadixN
  <2>1. IsFiniteSet(S) /\ Cardinality(S) <= RadixN
    BY <1>1, <1>2, FS_Subset
  <2> QED  BY <2>1, FS_CardinalityType, RadixSizes
<1> QED  BY <1>1, <1>2

LEMMA Subsets ==
  ASSUME NEW f, NEW c, NEW n \in 0 .. RadixN
  PROVE  /\ Below(f, c) \subseteq Elems /\ Before(f, c, n) \subseteq Elems
         /\ Cardinality(Below(f, c)) \in 0 .. RadixN
         /\ Cardinality(Before(f, c, n)) \in 0 .. RadixN
         /\ IsFiniteSet(Below(f, c)) /\ IsFiniteSet(Before(f, c, n))
<1>1. Below(f, c) \subseteq Elems /\ Before(f, c, n) \subseteq Elems
  BY RadixSizes DEF Below, Before, Elems
<1> QED  BY <1>1, Finite

LEMMA CountsAdd ==
  ASSUME NEW f \in [Elems -> Nat], NEW c \in Nat, NEW n \in 0 .. RadixN
  PROVE  /\ Cardinality(Below(f, c + 1))
              = Cardinality(Below(f, c)) + Cardinality(Before(f, c, RadixN))
         /\ Cardinality(Below(f, 0)) = 0
         /\ Cardinality(Before(f, c, 0)) = 0
         /\ n < RadixN => Cardinality(Before(f, c, n + 1))
              = IF f[n] = c THEN Cardinality(Before(f, c, n)) + 1
                            ELSE Cardinality(Before(f, c, n))
<1>1. Cardinality(Below(f, c + 1)) = Cardinality(Below(f, c)) + Cardinality(Before(f, c, RadixN))
  <2>1. Below(f, c + 1) = Below(f, c) \cup Before(f, c, RadixN)
    <3>1. \A k \in Elems : f[k] < c + 1 <=> f[k] < c \/ f[k] = c
      OBVIOUS
    <3> QED  BY <3>1 DEF Below, Before, Elems
  <2>2. Below(f, c) \cap Before(f, c, RadixN) = {}
    BY DEF Below, Before, Elems
  <2>3. RadixN \in 0 .. RadixN
    BY RadixSizes
  <2> DEFINE S == Below(f, c)
             Q == Before(f, c, RadixN)
  <2>4. IsFiniteSet(S) /\ IsFiniteSet(Q) /\ Cardinality(S) \in 0 .. RadixN
        /\ Cardinality(Q) \in 0 .. RadixN
    BY <2>3, Subsets
  <2> HIDE DEF S, Q
  <2>5. Cardinality(S \cup Q) = Cardinality(S) + Cardinality(Q) - Cardinality(S \cap Q)
    BY <2>4, FS_Union
  <2>6. Cardinality(S \cap Q) = 0
    BY <2>2, FS_EmptySet DEF S, Q
  <2>7. Cardinality(S \cup Q) = Cardinality(S) + Cardinality(Q)
    BY <2>4, <2>5, <2>6
  <2> QED  BY <2>1, <2>7 DEF S, Q
<1>2. Below(f, 0) = {} /\ Before(f, c, 0) = {}
  BY DEF Below, Before
<1>3. ASSUME n < RadixN
      PROVE  Cardinality(Before(f, c, n + 1))
               = IF f[n] = c THEN Cardinality(Before(f, c, n)) + 1
                             ELSE Cardinality(Before(f, c, n))
  <2>1. 0 .. n = (0 .. n - 1) \cup {n} /\ (n + 1) - 1 = n
    OBVIOUS
  <2>2. Before(f, c, n + 1) = IF f[n] = c THEN Before(f, c, n) \cup {n} ELSE Before(f, c, n)
    BY <2>1 DEF Before
  <2>3. n \notin Before(f, c, n) /\ IsFiniteSet(Before(f, c, n))
        /\ Cardinality(Before(f, c, n)) \in Nat
    <3>1. n \notin Before(f, c, n)
      BY DEF Before
    <3> QED  BY <3>1, Subsets
  <2>4. Cardinality(Before(f, c, n) \cup {n}) = Cardinality(Before(f, c, n)) + 1
    BY <2>3, FS_AddElement
  <2> QED  BY <2>2, <2>4
<1> QED  BY <1>1, <1>2, <1>3, FS_EmptySet

(* Slots keep the order of digits, and among equal digits the order of the *)
(* elements.  So they are different, and none is left out.                 *)
Precedes(f, j, k) == f[j] < f[k] \/ (f[j] = f[k] /\ j < k)

LEMMA RankIs ==
  ASSUME NEW f \in [Elems -> Nat], NEW k \in Elems
  PROVE  /\ Rank(f, k) = Cardinality({j \in Elems : Precedes(f, j, k)})
         /\ Rank(f, k) \in Elems
<1> DEFINE S == Below(f, f[k])
           Q == Before(f, f[k], k)
           P == {j \in Elems : Precedes(f, j, k)}
<1> k \in Nat /\ k < RadixN /\ RadixN \in Nat /\ f[k] \in Nat
  BY ElemsAre
<1>1. P = S \cup Q /\ S \cap Q = {}
  <2>1. \A j : j \in Q <=> j \in Elems /\ j < k /\ f[j] = f[k]
    BY ElemsAre DEF Before
  <2>2. \A j : j \in S <=> j \in Elems /\ f[j] < f[k]
    BY DEF Below
  <2>3. \A j \in Elems : f[j] \in Nat
    OBVIOUS
  <2> HIDE DEF Q, S
  <2>4. \A j : j \in P <=> j \in S \/ j \in Q
    BY <2>1, <2>2 DEF Precedes
  <2>5. \A j : ~(j \in S /\ j \in Q)
    BY <2>1, <2>2, <2>3
  <2> HIDE DEF P
  <2> QED  BY <2>4, <2>5
<1>2. k \in 0 .. RadixN /\ k \notin P /\ P \subseteq Elems
  BY DEF Precedes
<1>3. IsFiniteSet(S) /\ IsFiniteSet(Q) /\ Cardinality(S) \in Nat /\ Cardinality(Q) \in Nat
  BY <1>2, Subsets
<1>4. Cardinality(P) < RadixN
  <2> HIDE DEF P
  <2>1. IsFiniteSet(P) /\ Cardinality(P) \in 0 .. RadixN
    BY <1>2, Finite
  <2>2. Cardinality(P \cup {k}) = Cardinality(P) + 1
    BY <1>2, <2>1, FS_AddElement
  <2>3. Cardinality(P \cup {k}) \in 0 .. RadixN
    BY <1>2, Finite
  <2> QED  BY <2>1, <2>2, <2>3, RadixSizes
<1>5. Cardinality(P) = Cardinality(S) + Cardinality(Q)
  <2> HIDE DEF S, Q, P
  <2>1. Cardinality(S \cup Q) = Cardinality(S) + Cardinality(Q) - Cardinality(S \cap Q)
    BY <1>3, FS_Union
  <2>2. Cardinality(S \cap Q) = 0
    BY <1>1, FS_EmptySet
  <2> QED  BY <1>1, <1>3, <2>1, <2>2
<1>6. Rank(f, k) = Cardinality(P)
  BY <1>5 DEF Rank
<1> HIDE DEF S, Q, P
<1>7. Cardinality(P) \in 0 .. RadixN
  BY <1>2, Finite
<1>8. Cardinality(P) \in Elems
  BY <1>4, <1>7, ElemsAre
<1> QED  BY <1>6, <1>8 DEF P

LEMMA RanksKeepOrder ==
  ASSUME NEW f \in [Elems -> Nat], NEW j \in Elems, NEW k \in Elems, Precedes(f, j, k)
  PROVE  Rank(f, j) < Rank(f, k)
<1> DEFINE P == {m \in Elems : Precedes(f, m, j)}
           Q == {m \in Elems : Precedes(f, m, k)}
<1>1. P \cup {j} \subseteq Q /\ j \notin P /\ P \subseteq Elems /\ Q \subseteq Elems
  BY DEF Precedes, Elems
<1>2. Rank(f, j) = Cardinality(P) /\ Rank(f, k) = Cardinality(Q)
  BY RankIs
<1> HIDE DEF P, Q
<1>3. /\ IsFiniteSet(P) /\ Cardinality(P) \in Nat
      /\ IsFiniteSet(Q) /\ Cardinality(Q) \in Nat
  BY <1>1, Finite
<1>4. Cardinality(P \cup {j}) = Cardinality(P) + 1
  BY <1>1, <1>3, FS_AddElement
<1>5. Cardinality(P \cup {j}) <= Cardinality(Q)
  BY <1>1, <1>3, FS_Subset
<1> QED  BY <1>2, <1>3, <1>4, <1>5

LEMMA RanksDiffer ==
  ASSUME NEW f \in [Elems -> Nat], NEW j \in Elems, NEW k \in Elems, j # k
  PROVE  Rank(f, j) # Rank(f, k)
<1>1. Precedes(f, j, k) \/ Precedes(f, k, j)
  BY DEF Precedes, Elems
<1>2. Rank(f, j) \in Nat /\ Rank(f, k) \in Nat
  BY RankIs, ElemsAre
<1> QED  BY <1>1, <1>2, RanksKeepOrder

LEMMA RanksFill ==
  ASSUME NEW f \in [Elems -> Nat]
  PROVE  \A x \in Elems : \E k \in Elems : Rank(f, k) = x
<1> DEFINE g == [k \in Elems |-> Rank(f, k)]
<1>1. g \in [Elems -> Elems]
  BY RankIs
<1>2. \A j, k \in Elems : g[j] = g[k] => j = k
  BY RanksDiffer
<1>3. \A k \in Elems : g[k] = Rank(f, k)
  OBVIOUS
<1> HIDE DEF g
<1>4. g \in Injection(Elems, Elems)
  BY <1>1, <1>2 DEF Injection, IsInjective
<1>5. g \in Surjection(Elems, Elems)
  BY <1>4, Finite, FS_Injection
<1> QED  BY <1>3, <1>5 DEF Surjection

(* A rearrangement has as many elements with smaller digits.               *)
LEMMA SameBelow ==
  ASSUME NEW f \in [Elems -> Nat], NEW g \in [Elems -> Nat], NEW c,
         NEW p \in [Elems -> Elems], \A w \in Elems : \E v \in Elems : p[v] = w,
         \A k \in Elems : f[k] = g[p[k]]
  PROVE  Cardinality(Below(f, c)) = Cardinality(Below(g, c))
<1>1. p \in Surjection(Elems, Elems)
  BY DEF Surjection
<1>2. p \in Injection(Elems, Elems)
  BY <1>1, Finite, FS_SurjSameCardinalityImpliesInj
<1> DEFINE S == Below(f, c)
           Q == Below(g, c)
           h == [k \in S |-> p[k]]
<1>3. h \in [S -> Q] /\ \A k \in S : h[k] = p[k]
  BY DEF Below
<1>4. \A w \in Q : \E v \in S : h[v] = w
  BY DEF Below
<1>5. \A j, k \in S : h[j] = h[k] => j = k
  BY <1>2 DEF Injection, IsInjective, Below
<1>6. IsFiniteSet(S)
  BY Finite DEF Below
<1> HIDE DEF h, S, Q
<1>7. h \in Bijection(S, Q)
  BY <1>3, <1>4, <1>5 DEF Bijection, Injection, Surjection, IsInjective
<1> QED  BY <1>6, <1>7, FS_Bijection DEF ExistsBijection, S, Q

(***************************************************************************)
(* The order by the lower p digits: the highest digit that differs tells.  *)
(***************************************************************************)
Ordered(p, u, v) ==
  \A q \in 1 .. p :
    (\A s \in q + 1 .. p : Digit(s, u) = Digit(s, v)) => Digit(q, u) <= Digit(q, v)

LEMMA OrderedNext ==
  ASSUME NEW p \in 1 .. 3, NEW u \in Nat, NEW v \in Nat,
         \/ Digit(p, u) < Digit(p, v)
         \/ Digit(p, u) = Digit(p, v) /\ Ordered(p - 1, u, v)
  PROVE  Ordered(p, u, v)
<1> SUFFICES ASSUME NEW q \in 1 .. p, \A s \in q + 1 .. p : Digit(s, u) = Digit(s, v)
             PROVE  Digit(q, u) <= Digit(q, v)
  BY DEF Ordered
<1>1. Digit(p, u) \in Int /\ Digit(p, v) \in Int
  <2>1. Base(p) \in Nat
    BY RadixSizes
  <2>2. Digit(p, u) \in 0 .. Base(p) - 1 /\ Digit(p, v) \in 0 .. Base(p) - 1
    BY DigitsInRange, Zenon
  <2> QED  BY <2>1, <2>2
<1>2. CASE q = p
  BY <1>1, <1>2
<1>3. CASE q < p
  <2>1. p \in q + 1 .. p
    BY <1>3
  <2>2. Digit(p, u) = Digit(p, v)
    BY <2>1
  <2>3. Ordered(p - 1, u, v)
    BY <1>1, <2>2
  <2>4. q \in 1 .. p - 1 /\ \A s \in q + 1 .. p - 1 : s \in q + 1 .. p
    BY <1>3
  <2> QED  BY <2>3, <2>4 DEF Ordered
<1> QED  BY <1>2, <1>3

LEMMA OrderedKeys ==
  ASSUME NEW u \in Radix!Key, NEW v \in Radix!Key, Ordered(3, u, v)
  PROVE  u <= v
<1> DEFINE x(q) == Digit(q, u)
           y(q) == Digit(q, v)
           b1 == Base(1)
           b2 == Base(2)
<1>1. b1 \in Nat \ {0} /\ b2 \in Nat \ {0} /\ Base(3) \in Nat \ {0}
  BY RadixSizes
<1>2. Radix!Key \subseteq Nat
  BY <1>1 DEF Radix!Key, Base
<1>3. /\ x(1) \in 0 .. b1 - 1 /\ x(2) \in 0 .. b2 - 1 /\ x(3) \in Nat
      /\ y(1) \in 0 .. b1 - 1 /\ y(2) \in 0 .. b2 - 1 /\ y(3) \in Nat
  BY <1>1, <1>2, DigitsInRange
<1>4. u = x(1) + b1 * (x(2) + b2 * x(3)) /\ v = y(1) + b1 * (y(2) + b2 * y(3))
  BY DigitsMake
<1>5. /\ x(3) <= y(3)
      /\ x(3) = y(3) => x(2) <= y(2)
      /\ x(3) = y(3) /\ x(2) = y(2) => x(1) <= y(1)
  <2>1. (\A s \in 4 .. 3 : x(s) = y(s)) => x(3) <= y(3)
    BY DEF Ordered
  <2>2. (\A s \in 3 .. 3 : x(s) = y(s)) => x(2) <= y(2)
    BY DEF Ordered
  <2>3. (\A s \in 2 .. 3 : x(s) = y(s)) => x(1) <= y(1)
    BY DEF Ordered
  <2>4. 4 .. 3 = {} /\ 3 .. 3 = {3} /\ 2 .. 3 = {2, 3}
    OBVIOUS
  <2> QED  BY <2>1, <2>2, <2>3, <2>4, Zenon
<1> HIDE DEF x, y, b1, b2
<1>6. x(2) + b2 * x(3) <= y(2) + b2 * y(3)
  <2>1. CASE x(3) = y(3)
    BY <1>1, <1>3, <1>5, <2>1
  <2>2. CASE x(3) < y(3)
    <3>1. y(3) - 1 - x(3) \in Nat /\ y(3) = x(3) + 1 + (y(3) - 1 - x(3))
      BY <1>3, <2>2
    <3>2. PICK n \in Nat : y(3) = x(3) + 1 + n
      BY <3>1
    <3>3. b2 * y(3) = b2 * x(3) + b2 + b2 * n /\ b2 * n \in Nat /\ b2 * x(3) \in Nat
      BY <1>1, <1>3, <3>2
    <3> QED  BY <1>1, <1>3, <3>3
  <2> QED  BY <1>3, <1>5, <2>1, <2>2
<1>7. x(2) + b2 * x(3) = y(2) + b2 * y(3) => x(2) = y(2) /\ x(3) = y(3)
  <2>1. CASE x(3) = y(3)
    BY <1>1, <1>3, <2>1
  <2>2. CASE x(3) < y(3)
    <3>1. y(3) - 1 - x(3) \in Nat /\ y(3) = x(3) + 1 + (y(3) - 1 - x(3))
      BY <1>3, <2>2
    <3>2. PICK n \in Nat : y(3) = x(3) + 1 + n
      BY <3>1
    <3>3. b2 * y(3) = b2 * x(3) + b2 + b2 * n /\ b2 * n \in Nat /\ b2 * x(3) \in Nat
      BY <1>1, <1>3, <3>2
    <3> QED  BY <1>1, <1>3, <3>3
  <2> QED  BY <1>3, <1>5, <2>1, <2>2
<1> DEFINE e == x(2) + b2 * x(3)
           f == y(2) + b2 * y(3)
<1>8. e \in Nat /\ f \in Nat /\ e <= f
  BY <1>1, <1>3, <1>6
<1>9. e = f => x(1) <= y(1)
  BY <1>5, <1>7
<1>10. u = x(1) + b1 * e /\ v = y(1) + b1 * f
  BY <1>4
<1> HIDE DEF e, f
<1>11. CASE e = f
  BY <1>1, <1>3, <1>8, <1>9, <1>10, <1>11
<1>12. CASE e < f
  <2>1. f - 1 - e \in Nat /\ f = e + 1 + (f - 1 - e)
    BY <1>8, <1>12
  <2>2. PICK n \in Nat : f = e + 1 + n
    BY <2>1
  <2>3. b1 * f = b1 * e + b1 + b1 * n /\ b1 * n \in Nat /\ b1 * e \in Nat
    BY <1>1, <1>8, <2>2
  <2> QED  BY <1>1, <1>3, <1>10, <2>3
<1> QED  BY <1>8, <1>11, <1>12

(***************************************************************************)
(* The invariant of radix_sort().                                          *)
(***************************************************************************)
DataWords == [k \in Elems |-> buf[Data + k]]
Src == IF pass = 2 THEN DataWords ELSE loc
Dest == IF pass = 2 THEN loc ELSE DataWords
Digits(p, g) == [k \in Elems |-> Digit(p, g[k])]

(* g is a rearrangement of the array as it was first counted.              *)
Shuffled(g) ==
  \E p \in [Elems -> Elems] : /\ \A w \in Elems : \E v \in Elems : p[v] = w
                              /\ g = [k \in Elems |-> taken[p[k]]]
SortedTo(p, g) == \A x, y \in Elems : x < y => Ordered(p, g[x], g[y])

RadixTypes ==
  /\ taken \in [Elems -> Radix!Key] /\ loc \in [Elems -> Radix!Key]
  /\ buf \in [0 .. Data + RadixN - 1 -> Nat]
  /\ at \in {"clear", "reset", "count", "sum", "move", "copy", "return", "done",
             "killed"}
  /\ pass \in 1 .. 3 /\ digits \in 0 .. RadixN /\ idx \in Int

(* A table as the caller hands it over, while digits are counted, with the *)
(* sums up to some digit, and as the move into it finds it.                *)
Fresh(q) == \A c \in 0 .. Base(q) : buf[Table(q) + c] = 0
Tally(q, n) ==
  /\ buf[Table(q)] = 0
  /\ \A c \in 0 .. Base(q) - 1 :
       buf[Table(q) + (c + 1)] = Cardinality(Before(Digits(q, taken), c, n))
SumsTo(q, n) ==
  /\ \A c \in 0 .. n - 1 :
       buf[Table(q) + c] = Cardinality(Below(Digits(q, taken), c))
  /\ \A c \in n .. Base(q) :
       buf[Table(q) + c] = Cardinality(Before(Digits(q, taken), c - 1, RadixN))
Begins(q) ==
  \A c \in 0 .. Base(q) - 1 :
    buf[Table(q) + c] = Cardinality(Below(Digits(q, taken), c))

Resetting ==
  at = "reset" => \A q \in 1 .. 3 : IF q < pass THEN Tally(q, RadixN) ELSE Fresh(q)
Counting ==
  at = "count" => /\ \A q \in 1 .. 3 : /\ q < pass => Tally(q, RadixN)
                                       /\ q > pass => Fresh(q)
                  /\ Tally(pass, digits)
Summing ==
  at = "sum" => /\ idx \in 1 .. Base(pass) /\ SumsTo(pass, idx)
                /\ \A q \in 1 .. 3 : /\ q < pass => Begins(q)
                                     /\ q > pass => Tally(q, RadixN)
Untouched ==
  /\ at = "clear" => pass = 1
  /\ at \in {"clear", "reset", "count", "sum"} => loc = taken

(* An idx that was never set is used once, in the first table.             *)
Indexed ==
  /\ at = "reset" /\ pass # 1 => idx \in Nat
  /\ at = "count" /\ digits # 0 => idx \in Nat

(* The elements so far are in the slots of their ranks.                    *)
NextSlots ==
  \A c \in 0 .. Base(pass) - 1 :
    buf[Table(pass) + c] = Cardinality(Below(Digits(pass, Src), c))
                         + Cardinality(Before(Digits(pass, Src), c, digits))
Placed == \A k \in 0 .. digits - 1 : Dest[Rank(Digits(pass, Src), k)] = Src[k]

Moving ==
  at = "move" => /\ Shuffled(Src) /\ SortedTo(pass - 1, Src)
                 /\ NextSlots /\ Placed
                 /\ \A q \in 1 .. 3 : q > pass => Begins(q)
Ready ==
  /\ at = "copy" => Shuffled(DataWords) /\ SortedTo(3, DataWords)
  /\ at \in {"return", "done"} => Shuffled(loc) /\ SortedTo(3, loc)

RadixInv ==
  RadixTypes /\ Untouched /\ Indexed /\ Resetting /\ Counting /\ Summing /\ Moving /\ Ready

LEMMA SourceIs == Radix!Source = Src
BY DEF Radix!Source, Src, DataWords, Radix!Index, Elems, Data

LEMMA WordsApart ==
  ASSUME NEW q \in 1 .. 3, NEW c \in 0 .. Base(q)
  PROVE  /\ Table(q) + c \in 0 .. Data + RadixN - 1 /\ Table(q) + c < Data
         /\ Table(q) + c \in Nat
         /\ \A p \in 1 .. 3 : \A e \in Nat : q < p => Table(p) + e # Table(q) + c
         /\ \A p \in 1 .. 3 : \A e \in 0 .. Base(p) : q # p => Table(p) + e # Table(q) + c
         /\ \A k \in Nat : Data + k # Table(q) + c
<1>1. /\ Base(q) \in Nat \ {0} /\ Table(q) \in Nat /\ Data \in Nat /\ RadixN \in Nat \ {0}
      /\ Table(q) + Base(q) < Data
  BY RadixSizes
<1>2. ASSUME NEW p \in 1 .. 3, NEW e \in Nat, q < p PROVE Table(p) + e # Table(q) + c
  <2>1. Table(q) + Base(q) < Table(p) /\ Table(p) \in Nat
    BY <1>2, RadixSizes
  <2> QED  BY <1>1, <2>1
<1>3. ASSUME NEW p \in 1 .. 3, NEW e \in 0 .. Base(p), p < q PROVE Table(p) + e # Table(q) + c
  <2>1. Table(p) + Base(p) < Table(q) /\ Table(p) \in Nat /\ Base(p) \in Nat
    BY <1>3, RadixSizes
  <2> QED  BY <1>1, <2>1
<1>4. \A p \in 1 .. 3 : \A e \in 0 .. Base(p) : q # p => Table(p) + e # Table(q) + c
  <2> SUFFICES ASSUME NEW p \in 1 .. 3, NEW e \in 0 .. Base(p), q # p
               PROVE  Table(p) + e # Table(q) + c
    OBVIOUS
  <2>1. e \in Nat
    BY RadixSizes
  <2>2. q < p \/ p < q
    OBVIOUS
  <2> QED  BY <1>2, <1>3, <2>1, <2>2
<1>5. /\ Table(q) + c \in 0 .. Data + RadixN - 1 /\ Table(q) + c < Data
      /\ Table(q) + c \in Nat
  BY <1>1
<1>6. \A k \in Nat : Data + k # Table(q) + c
  BY <1>1, <1>5
<1> QED  BY <1>2, <1>4, <1>5, <1>6

LEMMA DataIsBehind ==
  ASSUME NEW k \in Elems
  PROVE  Data + k \in 0 .. Data + RadixN - 1 /\ Data + k \in Nat /\ Data + k >= Data
<1>1. k \in Nat /\ k < RadixN /\ Data \in Nat /\ RadixN \in Nat
  BY ElemsAre, RadixSizes
<1> QED  BY <1>1

(* A table whose words stay is in the state it was in.                     *)
LEMMA TableStays ==
  ASSUME NEW q \in 1 .. 3, taken' = taken,
         \A c \in 0 .. Base(q) : buf'[Table(q) + c] = buf[Table(q) + c]
  PROVE  /\ Fresh(q) => Fresh(q)'
         /\ Begins(q) => Begins(q)'
         /\ \A n \in 0 .. RadixN : Tally(q, n) => Tally(q, n)'
<1>1. Base(q) \in Nat \ {0} /\ Table(q) \in Nat
  BY RadixSizes
<1>2. Digits(q, taken)' = Digits(q, taken)
  BY DEF Digits
<1>3. Fresh(q) => Fresh(q)'
  BY DEF Fresh
<1>4. Begins(q) => Begins(q)'
  <2>1. \A c \in 0 .. Base(q) - 1 : c \in 0 .. Base(q)
    BY <1>1
  <2> QED  BY <1>2, <2>1 DEF Begins
<1>5. ASSUME NEW n \in 0 .. RadixN, Tally(q, n) PROVE Tally(q, n)'
  <2>1. \A c \in 0 .. Base(q) - 1 : c + 1 \in 0 .. Base(q)
    BY <1>1
  <2>2. 0 \in 0 .. Base(q) /\ Table(q) + 0 = Table(q)
    BY <1>1
  <2> QED  BY <1>2, <1>5, <2>1, <2>2 DEF Tally
<1> QED  BY <1>3, <1>4, <1>5

LEMMA RadixClear == RadixInv /\ Radix!Clear => RadixInv'
<1> SUFFICES ASSUME RadixInv, Radix!Clear PROVE RadixInv'
  OBVIOUS
<1>1. /\ at = "clear" /\ at' = "reset" /\ pass' = pass /\ digits' = digits /\ idx' = idx
      /\ taken' = taken /\ loc' = loc
      /\ buf' = [w \in 0 .. Data + RadixN - 1 |-> IF w < Data THEN 0 ELSE buf[w]]
  BY RadixSizes DEF Radix!Clear, Data
<1>2. RadixTypes'
  BY <1>1 DEF RadixInv, RadixTypes
<1>3. pass = 1 /\ loc = taken
  BY <1>1 DEF RadixInv, Untouched
<1>4. ASSUME NEW q \in 1 .. 3 PROVE Fresh(q)'
  BY <1>1, WordsApart DEF Fresh
<1>5. Resetting'
  BY <1>1, <1>3, <1>4 DEF Resetting
<1> QED  BY <1>1, <1>2, <1>3, <1>5
         DEF RadixInv, Untouched, Indexed, Counting, Summing, Moving, Ready

LEMMA SmallKeys == 0 \in Radix!Key /\ 1 \in Radix!Key
<1>1. LowBase \in Nat /\ LowBase > 1 /\ MidBase \in Nat \ {0} /\ HighBase \in Nat \ {0}
  BY SizesAssumption DEF Radix!Sizes
<1>2. LowBase * MidBase \in Nat /\ LowBase * MidBase >= LowBase
  BY <1>1
<1>3. LowBase * MidBase * HighBase >= LowBase * MidBase
      /\ LowBase * MidBase * HighBase \in Nat
  <2> DEFINE m == LowBase * MidBase
  <2>1. m \in Nat /\ HighBase \in Nat \ {0}
    BY <1>1, <1>2
  <2> HIDE DEF m
  <2>2. m * HighBase \in Nat /\ m * HighBase >= m
    BY <2>1
  <2> QED  BY <2>2 DEF m
<1>4. Radix!Key = 0 .. LowBase * MidBase * HighBase - 1
  BY DEF Radix!Key, Radix!Base
<1> QED  BY <1>1, <1>2, <1>3, <1>4

LEMMA RadixReset == RadixInv /\ Radix!Reset => RadixInv'
<1> SUFFICES ASSUME RadixInv, Radix!Reset PROVE RadixInv'
  OBVIOUS
<1>1. /\ at = "reset" /\ at' = "count" /\ pass' = pass /\ digits' = 0 /\ idx' = idx
      /\ taken' = taken /\ loc' = loc
      /\ buf' = [buf EXCEPT ![Table(pass) + idx] = 0]
  BY DEF Radix!Reset, Table
<1>2. RadixTypes'
  <2>1. 0 \in 0 .. RadixN
    BY RadixSizes
  <2>2. buf' \in [0 .. Data + RadixN - 1 -> Nat]
    BY <1>1 DEF RadixInv, RadixTypes
  <2> QED  BY <1>1, <2>1, <2>2 DEF RadixInv, RadixTypes
<1>3. loc = taken /\ pass \in 1 .. 3 /\ (pass # 1 => idx \in Nat)
      /\ buf \in [0 .. Data + RadixN - 1 -> Nat]
  BY <1>1 DEF RadixInv, RadixTypes, Untouched, Indexed
<1>4. ASSUME NEW q \in 1 .. 3, q < pass PROVE Tally(q, RadixN)'
  <2>1. Tally(q, RadixN) /\ RadixN \in 0 .. RadixN
    BY <1>1, <1>4, RadixSizes DEF RadixInv, Resetting
  <2>2. \A c \in 0 .. Base(q) : buf'[Table(q) + c] = buf[Table(q) + c]
    <3>1. idx \in Nat
      BY <1>3, <1>4
    <3> QED  BY <1>1, <1>3, <1>4, <3>1, WordsApart
  <2> QED  BY <1>1, <2>1, <2>2, TableStays
<1>5. ASSUME NEW q \in 1 .. 3, ~(q < pass) PROVE Fresh(q)'
  <2>1. Fresh(q)
    BY <1>1, <1>5 DEF RadixInv, Resetting
  <2>2. \A c \in 0 .. Base(q) : buf'[Table(q) + c] = 0
    <3> SUFFICES ASSUME NEW c \in 0 .. Base(q) PROVE buf'[Table(q) + c] = 0
      OBVIOUS
    <3>1. Table(q) + c \in 0 .. Data + RadixN - 1 /\ buf[Table(q) + c] = 0
      BY <2>1, WordsApart DEF Fresh
    <3> QED  BY <1>1, <1>3, <3>1
  <2> QED  BY <2>2 DEF Fresh
<1>6. Tally(pass, 0)'
  <2>1. Fresh(pass)' /\ pass' = pass
    BY <1>1, <1>3, <1>5
  <2>2. Base(pass) \in Nat \ {0} /\ Table(pass) \in Nat
    BY <1>3, RadixSizes
  <2>3. \A c \in 0 .. Base(pass) - 1 : c + 1 \in 0 .. Base(pass)
    BY <2>2
  <2>4. buf'[Table(pass)] = 0
    <3>1. 0 \in 0 .. Base(pass) /\ Table(pass) + 0 = Table(pass)
      BY <2>2
    <3> QED  BY <2>1, <3>1 DEF Fresh
  <2>5. \A c, f : Cardinality(Before(f, c, 0)) = 0
    <3>1. \A c, f : Before(f, c, 0) = {}
      BY DEF Before
    <3> QED  BY <3>1, FS_EmptySet
  <2>6. \A c \in 0 .. Base(pass) - 1 : buf'[Table(pass) + (c + 1)] = 0
    BY <2>1, <2>3 DEF Fresh
  <2> QED  BY <1>1, <2>4, <2>5, <2>6 DEF Tally
<1>7. Counting'
  BY <1>1, <1>3, <1>4, <1>5, <1>6 DEF Counting
<1> QED  BY <1>1, <1>2, <1>3, <1>7
         DEF RadixInv, Untouched, Indexed, Resetting, Summing, Moving, Ready

LEMMA RadixKilled == RadixInv /\ Radix!ResetKilled => RadixInv'
<1> SUFFICES ASSUME RadixInv, Radix!ResetKilled PROVE RadixInv'
  OBVIOUS
<1>1. at' = "killed" /\ UNCHANGED <<taken, loc, buf, pass, digits, idx>>
  BY DEF Radix!ResetKilled
<1>2. RadixTypes'
  BY <1>1 DEF RadixInv, RadixTypes
<1> QED  BY <1>1, <1>2
         DEF RadixInv, Untouched, Indexed, Resetting, Counting, Summing, Moving, Ready

(* A store outside ptrd leaves the tables, and what it puts into the array *)
(* is there before the first element is counted.                           *)
LEMMA RadixElsewhere == RadixInv /\ Radix!ResetElsewhere => RadixInv'
<1> SUFFICES ASSUME RadixInv, Radix!ResetElsewhere PROVE RadixInv'
  OBVIOUS
<1>1. /\ at = "reset" /\ at' = "count" /\ pass' = pass /\ digits' = 0 /\ idx' = idx
      /\ buf' = buf /\ taken' = loc'
      /\ loc' = loc \/ (pass = 1 /\ \E k \in Elems : loc' = [loc EXCEPT ![k] = 0])
  BY DEF Radix!ResetElsewhere, Radix!Index, Elems
<1>2. /\ loc = taken /\ pass \in 1 .. 3 /\ taken \in [Elems -> Radix!Key]
      /\ loc \in [Elems -> Radix!Key]
  BY <1>1 DEF RadixInv, RadixTypes, Untouched
<1>3. loc' \in [Elems -> Radix!Key]
  BY <1>1, <1>2, SmallKeys
<1>4. RadixTypes'
  <2>1. 0 \in 0 .. RadixN
    BY RadixSizes
  <2> QED  BY <1>1, <1>3, <2>1 DEF RadixInv, RadixTypes
<1>5. ASSUME NEW q \in 1 .. 3, q < pass PROVE Tally(q, RadixN)'
  <2>1. Tally(q, RadixN) /\ RadixN \in 0 .. RadixN
    BY <1>1, <1>5, RadixSizes DEF RadixInv, Resetting
  <2>2. taken' = taken
    BY <1>1, <1>2, <1>5
  <2> QED  BY <1>1, <2>1, <2>2, TableStays
<1>6. ASSUME NEW q \in 1 .. 3, ~(q < pass) PROVE Fresh(q)'
  <2>1. Fresh(q)
    BY <1>1, <1>6 DEF RadixInv, Resetting
  <2> QED  BY <1>1, <2>1 DEF Fresh
<1>7. Tally(pass, 0)'
  <2>1. Fresh(pass)' /\ pass' = pass
    BY <1>1, <1>2, <1>6
  <2>2. Base(pass) \in Nat \ {0} /\ Table(pass) \in Nat
    BY <1>2, RadixSizes
  <2>3. \A c \in 0 .. Base(pass) - 1 : c + 1 \in 0 .. Base(pass)
    BY <2>2
  <2>4. buf'[Table(pass)] = 0
    <3>1. 0 \in 0 .. Base(pass) /\ Table(pass) + 0 = Table(pass)
      BY <2>2
    <3> QED  BY <2>1, <3>1 DEF Fresh
  <2>5. \A c, f : Cardinality(Before(f, c, 0)) = 0
    <3>1. \A c, f : Before(f, c, 0) = {}
      BY DEF Before
    <3> QED  BY <3>1, FS_EmptySet
  <2>6. \A c \in 0 .. Base(pass) - 1 : buf'[Table(pass) + (c + 1)] = 0
    BY <2>1, <2>3 DEF Fresh
  <2> QED  BY <1>1, <2>4, <2>5, <2>6 DEF Tally
<1>8. Counting'
  BY <1>1, <1>2, <1>5, <1>6, <1>7 DEF Counting
<1> QED  BY <1>1, <1>2, <1>4, <1>8
         DEF RadixInv, Untouched, Indexed, Resetting, Summing, Moving, Ready

LEMMA DigitsTyped ==
  ASSUME NEW p \in 1 .. 3, NEW g \in [Elems -> Radix!Key]
  PROVE  /\ Digits(p, g) \in [Elems -> 0 .. Base(p) - 1]
         /\ Digits(p, g) \in [Elems -> Nat]
         /\ \A k \in Elems : g[k] \in Nat /\ Digits(p, g)[k] = Digit(p, g[k])
<1>1. Radix!Key \subseteq Nat
  <2>1. LowBase * MidBase * HighBase \in Nat
    BY SizesAssumption DEF Radix!Sizes
  <2> QED  BY <2>1 DEF Radix!Key, Radix!Base
<1>2. \A k \in Elems : g[k] \in Nat /\ Digit(p, g[k]) \in 0 .. Base(p) - 1
  BY <1>1, DigitsInRange
<1>3. 0 .. Base(p) - 1 \subseteq Nat
  BY RadixSizes
<1> QED  BY <1>2, <1>3 DEF Digits

LEMMA RadixCount == RadixInv /\ Radix!Count => RadixInv'
<1> SUFFICES ASSUME RadixInv, Radix!Count PROVE RadixInv'
  OBVIOUS
<1> DEFINE v == Digit(pass, loc[digits])
           w == Table(pass) + (v + 1)
           F == Digits(pass, taken)
<1>1. /\ at = "count" /\ at' = at /\ pass' = pass /\ digits < RadixN /\ digits' = digits + 1
      /\ taken' = taken /\ loc' = loc /\ idx' = v
      /\ buf' = [buf EXCEPT ![Table(pass) + v + 1] = @ + 1]
  BY DEF Radix!Count, Table, Digit
<1>2. /\ loc = taken /\ pass \in 1 .. 3 /\ digits \in 0 .. RadixN /\ digits \in Elems
      /\ taken \in [Elems -> Radix!Key]
      /\ buf \in [0 .. Data + RadixN - 1 -> Nat]
  BY <1>1, ElemsAre DEF RadixInv, RadixTypes, Untouched
<1>3. Base(pass) \in Nat \ {0} /\ Table(pass) \in Nat
  BY <1>2, RadixSizes
<1>4. /\ F \in [Elems -> Nat] /\ F[digits] = v /\ v \in 0 .. Base(pass) - 1 /\ v \in Nat
  <2>1. F \in [Elems -> Nat] /\ F \in [Elems -> 0 .. Base(pass) - 1]
    BY <1>2, DigitsTyped
  <2>2. F[digits] = v
    BY <1>2, DigitsTyped
  <2> HIDE DEF v, F
  <2> QED  BY <1>2, <2>1, <2>2
<1> HIDE DEF v, F
<1>5. v + 1 \in 0 .. Base(pass) /\ w = Table(pass) + v + 1
  BY <1>3, <1>4
<1>6. w \in 0 .. Data + RadixN - 1
  BY <1>2, <1>5, WordsApart
<1>7. buf' = [buf EXCEPT ![w] = buf[w] + 1]
  BY <1>1, <1>5
<1>8. RadixTypes'
  <2>1. buf' \in [0 .. Data + RadixN - 1 -> Nat]
    BY <1>2, <1>6, <1>7
  <2>2. digits + 1 \in 0 .. RadixN
    BY <1>1, <1>2, ElemsAre
  <2> QED  BY <1>1, <1>4, <2>1, <2>2 DEF RadixInv, RadixTypes
<1>9. ASSUME NEW q \in 1 .. 3, q # pass
      PROVE  \A c \in 0 .. Base(q) : buf'[Table(q) + c] = buf[Table(q) + c]
  BY <1>2, <1>5, <1>7, <1>9, WordsApart
<1>10. ASSUME NEW q \in 1 .. 3
       PROVE  /\ q < pass => Tally(q, RadixN)'
              /\ q > pass => Fresh(q)'
  <2>1. /\ q < pass => Tally(q, RadixN)
        /\ q > pass => Fresh(q)
    BY <1>1 DEF RadixInv, Counting
  <2>2. RadixN \in 0 .. RadixN
    BY ElemsAre
  <2>3. CASE q # pass
    BY <1>1, <1>9, <2>1, <2>2, <2>3, TableStays
  <2>4. CASE q = pass
    BY <2>4, <1>2
  <2> QED  BY <2>3, <2>4
<1>11. Tally(pass, digits)
  BY <1>1 DEF RadixInv, Counting
<1>12. Tally(pass, digits)'
  <2>1. buf'[Table(pass)] = 0
    <3>1. w # Table(pass)
      BY <1>3, <1>4
    <3> QED  BY <1>7, <1>11, <3>1, <1>2, <1>6 DEF Tally
  <2>2. ASSUME NEW c \in 0 .. Base(pass) - 1
        PROVE  buf'[Table(pass) + (c + 1)] = Cardinality(Before(F, c, digits + 1))
    <3>1. buf[Table(pass) + (c + 1)] = Cardinality(Before(F, c, digits))
      BY <1>11 DEF Tally, F
    <3>2. c + 1 \in 0 .. Base(pass) /\ c \in Nat /\ digits \in 0 .. RadixN
      BY <1>2, <1>3
    <3>3. Table(pass) + (c + 1) \in 0 .. Data + RadixN - 1
      BY <1>2, <3>2, WordsApart
    <3>4. Cardinality(Before(F, c, digits + 1))
            = IF v = c THEN Cardinality(Before(F, c, digits)) + 1
                       ELSE Cardinality(Before(F, c, digits))
      <4>1. /\ F \in [Elems -> Nat] /\ F[digits] = v
            /\ c \in Nat /\ digits \in 0 .. RadixN /\ digits < RadixN
        BY <1>1, <1>4, <3>2
      <4> QED  BY <4>1, CountsAdd
    <3>5. Table(pass) + (c + 1) = w <=> c = v
      BY <1>3, <1>4, <3>2
    <3> QED  BY <1>2, <1>7, <3>1, <3>3, <3>4, <3>5
  <2>3. Digits(pass, taken)' = F
    BY <1>1 DEF F, Digits
  <2> QED  BY <1>1, <2>1, <2>2, <2>3 DEF Tally
<1>13. Counting'
  BY <1>1, <1>10, <1>12 DEF Counting
<1>14. Indexed'
  BY <1>1, <1>4 DEF Indexed
<1> QED  BY <1>1, <1>2, <1>8, <1>13, <1>14
         DEF RadixInv, Untouched, Resetting, Summing, Moving, Ready

(* The words of all tables are those of the digits of the array, and the   *)
(* sums of the first ones may begin.                                       *)
LEMMA SumsBegin ==
  ASSUME NEW q \in 1 .. 3, Tally(q, RadixN), taken \in [Elems -> Radix!Key]
  PROVE  SumsTo(q, 1)
<1> DEFINE F == Digits(q, taken)
<1>1. F \in [Elems -> Nat]
  BY DigitsTyped
<1>2. Base(q) \in Nat \ {0} /\ Table(q) \in Nat
  BY RadixSizes
<1>3. Cardinality(Below(F, 0)) = 0
  <2>1. 0 \in 0 .. RadixN /\ 0 \in Nat
    BY ElemsAre
  <2> QED  BY <1>1, <2>1, CountsAdd
<1>4. \A c \in 0 .. 1 - 1 : buf[Table(q) + c] = Cardinality(Below(F, c))
  <2>1. Table(q) + 0 = Table(q) /\ 0 .. 1 - 1 = {0}
    BY <1>2
  <2> QED  BY <1>3, <2>1 DEF Tally
<1>5. ASSUME NEW c \in 1 .. Base(q)
      PROVE  buf[Table(q) + c] = Cardinality(Before(F, c - 1, RadixN))
  <2>1. c - 1 \in 0 .. Base(q) - 1 /\ (c - 1) + 1 = c
    BY <1>2
  <2> QED  BY <2>1 DEF Tally
<1> QED  BY <1>4, <1>5 DEF SumsTo

LEMMA RadixCounted == RadixInv /\ Radix!Counted => RadixInv'
<1> SUFFICES ASSUME RadixInv, Radix!Counted PROVE RadixInv'
  OBVIOUS
<1>1. /\ at = "count" /\ digits = RadixN /\ digits' = digits
      /\ taken' = taken /\ loc' = loc /\ buf' = buf
      /\ \/ pass < 3 /\ at' = "reset" /\ pass' = pass + 1 /\ idx' = idx
         \/ ~(pass < 3) /\ at' = "sum" /\ pass' = 1 /\ idx' = 1
  BY DEF Radix!Counted
<1>2. pass \in 1 .. 3 /\ loc = taken /\ taken \in [Elems -> Radix!Key] /\ idx \in Nat
  BY <1>1, RadixSizes DEF RadixInv, RadixTypes, Untouched, Indexed
<1>3. RadixTypes'
  BY <1>1, <1>2 DEF RadixInv, RadixTypes
<1>4. /\ \A q \in 1 .. 3 : q <= pass => Tally(q, RadixN)
      /\ \A q \in 1 .. 3 : q > pass => Fresh(q)
  <2>1. \A q \in 1 .. 3 : q <= pass => q < pass \/ q = pass
    BY <1>2
  <2> QED  BY <1>1, <2>1 DEF RadixInv, Counting
<1>5. \A q \in 1 .. 3 : (Tally(q, RadixN) => Tally(q, RadixN)') /\ (Fresh(q) => Fresh(q)')
  BY <1>1, ElemsAre, TableStays
<1>6. CASE pass < 3
  <2>1. \A q \in 1 .. 3 : q < pass + 1 => q <= pass
    BY <1>2
  <2>2. \A q \in 1 .. 3 : ~(q < pass + 1) => q > pass
    BY <1>2
  <2>3. Resetting'
    BY <1>1, <1>4, <1>5, <1>6, <2>1, <2>2 DEF Resetting
  <2> QED  BY <1>1, <1>2, <1>3, <1>6, <2>3
           DEF RadixInv, Untouched, Indexed, Counting, Summing, Moving, Ready
<1>7. CASE ~(pass < 3)
  <2>1. \A q \in 1 .. 3 : Tally(q, RadixN)'
    <3>1. \A q \in 1 .. 3 : q <= pass
      BY <1>2, <1>7
    <3> QED  BY <1>4, <1>5, <3>1
  <2>2. SumsTo(1, 1)'
    <3>1. SumsTo(1, 1)
      <4>1. Tally(1, RadixN)
        BY <1>2, <1>4
      <4> QED  BY <1>2, <4>1, SumsBegin
    <3> QED  BY <1>1, <3>1 DEF SumsTo, Digits
  <2>3. 1 \in 1 .. Base(1)
    BY RadixSizes
  <2>4. Summing'
    BY <1>1, <1>7, <2>1, <2>2, <2>3 DEF Summing
  <2> QED  BY <1>1, <1>2, <1>3, <1>7, <2>4
           DEF RadixInv, Untouched, Indexed, Counting, Resetting, Moving, Ready
<1> QED  BY <1>6, <1>7

LEMMA RadixSum == RadixInv /\ Radix!Sum => RadixInv'
<1> SUFFICES ASSUME RadixInv, Radix!Sum PROVE RadixInv'
  OBVIOUS
<1> DEFINE F == Digits(pass, taken)
           w == Table(pass) + idx
<1>1. /\ at = "sum" /\ at' = at /\ pass' = pass /\ idx < Base(pass) /\ idx' = idx + 1
      /\ taken' = taken /\ loc' = loc /\ digits' = digits
      /\ buf' = [buf EXCEPT ![w] = @ + buf[Table(pass) + idx - 1]]
  BY DEF Radix!Sum, Table, Base
<1>2. /\ loc = taken /\ pass \in 1 .. 3 /\ digits \in 0 .. RadixN
      /\ taken \in [Elems -> Radix!Key]
      /\ buf \in [0 .. Data + RadixN - 1 -> Nat]
      /\ idx \in 1 .. Base(pass) /\ SumsTo(pass, idx)
      /\ \A q \in 1 .. 3 : /\ q < pass => Begins(q)
                           /\ q > pass => Tally(q, RadixN)
  BY <1>1 DEF RadixInv, RadixTypes, Untouched, Summing
<1>3. Base(pass) \in Nat \ {0} /\ Table(pass) \in Nat /\ idx \in Nat \ {0}
  <2>1. Base(pass) \in Nat \ {0} /\ Table(pass) \in Nat
    BY <1>2, RadixSizes
  <2> QED  BY <1>2, <2>1
<1>4. F \in [Elems -> Nat]
  BY <1>2, DigitsTyped
<1> HIDE DEF F
<1>5. /\ idx \in 0 .. Base(pass) /\ idx - 1 \in 0 .. Base(pass) /\ idx + 1 \in 1 .. Base(pass)
      /\ idx - 1 \in Nat /\ w - 1 = Table(pass) + (idx - 1)
      /\ w - 1 = Table(pass) + idx - 1
  BY <1>1, <1>3
<1>6. w \in 0 .. Data + RadixN - 1 /\ w - 1 \in 0 .. Data + RadixN - 1
  BY <1>2, <1>5, WordsApart
<1> HIDE DEF w
<1>7. buf' = [buf EXCEPT ![w] = buf[w] + buf[w - 1]] /\ buf[w] \in Nat /\ buf[w - 1] \in Nat
  BY <1>1, <1>2, <1>5, <1>6
<1>8. RadixTypes'
  <2>1. buf' \in [0 .. Data + RadixN - 1 -> Nat]
    BY <1>2, <1>6, <1>7
  <2>2. idx + 1 \in Nat
    BY <1>3
  <2> QED  BY <1>1, <2>1, <2>2 DEF RadixInv, RadixTypes
<1>9. buf[w] + buf[w - 1] = Cardinality(Below(F, idx))
  <2>1. buf[w] = Cardinality(Before(F, idx - 1, RadixN))
    <3>1. idx \in idx .. Base(pass)
      BY <1>1, <1>3
    <3> QED  BY <1>2, <3>1 DEF SumsTo, F, w
  <2>2. buf[w - 1] = Cardinality(Below(F, idx - 1))
    <3>1. idx - 1 \in 0 .. idx - 1
      BY <1>3
    <3> QED  BY <1>2, <1>5, <3>1 DEF SumsTo, F
  <2>3. Cardinality(Below(F, (idx - 1) + 1))
          = Cardinality(Below(F, idx - 1)) + Cardinality(Before(F, idx - 1, RadixN))
    <3>1. RadixN \in 0 .. RadixN
      BY ElemsAre
    <3> QED  BY <1>4, <1>5, <3>1, CountsAdd
  <2>4. (idx - 1) + 1 = idx
    BY <1>3
  <2> QED  BY <1>7, <2>1, <2>2, <2>3, <2>4
<1>10. SumsTo(pass, idx)'
  <2>1. Digits(pass, taken)' = F
    BY <1>1 DEF F, Digits
  <2>2. ASSUME NEW c \in 0 .. (idx + 1) - 1
        PROVE  buf'[Table(pass) + c] = Cardinality(Below(F, c))
    <3>1. c \in 0 .. Base(pass) /\ (c = idx \/ c \in 0 .. idx - 1)
      BY <1>1, <1>3
    <3>2. Table(pass) + c \in 0 .. Data + RadixN - 1
      BY <1>2, <3>1, WordsApart
    <3>3. CASE c = idx
      BY <1>2, <1>6, <1>7, <1>9, <3>3 DEF w
    <3>4. CASE c # idx
      <4>1. Table(pass) + c # w
        BY <1>3, <3>1, <3>4 DEF w
      <4>2. buf[Table(pass) + c] = Cardinality(Below(F, c))
        BY <1>2, <3>1, <3>4 DEF SumsTo, F
      <4> QED  BY <1>2, <1>7, <3>2, <4>1, <4>2
    <3> QED  BY <3>3, <3>4
  <2>3. ASSUME NEW c \in idx + 1 .. Base(pass)
        PROVE  buf'[Table(pass) + c] = Cardinality(Before(F, c - 1, RadixN))
    <3>1. c \in 0 .. Base(pass) /\ c \in idx .. Base(pass) /\ c # idx /\ c \in Nat
      BY <1>3
    <3>2. Table(pass) + c \in 0 .. Data + RadixN - 1
      BY <1>2, <3>1, WordsApart
    <3>3. Table(pass) + c # w
      BY <1>3, <3>1 DEF w
    <3>4. buf[Table(pass) + c] = Cardinality(Before(F, c - 1, RadixN))
      BY <1>2, <3>1 DEF SumsTo, F
    <3> QED  BY <1>2, <1>7, <3>2, <3>3, <3>4
  <2> QED  BY <1>1, <2>1, <2>2, <2>3 DEF SumsTo
<1>11. ASSUME NEW q \in 1 .. 3
       PROVE  /\ q < pass => Begins(q)'
              /\ q > pass => Tally(q, RadixN)'
  <2>1. CASE q # pass
    <3>1. \A c \in 0 .. Base(q) : buf'[Table(q) + c] = buf[Table(q) + c]
      BY <1>2, <1>5, <1>7, <2>1, WordsApart DEF w
    <3> QED  BY <1>1, <1>2, <3>1, ElemsAre, TableStays
  <2>2. CASE q = pass
    BY <1>2, <2>2
  <2> QED  BY <2>1, <2>2
<1>12. Summing'
  BY <1>1, <1>5, <1>10, <1>11 DEF Summing
<1> QED  BY <1>1, <1>2, <1>8, <1>12
         DEF RadixInv, Untouched, Indexed, Resetting, Counting, Moving, Ready

(* When a pass begins, the slots of its digits begin where those of the    *)
(* smaller digits end, however the passes before it have moved the         *)
(* elements.                                                               *)
LEMMA PassBegins ==
  ASSUME NEW q \in 1 .. 3, Begins(q), taken \in [Elems -> Radix!Key],
         NEW g, Shuffled(g)
  PROVE  /\ g \in [Elems -> Radix!Key]
         /\ \A c \in 0 .. Base(q) - 1 :
              buf[Table(q) + c] = Cardinality(Below(Digits(q, g), c))
                                + Cardinality(Before(Digits(q, g), c, 0))
<1>1. PICK p \in [Elems -> Elems] : /\ \A w \in Elems : \E v \in Elems : p[v] = w
                                    /\ g = [k \in Elems |-> taken[p[k]]]
  BY DEF Shuffled
<1>2. g \in [Elems -> Radix!Key] /\ \A k \in Elems : p[k] \in Elems /\ g[k] = taken[p[k]]
  BY <1>1
<1>3. /\ Digits(q, g) \in [Elems -> Nat] /\ Digits(q, taken) \in [Elems -> Nat]
      /\ \A k \in Elems : Digits(q, g)[k] = Digits(q, taken)[p[k]]
  <2>1. \A k \in Elems : Digits(q, g)[k] = Digit(q, g[k])
    BY <1>2, DigitsTyped
  <2>2. \A k \in Elems : Digits(q, taken)[k] = Digit(q, taken[k])
    BY DigitsTyped
  <2> QED  BY <1>2, <2>1, <2>2, DigitsTyped
<1>4. ASSUME NEW c \in 0 .. Base(q) - 1
      PROVE  buf[Table(q) + c] = Cardinality(Below(Digits(q, g), c))
                               + Cardinality(Before(Digits(q, g), c, 0))
  <2>1. Cardinality(Below(Digits(q, g), c)) = Cardinality(Below(Digits(q, taken), c))
    BY <1>1, <1>3, SameBelow
  <2>2. Cardinality(Before(Digits(q, g), c, 0)) = 0
    <3>1. Before(Digits(q, g), c, 0) = {}
      BY DEF Before
    <3> QED  BY <3>1, FS_EmptySet
  <2>3. 0 \in 0 .. RadixN
    BY ElemsAre
  <2>4. Cardinality(Below(Digits(q, g), c)) \in Nat
    <3>1. Cardinality(Below(Digits(q, g), c)) \in 0 .. RadixN
      BY <2>3, Subsets
    <3> QED  BY <3>1, RadixSizes
  <2>5. buf[Table(q) + c] = Cardinality(Below(Digits(q, taken), c))
    BY DEF Begins
  <2> QED  BY <2>1, <2>2, <2>4, <2>5
<1> QED  BY <1>2, <1>4

LEMMA RadixSummed == RadixInv /\ Radix!Summed => RadixInv'
<1> SUFFICES ASSUME RadixInv, Radix!Summed PROVE RadixInv'
  OBVIOUS
<1>1. /\ at = "sum" /\ idx = Base(pass) /\ idx' = 1
      /\ taken' = taken /\ loc' = loc /\ buf' = buf
      /\ \/ pass < 3 /\ pass' = pass + 1 /\ at' = at /\ digits' = digits
         \/ ~(pass < 3) /\ at' = "move" /\ pass' = 1 /\ digits' = 0
  BY DEF Radix!Summed, Base
<1>2. /\ loc = taken /\ pass \in 1 .. 3 /\ digits \in 0 .. RadixN
      /\ taken \in [Elems -> Radix!Key] /\ SumsTo(pass, idx)
      /\ \A q \in 1 .. 3 : /\ q < pass => Begins(q)
                           /\ q > pass => Tally(q, RadixN)
  BY <1>1 DEF RadixInv, RadixTypes, Untouched, Summing
<1>3. RadixTypes'
  BY <1>1, <1>2, ElemsAre DEF RadixInv, RadixTypes
<1>4. Begins(pass)
  BY <1>1, <1>2 DEF Begins, SumsTo
<1>5. \A q \in 1 .. 3 : (Tally(q, RadixN) => Tally(q, RadixN)') /\ (Begins(q) => Begins(q)')
  BY <1>1, ElemsAre, TableStays
<1>6. \A q \in 1 .. 3 : q <= pass => Begins(q)'
  <2>1. \A q \in 1 .. 3 : q <= pass => q < pass \/ q = pass
    BY <1>2
  <2> QED  BY <1>2, <1>4, <1>5, <2>1
<1>7. CASE pass < 3
  <2>1. pass + 1 \in 1 .. 3 /\ \A q \in 1 .. 3 : (q < pass + 1 => q <= pass)
                                                 /\ (q > pass + 1 => q > pass)
    BY <1>2, <1>7
  <2>2. SumsTo(pass + 1, 1)
    <3>1. Tally(pass + 1, RadixN)
      BY <1>2, <2>1
    <3> QED  BY <1>2, <2>1, <3>1, SumsBegin
  <2>3. SumsTo(pass, idx)'
    BY <1>1, <1>7, <2>2 DEF SumsTo, Digits
  <2>4. 1 \in 1 .. Base(pass + 1)
    BY <2>1, RadixSizes
  <2>5. Summing'
    BY <1>1, <1>2, <1>5, <1>6, <1>7, <2>1, <2>3, <2>4 DEF Summing
  <2> QED  BY <1>1, <1>2, <1>3, <1>7, <2>5
           DEF RadixInv, Untouched, Indexed, Counting, Resetting, Moving, Ready
<1>8. CASE ~(pass < 3)
  <2>1. \A q \in 1 .. 3 : Begins(q) /\ Begins(q)'
    <3>1. \A q \in 1 .. 3 : q <= pass
      BY <1>2, <1>8
    <3>2. \A q \in 1 .. 3 : q <= pass => q < pass \/ q = pass
      BY <1>2
    <3> QED  BY <1>2, <1>4, <1>6, <3>1, <3>2
  <2>2. Src' = taken
    BY <1>1, <1>2, <1>8 DEF Src
  <2>3. Shuffled(taken)
    <3> DEFINE p == [k \in Elems |-> k]
    <3>1. p \in [Elems -> Elems] /\ \A w \in Elems : p[w] = w
      OBVIOUS
    <3>2. taken = [k \in Elems |-> taken[p[k]]]
      BY <1>2
    <3> HIDE DEF p
    <3> QED  BY <3>1, <3>2 DEF Shuffled
  <2>4. Shuffled(Src)'
    BY <1>1, <2>2, <2>3 DEF Shuffled
  <2>5. SortedTo(pass - 1, Src)'
    <3>1. 1 .. pass' - 1 = {}
      BY <1>1, <1>8
    <3> QED  BY <3>1 DEF SortedTo, Ordered
  <2>6. NextSlots'
    <3>1. \A c \in 0 .. Base(1) - 1 :
             buf[Table(1) + c] = Cardinality(Below(Digits(1, taken), c))
                               + Cardinality(Before(Digits(1, taken), c, 0))
      BY <1>2, <2>1, <2>3, PassBegins
    <3>2. Digits(pass, Src)' = Digits(1, taken)
      BY <1>1, <1>8, <2>2 DEF Digits
    <3> QED  BY <1>1, <1>8, <3>1, <3>2 DEF NextSlots
  <2>7. Placed'
    <3>1. 0 .. digits' - 1 = {}
      BY <1>1, <1>8
    <3> QED  BY <3>1 DEF Placed
  <2>8. Moving'
    BY <2>1, <2>4, <2>5, <2>6, <2>7 DEF Moving
  <2> QED  BY <1>1, <1>2, <1>3, <1>8, <2>8
           DEF RadixInv, Untouched, Indexed, Counting, Resetting, Summing, Ready
<1> QED  BY <1>7, <1>8

(* A move takes one element, to the slot of its rank; the words of the     *)
(* source stay.                                                            *)
LEMMA MoveIs ==
  ASSUME RadixInv, Radix!Move
  PROVE  LET F == Digits(pass, Src)
             u == Src[digits]
             c == F[digits]
             s == Rank(F, digits)
         IN  /\ at = "move" /\ at' = at /\ pass' = pass /\ digits' = digits + 1
             /\ digits \in Elems /\ taken' = taken /\ idx' = c
             /\ Src \in [Elems -> Radix!Key] /\ F \in [Elems -> Nat]
             /\ u \in Radix!Key /\ u \in Nat /\ c \in 0 .. Base(pass) - 1 /\ s \in Elems
             /\ buf[Table(pass) + c] = s
             /\ buf' = [w \in 0 .. Data + RadixN - 1 |->
                          IF w = Table(pass) + c THEN s + 1
                          ELSE IF w = Data + s /\ pass # 2 THEN u ELSE buf[w]]
             /\ loc' = IF pass = 2 THEN [loc EXCEPT ![s] = u] ELSE loc
<1> DEFINE F == Digits(pass, Src)
           u == Src[digits]
           c == F[digits]
           s == Rank(F, digits)
<1>1. /\ at = "move" /\ at' = at /\ pass' = pass /\ digits' = digits + 1
      /\ taken' = taken /\ digits < RadixN /\ idx' = Digit(pass, Src[digits])
      /\ Radix!Put(Src[digits], Digit(pass, Src[digits]))
  BY SourceIs DEF Radix!Move, Digit
<1>2. /\ pass \in 1 .. 3 /\ digits \in 0 .. RadixN /\ digits \in Elems
      /\ taken \in [Elems -> Radix!Key] /\ Shuffled(Src) /\ NextSlots
  BY <1>1, ElemsAre DEF RadixInv, RadixTypes, Moving
<1>3. Src \in [Elems -> Radix!Key]
  <2> HIDE DEF F
  <2>1. PICK p \in [Elems -> Elems] : Src = [k \in Elems |-> taken[p[k]]]
    BY <1>2 DEF Shuffled
  <2> QED  BY <1>2, <2>1
<1>4. /\ F \in [Elems -> 0 .. Base(pass) - 1] /\ F \in [Elems -> Nat]
      /\ u \in Nat /\ c = Digit(pass, u)
  BY <1>2, <1>3, DigitsTyped
<1>5. u \in Radix!Key /\ c \in 0 .. Base(pass) - 1
  <2> HIDE DEF F
  <2> QED  BY <1>2, <1>3, <1>4
<1>6. buf[Table(pass) + c] = s
  BY <1>2, <1>5 DEF NextSlots, Rank
<1>7. s \in Elems
  BY <1>2, <1>4, RankIs
<1>8. Radix!Slot(c) = s
  BY <1>6 DEF Radix!Slot, Table
<1> HIDE DEF F, s
<1>9. /\ buf' = [w \in 0 .. Data + RadixN - 1 |->
                   CASE w = Table(pass) + c -> s + 1
                     [] w = Data + s /\ pass # 2 -> u
                     [] OTHER -> buf[w]]
      /\ loc' = IF pass = 2 THEN [loc EXCEPT ![s] = u] ELSE loc
  <2>1. Radix!Put(u, c)
    BY <1>1, <1>4
  <2>2. Radix!Word = 0 .. Data + RadixN - 1
    BY RadixSizes
  <2>3. /\ buf' = [w \in Radix!Word |->
                     CASE w = Radix!Table[pass] + c -> Radix!Slot(c) + 1
                       [] w = Radix!Data + Radix!Slot(c) /\ pass # 2 -> u
                       [] OTHER -> buf[w]]
        /\ loc' = IF pass = 2 THEN [loc EXCEPT ![Radix!Slot(c)] = u] ELSE loc
    BY <2>1 DEF Radix!Put
  <2>4. Radix!Table[pass] = Table(pass) /\ Radix!Data = Data
    BY DEF Table, Data
  <2> HIDE DEF u, c
  <2> QED  BY <1>8, <2>2, <2>3, <2>4
<1>10. Table(pass) + c # Data + s
  <2>1. Base(pass) \in Nat
    BY <1>2, RadixSizes
  <2> HIDE DEF c
  <2>2. c \in 0 .. Base(pass)
    BY <1>5, <2>1
  <2> QED  BY <1>2, <1>7, <2>2, WordsApart, ElemsAre
<1>11. buf' = [w \in 0 .. Data + RadixN - 1 |->
                 IF w = Table(pass) + c THEN s + 1
                 ELSE IF w = Data + s /\ pass # 2 THEN u ELSE buf[w]]
  BY <1>9, <1>10
<1> QED  BY <1>1, <1>2, <1>3, <1>4, <1>5, <1>6, <1>7, <1>9, <1>11 DEF F, s

LEMMA MovesOne ==
  ASSUME RadixInv, Radix!Move
  PROVE  /\ Src' = Src
         /\ Dest' = [Dest EXCEPT ![Rank(Digits(pass, Src), digits)] = Src[digits]]
         /\ Dest \in [Elems -> Nat]
<1> DEFINE F == Digits(pass, Src)
           u == Src[digits]
           c == F[digits]
           s == Rank(F, digits)
<1>1. /\ pass' = pass /\ c \in 0 .. Base(pass) - 1 /\ s \in Elems
      /\ buf' = [w \in 0 .. Data + RadixN - 1 |->
                   IF w = Table(pass) + c THEN s + 1
                   ELSE IF w = Data + s /\ pass # 2 THEN u ELSE buf[w]]
      /\ loc' = IF pass = 2 THEN [loc EXCEPT ![s] = u] ELSE loc
  BY MoveIs
<1>2. /\ pass \in 1 .. 3 /\ loc \in [Elems -> Radix!Key]
      /\ buf \in [0 .. Data + RadixN - 1 -> Nat]
  BY DEF RadixInv, RadixTypes
<1> HIDE DEF F, s, u, c
<1>3. c \in 0 .. Base(pass)
  <2>1. Base(pass) \in Nat
    BY <1>2, RadixSizes
  <2> QED  BY <1>1, <2>1
<1>4. ASSUME NEW k \in Elems
      PROVE  buf'[Data + k] = IF k = s /\ pass # 2 THEN u ELSE buf[Data + k]
  <2>1. Data + k \in 0 .. Data + RadixN - 1
    BY DataIsBehind
  <2>2. Data + k # Table(pass) + c
    BY <1>2, <1>3, WordsApart, ElemsAre
  <2>3. Data + k = Data + s <=> k = s
    <3>1. k \in Nat /\ s \in Nat /\ Data \in Nat
      BY <1>1, ElemsAre, RadixSizes
    <3> QED  BY <3>1
  <2> QED  BY <1>1, <2>1, <2>2, <2>3
<1>5. DataWords' = [k \in Elems |-> IF k = s /\ pass # 2 THEN u ELSE DataWords[k]]
  BY <1>4 DEF DataWords
<1>6. DataWords \in [Elems -> Nat]
  BY <1>2, DataIsBehind DEF DataWords
<1>7. Radix!Key \subseteq Nat
  <2>1. LowBase * MidBase * HighBase \in Nat
    BY SizesAssumption DEF Radix!Sizes
  <2> QED  BY <2>1 DEF Radix!Key, Radix!Base
<1>8. CASE pass = 2
  <2>1. DataWords' = DataWords
    BY <1>5, <1>6, <1>8
  <2>2. Src' = Src /\ Dest = loc /\ Dest' = loc'
    BY <1>1, <1>8, <2>1 DEF Src, Dest
  <2> QED  BY <1>1, <1>2, <1>7, <1>8, <2>2 DEF F, s, u
<1>9. CASE pass # 2
  <2>1. DataWords' = [DataWords EXCEPT ![s] = u]
    BY <1>5, <1>6, <1>9
  <2>2. Src' = Src /\ Dest = DataWords /\ Dest' = DataWords'
    BY <1>1, <1>9 DEF Src, Dest
  <2> QED  BY <1>6, <2>1, <2>2 DEF F, s, u
<1> QED  BY <1>8, <1>9

LEMMA RadixMove == RadixInv /\ Radix!Move => RadixInv'
<1> SUFFICES ASSUME RadixInv, Radix!Move PROVE RadixInv'
  OBVIOUS
<1> DEFINE F == Digits(pass, Src)
           u == Src[digits]
           c == F[digits]
           s == Rank(F, digits)
<1>1. /\ at = "move" /\ at' = at /\ pass' = pass /\ digits' = digits + 1
      /\ digits \in Elems /\ taken' = taken /\ idx' = c
      /\ Src \in [Elems -> Radix!Key] /\ F \in [Elems -> Nat]
      /\ u \in Radix!Key /\ u \in Nat /\ c \in 0 .. Base(pass) - 1 /\ s \in Elems
      /\ buf[Table(pass) + c] = s
      /\ buf' = [w \in 0 .. Data + RadixN - 1 |->
                   IF w = Table(pass) + c THEN s + 1
                   ELSE IF w = Data + s /\ pass # 2 THEN u ELSE buf[w]]
      /\ loc' = IF pass = 2 THEN [loc EXCEPT ![s] = u] ELSE loc
  BY MoveIs
<1>2. /\ Src' = Src /\ Dest' = [Dest EXCEPT ![s] = u] /\ Dest \in [Elems -> Nat]
  BY MovesOne
<1>3. F' = F
  BY <1>1, <1>2 DEF Digits
<1>4. /\ pass \in 1 .. 3 /\ digits \in 0 .. RadixN /\ digits < RadixN /\ RadixN \in Nat
      /\ loc \in [Elems -> Radix!Key]
      /\ buf \in [0 .. Data + RadixN - 1 -> Nat]
      /\ Shuffled(Src) /\ SortedTo(pass - 1, Src) /\ NextSlots /\ Placed
      /\ \A q \in 1 .. 3 : q > pass => Begins(q)
  BY <1>1, ElemsAre DEF RadixInv, RadixTypes, Moving
<1>5. Base(pass) \in Nat \ {0} /\ Table(pass) \in Nat /\ c \in 0 .. Base(pass) /\ c \in Nat
  <2>1. Base(pass) \in Nat \ {0} /\ Table(pass) \in Nat
    BY <1>4, RadixSizes
  <2> HIDE DEF c
  <2> QED  BY <1>1, <2>1
<1> HIDE DEF F, u, c, s
<1>6. RadixTypes'
  <2>1. s \in Nat /\ u \in Nat
    BY <1>1, ElemsAre
  <2>2. buf' \in [0 .. Data + RadixN - 1 -> Nat]
    BY <1>1, <1>4, <2>1
  <2>3. loc' \in [Elems -> Radix!Key]
    BY <1>1, <1>4
  <2>4. digits + 1 \in 0 .. RadixN
    BY <1>4
  <2> QED  BY <1>1, <1>5, <2>2, <2>3, <2>4 DEF RadixInv, RadixTypes
<1>7. ASSUME NEW q \in 1 .. 3, NEW e \in 0 .. Base(q), q # pass \/ e # c
      PROVE  buf'[Table(q) + e] = buf[Table(q) + e]
  <2>1. Table(q) + e \in 0 .. Data + RadixN - 1 /\ Table(q) + e # Data + s
    BY <1>1, ElemsAre, WordsApart
  <2>2. Table(q) + e # Table(pass) + c
    <3>1. CASE q # pass
      BY <1>4, <1>5, <3>1, WordsApart
    <3>2. CASE q = pass
      <4>1. e \in Nat
        BY RadixSizes
      <4> QED  BY <1>5, <1>7, <3>2, <4>1
    <3> QED  BY <3>1, <3>2
  <2> QED  BY <1>1, <2>1, <2>2
<1>8. ASSUME NEW q \in 1 .. 3, q > pass PROVE Begins(q)'
  <2>1. \A e \in 0 .. Base(q) : buf'[Table(q) + e] = buf[Table(q) + e]
    BY <1>4, <1>7, <1>8
  <2> QED  BY <1>1, <1>4, <1>8, <2>1, TableStays
<1>9. NextSlots'
  <2>1. ASSUME NEW e \in 0 .. Base(pass) - 1
        PROVE  buf'[Table(pass) + e] = Cardinality(Below(F, e))
                                     + Cardinality(Before(F, e, digits + 1))
    <3> DEFINE m == Cardinality(Below(F, e))
               n == Cardinality(Before(F, e, digits))
    <3>1. e \in 0 .. Base(pass) /\ e \in Nat
      BY <1>5
    <3>2. buf[Table(pass) + e] = m + n
      BY <1>4 DEF NextSlots, F
    <3>3. m \in Nat /\ n \in Nat
      BY <1>4, Subsets
    <3>4. Cardinality(Before(F, e, digits + 1)) = IF c = e THEN n + 1 ELSE n
      BY <1>1, <1>4, <3>1, CountsAdd DEF c
    <3> HIDE DEF m, n
    <3>5. CASE e = c
      <4>1. Table(pass) + c \in 0 .. Data + RadixN - 1
        BY <1>4, <1>5, WordsApart
      <4>2. buf'[Table(pass) + c] = s + 1 /\ s = m + n
        BY <1>1, <3>2, <3>5, <4>1
      <4> QED  BY <3>3, <3>4, <3>5, <4>2 DEF m
    <3>6. CASE e # c
      <4>1. buf'[Table(pass) + e] = buf[Table(pass) + e]
        BY <1>4, <1>7, <3>1, <3>6
      <4> QED  BY <3>2, <3>4, <3>6, <4>1 DEF m
    <3> QED  BY <3>5, <3>6
  <2>2. Digits(pass, Src)' = F
    BY <1>3 DEF F
  <2> QED  BY <1>1, <2>1, <2>2 DEF NextSlots
<1>10. Placed'
  <2>1. ASSUME NEW k \in 0 .. (digits + 1) - 1
        PROVE  Dest'[Rank(F, k)] = Src[k]
    <3>1. k \in Elems /\ (k = digits \/ k \in 0 .. digits - 1)
      BY <1>4, ElemsAre
    <3>2. Rank(F, k) \in Elems
      BY <1>1, <3>1, RankIs
    <3>3. CASE k = digits
      BY <1>1, <1>2, <3>2, <3>3 DEF s, u
    <3>4. CASE k # digits
      <4>1. Rank(F, k) # s
        BY <1>1, <3>1, <3>4, RanksDiffer DEF s
      <4>2. Dest[Rank(F, k)] = Src[k]
        BY <1>4, <3>1, <3>4 DEF Placed, F
      <4> QED  BY <1>1, <1>2, <3>2, <4>1, <4>2
    <3> QED  BY <3>3, <3>4
  <2>2. Digits(pass, Src)' = F
    BY <1>3 DEF F
  <2> QED  BY <1>1, <1>2, <2>1, <2>2 DEF Placed
<1>11. Shuffled(Src)' /\ SortedTo(pass - 1, Src)'
  BY <1>1, <1>2, <1>4 DEF Shuffled, SortedTo
<1>12. Moving'
  BY <1>1, <1>8, <1>9, <1>10, <1>11 DEF Moving
<1> QED  BY <1>1, <1>6, <1>12
         DEF RadixInv, Untouched, Indexed, Resetting, Counting, Summing, Ready

(* A pass that has moved all elements leaves a rearrangement, in the order *)
(* of one digit more.                                                      *)
LEMMA PassEnds ==
  ASSUME RadixInv, at = "move", digits = RadixN
  PROVE  Shuffled(Dest) /\ SortedTo(pass, Dest)
<1> DEFINE F == Digits(pass, Src)
           From(x) == CHOOSE k \in Elems : Rank(F, k) = x
<1>1. /\ pass \in 1 .. 3 /\ taken \in [Elems -> Radix!Key]
      /\ Shuffled(Src) /\ SortedTo(pass - 1, Src) /\ Placed
  BY DEF RadixInv, RadixTypes, Moving
<1>2. PICK p \in [Elems -> Elems] : /\ \A w \in Elems : \E v \in Elems : p[v] = w
                                    /\ Src = [k \in Elems |-> taken[p[k]]]
  BY <1>1 DEF Shuffled
<1>3. Src \in [Elems -> Radix!Key]
  <2> HIDE DEF F
  <2> QED  BY <1>1, <1>2
<1>4. /\ F \in [Elems -> Nat]
      /\ \A k \in Elems : Src[k] \in Nat /\ F[k] = Digit(pass, Src[k])
  BY <1>1, <1>3, DigitsTyped
<1>5. \A k \in Elems : Dest[Rank(F, k)] = Src[k]
  <2>1. \A k \in Elems : k \in 0 .. digits - 1
    BY ElemsAre
  <2> QED  BY <1>1, <2>1 DEF Placed
<1> HIDE DEF F
<1>6. ASSUME NEW x \in Elems
      PROVE  From(x) \in Elems /\ Rank(F, From(x)) = x /\ Dest[x] = Src[From(x)]
  <2>1. \E k \in Elems : Rank(F, k) = x
    BY <1>4, RanksFill
  <2>2. From(x) \in Elems /\ Rank(F, From(x)) = x
    BY <2>1
  <2> QED  BY <1>5, <2>2
<1> HIDE DEF From
<1>7. Dest = [x \in Elems |-> Dest[x]]
  <2>1. loc \in [Elems -> Radix!Key]
    BY DEF RadixInv, RadixTypes
  <2> QED  BY <2>1 DEF Dest, DataWords
<1>8. Shuffled(Dest)
  <2> DEFINE h == [x \in Elems |-> p[From(x)]]
  <2>1. h \in [Elems -> Elems]
    BY <1>6
  <2>2. ASSUME NEW w \in Elems PROVE \E x \in Elems : h[x] = w
    <3>1. PICK v \in Elems : p[v] = w
      BY <1>2
    <3>2. Rank(F, v) \in Elems
      BY <1>4, RankIs
    <3>3. From(Rank(F, v)) = v
      BY <1>4, <1>6, <3>2, RanksDiffer
    <3> QED  BY <3>1, <3>2, <3>3
  <2>3. Dest = [x \in Elems |-> taken[h[x]]]
    <3>1. \A x \in Elems : Dest[x] = taken[h[x]]
      BY <1>2, <1>6
    <3> QED  BY <1>7, <3>1
  <2> HIDE DEF h
  <2> QED  BY <2>1, <2>2, <2>3 DEF Shuffled
<1>9. SortedTo(pass, Dest)
  <2> SUFFICES ASSUME NEW x \in Elems, NEW y \in Elems, x < y
               PROVE  Ordered(pass, Dest[x], Dest[y])
    BY DEF SortedTo
  <2> DEFINE j == From(x)
             k == From(y)
  <2>1. /\ j \in Elems /\ k \in Elems /\ Rank(F, j) = x /\ Rank(F, k) = y
        /\ Dest[x] = Src[j] /\ Dest[y] = Src[k]
    BY <1>6
  <2> HIDE DEF j, k
  <2>2. x \in Nat /\ y \in Nat /\ j \in Nat /\ k \in Nat
    BY <2>1, ElemsAre
  <2>3. j # k /\ ~Precedes(F, k, j)
    <3>1. j # k
      BY <2>1, <2>2
    <3>2. Precedes(F, k, j) => y < x
      BY <1>4, <2>1, RanksKeepOrder
    <3> QED  BY <2>2, <3>1, <3>2
  <2>4. F[j] \in Nat /\ F[k] \in Nat
    BY <1>4, <2>1
  <2>5. F[j] < F[k] \/ (F[j] = F[k] /\ j < k)
    BY <2>2, <2>3, <2>4 DEF Precedes
  <2>6. j < k => Ordered(pass - 1, Src[j], Src[k])
    BY <1>1, <2>1 DEF SortedTo
  <2>7. /\ F[j] = Digit(pass, Src[j]) /\ F[k] = Digit(pass, Src[k])
        /\ Src[j] \in Nat /\ Src[k] \in Nat
    BY <1>4, <2>1
  <2> QED  BY <1>1, <2>1, <2>5, <2>6, <2>7, OrderedNext
<1> QED  BY <1>8, <1>9

LEMMA RadixMoved == RadixInv /\ Radix!Moved => RadixInv'
<1> SUFFICES ASSUME RadixInv, Radix!Moved PROVE RadixInv'
  OBVIOUS
<1>1. /\ at = "move" /\ digits = RadixN
      /\ taken' = taken /\ loc' = loc /\ buf' = buf /\ idx' = idx
      /\ \/ pass < 3 /\ pass' = pass + 1 /\ digits' = 0 /\ at' = at
         \/ ~(pass < 3) /\ at' = "copy" /\ pass' = pass /\ digits' = digits
  BY DEF Radix!Moved
<1>2. /\ pass \in 1 .. 3 /\ taken \in [Elems -> Radix!Key]
      /\ \A q \in 1 .. 3 : q > pass => Begins(q)
  BY <1>1 DEF RadixInv, RadixTypes, Moving
<1>3. RadixTypes'
  BY <1>1, <1>2, ElemsAre DEF RadixInv, RadixTypes
<1>4. Shuffled(Dest) /\ SortedTo(pass, Dest)
  BY <1>1, PassEnds
<1>5. DataWords' = DataWords
  BY <1>1 DEF DataWords
<1>6. CASE pass < 3
  <2>1. Src' = Dest
    <3>1. CASE pass = 1
      BY <1>1, <1>5, <1>6, <3>1 DEF Src, Dest
    <3>2. CASE pass = 2
      BY <1>1, <1>5, <1>6, <3>2 DEF Src, Dest
    <3> QED  BY <1>2, <1>6, <3>1, <3>2
  <2>2. Shuffled(Src)'
    BY <1>1, <1>4, <2>1 DEF Shuffled
  <2>3. SortedTo(pass - 1, Src)'
    <3>1. pass' - 1 = pass
      BY <1>1, <1>2, <1>6
    <3> QED  BY <1>4, <2>1, <3>1 DEF SortedTo
  <2>4. pass + 1 \in 1 .. 3 /\ pass + 1 > pass
    BY <1>2, <1>6
  <2>5. \A c \in 0 .. Base(pass + 1) - 1 :
          buf[Table(pass + 1) + c] = Cardinality(Below(Digits(pass + 1, Dest), c))
                                   + Cardinality(Before(Digits(pass + 1, Dest), c, 0))
    <3>1. Begins(pass + 1)
      BY <1>2, <2>4
    <3> QED  BY <1>2, <1>4, <2>4, <3>1, PassBegins
  <2>6. Digits(pass, Src)' = Digits(pass + 1, Dest)
    BY <1>1, <1>6, <2>1 DEF Digits
  <2>7. NextSlots'
    BY <1>1, <1>6, <2>5, <2>6 DEF NextSlots
  <2>8. Placed'
    <3>1. 0 .. digits' - 1 = {}
      BY <1>1, <1>6
    <3> QED  BY <3>1 DEF Placed
  <2>9. ASSUME NEW q \in 1 .. 3, q > pass + 1 PROVE Begins(q)'
    <3>1. Begins(q)
      BY <1>2, <2>9
    <3> QED  BY <1>1, <3>1, TableStays
  <2>10. Moving'
    BY <1>1, <1>6, <2>2, <2>3, <2>7, <2>8, <2>9 DEF Moving
  <2> QED  BY <1>1, <1>3, <1>6, <2>10
           DEF RadixInv, Untouched, Indexed, Resetting, Counting, Summing, Ready
<1>7. CASE ~(pass < 3)
  <2>1. pass = 3 /\ Dest = DataWords
    BY <1>2, <1>7 DEF Dest
  <2>2. Shuffled(DataWords)' /\ SortedTo(3, DataWords)'
    BY <1>1, <1>4, <1>5, <2>1 DEF Shuffled, SortedTo
  <2>3. Ready'
    BY <1>1, <1>7, <2>2 DEF Ready
  <2> QED  BY <1>1, <1>3, <1>7, <2>3
           DEF RadixInv, Untouched, Indexed, Resetting, Counting, Summing, Moving
<1> QED  BY <1>6, <1>7

LEMMA RadixCopy == RadixInv /\ Radix!Copy => RadixInv'
<1> SUFFICES ASSUME RadixInv, Radix!Copy PROVE RadixInv'
  OBVIOUS
<1>1. /\ at = "copy" /\ at' = "return" /\ taken' = taken /\ loc' = DataWords
      /\ buf' = buf /\ pass' = pass /\ digits' = digits /\ idx' = idx
  BY DEF Radix!Copy, DataWords, Radix!Index, Elems, Data
<1>2. /\ taken \in [Elems -> Radix!Key]
      /\ Shuffled(DataWords) /\ SortedTo(3, DataWords)
  BY <1>1 DEF RadixInv, RadixTypes, Ready
<1>3. DataWords \in [Elems -> Radix!Key]
  <2>1. PICK p \in [Elems -> Elems] : DataWords = [k \in Elems |-> taken[p[k]]]
    BY <1>2 DEF Shuffled
  <2> QED  BY <1>2, <2>1
<1>4. RadixTypes'
  BY <1>1, <1>3 DEF RadixInv, RadixTypes
<1>5. Ready'
  BY <1>1, <1>2 DEF Ready, Shuffled, SortedTo
<1> QED  BY <1>1, <1>4, <1>5
         DEF RadixInv, Untouched, Indexed, Resetting, Counting, Summing, Moving

LEMMA RadixReturn == RadixInv /\ Radix!Return => RadixInv'
<1> SUFFICES ASSUME RadixInv, Radix!Return PROVE RadixInv'
  OBVIOUS
<1>1. /\ at = "return" /\ at' = "done" /\ UNCHANGED <<taken, loc, buf, pass, digits, idx>>
  BY DEF Radix!Return
<1>2. RadixTypes'
  BY <1>1 DEF RadixInv, RadixTypes
<1>3. Ready'
  BY <1>1 DEF RadixInv, Ready, Shuffled, SortedTo
<1> QED  BY <1>1, <1>2, <1>3
         DEF RadixInv, Untouched, Indexed, Resetting, Counting, Summing, Moving

LEMMA StartInv ==
  ASSUME NEW g \in [Elems -> Radix!Key], NEW junk \in Nat, NEW stray \in Int,
         Radix!Start(g, junk, stray)
  PROVE  RadixInv
<1>1. /\ unsorted = g /\ taken = g /\ loc = g /\ at = "clear" /\ pass = 1 /\ digits = 0 /\ idx = stray
      /\ buf = [w \in 0 .. Data + RadixN - 1 |-> junk]
  BY RadixSizes DEF Radix!Start
<1>2. RadixTypes
  BY <1>1, ElemsAre DEF RadixTypes
<1> QED  BY <1>1, <1>2
         DEF RadixInv, Untouched, Indexed, Resetting, Counting, Summing, Moving, Ready

LEMMA RadixInit == Radix!Init => RadixInv
<1>1. Junk \subseteq Nat /\ Stray \subseteq Int
  BY RadixSizes
<1> QED  BY <1>1, StartInv DEF Radix!Init, Radix!Index, Elems

LEMMA RadixStep == RadixInv /\ [Radix!Next]_radixVars => RadixInv'
<1>1. ASSUME RadixInv, UNCHANGED radixVars PROVE RadixInv'
  <2>1. UNCHANGED <<loc, buf, at, pass, digits, idx, unsorted, taken>>
    BY <1>1 DEF radixVars
  <2>2. DataWords' = DataWords /\ Src' = Src /\ Dest' = Dest
    BY <2>1 DEF DataWords, Src, Dest
  <2>3. RadixTypes' /\ Untouched' /\ Indexed'
    BY <1>1, <2>1 DEF RadixInv, RadixTypes, Untouched, Indexed
  <2>4. Resetting' /\ Counting'
    BY <1>1, <2>1 DEF RadixInv, Resetting, Counting, Fresh, Tally, Digits
  <2>5. Summing'
    BY <1>1, <2>1 DEF RadixInv, Summing, SumsTo, Begins, Tally, Digits
  <2>6. /\ Shuffled(Src)' = Shuffled(Src) /\ SortedTo(pass - 1, Src)' = SortedTo(pass - 1, Src)
        /\ Placed' = Placed /\ NextSlots' = NextSlots
    BY <2>1, <2>2 DEF Shuffled, SortedTo, Placed, NextSlots, Digits
  <2>7. Moving'
    BY <1>1, <2>1, <2>6 DEF RadixInv, Moving, Begins, Digits
  <2>8. Ready'
    BY <1>1, <2>1, <2>2 DEF RadixInv, Ready, Shuffled, SortedTo
  <2> QED  BY <2>3, <2>4, <2>5, <2>7, <2>8 DEF RadixInv
<1>2. CASE Radix!Finished
  <2>1. UNCHANGED radixVars
    BY <1>2 DEF Radix!Finished, Radix!vars, radixVars
  <2> QED  BY <1>1, <2>1
<1> QED  BY <1>1, <1>2, RadixClear, RadixReset, RadixKilled, RadixElsewhere, RadixCount, RadixCounted, RadixSum, RadixSummed,
            RadixMove, RadixMoved, RadixCopy, RadixReturn DEF Radix!Next

(* Whatever SortBench does, the radix sort makes a step of its own or none. *)
LEMMA RadixFrame ==
  /\ BenchInit => Radix!Init \/ Radix!Start(Same(RadixN), 0, 0)
  /\ [BenchNext]_benchVars => [Radix!Next]_radixVars
<1>1. BenchInit => Radix!Init \/ Radix!Start(Same(RadixN), 0, 0)
  BY DEF BenchInit
<1>2. ASSUME [BenchNext]_benchVars PROVE [Radix!Next]_radixVars
  <2>1. Radix!Next \/ UNCHANGED radixVars
    BY <1>2 DEF BenchNext, benchVars
  <2> QED  BY <2>1
<1> QED  BY <1>1, <1>2

LEMMA RadixInitInv ==
  ASSUME BenchInit
  PROVE  /\ RadixInv /\ unsorted \in [Elems -> Radix!Key] /\ loc = unsorted /\ taken = unsorted
         /\ at = "clear"
<1>1. CASE Radix!Init
  BY <1>1, RadixInit DEF Radix!Init, Radix!Start, Radix!Index, Elems
<1>2. CASE Radix!Start(Same(RadixN), 0, 0)
  <2>1. 1 \in Radix!Key
    BY SmallKeys
  <2>2. Same(RadixN) \in [Elems -> Radix!Key]
    BY <2>1 DEF Same, Elems
  <2>3. Radix!Start(Same(RadixN), 0, 0) => RadixInv
    <3>1. \A g \in [Elems -> Radix!Key] : Radix!Start(g, 0, 0) => RadixInv
      BY StartInv
    <3> QED  BY <2>2, <3>1
  <2> QED  BY <1>2, <2>2, <2>3 DEF Radix!Start
<1> QED  BY <1>1, <1>2, RadixFrame

THEOREM RadixInvariance == BenchSpec => []RadixInv
<1>1. BenchInit => RadixInv
  BY RadixInitInv
<1>2. RadixInv /\ [BenchNext]_benchVars => RadixInv'
  BY RadixFrame, RadixStep
<1> QED  BY <1>1, <1>2, PTL DEF BenchSpec

(* The instance of RadixSort counts as this module does.                   *)
LEMMA SameCardinality ==
  ASSUME NEW S
  PROVE  Radix!CountOf(S) = Cardinality(S)
BY DEF Radix!CountOf, Radix!Cardinality, Cardinality

(* In each pass a digit's slot lies behind all elements with smaller       *)
(* digits and those with its own that are already moved, for every array,  *)
(* every size of the digits and whatever the stray stores of               *)
(* u32_radix_sort_portable.cpp:172-190 have cleared, in ptrd or outside.   *)
THEOREM SlotsStayOwn == BenchSpec => []SlotsAreOwn
<1>1. ASSUME RadixInv PROVE SlotsAreOwn
  <2>1. ASSUME at = "move", NEW c \in 0 .. Base(pass) - 1
        PROVE  buf[Table(pass) + c]
                 = Cardinality({k \in Elems : Digit(pass, Src[k]) < c})
                 + Cardinality({k \in 0 .. digits - 1 : Digit(pass, Src[k]) = c})
    <3>1. NextSlots /\ digits \in 0 .. RadixN
      BY <1>1, <2>1 DEF RadixInv, Moving, RadixTypes
    <3>2. Below(Digits(pass, Src), c) = {k \in Elems : Digit(pass, Src[k]) < c}
      BY DEF Below, Digits
    <3>3. Before(Digits(pass, Src), c, digits) = {k \in 0 .. digits - 1 : Digit(pass, Src[k]) = c}
      <4>1. \A k \in 0 .. digits - 1 : k \in Elems
        BY <3>1, ElemsAre
      <4> QED  BY <4>1 DEF Before, Digits
    <3> QED  BY <3>1, <3>2, <3>3 DEF NextSlots
  <2>2. ASSUME at = "move", NEW c \in 0 .. Radix!Base[pass] - 1
        PROVE  Radix!Slot(c)
                 = Cardinality({k \in Radix!Index : Radix!Digit(pass, Radix!Source[k]) < c})
                 + Cardinality({k \in 0 .. digits - 1 : Radix!Digit(pass, Radix!Source[k]) = c})
    <3>1. c \in 0 .. Base(pass) - 1
      BY <2>2 DEF Base
    <3>2. buf[Table(pass) + c]
            = Cardinality({k \in Elems : Digit(pass, Src[k]) < c})
            + Cardinality({k \in 0 .. digits - 1 : Digit(pass, Src[k]) = c})
      BY <2>1, <2>2, <3>1
    <3>3. Radix!Index = Elems /\ Radix!Slot(c) = buf[Table(pass) + c]
      BY DEF Radix!Slot, Table, Radix!Index, Elems
    <3>4. {k \in Radix!Index : Radix!Digit(pass, Radix!Source[k]) < c}
            = {k \in Elems : Digit(pass, Src[k]) < c}
      BY <3>3, SourceIs DEF Digit
    <3>5. {k \in 0 .. digits - 1 : Radix!Digit(pass, Radix!Source[k]) = c}
            = {k \in 0 .. digits - 1 : Digit(pass, Src[k]) = c}
      BY SourceIs DEF Digit
    <3> QED  BY <3>2, <3>3, <3>4, <3>5
  <2>3. Radix!SlotsAreOwn
    BY <2>2, SameCardinality DEF Radix!SlotsAreOwn
  <2> QED  BY <2>3 DEF SlotsAreOwn
<1> QED  BY <1>1, RadixInvariance, PTL

Busy == at # "done" \/ taken # unsorted

LEMMA RadixPromise ==
  /\ Radix!Promise!Init <=> /\ unsorted \in [Elems -> Radix!Key] /\ loc = unsorted
                            /\ Busy = TRUE
  /\ Radix!Promise!Rearrange <=> /\ Busy /\ loc' \in [Elems -> Radix!Key]
                                 /\ unsorted' = unsorted /\ Busy' = Busy
  /\ Radix!Promise!Finish <=> /\ Busy /\ Radix!Promise!Permuted(loc, unsorted)
                              /\ \A x, y \in Elems : x < y => loc[x] <= loc[y]
                              /\ Busy' = FALSE
                              /\ unsorted' = unsorted /\ loc' = loc
  /\ Radix!Promise!vars' = Radix!Promise!vars
       <=> unsorted' = unsorted /\ loc' = loc /\ Busy' = Busy
  /\ taken = unsorted => (Radix!Promise!Permuted(loc, unsorted) <=> Shuffled(loc))
<1>1. /\ Radix!Promise!Init <=> /\ unsorted \in [Elems -> Radix!Key] /\ loc = unsorted
                                /\ Busy = TRUE
      /\ Radix!Promise!Rearrange <=> /\ Busy /\ loc' \in [Elems -> Radix!Key]
                                     /\ unsorted' = unsorted /\ Busy' = Busy
      /\ Radix!Promise!vars' = Radix!Promise!vars
           <=> unsorted' = unsorted /\ loc' = loc /\ Busy' = Busy
  BY DEF Radix!Promise!Init, Radix!Promise!Rearrange, Radix!Promise!vars,
         Radix!Promise!Index, Elems, Busy
<1>2. Radix!Promise!Finish
        <=> /\ Busy /\ Radix!Promise!Permuted(loc, unsorted)
            /\ \A x, y \in Elems : x < y => loc[x] <= loc[y]
            /\ Busy' = FALSE
            /\ unsorted' = unsorted /\ loc' = loc
  <2>1. Radix!Promise!Finish
          <=> /\ Busy /\ Radix!Promise!Permuted(loc, unsorted)
              /\ Radix!Promise!Sorted(loc) /\ Busy' = FALSE
              /\ unsorted' = unsorted /\ loc' = loc
    BY DEF Radix!Promise!Finish, Busy
  <2>2. Radix!Promise!Sorted(loc) <=> \A x, y \in Elems : x < y => loc[x] <= loc[y]
    BY DEF Radix!Promise!Sorted, Radix!Promise!Index, Elems
  <2> QED  BY <2>1, <2>2
<1>3. taken = unsorted => (Radix!Promise!Permuted(loc, unsorted) <=> Shuffled(loc))
  BY DEF Radix!Promise!Index, Radix!Promise!Permuted, Radix!Promise!Permutation,
         Shuffled, Elems
<1> QED  BY <1>1, <1>2, <1>3

(* Every step rearranges the array, returns it sorted, or leaves it.       *)
LEMMA RadixImplementsStep ==
  ASSUME RadixInv, RadixInv', [Radix!Next]_radixVars
  PROVE  [Radix!Promise!Next]_(Radix!Promise!vars)
<1>1. CASE UNCHANGED radixVars
  <2>1. UNCHANGED <<unsorted, loc, at, taken>>
    BY <1>1 DEF radixVars
  <2> QED  BY <2>1, RadixPromise DEF Busy
<1>2. CASE Radix!Finished
  <2>1. UNCHANGED <<unsorted, loc, at, taken>>
    BY <1>2 DEF Radix!Finished, Radix!vars
  <2> QED  BY <2>1, RadixPromise DEF Busy
<1>3. loc' \in [Elems -> Radix!Key]
  BY DEF RadixInv, RadixTypes
<1>4. CASE Radix!Return
  <2>1. at = "return" /\ at' = "done" /\ unsorted' = unsorted /\ loc' = loc /\ taken' = taken
    BY <1>4 DEF Radix!Return
  <2>2. Shuffled(loc) /\ SortedTo(3, loc) /\ loc \in [Elems -> Radix!Key]
    BY <2>1 DEF RadixInv, Ready, RadixTypes
  <2>3. \A x, y \in Elems : x < y => loc[x] <= loc[y]
    BY <2>2, OrderedKeys DEF SortedTo
  <2>4. CASE taken = unsorted
    <3>1. Busy /\ Busy' = FALSE
      BY <2>1, <2>4 DEF Busy
    <3> QED  BY <2>1, <2>2, <2>3, <2>4, <3>1, RadixPromise DEF Radix!Promise!Next
  <2>5. CASE taken # unsorted
    <3>1. Busy /\ Busy' = Busy
      BY <2>1, <2>5 DEF Busy
    <3> QED  BY <1>3, <2>1, <3>1, RadixPromise DEF Radix!Promise!Next
  <2> QED  BY <2>4, <2>5
<1>5. CASE Radix!Clear \/ Radix!Reset \/ Radix!ResetKilled \/ Radix!ResetElsewhere
           \/ Radix!Count \/ Radix!Counted \/ Radix!Sum
           \/ Radix!Summed \/ Radix!Move \/ Radix!Moved \/ Radix!Copy
  <2>1. at # "done" /\ at' # "done" /\ unsorted' = unsorted
    BY <1>5 DEF Radix!Clear, Radix!Reset, Radix!ResetKilled, Radix!ResetElsewhere,
                Radix!Count, Radix!Counted, Radix!Sum,
                Radix!Summed, Radix!Move, Radix!Moved, Radix!Copy
  <2>2. Busy /\ Busy' = Busy
    BY <2>1 DEF Busy
  <2> QED  BY <1>3, <2>1, <2>2, RadixPromise DEF Radix!Promise!Next
<1> QED  BY <1>1, <1>2, <1>4, <1>5 DEF Radix!Next

(* radix_sort() of u32_radix_sort_portable.cpp and u32_radix_sort_demo.cpp *)
(* returns its array sorted, with the values it had, unless it is killed   *)
(* or the idx it never set made it put a zero into the array.              *)
THEOREM RadixImplements == BenchSpec => RadixSorts
<1>1. BenchInit => Radix!Promise!Init
  <2>1. ASSUME BenchInit PROVE Busy = TRUE
    BY <2>1, RadixInitInv DEF Busy
  <2> QED  BY <2>1, RadixInitInv, RadixPromise
<1>2. RadixInv /\ RadixInv' /\ [BenchNext]_benchVars
        => [Radix!Promise!Next]_(Radix!Promise!vars)
  BY RadixFrame, RadixImplementsStep
<1> QED  BY <1>1, <1>2, RadixInvariance, PTL
         DEF BenchSpec, RadixSorts, Radix!RadixSorts, Radix!Promise!SafeSpec
=============================================================================

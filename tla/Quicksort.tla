----------------------------- MODULE Quicksort -----------------------------
(***************************************************************************)
(* qs_recsv() with scalar_partition_epi32(): quicksort in place with two   *)
(* pointers that run towards each other and no test of the bounds.         *)
(* sortSpeed/sortSpeed.cpp and sortSpeed_improved_v1.cpp, whose recursive  *)
(* calls have other lengths, take the first element as the pivot,          *)
(* ippSortDemo.cpp the middle one.                                         *)
(***************************************************************************)
EXTENDS Integers, Sequences

CONSTANTS N,      \* nElems
          Value,  \* what an element may be
          Middle, \* where the pivot may be taken from: {FALSE} for the first
                  \* element, {TRUE} for the middle one
          Cut     \* elements a recursive call leaves out: 0, or 1 in the
                  \* improved version

ASSUME NAssumption == N \in Nat \ {0}
ASSUME ValueAssumption == Value \subseteq Int
ASSUME MiddleAssumption == Middle \subseteq BOOLEAN
ASSUME CutAssumption == Cut \in {0, 1}

Index == 0 .. N - 1

VARIABLES input,  \* the array before the sort
          a,      \* the array
          todo,   \* calls still to be made, the next one first
          pc,     \* "call", "up", "down", "meet" or "return"
          lo, hi, \* lBound and rBound of the current call
          l, r,   \* newRBound, which runs up, and newLBound, which runs down
          pivot

vars == <<input, a, todo, pc, lo, hi, l, r, pivot>>

Init ==
  /\ input \in [Index -> Value]
  /\ a = input
  /\ todo = << <<0, N - 1>> >>
  /\ pc = "call"
  /\ lo = 0 /\ hi = N - 1
  /\ l = 0 /\ r = N - 1
  /\ pivot = input[0]

PivotAt(middle, from, to) == IF middle THEN (from + to) \div 2 ELSE from

Call ==
  /\ pc = "call" /\ todo # <<>>
  /\ lo' = Head(todo)[1] /\ hi' = Head(todo)[2]
  /\ l' = Head(todo)[1] /\ r' = Head(todo)[2]
  /\ \E middle \in Middle : pivot' = a[PivotAt(middle, Head(todo)[1], Head(todo)[2])]
  /\ todo' = Tail(todo)
  /\ pc' = "up"
  /\ UNCHANGED <<input, a>>

(* Mutant of Up: an element equal to the pivot is passed over.             *)
UpOver ==
  /\ pc = "up"
  /\ IF l \in Index /\ a[l] <= pivot
       THEN l' = l + 1 /\ UNCHANGED pc
       ELSE pc' = "down" /\ UNCHANGED l
  /\ UNCHANGED <<input, a, todo, lo, hi, r, pivot>>

Up ==
  /\ pc = "up"
  /\ IF a[l] < pivot
       THEN l' = l + 1 /\ UNCHANGED pc
       ELSE pc' = "down" /\ UNCHANGED l
  /\ UNCHANGED <<input, a, todo, lo, hi, r, pivot>>

Down ==
  /\ pc = "down"
  /\ IF a[r] > pivot
       THEN r' = r - 1 /\ UNCHANGED pc
       ELSE pc' = "meet" /\ UNCHANGED r
  /\ UNCHANGED <<input, a, todo, lo, hi, l, pivot>>

(* Mutant of Meet: pointers that meet on one element stop there.           *)
MeetStrict ==
  /\ pc = "meet"
  /\ IF l < r
       THEN /\ a' = [a EXCEPT ![l] = a[r], ![r] = a[l]]
            /\ l' = l + 1
            /\ r' = r - 1
       ELSE UNCHANGED <<a, l, r>>
  /\ pc' = IF l' < r' THEN "up" ELSE "return"
  /\ UNCHANGED <<input, todo, lo, hi, pivot>>

(* Swap, step past, and look at the condition of the outer loop.           *)
Meet ==
  /\ pc = "meet"
  /\ IF l <= r
       THEN /\ a' = [a EXCEPT ![l] = a[r], ![r] = a[l]]
            /\ l' = l + 1
            /\ r' = r - 1
       ELSE UNCHANGED <<a, l, r>>
  /\ pc' = IF l' <= r' THEN "up" ELSE "return"
  /\ UNCHANGED <<input, todo, lo, hi, pivot>>

(* Mutant of LeftPart: the length is one short.                            *)
LeftShort == IF lo < r THEN << <<lo, r - 1>> >> ELSE <<>>

LeftPart == IF lo < r THEN << <<lo, r - Cut>> >> ELSE <<>>

RightPart == IF l < hi THEN << <<l, hi - Cut>> >> ELSE <<>>

(* The two recursive calls, the left one first.                            *)
Return ==
  /\ pc = "return"
  /\ todo' = LeftPart \o RightPart \o todo
  /\ pc' = "call"
  /\ UNCHANGED <<input, a, lo, hi, l, r, pivot>>

Finished == pc = "call" /\ todo = <<>>

Next == Call \/ Up \/ Down \/ Meet \/ Return \/ (Finished /\ UNCHANGED vars)

SafeSpec == Init /\ [][Next]_vars

-----------------------------------------------------------------------------
TypeOK ==
  /\ input \in [Index -> Value]
  /\ a \in [Index -> Value]
  /\ todo \in Seq(Index \X Index)
  /\ pc \in {"call", "up", "down", "meet", "return"}
  /\ lo \in Index /\ hi \in Index
  /\ l \in Int /\ r \in Int
  /\ pivot \in Value

(* No pointer is read outside the range of the call, though neither inner  *)
(* loop tests for its end (sortSpeed.cpp:103, 107).                        *)
ReadsInRange ==
  /\ pc = "up" => l \in lo .. hi
  /\ pc = "down" => r \in lo .. hi

(* A recursive call gets fewer elements than its caller has, which is why  *)
(* the recursion ends even if all elements are equal (l.143, l.151).       *)
CallsAreSmaller ==
  pc = "return" => hi - l < hi - lo /\ r - lo < hi - lo

(* Whatever is left of the calls to be made is in its place: two elements  *)
(* out of order belong to one call that is running or still to be made     *)
(* (l.138-152).                                                            *)
Within(x, y, from, to) == from <= x /\ y <= to
RestIsSorted ==
  \A x, y \in Index : x < y /\ a[x] > a[y] =>
    \/ pc # "call" /\ Within(x, y, lo, hi)
    \/ \E k \in 1 .. Len(todo) : Within(x, y, todo[k][1], todo[k][2])

(* The promise: the array is returned sorted, with the values it had.      *)
Promise == INSTANCE Sorter WITH array <- a, busy <- ~Finished
KeepsValues == Promise!Permuted(a, input)
Sorts == Promise!SafeSpec
=============================================================================

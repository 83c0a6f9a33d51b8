------------------------------ MODULE Avx2Sort ------------------------------
(***************************************************************************)
(* my_qsort_AVX2() and avx2_remain_sorts() of sortSpeed/sortSpeed.cpp, and *)
(* the partition they call, qsort_AVX2() of qsort_avx2_int32.s: vectors of *)
(* eight words are split by a comparison with the pivot, the smaller words *)
(* packed at the bottom of the part, the others in a second array that is  *)
(* copied behind them at the end.                                          *)
(*                                                                         *)
(* main() fills the array with unsigned values and hands it over as ints,  *)
(* so the order is that of the signed values.                              *)
(***************************************************************************)
EXTENDS Integers, Sequences, FiniteSets

CONSTANTS N,      \* n
          Small,  \* parts no larger are left to the insertion sort (32)
          Lanes,  \* words of a vector (8)
          Half    \* 2^31

(* What main() and the build see to.  The median of three takes three      *)
(* different elements only from a part of three or more.                   *)
Sizes == {N, Small, Lanes, Half} \subseteq Nat \ {0} /\ Small >= 2

Index == 0 .. N - 1
UInt32 == 0 .. 2 * Half - 1
Int32 == -Half .. Half - 1

(* The cast of the array to int *.                                         *)
Signed(v) == IF v < Half THEN v ELSE v - 2 * Half

VARIABLES given,     \* the array before the sort
          d,         \* the array
          calls,     \* parts still to be sorted, <<start, length>>: the
                     \* first one is the call that runs
          at,        \* "loop", "part" (in the assembly), "insert", "shift"
          i, j, tmp, \* of avx2_remain_sorts()
          temp,      \* temp_space, the words of ptrd
          pivot,
          read, bottom, top  \* words read, words at bottom, words in temp

partVars == <<temp, pivot, read, bottom, top>>
vars == <<given, d, calls, at, i, j, tmp, partVars>>

Start(g) ==
  /\ given = g
  /\ d = g
  /\ calls = << <<0, N>> >>
  /\ at = "loop"
  /\ i = 0 /\ j = 0 /\ tmp = 0
  /\ temp = [k \in Index |-> 0]
  /\ pivot = 0 /\ read = 0 /\ bottom = 0 /\ top = 0

Init == \E g \in [Index -> UInt32] : Start(g)

From == Head(calls)[1]
Length == Head(calls)[2]
Running == calls # <<>>

(* el1, el2 and el3 after the exchanges, which compare unsigned (jbe).     *)
MedianOf(el1, el2, el3) ==
  LET e == IF el1 > el2 THEN <<el2, el1, el3>> ELSE <<el1, el2, el3>>
      f == IF e[2] > e[3] THEN <<e[1], e[3], e[2]>> ELSE e
  IN  IF e[2] > e[3] /\ f[1] > f[2] THEN <<f[2], f[1], f[3]>> ELSE f

(* The first, last and middle element change places, and the last one, now *)
(* the middle of the three as unsigned values, is the pivot.               *)
Median ==
  /\ Running /\ at = "loop" /\ Length > Small
  /\ LET last == From + Length - 1
         middle == From + Length \div 2
         el == MedianOf(d[From], d[last], d[middle])
     IN  /\ d' = [d EXCEPT ![From] = el[1], ![middle] = el[3], ![last] = el[2]]
         /\ pivot' = el[2]
  /\ read' = 0 /\ bottom' = 0 /\ top' = 0
  /\ at' = "part"
  /\ UNCHANGED <<given, calls, i, j, tmp, temp>>

Lane == 0 .. Lanes - 1
CountOf(S) == Cardinality(S)

(* .LPermTableLeft and .LPermTableRight: the lanes of S in their order,    *)
(* then lane 0 again and again.                                            *)
PermTable(S) == [k \in Lane |->
  IF k < CountOf(S) THEN CHOOSE m \in S : CountOf({x \in S : x < m}) = k ELSE 0]

(* A whole vector is stored, whatever part of it counts.                   *)
Stored(f, to, block, S) == [k \in Index |->
  IF k \in to .. to + Lanes - 1 THEN block[PermTable(S)[k - to]] ELSE f[k]]

(* Mutant of LeftLanes: the operands of vpcmpgtd are swapped, as l.41 says *)
(* another order takes.                                                    *)
LeftLanesSwapped(block) == {k \in Lane : Signed(block[k]) > Signed(pivot)}

(* The comparison is a signed one.                                         *)
LeftLanes(block) == {k \in Lane : Signed(pivot) > Signed(block[k])}

(* The loops over seven, three and one vector: each vector is loaded       *)
(* before anything is stored over it.                                      *)
Vector ==
  /\ at = "part" /\ Lanes <= Length - 1 - read
  /\ LET block == [k \in Lane |-> d[From + read + k]]
         left == LeftLanes(block)
     IN  /\ d' = Stored(d, From + bottom, block, left)
         /\ temp' = Stored(temp, top, block, Lane \ left)
         /\ bottom' = bottom + CountOf(left)
         /\ top' = top + Lanes - CountOf(left)
  /\ read' = read + Lanes
  /\ UNCHANGED <<given, calls, at, i, j, tmp, pivot>>

(* The scalar loop over the rest, in which equal elements go left (jg).    *)
Word ==
  /\ at = "part" /\ read < Length - 1 /\ Length - 1 - read < Lanes
  /\ LET w == d[From + read]
     IN  IF Signed(w) > Signed(pivot)
           THEN /\ temp' = [temp EXCEPT ![top] = w]
                /\ top' = top + 1
                /\ UNCHANGED <<d, bottom>>
           ELSE /\ d' = [d EXCEPT ![From + bottom] = w]
                /\ bottom' = bottom + 1
                /\ UNCHANGED <<temp, top>>
  /\ read' = read + 1
  /\ UNCHANGED <<given, calls, at, i, j, tmp, pivot>>

(* n = n - new_n - 1 and the part behind the pivot, which is sorted first. *)
Parts(from, n, new_n) ==
  << <<from + n - new_n, new_n>>, <<from, n - new_n - 1>> >>

(* The pivot is put behind what is smaller, temp_space copied behind the   *)
(* pivot, and its number of words returned to the driver as new_n.         *)
CopyBack ==
  /\ at = "part" /\ read = Length - 1
  /\ d' = [k \in Index |->
       CASE k = From + bottom -> pivot
         [] k \in From + bottom + 1 .. From + bottom + top ->
              temp[k - From - bottom - 1]
         [] OTHER -> d[k]]
  /\ calls' = Parts(From, Length, top) \o Tail(calls)
  /\ at' = "loop"
  /\ UNCHANGED <<given, i, j, tmp, partVars>>

(* The call of avx2_remain_sorts(), which does nothing to one element.     *)
Remain ==
  /\ Running /\ at = "loop" /\ Length <= Small
  /\ IF Length <= 1 THEN calls' = Tail(calls) /\ UNCHANGED <<at, i>>
                    ELSE at' = "insert" /\ i' = 1 /\ UNCHANGED calls
  /\ UNCHANGED <<given, d, j, tmp, partVars>>

Take ==
  /\ at = "insert" /\ i < Length
  /\ tmp' = d[From + i]
  /\ j' = i
  /\ at' = "shift"
  /\ UNCHANGED <<given, d, calls, i, partVars>>

Shift ==
  /\ at = "shift"
  /\ j >= 1 /\ Signed(tmp) < Signed(d[From + j - 1])
  /\ d' = [d EXCEPT ![From + j] = d[From + j - 1]]
  /\ j' = j - 1
  /\ UNCHANGED <<given, calls, at, i, tmp, partVars>>

Put ==
  /\ at = "shift"
  /\ ~ (j >= 1 /\ Signed(tmp) < Signed(d[From + j - 1]))
  /\ d' = [d EXCEPT ![From + j] = tmp]
  /\ i' = i + 1
  /\ at' = "insert"
  /\ UNCHANGED <<given, calls, j, tmp, partVars>>

Remained ==
  /\ at = "insert" /\ i = Length
  /\ calls' = Tail(calls)
  /\ at' = "loop"
  /\ UNCHANGED <<given, d, i, j, tmp, partVars>>

Finished == ~ Running /\ UNCHANGED vars

Next ==
  \/ Median \/ Vector \/ Word \/ CopyBack
  \/ Remain \/ Take \/ Shift \/ Put \/ Remained \/ Finished

SafeSpec == Init /\ [][Next]_vars

-----------------------------------------------------------------------------

(* The array is returned sorted as the signed values it was taken for,     *)
(* with the values it had: the partition loses none though each vector is  *)
(* stored whole, and the driver, whose unsigned n would wrap at a new_n of *)
(* n or more, leaves no element out of the parts (l.176-183).              *)
Promise == INSTANCE Sorter WITH
  Value <- Int32,
  input <- [k \in Index |-> Signed(given[k])],
  array <- [k \in Index |-> Signed(d[k])],
  busy <- Running
AvxSorts == Promise!SafeSpec
=============================================================================

----------------------------- MODULE SortBench -----------------------------
(***************************************************************************)
(* The sorts of this repository, one per run of a program: option -c of    *)
(* main() picks the case, whose array is filled anew before it starts.     *)
(* `test` is the sort that runs; the others have not been called.          *)
(***************************************************************************)
EXTENDS Quicksort

CONSTANTS RadixN, LowBase, MidBase, HighBase, Spare, Junk, Stray,  \* RadixSort
          AvxN, Small, Lanes, Half                                 \* Avx2Sort

VARIABLES test,
          loc, buf, at, pass, digits, idx, unsorted, taken,  \* RadixSort
          d, calls, where, outer, inner, tmp, handed,        \* Avx2Sort
          temp, piv, read, bottom, top

radixVars == <<loc, buf, at, pass, digits, idx, unsorted, taken>>
avxVars == <<d, calls, where, outer, inner, tmp, handed, temp, piv, read, bottom, top>>
benchVars == <<test, vars, radixVars, avxVars>>

Radix == INSTANCE RadixSort WITH N <- RadixN, given <- unsorted, i <- digits
Avx == INSTANCE Avx2Sort WITH
  N <- AvxN, given <- handed, at <- where, i <- outer, j <- inner, pivot <- piv

ASSUME SizesAssumption == Radix!Sizes /\ Avx!Sizes

Same(n) == [k \in 0 .. n - 1 |-> 1]

(* allocMem() and the filling of the array of the case that was picked.    *)
BenchInit ==
  /\ test \in {"qs_recsv", "radix_sort", "my_qsort_AVX2"}
  /\ IF test = "qs_recsv" THEN TRUE ELSE input = Same(N)
  /\ Init
  /\ IF test = "radix_sort" THEN Radix!Init ELSE Radix!Start(Same(RadixN), 0, 0)
  /\ IF test = "my_qsort_AVX2" THEN Avx!Init ELSE Avx!Start(Same(AvxN))

BenchNext ==
  \/ test = "qs_recsv" /\ Next /\ UNCHANGED <<test, radixVars, avxVars>>
  \/ test = "radix_sort" /\ Radix!Next /\ UNCHANGED <<test, vars, avxVars>>
  \/ test = "my_qsort_AVX2" /\ Avx!Next /\ UNCHANGED <<test, vars, radixVars>>

BenchSpec == BenchInit /\ [][BenchNext]_benchVars

-----------------------------------------------------------------------------

(* No two elements get the same slot, and equal digits stay in order       *)
(* (u32_radix_sort_portable.cpp:230-271).                                  *)
SlotsAreOwn == Radix!SlotsAreOwn

(* radix_sort() returns the array sorted, with the values it had, unless   *)
(* the idx that is not set made it zero an element (l.172).                *)
RadixSorts == Radix!RadixSorts

(* my_qsort_AVX2() returns the array sorted as signed values               *)
(* (sortSpeed.cpp:176-183, qsort_avx2_int32.s:43-438).                     *)
AvxSorts == Avx!AvxSorts
=============================================================================

------------------------------- MODULE Sorter -------------------------------
(***************************************************************************)
(* What a sort of this repository promises its caller: whatever it does to *)
(* the array on the way, it returns with the values it was given, in       *)
(* ascending order.                                                        *)
(***************************************************************************)
EXTENDS Integers

CONSTANTS N,      \* elements of the array
          Value   \* what an element may be

Index == 0 .. N - 1

VARIABLES input,  \* the array as it was handed over
          array,  \* the array now
          busy    \* the sort has not returned

vars == <<input, array, busy>>

Sorted(f) == \A i, j \in Index : i < j => f[i] <= f[j]

Permutation == {p \in [Index -> Index] : \A w \in Index : \E v \in Index : p[v] = w}

Permuted(f, g) == \E p \in Permutation : f = [i \in Index |-> g[p[i]]]

Init ==
  /\ input \in [Index -> Value]
  /\ array = input
  /\ busy = TRUE

Rearrange ==
  /\ busy
  /\ array' \in [Index -> Value]
  /\ UNCHANGED <<input, busy>>

Finish ==
  /\ busy
  /\ Permuted(array, input) /\ Sorted(array)
  /\ busy' = FALSE
  /\ UNCHANGED <<input, array>>

Next == Rearrange \/ Finish

SafeSpec == Init /\ [][Next]_vars
=============================================================================

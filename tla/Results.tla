------------------------------ MODULE Results ------------------------------
(***************************************************************************)
(* core_lat/result_parser.cpp: reads the latency matrices that test_lat.sh *)
(* has written, one file per pass, and folds them into minimum, average    *)
(* and maximum.  Each cell is folded by itself, so the model has one cell  *)
(* of matrices that are all of the same size.                              *)
(***************************************************************************)
EXTENDS Integers, Sequences, FiniteSetsExt

CONSTANTS NFiles,   \* argv[1]
          Latency,  \* what the cell of a file may say
          Empty,    \* the cell of a matrix without rows
          Absent    \* in `files`: there is none

(* What the program or its user sees to.                                   *)
Sizes ==
  /\ NFiles \in Nat \ {0}
  /\ Latency \subseteq Nat
  /\ Empty \notin Nat /\ Absent \notin Nat /\ Empty # Absent

VARIABLES mat,      \* m._mat, which the next file replaces
          mats,     \* _matjz
          files,    \* what the files read so far have in the cell (history)
          lowest, highest,
          total,    \* _midjz times the number of matrices
          next,     \* the matrix to be folded in next
          at        \* "read", "fold", "show" or "crash"

vars == <<mat, mats, files, lowest, highest, total, next, at>>

Init ==
  /\ mat = Empty
  /\ mats = <<>> /\ files = <<>>
  /\ lowest = Empty /\ highest = Empty /\ total = 0
  /\ next = 1
  /\ at = "read"

(* readMatrix() of a file that exists; it may have no rows.                *)
Read(v) ==
  /\ at = "read" /\ Len(mats) < NFiles
  /\ mat' = v
  /\ mats' = Append(mats, v)
  /\ files' = Append(files, v)
  /\ UNCHANGED <<lowest, highest, total, next, at>>

(* readMatrix() of a file that does not: the error is not looked at, the   *)
(* matrix of the file before is counted again.                             *)
Missing ==
  /\ at = "read" /\ Len(mats) < NFiles
  /\ mats' = Append(mats, mat)
  /\ files' = Append(files, Absent)
  /\ UNCHANGED <<mat, lowest, highest, total, next, at>>

(* The results take the size and the values of the first matrix.           *)
Initialise ==
  /\ at = "read" /\ Len(mats) = NFiles
  /\ lowest' = mats[1] /\ highest' = mats[1]
  /\ total' = IF mats[1] = Empty THEN 0 ELSE mats[1]
  /\ next' = 2
  /\ at' = "fold"
  /\ UNCHANGED <<mat, mats, files>>

(* Mutant of Fold: a value is a new minimum or a new maximum, not both.    *)
FoldElse ==
  /\ at = "fold" /\ next <= NFiles /\ mats[next] # Empty /\ lowest # Empty
  /\ IF mats[next] <= lowest
       THEN lowest' = mats[next] /\ UNCHANGED highest
       ELSE highest' = mats[next] /\ UNCHANGED lowest
  /\ total' = total + mats[next]
  /\ next' = next + 1
  /\ UNCHANGED <<mat, mats, files, at>>

Fold ==
  /\ at = "fold" /\ next <= NFiles /\ mats[next] # Empty /\ lowest # Empty
  /\ lowest' = IF mats[next] < lowest THEN mats[next] ELSE lowest
  /\ highest' = IF mats[next] > highest THEN mats[next] ELSE highest
  /\ total' = total + mats[next]
  /\ next' = next + 1
  /\ UNCHANGED <<mat, mats, files, at>>

(* A matrix without rows is not looped over.                               *)
Skip ==
  /\ at = "fold" /\ next <= NFiles /\ mats[next] = Empty
  /\ next' = next + 1
  /\ UNCHANGED <<mat, mats, files, lowest, highest, total, at>>

(* Results that took their size from an empty matrix have no such cell.    *)
Overrun ==
  /\ at = "fold" /\ next <= NFiles /\ mats[next] # Empty /\ lowest = Empty
  /\ at' = "crash"
  /\ UNCHANGED <<mat, mats, files, lowest, highest, total, next>>

Show ==
  /\ at = "fold" /\ next > NFiles
  /\ at' = "show"
  /\ UNCHANGED <<mat, mats, files, lowest, highest, total, next>>

Finished == at \in {"show", "crash"} /\ UNCHANGED vars

Next ==
  \/ Missing \/ Initialise \/ Fold \/ Skip \/ Overrun \/ Show \/ Finished
  \/ \E v \in Latency \cup {Empty} : Read(v)

SafeSpec == Init /\ [][Next]_vars

-----------------------------------------------------------------------------

WithRows == {n \in DOMAIN files : files[n] \notin {Empty, Absent}}
Latencies == {files[n] : n \in WithRows}

(* The file whose matrix is the n-th: the last of the first n there is.    *)
Existing(n) == {i \in 1 .. n : files[i] # Absent}
Counted(n) == IF Existing(n) = {} THEN Empty ELSE files[Max(Existing(n))]

Sums(s) ==
  LET sum[n \in 0 .. Len(s)] == IF n = 0 THEN 0 ELSE sum[n - 1] + s[n]
  IN  sum
Counts == [n \in 1 .. NFiles |-> IF Counted(n) = Empty THEN 0 ELSE Counted(n)]

(* The minimum and the maximum are those of the files with rows; the       *)
(* average, which is the total by the number of passes, has each missing   *)
(* file as the one there was before it and one without rows as 0.  The     *)
(* program gets no result if no file has rows, and breaks off if some file *)
(* has but the first has not (l.93-124).                                   *)
StatsAreOfFiles ==
  /\ at = "show" =>
       IF lowest = Empty THEN WithRows = {}
       ELSE /\ lowest = Min(Latencies) /\ highest = Max(Latencies)
            /\ total = Sums(Counts)[NFiles]
  /\ at = "crash" => WithRows # {} /\ 1 \notin WithRows
=============================================================================

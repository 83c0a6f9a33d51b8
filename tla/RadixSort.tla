----------------------------- MODULE RadixSort -----------------------------
(***************************************************************************)
(* radix_sort() of u32_radix_sort_portable.cpp and u32_radix_sort_demo.cpp *)
(* and the case of main() that calls it: the digits of all elements are    *)
(* counted, the counts become first slots, and three passes move the       *)
(* elements to and fro between the array and the data area behind the      *)
(* three tables of ptrd.                                                   *)
(*                                                                         *)
(* ptrd is an array of words, of tables and elements alike.  A digit of 11 *)
(* or 10 bits is a digit in a smaller base.                                *)
(***************************************************************************)
EXTENDS Integers, FiniteSets

CONSTANTS N,      \* n
          LowBase, MidBase, HighBase,
                  \* how many values a digit has: 2048, 2048 and 1024
          Spare,  \* words of a table beyond its digits (8)
          Junk,   \* what fresh memory may hold
          Stray   \* what idx may be before it is set

Base == <<LowBase, MidBase, HighBase>>

Index == 0 .. N - 1
Key == 0 .. Base[1] * Base[2] * Base[3] - 1

(* buf, buf + 0x2020, buf + 0x4040, and the data area at buf + 0x5060.     *)
Table == [p \in 1 .. 3 |->
  CASE p = 1 -> 0
    [] p = 2 -> Base[1] + Spare
    [] p = 3 -> Base[1] + Base[2] + 2 * Spare]
Data == Table[3] + Base[3] + Spare
Word == 0 .. Data + N - 1

(* What the program and the build see to.                                  *)
Sizes ==
  /\ {N, Spare} \subseteq Nat \ {0}
  /\ {LowBase, MidBase, HighBase} \subseteq Nat \ {0, 1}
  /\ Junk \subseteq Nat /\ Stray \subseteq Int

VARIABLES given,  \* the array before the sort
          taken,  \* the array as it is first counted
          loc,    \* the array: ptr
          buf,    \* the words of ptrd
          at,     \* "clear", "reset", "count", "sum", "move", "copy", "return",
              \* "done", "killed"
          pass,   \* which digit
          i, idx

vars == <<given, taken, loc, buf, at, pass, i, idx>>

Start(g, junk, stray) ==
  /\ given = g
  /\ taken = g
  /\ loc = g
  /\ buf = [w \in Word |-> junk]
  /\ at = "clear"
  /\ pass = 1
  /\ i = 0
  /\ idx = stray

Init == \E g \in [Index -> Key], junk \in Junk, stray \in Stray :
          Start(g, junk, stray)

Digit(p, v) ==
  CASE p = 1 -> v % Base[1]
    [] p = 2 -> (v \div Base[1]) % Base[2]
    [] p = 3 -> (v \div (Base[1] * Base[2])) % Base[3]

(* Mutant of Clear: the caller leaves the tables as they are.              *)
ClearNothing ==
  /\ at = "clear"
  /\ at' = "reset"
  /\ UNCHANGED <<given, taken, loc, buf, pass, i, idx>>

(* memset() of the three tables, which the sort leaves to its caller.      *)
Clear ==
  /\ at = "clear"
  /\ buf' = [w \in Word |-> IF w < Data THEN 0 ELSE buf[w]]
  /\ at' = "reset"
  /\ UNCHANGED <<given, taken, loc, pass, i, idx>>

(* seqTbl[idx] = 0, with the idx of the loop before it, or of nothing.     *)
Reset ==
  /\ at = "reset" /\ Table[pass] + idx \in Word
  /\ buf' = [buf EXCEPT ![Table[pass] + idx] = 0]
  /\ i' = 0
  /\ at' = "count"
  /\ UNCHANGED <<given, taken, loc, pass, idx>>

(* The same store outside ptrd: where nothing is mapped, or on what malloc *)
(* finds damaged later, the program is killed.                             *)
ResetKilled ==
  /\ at = "reset" /\ Table[pass] + idx \notin Word
  /\ at' = "killed"
  /\ UNCHANGED <<given, taken, loc, buf, pass, i, idx>>

(* It is memory of the program that the sort does not look at, or, with    *)
(* an idx that was never set, an element of the array: ptr was allocated   *)
(* before ptrd, so that no store behind ptrd is one.                       *)
ResetElsewhere ==
  /\ at = "reset" /\ Table[pass] + idx \notin Word
  /\ \/ UNCHANGED loc
     \/ pass = 1 /\ \E k \in Index : loc' = [loc EXCEPT ![k] = 0]
  /\ taken' = loc'
  /\ i' = 0
  /\ at' = "count"
  /\ UNCHANGED <<given, buf, pass, idx>>

Count ==
  /\ at = "count" /\ i < N
  /\ idx' = Digit(pass, loc[i])
  /\ buf' = [buf EXCEPT ![Table[pass] + idx' + 1] = @ + 1]
  /\ i' = i + 1
  /\ UNCHANGED <<given, taken, loc, at, pass>>

Counted ==
  /\ at = "count" /\ i = N
  /\ IF pass < 3 THEN at' = "reset" /\ pass' = pass + 1 /\ UNCHANGED idx
                 ELSE at' = "sum" /\ pass' = 1 /\ idx' = 1
  /\ UNCHANGED <<given, taken, loc, buf, i>>

Sum ==
  /\ at = "sum" /\ idx < Base[pass]
  /\ buf' = [buf EXCEPT ![Table[pass] + idx] = @ + buf[Table[pass] + idx - 1]]
  /\ idx' = idx + 1
  /\ UNCHANGED <<given, taken, loc, at, pass, i>>

Summed ==
  /\ at = "sum" /\ idx = Base[pass]
  /\ idx' = 1
  /\ IF pass < 3 THEN pass' = pass + 1 /\ UNCHANGED <<at, i>>
                 ELSE at' = "move" /\ pass' = 1 /\ i' = 0
  /\ UNCHANGED <<given, taken, loc, buf>>

(* Where a pass finds its elements: the second one in the data area.       *)
Source == IF pass = 2 THEN [k \in Index |-> buf[Data + k]] ELSE loc

Slot(d) == buf[Table[pass] + d]

(* The next element goes to the slot of its digit, whose next slot is the  *)
(* one after it.                                                           *)
Put(v, d) ==
  /\ buf' = [w \in Word |->
       CASE w = Table[pass] + d -> Slot(d) + 1
         [] w = Data + Slot(d) /\ pass # 2 -> v
         [] OTHER -> buf[w]]
  /\ loc' = IF pass = 2 THEN [loc EXCEPT ![Slot(d)] = v] ELSE loc

(* Mutant of Move: the elements are moved from the last to the first.      *)
MoveBackwards ==
  /\ at = "move" /\ i < N
  /\ idx' = Digit(pass, Source[N - 1 - i])
  /\ Put(Source[N - 1 - i], idx')
  /\ i' = i + 1
  /\ UNCHANGED <<given, taken, at, pass>>

Move ==
  /\ at = "move" /\ i < N
  /\ idx' = Digit(pass, Source[i])
  /\ Put(Source[i], idx')
  /\ i' = i + 1
  /\ UNCHANGED <<given, taken, at, pass>>

Moved ==
  /\ at = "move" /\ i = N
  /\ IF pass < 3 THEN pass' = pass + 1 /\ i' = 0 /\ UNCHANGED at
                 ELSE at' = "copy" /\ UNCHANGED <<pass, i>>
  /\ UNCHANGED <<given, taken, loc, buf, idx>>

Copy ==
  /\ at = "copy"
  /\ loc' = [k \in Index |-> buf[Data + k]]
  /\ at' = "return"
  /\ UNCHANGED <<given, taken, buf, pass, i, idx>>

Return ==
  /\ at = "return"
  /\ at' = "done"
  /\ UNCHANGED <<given, taken, loc, buf, pass, i, idx>>

Finished == at \in {"done", "killed"} /\ UNCHANGED vars

Next ==
  \/ Clear \/ Reset \/ ResetKilled \/ ResetElsewhere \/ Count \/ Counted \/ Sum \/ Summed
  \/ Move \/ Moved \/ Copy \/ Return \/ Finished

SafeSpec == Init /\ [][Next]_vars

-----------------------------------------------------------------------------

(* A counter is set to 0 only where there is a word of ptrd (l.172-190).   *)
(* idx is the digit of another table when the third one is reset.          *)
ResetsInside == at = "reset" => Table[pass] + idx \in Word

(* In each pass the slot of a digit is the one behind all elements with    *)
(* smaller digits and those with the same digit that are already moved:    *)
(* no two elements get the same slot and equal digits stay in order        *)
(* (l.230-271), though the counting saw the elements in another order and  *)
(* the tables are shared by nobody's initialisation but the caller's.      *)
CountOf(S) == Cardinality(S)
SlotsAreOwn ==
  at = "move" => \A d \in 0 .. Base[pass] - 1 :
    Slot(d) = CountOf({k \in Index : Digit(pass, Source[k]) < d})
            + CountOf({k \in 0 .. i - 1 : Digit(pass, Source[k]) = d})

(* radix_sort() returns the array sorted, with the values it had, whatever *)
(* the idx that is not set, unless the store it names put a zero into the  *)
(* array: then nothing is promised.                                        *)
Promise == INSTANCE Sorter WITH
  Value <- Key, input <- given, array <- loc, busy <- at # "done" \/ taken # given
RadixSorts == Promise!SafeSpec
=============================================================================

------------------------------ MODULE RndRing ------------------------------
(***************************************************************************)
(* setup_rnd(), the random pointer ring of mem_lat.c, simpleMemLatChecker.c*)
(* and ParallelCacheMiss.c, and the pointer chase that is timed on it.     *)
(* A segment of the buffer is seen as its first word, a pointer to another *)
(* segment.  A segment is free while that word still has the value the     *)
(* buffer was cleared with: NULL in the first two programs, the buffer's   *)
(* own address (segment 0) in the third.                                   *)
(*                                                                         *)
(* The three programs differ in what the CONSTANTS say, and are instances. *)
(***************************************************************************)
EXTENDS Integers

CONSTANTS NSegs,    \* segments in the buffer: size / seg_size
          Empty,    \* what a free segment holds
          Cursors,  \* pointers chased in lock step (PRL); 1 where there is no PRL
          MinDone,  \* links below which a conflict never ends the loop
          RatioPct, \* rand_ratio, in percent
          Large     \* mem_lat.c: the buffer is over 256M; TRUE in the others

Seg == 0 .. NSegs - 1

ASSUME NSegsAssumption == NSegs \in Nat \ {0}
ASSUME EmptyAssumption == Empty = 0 \/ Empty \notin Seg
ASSUME CursorsAssumption == Cursors \in 1 .. NSegs /\ (Empty # 0 => Cursors = 1)
ASSUME BreakAssumption == MinDone \in Nat /\ RatioPct \in 1 .. 100 /\ Large \in BOOLEAN

Cursor == 0 .. Cursors - 1

VARIABLES cell,  \* the first word of every segment
          pos,   \* the end of the chain
          nDone, \* n_done, links stored so far
          pc,    \* "build", "close" or "chase"
          at     \* where the cursors p1 .. pPRL point

vars == <<cell, pos, nDone, pc, at>>

(* The buffer has just been cleared, the cursors are not set yet.          *)
Init ==
  /\ cell = [s \in Seg |-> Empty]
  /\ pos = 0
  /\ nDone = 0
  /\ pc = "build"
  /\ at = [c \in Cursor |-> 0]

(* The test of a conflict that ends the loop early.                        *)
Enough == Large /\ nDone > MinDone /\ nDone * 100 > RatioPct * NSegs

(* Mutants of Link: no test for a conflict; the link is not counted.       *)
LinkAny(s) ==
  /\ pc = "build"
  /\ cell' = [cell EXCEPT ![pos] = s]
  /\ pos' = s
  /\ nDone' = nDone + 1
  /\ pc' = IF nDone + 1 < NSegs THEN "build" ELSE "close"
  /\ UNCHANGED at

LinkUncounted(s) ==
  /\ pc = "build"
  /\ cell[s] = Empty
  /\ cell' = [cell EXCEPT ![pos] = s]
  /\ pos' = s
  /\ pc' = IF nDone + 1 < NSegs THEN "build" ELSE "close"
  /\ UNCHANGED <<nDone, at>>

(* A random segment s that is free becomes the end of the chain.  It may   *)
(* be the segment the chain ends in already, which is free as well.        *)
Link(s) ==
  /\ pc = "build"
  /\ cell[s] = Empty
  /\ cell' = [cell EXCEPT ![pos] = s]
  /\ pos' = s
  /\ nDone' = nDone + 1
  /\ pc' = IF nDone + 1 < NSegs THEN "build" ELSE "close"
  /\ UNCHANGED at

(* A conflict when enough links are stored.  Any other conflict only tries *)
(* again: it is a stuttering step.                                         *)
GiveUp(s) ==
  /\ pc = "build"
  /\ cell[s] # Empty
  /\ Enough
  /\ pc' = "close"
  /\ UNCHANGED <<cell, pos, nDone, at>>

(* Mutants of Close: a swapped store; cursors without their stride.        *)
CloseSelf ==
  /\ pc = "close"
  /\ cell' = [cell EXCEPT ![0] = pos]
  /\ pc' = "chase"
  /\ at' = [c \in Cursor |-> c]
  /\ UNCHANGED <<pos, nDone>>

CloseOneStart ==
  /\ pc = "close"
  /\ cell' = [cell EXCEPT ![pos] = 0]
  /\ pc' = "chase"
  /\ at' = [c \in Cursor |-> 0]
  /\ UNCHANGED <<pos, nDone>>

(* `*pos = addr`; then measure_rnd_read() puts cursor c on segment c.      *)
Close ==
  /\ pc = "close"
  /\ cell' = [cell EXCEPT ![pos] = 0]
  /\ pc' = "chase"
  /\ at' = [c \in Cursor |-> c]
  /\ UNCHANGED <<pos, nDone>>

(* RD_ONE: every cursor follows its pointer.                               *)
Chase ==
  /\ pc = "chase"
  /\ at' = [c \in Cursor |-> cell[at[c]]]
  /\ UNCHANGED <<cell, pos, nDone, pc>>

Next == (\E s \in Seg : Link(s) \/ GiveUp(s)) \/ Close \/ Chase

SafeSpec == Init /\ [][Next]_vars

(* The generator comes by every segment again and again.                   *)
Fairness == (\A s \in Seg : WF_vars(Link(s) \/ GiveUp(s))) /\ WF_vars(Close)

Spec == SafeSpec /\ Fairness

TypeOK ==
  /\ cell \in [Seg -> Seg \cup {Empty}]
  /\ pos \in Seg
  /\ nDone \in 0 .. NSegs
  /\ pc \in {"build", "close", "chase"}
  /\ at \in [Cursor -> Seg]

-----------------------------------------------------------------------------

(* f lists n + 1 different segments from segment 0 on, each but the last   *)
(* holding a pointer to the next.                                          *)
IsPath(f, n) ==
  /\ f \in [0 .. n -> Seg]
  /\ f[0] = 0
  /\ \A j, k \in 0 .. n : f[j] = f[k] => j = k
  /\ \A k \in 0 .. n - 1 : cell[f[k]] = f[k + 1]

(* The segments outside the path were not touched.                         *)
RestIsFree(f, n) ==
  \A s \in Seg : (\A k \in 0 .. n : f[k] # s) => cell[s] = Empty

(* While it is built, the structure is a path from segment 0 to pos; a     *)
(* link never enters it again anywhere but at its end.                     *)
ChainOrder(f, n) ==
  /\ IsPath(f, n)
  /\ f[n] = pos
  /\ cell[pos] \in {Empty, pos}
  /\ RestIsFree(f, n)

Chain ==
  pc # "chase" => \E n \in 0 .. nDone : \E f \in [0 .. n -> Seg] : ChainOrder(f, n)

(* Once closed it is one ring through segment 0: a chase from there visits *)
(* every segment of the ring before it returns, so all loads are timed on  *)
(* the whole ring and never on a short loop inside it.                     *)
RingOrder(f, n) ==
  /\ IsPath(f, n)
  /\ cell[f[n]] = 0
  /\ RestIsFree(f, n)

Ring ==
  pc = "chase" => \E n \in 0 .. nDone : \E f \in [0 .. n -> Seg] : RingOrder(f, n)

(* The ring has every segment.                                             *)
WholeRing == \A s \in Seg : \E r \in Seg : cell[r] = s

(* On a ring of every segment the cursors never read the same word, so PRL *)
(* loads are in flight in every step.                                      *)
LoadsAreParallel ==
  pc = "chase" /\ WholeRing =>
    \A c, d \in Cursor : at[c] = at[d] => c = d

(* The set-up ends: the last free segment is the end of the chain itself.  *)
SetupEnds == <>(pc = "chase")

-----------------------------------------------------------------------------
(* What the programs say of themselves.                                    *)

(* mem_lat.c:351 prints "archieved 100%" when n_done reaches n_segs.       *)
ArchievedIsWhole == pc = "chase" /\ nDone = NSegs => WholeRing

(* ParallelCacheMiss.c:222 prints the cost of a "parallel load PRL".       *)
AlwaysParallel ==
  pc = "chase" => \A c, d \in Cursor : at[c] = at[d] => c = d
=============================================================================

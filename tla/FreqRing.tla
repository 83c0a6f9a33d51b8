------------------------------ MODULE FreqRing ------------------------------
(***************************************************************************)
(* measure_rdlat_user() of freqLat.c: a ring linked from the last segment  *)
(* down to the first in one loop, closed onto n_bytes - stride, and the    *)
(* chase of measure_rnd_read().                                            *)
(*                                                                         *)
(* The buffer is an array of 8-byte words; sizes and strides are in words. *)
(***************************************************************************)
EXTENDS Integers

CONSTANTS NBytes,   \* n_bytes
          Strides,  \* what option -d may be
          Hops      \* loads of the measurement, a bound

(* What the program or its user sees to.                                   *)
Sizes ==
  NBytes \in Nat \ {0} /\ Strides \subseteq 1 .. NBytes /\ Hops \in Nat

Word == 0 .. NBytes - 1
Garbage == -1   \* what posix_memalign() leaves in a word: not an address

VARIABLES stride, mem,
          pos,    \* the segment to be linked, then the cursor
          links,  \* i
          hops,
          stage   \* "link", "chase" or "lost": the cursor is not an address

vars == <<stride, mem, pos, links, hops, stage>>

NSegs == NBytes \div stride

Start(d) ==
  /\ stride = d
  /\ mem = [w \in Word |-> Garbage]
  /\ pos = d * (NBytes \div d - 1)
  /\ links = 1
  /\ hops = 0
  /\ stage = "link"

Init == \E d \in Strides : Start(d)

Link ==
  /\ stage = "link" /\ links < NSegs
  /\ mem' = [mem EXCEPT ![pos] = pos - stride]
  /\ pos' = pos - stride
  /\ links' = links + 1
  /\ UNCHANGED <<stride, hops, stage>>

(* Mutant of LastHead: the word before the end of the buffer.              *)
LastWord == NBytes - 1

(* Where the ring is closed onto: the last segment, if segments fill the   *)
(* buffer.                                                                 *)
LastHead == NBytes - stride

Close ==
  /\ stage = "link" /\ links = NSegs
  /\ mem' = [mem EXCEPT ![pos] = LastHead]
  /\ stage' = "chase"
  /\ UNCHANGED <<stride, pos, links, hops>>

(* RD_ONE; a load through what is not an address ends the program or goes  *)
(* anywhere.                                                               *)
Hop ==
  /\ stage = "chase" /\ hops < Hops
  /\ IF mem[pos] \in Word THEN pos' = mem[pos] /\ UNCHANGED stage
                          ELSE stage' = "lost" /\ UNCHANGED pos
  /\ hops' = hops + 1
  /\ UNCHANGED <<stride, mem, links>>

Finished ==
  /\ stage = "lost" \/ (stage = "chase" /\ hops = Hops)
  /\ UNCHANGED vars

Next == Link \/ Close \/ Hop \/ Finished

SafeSpec == Init /\ [][Next]_vars

-----------------------------------------------------------------------------

Heads == {s * stride : s \in 0 .. NSegs - 1}

(* Where a walk from the first segment is after n loads.                   *)
Walk[n \in Nat] ==
  IF n = 0 THEN 0
  ELSE IF Walk[n - 1] \in Word THEN mem[Walk[n - 1]] ELSE Garbage

(* The ring that is chased is all of the buffer's segments, and the chase  *)
(* stays on it, exactly if the stride divides the size (l.116-125), which  *)
(* main() does not ask for; otherwise it leaves the ring at its first hop. *)
RingIsWhole ==
  stage # "link" =>
    IF NBytes % stride = 0
      THEN /\ {Walk[n] : n \in 1 .. NSegs} = Heads
           /\ pos \in Heads /\ stage = "chase"
      ELSE pos \notin Heads \ {0}
=============================================================================

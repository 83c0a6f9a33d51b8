------------------------------- MODULE MemLat -------------------------------
(***************************************************************************)
(* main() of mem_lat.c after its options: one buffer, cleared, linked into *)
(* random rings, chased by reads and by writes, and cleared again, by      *)
(* OpenMP teams that meet at the barrier of every parallel region.         *)
(*                                                                         *)
(* The buffer is an array of 8-byte words; an address is the index of a    *)
(* word.  A segment is Stride words, of which the ring uses the first and  *)
(* the fill test the one after it, which main() does not check to be in    *)
(* the segment.                                                            *)
(***************************************************************************)
EXTENDS Integers, Sequences

CONSTANTS Threads,    \* omp_get_num_threads(): the default team
          NumThreads, \* option -n, the team of simple_test()
          Part,       \* words of one thread's part of the buffer
          Stride,     \* option -d, in words
          LargeWords, \* words in 256M
          RatioPct,   \* rand_ratio, in percent
          Hops,       \* loads or stores of one measurement, a bound
          Null,       \* what memset leaves in a word
          One,        \* what the fill test stores
          Junk        \* what posix_memalign() returns

ASSUME TeamsAssumption == Threads \in Nat \ {0} /\ NumThreads \in Nat \ {0}
ASSUME BufferAssumption == Part \in Nat \ {0} /\ Stride \in 1 .. Part
ASSUME LoopAssumption == LargeWords \in Nat /\ RatioPct \in 80 .. 100 /\ Hops \in Nat \ {0}

Word == 0 .. Threads * Part - 1

ASSUME ValueAssumption == {Null, One, Junk} \cap Word = {}

(* simple_test(), parallel_test() and modify_read() as the regions they    *)
(* run one after the other.  A thread of a region with "own" works on its  *)
(* own part of the buffer, the others on all of it from its start.         *)
Region(do, team, own) == [do |-> do, team |-> team, own |-> own]

SimpleTest == <<
  Region("ring", 1, FALSE),
  Region("read", 1, FALSE), Region("read", NumThreads, FALSE),
  Region("fill", 1, FALSE), Region("fill", NumThreads, FALSE) >>

ParallelTest == <<
  Region("ring", Threads, TRUE),
  Region("read", 1, FALSE), Region("read", Threads, TRUE),
  Region("fill", 1, FALSE), Region("fill", Threads, TRUE) >>

ModifyRead == <<
  Region("ring", 1, FALSE),
  Region("read", 2, FALSE), Region("read", 1, FALSE), Region("fill", 1, FALSE) >>

Clear == << Region("wipe", Threads, TRUE) >>

Program == Clear \o SimpleTest \o Clear \o ParallelTest \o Clear \o ModifyRead

Thread == 0 .. (CHOOSE n \in {Threads, NumThreads, 2} :
                  \A m \in {Threads, NumThreads, 2} : m <= n) - 1

VARIABLES mem,   \* the words of the buffer
          stage, \* the region of Program that is running
          busy,  \* its threads that have not reached the barrier
          pos,   \* per thread: the end of its chain, or its cursor
          count  \* per thread: links or hops so far

vars == <<mem, stage, busy, pos, count>>

Ended == Len(Program) + 1          \* main() has returned
Killed == Len(Program) + 2         \* by a signal

Running == stage <= Len(Program)
Now == Program[stage]
Does(t, do) == Running /\ t \in busy /\ Now.do = do

(* Mutant of Base: ptrs[i] without its offset.                             *)
BaseShared(t) == 0

(* The words a thread of the running region works on.                      *)
Base(t) == IF Now.own THEN t * Part ELSE 0
Size == IF Now.own THEN Part ELSE Threads * Part
Segs == Size \div Stride
SegOf(t, s) == Base(t) + s * Stride

(* The threads of region k and where they start.                           *)
Fork(k) ==
  /\ stage' = k
  /\ IF k <= Len(Program)
     THEN /\ busy' = 0 .. Program[k].team - 1
          /\ pos' = [t \in Thread |-> IF Program[k].own /\ t < Threads
                                      THEN t * Part ELSE 0]
     ELSE busy' = {} /\ pos' = [t \in Thread |-> 0]
  /\ count' = [t \in Thread |-> 0]

Init ==
  /\ mem = [w \in Word |-> Junk]
  /\ stage = 1
  /\ busy = 0 .. Threads - 1
  /\ pos = [t \in Thread |-> IF t < Threads THEN t * Part ELSE 0]
  /\ count = [t \in Thread |-> 0]

(* Mutant of Wipe: the last segment forgotten.                             *)
WipeShort(t) ==
  /\ Does(t, "wipe")
  /\ mem' = [w \in Word |-> IF w \in Base(t) .. Base(t) + Part - 1 - Stride
                            THEN Null ELSE mem[w]]
  /\ busy' = busy \ {t}
  /\ UNCHANGED <<stage, pos, count>>

(* memset() of a thread's part.                                            *)
Wipe(t) ==
  /\ Does(t, "wipe")
  /\ mem' = [w \in Word |-> IF w \in Base(t) .. Base(t) + Part - 1
                            THEN Null ELSE mem[w]]
  /\ busy' = busy \ {t}
  /\ UNCHANGED <<stage, pos, count>>

(* setup_rnd(): a free segment becomes the end of the chain.  The thread   *)
(* that stores the last link closes the ring.                              *)
Link(t, s) ==
  /\ Does(t, "ring") /\ count[t] < Segs /\ s < Segs
  /\ mem[SegOf(t, s)] = Null
  /\ mem' = [mem EXCEPT ![pos[t]] = SegOf(t, s)]
  /\ pos' = [pos EXCEPT ![t] = SegOf(t, s)]
  /\ count' = [count EXCEPT ![t] = @ + 1]
  /\ UNCHANGED <<stage, busy>>

(* A conflict, past the ratio of a large buffer: the loop is left.         *)
GiveUp(t) ==
  /\ \E s \in 0 .. Segs - 1 : mem[SegOf(t, s)] # Null
  /\ Size > LargeWords
  /\ count[t] * 100 > RatioPct * Segs

Close(t) ==
  /\ Does(t, "ring")
  /\ count[t] = Segs \/ GiveUp(t)
  /\ mem' = [mem EXCEPT ![pos[t]] = Base(t)]
  /\ busy' = busy \ {t}
  /\ UNCHANGED <<stage, pos, count>>

(* Mutant of Beside: the word after the segment.                           *)
BesideFar(q) == q + Stride - 2

(* q[1]: with a stride of one word, the head of the next segment, or past  *)
(* the buffer.                                                             *)
Beside(q) == q + 1

(* Whether the process outlives a store there: it does not beside the 1 of *)
(* another store, and may or may not behind the buffer.                    *)
Survives(t) ==
  IF pos[t] \notin Word THEN {FALSE}
  ELSE IF Beside(pos[t]) \in Word THEN {TRUE} ELSE BOOLEAN

(* RD_ONE and WR_ONE.                                                      *)
Read(t) ==
  /\ Does(t, "read") /\ count[t] < Hops
  /\ pos' = [pos EXCEPT ![t] = mem[pos[t]]]
  /\ count' = [count EXCEPT ![t] = @ + 1]
  /\ UNCHANGED <<mem, stage, busy>>

Fill(t) ==
  /\ Does(t, "fill") /\ count[t] < Hops
  /\ count' = [count EXCEPT ![t] = @ + 1]
  /\ \E on \in Survives(t) :
       IF on
       THEN /\ mem' = [w \in Word |-> IF w = Beside(pos[t]) THEN One ELSE mem[w]]
            /\ pos' = [pos EXCEPT ![t] = mem'[pos[t]]]
            /\ UNCHANGED <<stage, busy>>
       ELSE /\ stage' = Killed /\ busy' = {}
            /\ UNCHANGED <<mem, pos>>

(* The end of a measurement's loop.                                        *)
Leave(t) ==
  /\ Does(t, "read") \/ Does(t, "fill")
  /\ count[t] = Hops
  /\ busy' = busy \ {t}
  /\ UNCHANGED <<mem, stage, pos, count>>

(* Mutant of Barrier: `nowait`.                                            *)
BarrierNowait ==
  /\ Running
  /\ Fork(stage + 1)
  /\ UNCHANGED mem

(* The implicit barrier: the next region starts when all threads are done. *)
Barrier ==
  /\ Running /\ busy = {}
  /\ Fork(stage + 1)
  /\ UNCHANGED mem

Finished == ~ Running /\ UNCHANGED vars

Step(t) ==
  \/ Wipe(t) \/ Close(t) \/ Read(t) \/ Fill(t) \/ Leave(t)
  \/ \E s \in 0 .. (Threads * Part) \div Stride - 1 : Link(t, s)

Next == (\E t \in Thread : Step(t)) \/ Barrier \/ Finished

(* Every thread gets on, and the generator comes by every segment.         *)
Fairness ==
  /\ \A t \in Thread :
       /\ WF_vars(Wipe(t) \/ Close(t) \/ Read(t) \/ Fill(t) \/ Leave(t))
       /\ \A s \in 0 .. (Threads * Part) \div Stride - 1 : WF_vars(Link(t, s))
  /\ WF_vars(Barrier)

Spec == Init /\ [][Next]_vars /\ Fairness

TypeOK ==
  /\ mem \in [Word -> Word \cup {Null, One, Junk}]
  /\ stage \in 1 .. Killed
  /\ busy \subseteq Thread
  /\ pos \in [Thread -> Word \cup {One}]
  /\ count \in [Thread -> Nat]

-----------------------------------------------------------------------------

Heads(t) == {SegOf(t, s) : s \in 0 .. Segs - 1}

(* Pointers are only ever followed from the head of a segment of the       *)
(* thread's own words: no NULL, no 1, no neighbour's part.                 *)
CursorsOnHeads ==
  Running => \A t \in busy : pos[t] \in Heads(t)

(* setup_rnd() takes a word for a free segment's only if it is NULL: when  *)
(* a ring is started the buffer holds nothing of the ring and the fill     *)
(* test before it.                                                         *)
RingsStartClean ==
  Running /\ Now.do = "ring" /\ busy = 0 .. Now.team - 1 =>
    \A t \in busy : count[t] = 0 => \A h \in Heads(t) : mem[h] = Null

(* parallel_test(): the ring of a part never leads out of it.              *)
PartOf(t) == t * Part .. t * Part + Part - 1

PartsKeepApart ==
  Running /\ Now.own /\ Now.do # "wipe" =>
    \A t \in 0 .. Now.team - 1 : \A w \in PartOf(t) :
      mem[w] \in PartOf(t) \cup {Null, One}

(* The fill test writes beside the pointers it follows and never over one, *)
(* also when several threads fill one ring.  It takes a stride of two      *)
(* words; main() accepts -d 8.                                             *)
FillKeepsRing ==
  [][Running /\ Now.do = "fill" =>
       \A w \in Word : mem[w] \in Word => mem'[w] = mem[w]]_vars

(* No test waits for ever for a free segment.                              *)
ProgramEnds == <>(stage = Ended)
=============================================================================

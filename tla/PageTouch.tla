----------------------------- MODULE PageTouch -----------------------------
(***************************************************************************)
(* pagefault_test.cpp: main() starts threads that touch the pages of one   *)
(* mapping, each a run of its own, and waits for all.  A thread takes the  *)
(* start of its run and its length with it when it is created; main() goes *)
(* on to the next run while earlier threads may not have begun.            *)
(***************************************************************************)
EXTENDS Integers

CONSTANTS PageSize,  \* 4096
          Size,      \* sz, a multiple of it
          Threads    \* the values nproc may have

(* What the program or its user sees to.                                   *)
Sizes ==
  /\ PageSize \in Nat \ {0}
  /\ Size \in Nat \ {0} /\ Size % PageSize = 0
  /\ Threads \subseteq Nat \ {0} /\ \E n \in Threads : \A m \in Threads : m <= n

Thread == 0 .. (CHOOSE n \in Threads : \A m \in Threads : m <= n) - 1
Page == 0 .. Size \div PageSize - 1

VARIABLES nproc,
          cptr,     \* main(): the start of the next run
          created,  \* threads created so far
          joined,   \* main() has joined all
          state,    \* per thread: "none", "created", "touching", "done",
                    \* "aborted"
          capture,  \* per thread: the cptr it was created with
          ptr, off, \* per thread: ptr and i of trigger()
          touches   \* how often each page has been touched

vars == <<nproc, cptr, created, joined, state, capture, ptr, off, touches>>

Start(n) ==
  /\ nproc = n
  /\ cptr = 0
  /\ created = 0
  /\ joined = FALSE
  /\ state = [t \in Thread |-> "none"]
  /\ capture = [t \in Thread |-> 0]
  /\ ptr = [t \in Thread |-> 0] /\ off = [t \in Thread |-> 0]
  /\ touches = [p \in Page |-> 0]

Init == \E n \in Threads : Start(n)

(* run = sz / nproc; run = (run >> 12) << 12.                              *)
Run == ((Size \div nproc) \div PageSize) * PageSize

Aborted == \E t \in Thread : state[t] = "aborted"

Create ==
  /\ created < nproc /\ ~ Aborted
  /\ state' = [state EXCEPT ![created] = "created"]
  /\ capture' = [capture EXCEPT ![created] = cptr]
  /\ cptr' = cptr + Run
  /\ created' = created + 1
  /\ UNCHANGED <<nproc, joined, ptr, off, touches>>

(* Mutant of Begin: cptr captured by reference.                            *)
BeginShared(t) ==
  /\ state[t] = "created"
  /\ state' = [state EXCEPT ![t] = "touching"]
  /\ ptr' = [ptr EXCEPT ![t] = cptr]
  /\ UNCHANGED <<nproc, cptr, created, joined, capture, off, touches>>

(* pthread_setaffinity_np() may fail, for a CPU the process has not got;   *)
(* the assertion then ends the process with all its threads.               *)
Begin(t) ==
  /\ state[t] = "created"
  /\ \E bound \in BOOLEAN :
       state' = IF bound THEN [state EXCEPT ![t] = "touching"]
                ELSE [u \in Thread |-> IF state[u] = "none" THEN "none" ELSE "aborted"]
  /\ ptr' = [ptr EXCEPT ![t] = capture[t]]
  /\ UNCHANGED <<nproc, cptr, created, joined, capture, off, touches>>

Touch(t) ==
  /\ state[t] = "touching" /\ off[t] < Run
  /\ touches' = [touches EXCEPT ![ptr[t] \div PageSize] = @ + 1]
  /\ ptr' = [ptr EXCEPT ![t] = @ + PageSize]
  /\ off' = [off EXCEPT ![t] = @ + PageSize]
  /\ UNCHANGED <<nproc, cptr, created, joined, state, capture>>

Leave(t) ==
  /\ state[t] = "touching" /\ off[t] >= Run
  /\ state' = [state EXCEPT ![t] = "done"]
  /\ UNCHANGED <<nproc, cptr, created, joined, capture, ptr, off, touches>>

Join ==
  /\ created = nproc /\ \A t \in 0 .. nproc - 1 : state[t] = "done"
  /\ ~ joined
  /\ joined' = TRUE
  /\ UNCHANGED <<nproc, cptr, created, state, capture, ptr, off, touches>>

Finished == (joined \/ Aborted) /\ UNCHANGED vars

Next ==
  \/ Create \/ Join \/ Finished
  \/ \E t \in Thread : Begin(t) \/ Touch(t) \/ Leave(t)

SafeSpec == Init /\ [][Next]_vars

-----------------------------------------------------------------------------

(* No page is touched twice, however late the threads begin, and when the  *)
(* faults are counted all pages but fewer than there are threads have been *)
(* touched: those at the end that the rounding leaves out (l.38-50).       *)
Pages == Size \div PageSize
EachPageOnce ==
  /\ \A p \in Page : touches[p] <= 1
  /\ joined => \E n \in 0 .. Pages :
       /\ {p \in Page : touches[p] = 1} = 0 .. n - 1
       /\ Pages - n < nproc
=============================================================================

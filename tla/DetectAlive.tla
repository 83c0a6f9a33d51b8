---------------------------- MODULE DetectAlive ----------------------------
(***************************************************************************)
(* detectAlive.c: one thread scans an address range with non-blocking      *)
(* connects, at most Window of them in flight, and closes each as soon as  *)
(* epoll reports it.                                                       *)
(*                                                                         *)
(* Addresses are numbers in base Byte (256 in the program), three digits   *)
(* of which matter.  The kernel's side is external: whether a connect is   *)
(* accepted or fails, and which connections epoll reports when.            *)
(***************************************************************************)
EXTENDS Integers, FiniteSets

CONSTANTS Byte,     \* 256: the base of an address
          Jump,     \* 13: what is added to a broadcast address
          First,    \* 0x0a030000, the first address
          Hole,     \* 0x17: the network that is never called
          Window,   \* MAX_CONN_ONE
          Total,    \* total_n
          FdLimit,  \* descriptors the process may open
          MaxLeaks  \* bound on the connects that fail at once

ASSUME ByteAssumption == Byte \in Nat \ {0, 1, 2} /\ Jump \in 1 .. Byte - 1
ASSUME ScanAssumption == /\ First \in Nat /\ Hole \in Nat /\ Window \in Nat \ {0}
                         /\ Total \in Nat /\ MaxLeaks \in Nat
ASSUME FdAssumption == FdLimit \in Nat /\ FdLimit >= Window + MaxLeaks

MaxAddr == Hole * Byte * Byte   \* MAX_IP_ADDR
Fd == 0 .. FdLimit - 1

VARIABLES phase,   \* "start", "wait", "fill" or "exit"
          addr,    \* ipv4addr
          tried,   \* i, the first loop's counter
          nconn,   \* connects registered with epoll
          nclose,  \* descriptors closed
          fds,     \* per descriptor: "free", "epoll" or "leaked"
          called   \* the address of the last connect(), or None

vars == <<phase, addr, tried, nconn, nclose, fds, called>>

None == -1

Init ==
  /\ phase = "start"
  /\ addr = First
  /\ tried = 0
  /\ nconn = 0
  /\ nclose = 0
  /\ fds = [f \in Fd |-> "free"]
  /\ called = None

Digit(a, k) == (a \div k) % Byte

(* Mutant of Target: the two tests swapped.                                *)
TargetSwapped(a) ==
  LET b == IF Digit(a, Byte) = Byte - 1 THEN a + Byte ELSE a
  IN  IF Digit(b, 1) = Byte - 1 THEN b + Jump ELSE b

(* Past the broadcast address of a network, past the last network of a     *)
(* block.  The caller's ipv4addr is not changed.                           *)
Target(a) ==
  LET b == IF Digit(a, 1) = Byte - 1 THEN a + Jump ELSE a
  IN  IF Digit(b, Byte) = Byte - 1 THEN b + Byte ELSE b

InHole(a) == Digit(Target(a), Byte * Byte) = Hole % Byte

Free == {f \in Fd : fds[f] = "free"}
InState(s) == {f \in Fd : fds[f] = s}
Lowest(S) == CHOOSE f \in S : \A g \in S : f <= g

(* do_connect() with the descriptor it leaves: "epoll" if it returns 0,    *)
(* "leaked" if connect() or epoll_ctl() fails, which closes nothing.       *)
Opened(s) ==
  /\ ~ InHole(addr) /\ Free # {}
  /\ s = "leaked" => Cardinality(InState("leaked")) < MaxLeaks
  /\ fds' = [fds EXCEPT ![Lowest(Free)] = s]
  /\ nconn' = IF s = "epoll" THEN nconn + 1 ELSE nconn
  /\ called' = Target(addr)

(* It returns -1 with no descriptor: the hole, or no socket to be had.     *)
NotOpened ==
  /\ InHole(addr) \/ Free = {}
  /\ UNCHANGED <<fds, nconn, called>>

(* Mutant of DoConnect: a failed address is tried again.                   *)
DoConnectRetry ==
  \/ Opened("epoll") /\ addr' = addr + 1
  \/ Opened("leaked") /\ addr' = addr
  \/ NotOpened /\ addr' = addr

DoConnect ==
  /\ Opened("epoll") \/ Opened("leaked") \/ NotOpened
  /\ addr' = addr + 1

(* The first loop: Window calls, whatever they return.                     *)
Start ==
  /\ phase = "start" /\ tried < Window /\ nconn <= Total
  /\ DoConnect
  /\ tried' = tried + 1
  /\ UNCHANGED <<phase, nclose>>

Started ==
  /\ phase = "start" /\ (tried = Window \/ nconn > Total)
  /\ phase' = "wait"
  /\ UNCHANGED <<addr, tried, nconn, nclose, fds, called>>

(* The condition of the main loop.                                         *)
Goes == nconn < Total \/ nclose < nconn \/ addr < MaxAddr

(* Mutant of EpollWait: one descriptor of several reported is closed.      *)
EpollWaitOne(ready) ==
  /\ phase = "wait" /\ Goes
  /\ fds' = [f \in Fd |-> IF ready # {} /\ f = Lowest(ready) THEN "free" ELSE fds[f]]
  /\ nclose' = nclose + Cardinality(ready)
  /\ phase' = IF addr > MaxAddr THEN "wait" ELSE "fill"
  /\ UNCHANGED <<addr, tried, nconn, called>>

(* Mutant of EpollWait: the end of the range is tested before the closing. *)
EpollWaitSkip(ready) ==
  /\ phase = "wait" /\ Goes
  /\ \/ addr > MaxAddr /\ UNCHANGED <<fds, nclose, phase>>
     \/ /\ addr <= MaxAddr
        /\ fds' = [f \in Fd |-> IF f \in ready THEN "free" ELSE fds[f]]
        /\ nclose' = nclose + Cardinality(ready)
        /\ phase' = "fill"
  /\ UNCHANGED <<addr, tried, nconn, called>>

(* epoll_wait() reports some connections, or none by its timeout; each is  *)
(* closed, which also ends its registration.                               *)
EpollWait(ready) ==
  /\ phase = "wait" /\ Goes
  /\ fds' = [f \in Fd |-> IF f \in ready THEN "free" ELSE fds[f]]
  /\ nclose' = nclose + Cardinality(ready)
  /\ phase' = IF addr > MaxAddr THEN "wait" ELSE "fill"
  /\ UNCHANGED <<addr, tried, nconn, called>>

(* A failing epoll_wait(), a signal for one, ends the scan.                *)
Interrupted ==
  /\ phase = "wait" /\ Goes
  /\ phase' = "exit"
  /\ UNCHANGED <<addr, tried, nconn, nclose, fds, called>>

(* Mutant of HasRoom: one too many.                                        *)
HasRoomPlus == Window + nclose - nconn >= 0

HasRoom == Window + nclose - nconn > 0

(* The inner loop, which looks at the window and the total only, and runs  *)
(* on through the hole and past MaxAddr.                                   *)
Fill ==
  /\ phase = "fill" /\ HasRoom /\ nconn < Total
  /\ DoConnect
  /\ UNCHANGED <<phase, tried, nclose>>

Filled ==
  /\ phase = "fill" /\ ~ (HasRoom /\ nconn < Total)
  /\ phase' = "wait"
  /\ UNCHANGED <<addr, tried, nconn, nclose, fds, called>>

Return ==
  /\ phase = "wait" /\ ~ Goes
  /\ phase' = "exit"
  /\ UNCHANGED <<addr, tried, nconn, nclose, fds, called>>

Finished == phase = "exit" /\ UNCHANGED vars

Next ==
  \/ Start \/ Started \/ Fill \/ Filled \/ Interrupted \/ Return \/ Finished
  \/ \E ready \in SUBSET InState("epoll") : EpollWait(ready)

(* The program runs on; and every connection is answered, refused or timed *)
(* out in the end, so that an epoll_wait() reports it.                     *)
Fairness ==
  /\ WF_vars(Start \/ Started \/ Fill \/ Filled \/ Return)
  /\ \A f \in Fd : SF_vars(\E ready \in SUBSET InState("epoll") :
                             f \in ready /\ EpollWait(ready))
  /\ WF_vars(\E ready \in SUBSET InState("epoll") : EpollWait(ready))

SafeSpec == Init /\ [][Next]_vars
Spec == SafeSpec /\ Fairness

TypeOK ==
  /\ phase \in {"start", "wait", "fill", "exit"}
  /\ addr \in Nat
  /\ tried \in 0 .. Window
  /\ nconn \in Nat /\ nclose \in Nat
  /\ fds \in [Fd -> {"free", "epoll", "leaked"}]
  /\ called \in Nat \cup {None}

-----------------------------------------------------------------------------

(* The two counters tell how many descriptors epoll watches: none is       *)
(* closed twice, none is counted that was not registered.                  *)
CountsMatch == nconn - nclose = Cardinality(InState("epoll"))

(* Never more connections in flight than one epoll_wait() can report.      *)
WindowHeld == nconn - nclose <= Window

(* No connect() to a broadcast address or into the last network of a block *)
(* (last digits 255), also when one jump leads to the other, nor into the  *)
(* hole, also when a jump leads there.  Network addresses are called.      *)
NoBroadcast ==
  called # None => /\ Digit(called, 1) # Byte - 1
                   /\ Digit(called, Byte) # Byte - 1
                   /\ Digit(called, Byte * Byte) # Hole % Byte

(* The scan gets through: the wanted number of connects is made or the     *)
(* range is used up, if the descriptors last for a window and the leaks.   *)
ScanCompletes == <>(nconn >= Total \/ addr > MaxAddr \/ phase = "exit")

(* Every connection is closed in the end.                                  *)
EachIsClosed ==
  \A f \in Fd : fds[f] = "epoll" ~> (fds[f] = "free" \/ phase = "exit")
=============================================================================

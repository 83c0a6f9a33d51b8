------------------------------- MODULE MemOps -------------------------------
(***************************************************************************)
(* memOpsLat.c: three arrays are allocated, filled, given back with        *)
(* madvise(MADV_FREE) and freed, each step timed.  No result is looked at. *)
(* Sizes are in units of which a page has PageSize; an int is the ints     *)
(* below IntMax and from - IntMax on, page sizes among them.               *)
(***************************************************************************)
EXTENDS Integers

CONSTANTS PageSize, IntMax,
          TypeSize,     \* sizeof(STREAM_TYPE)
          ArraySizes,   \* what option -n may be, in elements
          MapThreshold  \* malloc() maps an array from this size on

(* What the program or its user sees to.                                   *)
Sizes ==
  /\ PageSize \in Nat \ {0} /\ TypeSize \in Nat \ {0}
  /\ IntMax \in Nat /\ PageSize < IntMax
  /\ ArraySizes \subseteq Nat \ {0}
  /\ MapThreshold \in Nat

VARIABLES n,        \* STREAM_ARRAY_SIZE
          forced,   \* hugepage_forced
          knows,    \* the kernel has MADV_FREE, which l.15-17 define for old ones
          origin,   \* per array: "none", "huge", "map" or "heap"
          pages,    \* per array and page: "fresh", "dirty", "lazy" or "gone"
          at,       \* "alloc", "fill", "advise", "free", "end" or "crash"
          which     \* the array that is next

vars == <<n, forced, knows, origin, pages, at, which>>

Bytes == TypeSize * n
Last(bytes) == (bytes - 1) \div PageSize
Page == 0 .. Last(Bytes)

Start(size, huge, new) ==
  /\ n = size /\ forced = huge /\ knows = new
  /\ origin = [k \in 1 .. 3 |-> "none"]
  /\ pages = [k \in 1 .. 3 |-> [p \in Page |-> "fresh"]]
  /\ at = "alloc" /\ which = 1

Init == \E size \in ArraySizes, huge \in BOOLEAN, new \in BOOLEAN :
          Start(size, huge, new)

Then(stage, following) ==
  IF which < 3 THEN which' = which + 1 /\ at' = stage
               ELSE which' = 1 /\ at' = following

(* alloc_memory(): huge pages if they are asked for and to be had, else    *)
(* posix_memalign(), which ends the program if it fails.                   *)
HugePage ==
  /\ at = "alloc" /\ forced
  /\ origin' = [origin EXCEPT ![which] = "huge"]
  /\ Then("alloc", "fill")
  /\ UNCHANGED <<n, forced, knows, pages>>

NormalPage ==
  /\ at = "alloc"
  /\ origin' = [origin EXCEPT ![which] =
                  IF Bytes >= MapThreshold THEN "map" ELSE "heap"]
  /\ Then("alloc", "fill")
  /\ UNCHANGED <<n, forced, knows, pages>>

NoMemory ==
  /\ at = "alloc"
  /\ at' = "end"
  /\ UNCHANGED <<n, forced, knows, origin, pages, which>>

Fill ==
  /\ at = "fill"
  /\ pages' = [k \in 1 .. 3 |-> [p \in Page |-> "dirty"]]
  /\ at' = "advise"
  /\ UNCHANGED <<n, forced, knows, origin, which>>

(* Mutant of len: the number of elements.                                  *)
LenOfElements == ((n + IntMax) % (2 * IntMax)) - IntMax

(* int len: 64 bits cut down to an int.                                    *)
len == ((Bytes + IntMax) % (2 * IntMax)) - IntMax

(* The kernel refuses an advice it does not know, mappings that are not    *)
(* private and a negative len, which is a size beyond the address space.   *)
Refused == ~ knows \/ origin[which] = "huge" \/ len <= 0

(* It rounds len up to pages.  The result of madvise() is not looked at.   *)
Advise ==
  /\ at = "advise"
  /\ pages' = IF Refused THEN pages
              ELSE [pages EXCEPT ![which] =
                      [p \in Page |-> IF p <= Last(len) THEN "lazy" ELSE @[p]]]
  /\ Then("advise", "free")
  /\ UNCHANGED <<n, forced, knows, origin>>

(* External: the kernel takes a page given back, at any time.              *)
Reclaim(k, p) ==
  /\ origin[k] # "none" /\ pages[k][p] = "lazy"
  /\ pages' = [pages EXCEPT ![k][p] = "gone"]
  /\ UNCHANGED <<n, forced, knows, origin, at, which>>

(* External: malloc() keeps the size of what lies behind a heap array on   *)
(* the array's last page, if that page is not all the array's.  free()     *)
(* reads it, and its own, which lies on the last page of the array before. *)
HeaderGone(k) ==
  /\ origin[k] = "heap" /\ Bytes % PageSize # 0
  /\ pages[k][Last(Bytes)] = "gone"

Broken ==
  \/ origin[which] = "huge"
  \/ HeaderGone(which)
  \/ which > 1 /\ HeaderGone(which - 1)

(* A mapping is gone with its array; the heap stays.                       *)
Free ==
  /\ at = "free" /\ ~ Broken
  /\ origin' = [origin EXCEPT ![which] = IF @ = "map" THEN "none" ELSE @]
  /\ Then("free", "end")
  /\ UNCHANGED <<n, forced, knows, pages>>

(* free() of what malloc() has not returned, or of a broken heap.          *)
Crash ==
  /\ at = "free" /\ Broken
  /\ at' = "crash"
  /\ UNCHANGED <<n, forced, knows, origin, pages, which>>

Finished == at \in {"end", "crash"} /\ UNCHANGED vars

Next ==
  \/ HugePage \/ NormalPage \/ NoMemory \/ Fill \/ Advise \/ Free \/ Crash
  \/ Finished
  \/ \E k \in 1 .. 3 : \E p \in Page : Reclaim(k, p)

SafeSpec == Init /\ [][Next]_vars

-----------------------------------------------------------------------------

GivenBack(k) == \A p \in Page : pages[k][p] \in {"lazy", "gone"}

(* The time of a free() is of pages that have all been given back before   *)
(* exactly if the kernel has MADV_FREE, the array is not on huge pages and *)
(* its size is an int (l.156-191).  It is the time of a free() at all if   *)
(* the array is not on huge pages; and that breaks off only there, or      *)
(* where heap bookkeeping has been given back with a last page that is not *)
(* all the array's (l.196-207).                                            *)
PagesGivenBack ==
  /\ at = "free" =>
       /\ \A k \in which .. 3 :
            GivenBack(k) <=> knows /\ origin[k] # "huge" /\ Bytes < IntMax
       /\ \A k \in 1 .. which - 1 : origin[k] # "huge"
  /\ at = "crash" =>
       \/ origin[which] = "huge"
       \/ /\ knows /\ Bytes < IntMax
          /\ Bytes < MapThreshold /\ Bytes % PageSize # 0
=============================================================================

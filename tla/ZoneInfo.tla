------------------------------ MODULE ZoneInfo ------------------------------
(***************************************************************************)
(* coreProcess() of getMemoryInfo.c and getAvaiFreeMem.c: /proc/zoneinfo   *)
(* is read line by line in three nested loops that share the file.  A line *)
(* is what the code looks for in it, and its number is the zone (of a      *)
(* node) it belongs to; "node" stands for the node's own statistics.       *)
(***************************************************************************)
EXTENDS Integers, Sequences

CONSTANTS Nodes  \* how many memory nodes there are

Sizes == Nodes \in Nat \ {0}

Node == 1 .. Nodes
Zone == {"DMA", "Normal", "Movable"}

(***************************************************************************)
(* External: the file as the kernel writes it.  `populated` says which     *)
(* zones have memory.  Before 4.9 only those are listed, each with         *)
(* nr_inactive_file; later all are, with nr_zone_inactive_file if they     *)
(* have memory, and the first of a node that has any begins with the       *)
(* node's own statistics.  Newer kernels put a line between "pages free"   *)
(* and "min".                                                              *)
(***************************************************************************)
Line(kind, node, zone) == [kind |-> kind, node |-> node, zone |-> zone]
Listed == <<"DMA", "Normal", "Movable">>
FirstOf(populated, node) ==
  SelectSeq(Listed, LAMBDA z : <<node, z>> \in populated)

OldZone(populated, node, zone) ==
  IF <<node, zone>> \notin populated THEN <<>> ELSE
    << Line("zone", node, zone), Line("free", node, zone),
       Line("min", node, zone), Line("low", node, zone),
       Line("nr_inactive_file", node, zone) >>

NewZone(boost, populated, node, zone) ==
  << Line("zone", node, zone) >>
  \o (IF <<node, zone>> \in populated /\ FirstOf(populated, node)[1] = zone
        THEN << Line("nr_inactive_file", node, "node") >> ELSE <<>>)
  \o << Line("free", node, zone) >>
  \o (IF boost THEN << Line("boost", node, zone) >> ELSE <<>>)
  \o << Line("min", node, zone), Line("low", node, zone) >>
  \o (IF <<node, zone>> \in populated
        THEN << Line("nr_zone_inactive_file", node, zone) >> ELSE <<>>)

ZoneOf(layout, populated, node, zone) ==
  CASE layout = "old" -> OldZone(populated, node, zone)
    [] layout = "new" -> NewZone(FALSE, populated, node, zone)
    [] layout = "boost" -> NewZone(TRUE, populated, node, zone)

(* The lines of a node, before those of other nodes.                       *)
NodeBefore(layout, populated, node, others) ==
  ZoneOf(layout, populated, node, "DMA")
  \o (ZoneOf(layout, populated, node, "Normal")
      \o (ZoneOf(layout, populated, node, "Movable") \o others))

(* The lines of the last n nodes, for every n.                             *)
LastNodes(layout, populated) ==
  LET last[n \in 0 .. Nodes] ==
        IF n = 0 THEN <<>>
        ELSE NodeBefore(layout, populated, Nodes - n + 1, last[n - 1])
  IN  last

FileOf(layout, populated) == LastNodes(layout, populated)[Nodes]

VARIABLES populated,  \* the zones with memory, as <<node, zone>>
          rest,       \* lines not read yet
          at,         \* the loop that reads: "outer", "inner" or "sub"
          zoneid,
          free, low, inactive,  \* the zone each value is from; None if none is
          cnt_got, sub,
          printed     \* the lines printed

vars == <<populated, rest, at, zoneid, free, low, inactive, cnt_got, sub, printed>>

None == <<0, "none">>
From(l) == <<l.node, l.zone>>

Start(layout, p) ==
  /\ populated = p
  /\ rest = FileOf(layout, p)
  /\ at = "outer"
  /\ zoneid = 0
  /\ free = None /\ low = None /\ inactive = None
  /\ cnt_got = 0 /\ sub = 0
  /\ printed = <<>>

Init == \E layout \in {"old", "new", "boost"}, p \in SUBSET (Node \X Zone) :
          Start(layout, p)

Reads(loop) == at = loop /\ rest # <<>>
l == Head(rest)

(* A line that is not the head of a Normal zone.                           *)
Pass ==
  /\ Reads("outer")
  /\ ~ (l.kind = "zone" /\ l.zone = "Normal")
  /\ rest' = Tail(rest)
  /\ UNCHANGED <<populated, at, zoneid, free, low, inactive, cnt_got, sub, printed>>

Enter ==
  /\ Reads("outer")
  /\ l.kind = "zone" /\ l.zone = "Normal"
  /\ zoneid' = l.node
  /\ free' = None /\ low' = None /\ inactive' = None
  /\ cnt_got' = 0
  /\ at' = "inner"
  /\ rest' = Tail(rest)
  /\ UNCHANGED <<populated, sub, printed>>

(* The end of a round: with two values the zone is printed and left.       *)
PrintIfBoth ==
  IF cnt_got' = 2
    THEN /\ printed' = Append(printed, [node |-> zoneid, free |-> free',
                                        low |-> low', inactive |-> inactive'])
         /\ at' = "outer"
    ELSE at' = "inner" /\ UNCHANGED printed

(* The first nr_zone_inactive_file or nr_inactive_file counts.             *)
Inactive ==
  /\ Reads("inner")
  /\ l.kind \in {"nr_zone_inactive_file", "nr_inactive_file"}
  /\ IF inactive = None THEN inactive' = From(l) /\ cnt_got' = cnt_got + 1
                        ELSE UNCHANGED <<inactive, cnt_got>>
  /\ UNCHANGED <<free, low>>
  /\ PrintIfBoth
  /\ rest' = Tail(rest)
  /\ UNCHANGED <<populated, zoneid, sub>>

Free ==
  /\ Reads("inner") /\ l.kind = "free"
  /\ free' = From(l)
  /\ sub' = 0
  /\ at' = "sub"
  /\ rest' = Tail(rest)
  /\ UNCHANGED <<populated, zoneid, low, inactive, cnt_got, printed>>

Ignore ==
  /\ Reads("inner")
  /\ l.kind \notin {"nr_zone_inactive_file", "nr_inactive_file", "free"}
  /\ rest' = Tail(rest)
  /\ UNCHANGED <<populated, at, zoneid, free, low, inactive, cnt_got, sub, printed>>

(* Mutant of Within: `sub < 2`.                                            *)
WithinTwo == 2

(* "expected low within the first 3 lines followed"                        *)
Within == 3

Low ==
  /\ Reads("sub") /\ l.kind = "low"
  /\ low' = From(l)
  /\ cnt_got' = cnt_got + 1
  /\ UNCHANGED <<free, inactive>>
  /\ PrintIfBoth
  /\ rest' = Tail(rest)
  /\ UNCHANGED <<populated, zoneid, sub>>

NotLow ==
  /\ Reads("sub") /\ l.kind # "low"
  /\ sub' = sub + 1
  /\ at' = IF sub' < Within THEN "sub" ELSE "inner"
  /\ rest' = Tail(rest)
  /\ UNCHANGED <<populated, zoneid, free, low, inactive, cnt_got, printed>>

Finished == rest = <<>> /\ UNCHANGED vars

Next ==
  \/ Pass \/ Enter \/ Inactive \/ Free \/ Ignore \/ Low \/ NotLow \/ Finished

SafeSpec == Init /\ [][Next]_vars

-----------------------------------------------------------------------------

(* A line tells a node's own Normal zone; or, only if that has no memory,  *)
(* the free pages of the node's Movable zone and no inactive ones.         *)
Tells(r) ==
  /\ r.node \in Node /\ r.low = r.free
  /\ \/ /\ r.free = <<r.node, "Normal">>
        /\ r.inactive \in {<<r.node, "Normal">>, <<r.node, "node">>}
     \/ /\ r.free = <<r.node, "Movable">> /\ r.inactive = None
        /\ <<r.node, "Normal">> \notin populated

(* On old and new kernels, whichever zones have memory: no line mixes two  *)
(* nodes, the nodes come in order and none twice, and at the end of the    *)
(* file every node whose Normal zone has memory has been printed, with     *)
(* free, low and inactive pages of its own (l.29-115).                     *)
NodesGetTheirOwn ==
  /\ \A k \in DOMAIN printed : Tells(printed[k])
  /\ \A j, k \in DOMAIN printed : j < k => printed[j].node < printed[k].node
  /\ rest = <<>> => \A n \in Node : <<n, "Normal">> \in populated =>
       \E k \in DOMAIN printed : printed[k].node = n
=============================================================================

------------------------------ MODULE CoreLat ------------------------------
(***************************************************************************)
(* The two latency programs of core_lat side by side.  They have the same  *)
(* state and the same parallel regions; `program` says which one runs.     *)
(***************************************************************************)
EXTENDS NoLock

VARIABLE program  \* "no_lock" or "cas_lock"

Swap == INSTANCE CasLock

CoreInit ==
  /\ program \in {"no_lock", "cas_lock"}
  /\ Init

StepOf(t) ==
  /\ \/ program = "no_lock" /\ ThreadStep(t)
     \/ program = "cas_lock" /\ Swap!ThreadStep(t)
  /\ UNCHANGED program

ForkTeam == Fork /\ UNCHANGED program
JoinTeam == Join /\ UNCHANGED program

CoreNext ==
  \/ \E t \in Thread : StepOf(t)
  \/ ForkTeam
  \/ JoinTeam
  \/ Finished /\ UNCHANGED program

coreVars == <<program, vars>>

(* OpenMP threads are kernel threads: each one that can step gets to.      *)
Fairness ==
  /\ \A t \in Thread : WF_coreVars(StepOf(t))
  /\ WF_coreVars(ForkTeam)
  /\ WF_coreVars(JoinTeam)

CoreSpec == CoreInit /\ [][CoreNext]_coreVars /\ Fairness
=============================================================================

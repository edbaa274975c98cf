------------------------------ MODULE HookRuns ------------------------------
(***************************************************************************)
(* What the uploads of a release are promised of their post-upload hooks:  *)
(* each runs once, no two of one release run at the same time, and one     *)
(* that was queued before another came runs before it.                     *)
(***************************************************************************)
CONSTANT Jobs

VARIABLES
  stage,      \* of each hook: not given, given, running, done
  first,      \* the hooks that were queued when it was given
  queued      \* hooks whose upload is through with queueing them

vars == <<stage, first, queued>>

Init ==
  /\ stage = [j \in Jobs |-> "no"]
  /\ first = [j \in Jobs |-> {}]
  /\ queued = {}

Give(j) ==
  /\ stage[j] = "no"
  /\ stage' = [stage EXCEPT ![j] = "given"]
  /\ first' = [first EXCEPT ![j] = queued]
  /\ UNCHANGED queued

Queued(j) ==
  /\ stage[j] # "no"
  /\ queued' = queued \cup {j}
  /\ UNCHANGED <<stage, first>>

Run(j) ==
  /\ stage[j] = "given"
  /\ \A k \in Jobs : stage[k] # "running"
  /\ \A k \in first[j] : stage[k] = "done"
  /\ stage' = [stage EXCEPT ![j] = "running"]
  /\ UNCHANGED <<first, queued>>

Finish(j) ==
  /\ stage[j] = "running"
  /\ stage' = [stage EXCEPT ![j] = "done"]
  /\ UNCHANGED <<first, queued>>

Next == \E j \in Jobs : Give(j) \/ Queued(j) \/ Run(j) \/ Finish(j)

Spec == Init /\ [][Next]_vars
=============================================================================

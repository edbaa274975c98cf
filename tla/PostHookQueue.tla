--------------------------- MODULE PostHookQueue ---------------------------
(***************************************************************************)
(* The post-upload hooks of one release: enqueueReleasePostHook in the     *)
(* goroutine of each upload, a channel of bounded size, and a goroutine    *)
(* that runs the hooks one by one and ends when it has been idle.          *)
(*                                                                         *)
(* A queue that is made anew has the name of the upload that made it.      *)
(***************************************************************************)
EXTENDS Naturals, Sequences, FiniteSets

CONSTANTS
  Jobs,       \* the uploads, each with its hook
  Buffer,     \* capacity of the channel: 128
  None        \* no queue, no hook

ASSUME QueueAssumption == None \notin Jobs /\ Buffer \in Nat \ {0}

VARIABLES
  entry,      \* releasePostHookQueues[key]
  tasks,      \* the channel of each queue
  pending,    \* its enqueues in flight
  runner,     \* its goroutine: none, idle, busy, over
  running,    \* the hook that its goroutine runs
  at, to,     \* where the enqueue of each upload is, and the queue it has
  done,       \* hooks that have run
  first       \* history: the hooks that were queued when it was given

queueVars == <<entry, tasks, pending, runner, running, at, to, done, first>>

QueueTypeOK ==
  /\ entry \in Jobs \cup {None}
  /\ tasks \in [Jobs -> Seq(Jobs)]
  /\ pending \in [Jobs -> Nat]
  /\ runner \in [Jobs -> {"none", "idle", "busy", "over"}]
  /\ running \in [Jobs -> Jobs \cup {None}]
  /\ at \in [Jobs -> {"no", "reserved", "sent", "returned"}]
  /\ to \in [Jobs -> Jobs \cup {None}]
  /\ done \subseteq Jobs
  /\ first \in [Jobs -> SUBSET Jobs]

QueueInit ==
  /\ entry = None
  /\ tasks = [q \in Jobs |-> <<>>]
  /\ pending = [q \in Jobs |-> 0]
  /\ runner = [q \in Jobs |-> "none"]
  /\ running = [q \in Jobs |-> None]
  /\ at = [j \in Jobs |-> "no"]
  /\ to = [j \in Jobs |-> None]
  /\ done = {}
  /\ first = [j \in Jobs |-> {}]

(***************************************************************************)
(* enqueueReleasePostHook.                                                 *)
(***************************************************************************)

Queued == {j \in Jobs : at[j] = "returned"}

\* Mutant: the slot is not reserved.
ReserveNothing(j) ==
  /\ at[j] = "no"
  /\ LET q == IF entry = None THEN j ELSE entry IN
     /\ entry' = q
     /\ to' = [to EXCEPT ![j] = q]
     /\ runner' = IF entry = None THEN [runner EXCEPT ![q] = "idle"] ELSE runner
  /\ at' = [at EXCEPT ![j] = "reserved"]
  /\ first' = [first EXCEPT ![j] = Queued]
  /\ UNCHANGED <<tasks, pending, running, done>>

\* Under the lock: the release's queue, a new one with its goroutine if there is
\* none, and a slot in it.
Reserve(j) ==
  /\ at[j] = "no"
  /\ LET q == IF entry = None THEN j ELSE entry IN
     /\ entry' = q
     /\ to' = [to EXCEPT ![j] = q]
     /\ pending' = [pending EXCEPT ![q] = @ + 1]
     /\ runner' = IF entry = None THEN [runner EXCEPT ![q] = "idle"] ELSE runner
  /\ at' = [at EXCEPT ![j] = "reserved"]
  /\ first' = [first EXCEPT ![j] = Queued]
  /\ UNCHANGED <<tasks, running, done>>

Send(j) ==              \* it blocks while the channel is full
  /\ at[j] = "reserved" /\ Len(tasks[to[j]]) < Buffer
  /\ tasks' = [tasks EXCEPT ![to[j]] = Append(@, j)]
  /\ at' = [at EXCEPT ![j] = "sent"]
  /\ UNCHANGED <<entry, pending, runner, running, to, done, first>>

GiveBack(j) ==
  /\ at[j] = "sent"
  /\ pending' = [pending EXCEPT ![to[j]] = @ - 1]
  /\ at' = [at EXCEPT ![j] = "returned"]
  /\ UNCHANGED <<entry, tasks, runner, running, to, done, first>>

(***************************************************************************)
(* runReleasePostHookQueue.                                                *)
(***************************************************************************)

\* Mutant: a goroutine for each hook.
TakeAtOnce(q) ==
  /\ runner[q] \in {"idle", "busy"} /\ tasks[q] # <<>>
  /\ running' = [running EXCEPT ![q] = Head(tasks[q])]
  /\ tasks' = [tasks EXCEPT ![q] = Tail(@)]
  /\ runner' = [runner EXCEPT ![q] = "busy"]
  /\ UNCHANGED <<entry, pending, at, to, done, first>>

Take(q) ==
  /\ runner[q] = "idle" /\ tasks[q] # <<>>
  /\ running' = [running EXCEPT ![q] = Head(tasks[q])]
  /\ tasks' = [tasks EXCEPT ![q] = Tail(@)]
  /\ runner' = [runner EXCEPT ![q] = "busy"]
  /\ UNCHANGED <<entry, pending, at, to, done, first>>

TaskEnds(q) ==
  /\ runner[q] = "busy"
  /\ done' = done \cup {running[q]}
  /\ running' = [running EXCEPT ![q] = None]
  /\ runner' = [runner EXCEPT ![q] = "idle"]
  /\ UNCHANGED <<entry, tasks, pending, at, to, first>>

\* The idle timer, which the select may choose before a task that is there.
\* When the queue is not empty under the lock, it is set again.
Idle(q) ==
  /\ runner[q] = "idle"
  /\ entry = q /\ tasks[q] = <<>> /\ pending[q] = 0
  /\ entry' = None
  /\ runner' = [runner EXCEPT ![q] = "over"]
  /\ UNCHANGED <<tasks, pending, running, at, to, done, first>>

(***************************************************************************)
(* The queue by itself: the uploads come when they like.                   *)
(***************************************************************************)

EnqueueStep(j) == Reserve(j) \/ Send(j) \/ GiveBack(j)
RunnerStep(q) == Take(q) \/ TaskEnds(q) \/ Idle(q)

QueueNext == \E j \in Jobs : EnqueueStep(j) \/ RunnerStep(j)

QueueSpec == QueueInit /\ [][QueueNext]_queueVars

(***************************************************************************)
(* Properties.                                                             *)
(***************************************************************************)

\* commands.go:2601 "it cannot delete the queue and exit between our lookup and
\* our send -- which would otherwise drop the task": a hook that is in a queue, or
\* about to be, is in the queue that the release has and whose goroutine runs.
NoTaskOrphaned ==
  \A j \in Jobs :
    at[j] # "no" /\ j \notin done => to[j] = entry /\ runner[entry] \in {"idle", "busy"}

\* The hooks of a release run one at a time and once, and in the order of their
\* uploads: one whose upload had been answered before another came is done before
\* that one starts, whatever queues and goroutines have come and gone between them.
Stage(j) ==
  CASE at[j] = "no" -> "no"
    [] j \in done -> "done"
    [] \E q \in Jobs : running[q] = j -> "running"
    [] OTHER -> "given"

Runs == INSTANCE HookRuns WITH stage <- [j \in Jobs |-> Stage(j)], queued <- Queued
HooksRun == Runs!Spec
=============================================================================

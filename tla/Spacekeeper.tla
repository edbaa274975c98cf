----------------------------- MODULE Spacekeeper ----------------------------
(***************************************************************************)
(* The spacekeeper plugin (plugins/spacekeeper/handler.go): a loop applies *)
(* its rules one after the other, deletes old releases of a slave that     *)
(* runs full or starts jobs that move them to an archive slave, and jobs   *)
(* go on while the loop evaluates again.                                   *)
(*                                                                         *)
(* How full a slave is, and which of the releases is the oldest, is left   *)
(* open: a rule may find enough space at any time, and take any release it *)
(* may take.  After 15 minutes pruneInflight forgets a mark, whether its   *)
(* job has ended or not.                                                   *)
(***************************************************************************)
EXTENDS SiteTree

CONSTANTS Keeper,  \* the loop
          Job      \* the goroutines it starts, at most
ASSUME {Keeper} \cup Job \subseteq Caller

VARIABLES keeper,    \* the loop: where it is, its snapshot of transfers, the rules left
          inflight,  \* releases it has marked
          jobs,      \* what the jobs do
          lapsed     \* history: releases whose mark was forgotten while they were worked on
keeperVars == <<keeper, inflight, jobs, lapsed>>

Resting == [at |-> "resting", snap |-> {}, rules |-> <<>>, n |-> 0, path |-> <<>>]
NoJob == [at |-> "none", from |-> <<>>, to |-> <<>>, dst |-> None, victims |-> {}]
KeeperInit == keeper = Resting /\ inflight = {} /\ jobs = [j \in Job |-> NoJob] /\ lapsed = {}

At1(c) == keeper.at = c /\ "keeper" \in may.who
Running == {j \in Job : jobs[j].at # "none"}
\* The releases that a job moves or the loop deletes.
Held == {jobs[j].from : j \in Running} \cup (IF keeper.at = "deleting" THEN {keeper.path} ELSE {})
Lapses(more) == lapsed' = (lapsed \cup more) \cap Held'
Transfers == {u.path : u \in uploads}

\* Mutant: a release that is being worked on is a candidate as well.
EligibleAgain(d, s, snap) ==
  /\ index[d] # None
  /\ \A p \in snap : ~IsPrefix(d, p)
  /\ \E p \in Under[d] \ DirPath : index[p] = s

\* evaluateCandidate: not marked, no transfer of the snapshot below it, bytes on the slave.
Eligible(d, s, snap) ==
  /\ d \notin inflight /\ index[d] # None
  /\ \A p \in snap : ~IsPrefix(d, p)
  /\ \E p \in Under[d] \ DirPath : index[p] = s
Candidates(rule, snap) ==
  {d \in rule.dirs : Eligible(d, rule.slave, snap) /\ (rule.action = "archive" => index[rule.to[d]] = None)}

\* chooseArchiveTarget: a slave with space for it, or one where victims can make it.
Targets(rule, snap) ==
  {t \in [dst : rule.targets, victims : {{}} \cup {{rule.to[d]} : d \in rule.dirs}] :
     \A v \in t.victims : Eligible(v, t.dst, snap)}

-----------------------------------------------------------------------------
(* The loop.                                                               *)

\* One snapshot serves all rules; any mark may be old, in settings with "long" those of
\* jobs that run too.
Evaluate ==
  /\ At1("resting")
  /\ keeper' = [Resting EXCEPT !.at = "rules", !.snap = Transfers, !.rules = may.rules]
  /\ \E old \in SUBSET inflight :
       /\ old \cap Held # {} => "long" \in may.faults
       /\ inflight' = inflight \ old /\ UNCHANGED jobs /\ Lapses(old)
  /\ UNCHANGED treeVars

NextRule(k) == [k EXCEPT !.rules = Tail(@), !.n = 0, !.at = IF Len(k.rules) = 1 THEN "resting" ELSE "rules"]

\* Enough space, nothing eligible, or enough done.
RuleEnds ==
  /\ At1("rules") /\ keeper' = NextRule(keeper)
  /\ UNCHANGED <<inflight, jobs, lapsed, treeVars>>

\* What is taken a second time may be lost between the two.
Takes(action, d) ==
  LET rule == Head(keeper.rules) IN
  /\ At1("rules") /\ rule.action = action /\ keeper.n < rule.max
  /\ d \in Candidates(rule, keeper.snap)
  /\ inflight' = inflight \cup {d}
  /\ astray' = astray \cup (IF d \in Held THEN Named(Indexed(d)) ELSE {})

\* applyDeleteRule.
DeleteOldest(d) ==
  /\ Takes("delete", d) /\ BeginDelete(Keeper, d)
  /\ keeper' = [keeper EXCEPT !.at = "deleting", !.path = d]
  /\ UNCHANGED <<jobs, lapsed, disk, index, uploads, owed, may>>

\* The mark of what was deleted stays until it is old; an error ends the rule.
OldestDeleted ==
  /\ At1("deleting") /\ Collect(Keeper)
  /\ IF op[Keeper].at = "ok"
     THEN keeper' = [keeper EXCEPT !.at = "rules", !.n = @ + 1] /\ UNCHANGED inflight
     ELSE keeper' = NextRule(keeper) /\ inflight' = inflight \ {keeper.path}
  /\ UNCHANGED jobs /\ Lapses({})
  /\ UNCHANGED <<disk, index, uploads, owed, astray, may>>

\* applyArchiveRule, startArchiveJob: the target is chosen before the job begins to run.
ArchiveOldest(d, j) ==
  LET rule == Head(keeper.rules) IN
  /\ Takes("archive", d) /\ Cardinality(Running) < rule.max /\ j \notin Running
  /\ \E t \in Targets(rule, Transfers) :
       jobs' = [jobs EXCEPT ![j] = [at |-> "started", from |-> d, to |-> rule.to[d],
                                    dst |-> t.dst, victims |-> t.victims]]
  /\ keeper' = [keeper EXCEPT !.n = @ + 1]
  /\ UNCHANGED <<lapsed, disk, index, op, uploads, owed, may>>

-----------------------------------------------------------------------------
(* A job: first it deletes the victims, then it moves the release.         *)

\* The mark goes by its path, whoever has set it.
JobEnds(j) ==
  /\ jobs' = [jobs EXCEPT ![j] = NoJob] /\ inflight' = inflight \ {jobs[j].from}
  /\ UNCHANGED keeper /\ Lapses({})
JobBegins(j) ==
  /\ jobs[j].at = "started"
  /\ IF jobs[j].victims = {}
     THEN BeginRelocate(j, jobs[j].from, jobs[j].to, jobs[j].dst) /\ jobs' = [jobs EXCEPT ![j].at = "moving"]
     ELSE \E v \in jobs[j].victims :
            BeginDelete(j, v) /\ jobs' = [jobs EXCEPT ![j].at = "freeing", ![j].victims = @ \ {v}]
  /\ UNCHANGED <<keeper, inflight, lapsed, disk, index, uploads, owed, astray, may>>
VictimDeleted(j) ==
  /\ jobs[j].at = "freeing" /\ Collect(j)
  /\ IF op[j].at = "ok" THEN jobs' = [jobs EXCEPT ![j].at = "started"] /\ UNCHANGED <<keeper, inflight, lapsed>>
                       ELSE JobEnds(j)
  /\ UNCHANGED <<disk, index, uploads, owed, astray, may>>
Archived(j) ==
  /\ jobs[j].at = "moving" /\ Collect(j) /\ JobEnds(j)
  /\ UNCHANGED <<disk, index, uploads, owed, astray, may>>

KeeperNext ==
  \/ Evaluate \/ RuleEnds \/ OldestDeleted
  \/ \E d \in DirPath : DeleteOldest(d) \/ \E j \in Job : ArchiveOldest(d, j)
  \/ \E j \in Job : JobBegins(j) \/ VictimDeleted(j) \/ Archived(j)

KeeperTypeOK ==
  /\ keeper.at \in {"resting", "rules", "deleting"} /\ keeper.snap \subseteq Path
  /\ keeper.path \in Path \cup {<<>>} /\ inflight \subseteq DirPath
  /\ lapsed \subseteq DirPath
  /\ \A j \in Job : jobs[j].at \in {"none", "started", "freeing", "moving"} /\ jobs[j].victims \subseteq DirPath

\* A release is in the hands of one job or of the loop, never of two of them, however
\* often the loop evaluates while jobs run: each would delete what the other moves
\* (markInflight, evaluateCandidate; handler.go:501).  The code gives this up for a
\* release whose mark grew 15 minutes old while it was worked on (pruneInflight), until
\* nobody works on it any more.
TakenOnce ==
  \A j \in Running : jobs[j].from \notin lapsed =>
    /\ \A i \in Running \ {j} : jobs[i].from # jobs[j].from
    /\ keeper.at = "deleting" => keeper.path # jobs[j].from
=============================================================================

------------------------- MODULE SitePluginsProofs -------------------------
(***************************************************************************)
(* For any tree, rules, requests and number of jobs: the spacekeeper has a *)
(* release in the hands of one job or of its loop, unless its mark was     *)
(* forgotten while it was worked on.  The argument is that whatever is at  *)
(* work is marked or has lapsed, and that what has lapsed stays so until   *)
(* nobody works on it, although the end of a job takes away the mark of    *)
(* its path whoever has set it.                                            *)
(***************************************************************************)
EXTENDS SitePlugins, TLAPS

-----------------------------------------------------------------------------
(* The inductive invariant.                                                *)

\* The records of the loop and of a job have their fields.
IsKeeper(k) ==
  k \in [at : {k.at}, snap : {k.snap}, rules : {k.rules}, n : {k.n}, path : {k.path}]
IsJob(x) ==
  x \in [at : {x.at}, from : {x.from}, to : {x.to}, dst : {x.dst}, victims : {x.victims}]
Shaped ==
  /\ IsKeeper(keeper)
  /\ DOMAIN jobs = Job /\ jobs = [j \in Job |-> jobs[j]]
  /\ \A j \in Job : IsJob(jobs[j])

\* What a job moves or the loop deletes is marked, or its mark was forgotten meanwhile.
Marked ==
  /\ \A j \in Running : jobs[j].from \in inflight \cup lapsed
  /\ keeper.at = "deleting" => keeper.path \in inflight \cup lapsed

KeeperInv == Shaped /\ Marked /\ TakenOnce

-----------------------------------------------------------------------------
(* Steps.                                                                  *)

\* What the updates of the loop's record leave.
LEMMA KeeperFields ==
  ASSUME NEW k, IsKeeper(k), NEW n
  PROVE  IsKeeper([k EXCEPT !.n = n]) /\ [k EXCEPT !.n = n].at = k.at
  BY DEF IsKeeper

\* The next rule, or the end of the evaluation.
LEMMA NextRuleFields ==
  ASSUME NEW k, IsKeeper(k)
  PROVE  IsKeeper(NextRule(k)) /\ NextRule(k).at \in {"resting", "rules"}
<1>1. PICK e : e = (IF Len(k.rules) = 1 THEN "resting" ELSE "rules")
  OBVIOUS
<1>2. PICK r : r = Tail(k.rules)
  OBVIOUS
<1>3. NextRule(k) = [k EXCEPT !.rules = r, !.n = 0, !.at = e]
  BY <1>1, <1>2 DEF NextRule
<1>4. e \in {"resting", "rules"}
  BY <1>1
<1> QED
  BY <1>3, <1>4 DEF IsKeeper

\* What the updates of a job's record leave.
LEMMA JobFields ==
  ASSUME NEW x, IsJob(x), NEW at, NEW v
  PROVE  /\ IsJob([x EXCEPT !.at = at]) /\ [x EXCEPT !.at = at].from = x.from
         /\ IsJob([x EXCEPT !.at = at, !.victims = v]) /\ [x EXCEPT !.at = at, !.victims = v].from = x.from
         /\ [x EXCEPT !.at = at].at = at /\ [x EXCEPT !.at = at, !.victims = v].at = at
  BY DEF IsJob

\* A step of a job that goes on with the same release.
LEMMA JobGoesOn ==
  ASSUME KeeperInv, NEW j \in Job, jobs[j].at # "none", NEW x, IsJob(x), x.from = jobs[j].from,
         jobs' = [jobs EXCEPT ![j] = x], UNCHANGED <<keeper, inflight, lapsed>>
  PROVE  KeeperInv'
<1>1. /\ jobs' = [i \in Job |-> jobs'[i]] /\ DOMAIN jobs' = Job
      /\ \A i \in Job : IsJob(jobs'[i]) /\ jobs'[i].from = jobs[i].from
      /\ \A i \in Job \ {j} : jobs'[i] = jobs[i]
  BY DEF KeeperInv, Shaped
<1>2. Running' \subseteq Running
  BY <1>1 DEF Running
<1>3. \A i \in Running' : jobs'[i].from = jobs[i].from
  BY <1>1 DEF Running
<1> QED
  BY <1>1, <1>2, <1>3 DEF KeeperInv, Shaped, Marked, TakenOnce

\* The end of a job takes away the mark of its release, which nobody else works on
\* unless it has lapsed.
LEMMA JobEndKeeps ==
  ASSUME KeeperInv, NEW j \in Job, jobs[j].at # "none", JobEnds(j)
  PROVE  KeeperInv'
<1>1. /\ jobs' = [i \in Job |-> jobs'[i]] /\ DOMAIN jobs' = Job /\ jobs'[j] = NoJob
      /\ \A i \in Job \ {j} : jobs'[i] = jobs[i]
      /\ inflight' = inflight \ {jobs[j].from}
  BY DEF KeeperInv, Shaped, JobEnds
<1>2. IsJob(NoJob) /\ NoJob.at = "none"
  BY DEF IsJob, NoJob
<1>3. keeper' = keeper /\ lapsed' = lapsed \cap Held'
  BY DEF JobEnds, Lapses
<1>4. Running' = Running \ {j} /\ j \in Running /\ Running \subseteq Job
  BY <1>1, <1>2 DEF Running
<1>5. Shaped'
  BY <1>1, <1>2, <1>3 DEF KeeperInv, Shaped
<1>6. ASSUME NEW i \in Running' PROVE jobs'[i].from = jobs[i].from /\ jobs'[i].from \in inflight' \cup lapsed'
  <2>1. i \in Running /\ i # j /\ jobs'[i] = jobs[i] /\ jobs'[i].from \in Held'
    BY <1>1, <1>4, <1>6 DEF Held
  <2>2. CASE jobs[i].from \in lapsed
    BY <1>3, <2>1, <2>2
  <2>3. CASE jobs[i].from \notin lapsed
    BY <1>1, <1>4, <2>1, <2>3 DEF KeeperInv, TakenOnce, Marked
  <2> QED
    BY <2>1, <2>2, <2>3
<1>7. ASSUME keeper'.at = "deleting" PROVE keeper'.path \in inflight' \cup lapsed'
  <2>1. keeper'.path \in Held' /\ keeper.at = "deleting" /\ keeper'.path = keeper.path
    BY <1>3, <1>7 DEF Held
  <2>2. CASE keeper.path \in lapsed
    BY <1>3, <2>1, <2>2
  <2>3. CASE keeper.path \notin lapsed
    BY <1>1, <1>4, <2>1, <2>3 DEF KeeperInv, TakenOnce, Marked
  <2> QED
    BY <2>1, <2>2, <2>3
<1>8. TakenOnce'
  <2> SUFFICES ASSUME NEW i \in Running', jobs'[i].from \notin lapsed'
               PROVE  /\ \A h \in Running' \ {i} : jobs'[h].from # jobs'[i].from
                      /\ keeper'.at = "deleting" => keeper'.path # jobs'[i].from
    BY DEF TakenOnce
  <2>1. i \in Running /\ jobs'[i].from = jobs[i].from /\ jobs'[i].from \in Held'
    BY <1>1, <1>4 DEF Held
  <2>2. jobs[i].from \notin lapsed
    BY <1>3, <2>1
  <2> QED
    BY <1>1, <1>4, <1>3, <1>6, <2>1, <2>2 DEF KeeperInv, TakenOnce
<1> QED
  BY <1>5, <1>6, <1>7, <1>8 DEF KeeperInv, Marked

\* A release the loop takes is marked by nobody.
LEMMA TakenIsFree ==
  ASSUME NEW action, NEW d, Takes(action, d)
  PROVE  d \notin inflight /\ inflight' = inflight \cup {d} /\ keeper.at = "rules"
  BY DEF Takes, Candidates, Eligible, At1

\* The steps of the spacekeeper keep the invariant.
LEMMA KeeperStep == KeeperInv /\ KeeperNext => KeeperInv'
<1> SUFFICES ASSUME KeeperInv, KeeperNext PROVE KeeperInv'
  OBVIOUS
<1>1. CASE Evaluate
  <2>1. keeper.at = "resting" /\ jobs' = jobs /\ keeper'.at = "rules" /\ IsKeeper(keeper')
    BY <1>1 DEF Evaluate, At1, Resting, IsKeeper
  <2>2. PICK old : inflight' = inflight \ old /\ lapsed' = (lapsed \cup old) \cap Held'
    BY <1>1 DEF Evaluate, Lapses
  <2>3. Running' = Running /\ \A j \in Running : jobs[j].from \in Held'
    BY <2>1 DEF Running, Held
  <2>4. Marked'
    BY <2>1, <2>2, <2>3 DEF KeeperInv, Marked
  <2>5. TakenOnce'
    BY <2>1, <2>2, <2>3 DEF KeeperInv, TakenOnce
  <2> QED
    BY <2>1, <2>3, <2>4, <2>5 DEF KeeperInv, Shaped
<1>2. CASE RuleEnds
  <2>1. keeper' = NextRule(keeper) /\ keeper.at = "rules" /\ UNCHANGED <<inflight, jobs, lapsed>>
    BY <1>2 DEF RuleEnds, At1
  <2>2. IsKeeper(keeper') /\ keeper'.at # "deleting" /\ Running' = Running
    BY <2>1, NextRuleFields DEF KeeperInv, Shaped, Running
  <2> QED
    BY <2>1, <2>2 DEF KeeperInv, Shaped, Marked, TakenOnce
<1>3. CASE OldestDeleted
  <2>1. keeper.at = "deleting" /\ jobs' = jobs /\ Running' = Running
    BY <1>3 DEF OldestDeleted, At1, Running
  <2>2. \/ keeper' = [keeper EXCEPT !.at = "rules", !.n = @ + 1] /\ inflight' = inflight
        \/ keeper' = NextRule(keeper) /\ inflight' = inflight \ {keeper.path}
    BY <1>3 DEF OldestDeleted
  <2>3. IsKeeper(keeper') /\ keeper'.at # "deleting"
    <3>1. IsKeeper(keeper)
      BY DEF KeeperInv, Shaped
    <3>2. ASSUME keeper' = [keeper EXCEPT !.at = "rules", !.n = @ + 1] PROVE IsKeeper(keeper') /\ keeper'.at = "rules"
      <4>1. PICK n : n = keeper.n + 1
        OBVIOUS
      <4>2. keeper' = [keeper EXCEPT !.at = "rules", !.n = n]
        BY <3>2, <4>1
      <4> QED
        BY <3>1, <4>2 DEF IsKeeper
    <3>3. ASSUME keeper' = NextRule(keeper) PROVE IsKeeper(keeper') /\ keeper'.at # "deleting"
      BY <3>1, <3>3, NextRuleFields
    <3> QED
      BY <2>2, <3>2, <3>3
  <2>4. lapsed' = lapsed \cap Held' /\ \A j \in Running : jobs[j].from \in Held'
    BY <1>3, <2>1 DEF OldestDeleted, Lapses, Held
  <2>5. ASSUME NEW j \in Running PROVE jobs[j].from \in inflight' \cup lapsed'
    <3>1. CASE jobs[j].from \in lapsed
      BY <2>4, <3>1
    <3>2. CASE jobs[j].from \notin lapsed
      BY <2>1, <2>2, <3>2 DEF KeeperInv, Marked, TakenOnce
    <3> QED
      BY <3>1, <3>2
  <2>6. TakenOnce'
    BY <2>1, <2>3, <2>4 DEF KeeperInv, TakenOnce
  <2> QED
    BY <2>1, <2>3, <2>5, <2>6 DEF KeeperInv, Shaped, Marked
<1>4. ASSUME NEW d \in DirPath, DeleteOldest(d) PROVE KeeperInv'
  <2>1. /\ d \notin inflight /\ inflight' = inflight \cup {d} /\ keeper.at = "rules"
        /\ jobs' = jobs /\ Running' = Running /\ lapsed' = lapsed
    BY <1>4, TakenIsFree DEF DeleteOldest, Running
  <2>2. IsKeeper(keeper') /\ keeper'.path = d
    <3>1. IsKeeper(keeper)
      BY DEF KeeperInv, Shaped
    <3>2. keeper' = [keeper EXCEPT !.at = "deleting", !.path = d]
      BY <1>4 DEF DeleteOldest
    <3> QED
      BY <3>1, <3>2 DEF IsKeeper
  <2> QED
    BY <2>1, <2>2 DEF KeeperInv, Shaped, Marked, TakenOnce
<1>5. ASSUME NEW d \in DirPath, NEW j \in Job, ArchiveOldest(d, j) PROVE KeeperInv'
  <2>1. /\ d \notin inflight /\ inflight' = inflight \cup {d} /\ keeper.at = "rules" /\ j \notin Running
        /\ lapsed' = lapsed
    BY <1>5, TakenIsFree DEF ArchiveOldest
  <2>2. IsKeeper(keeper') /\ keeper'.at = keeper.at
    BY <1>5, KeeperFields DEF ArchiveOldest, KeeperInv, Shaped
  <2>3. PICK to, dst, victims : jobs' = [jobs EXCEPT ![j] =
          [at |-> "started", from |-> d, to |-> to, dst |-> dst, victims |-> victims]]
    BY <1>5 DEF ArchiveOldest
  <2>4. /\ jobs' = [i \in Job |-> jobs'[i]] /\ DOMAIN jobs' = Job
        /\ IsJob(jobs'[j]) /\ jobs'[j].from = d /\ jobs'[j].at = "started"
        /\ \A i \in Job \ {j} : jobs'[i] = jobs[i]
    BY <2>3 DEF KeeperInv, Shaped, IsJob
  <2>5. Running' = Running \cup {j} /\ Running \subseteq Job
    BY <2>1, <2>4 DEF Running
  <2>6. \A i \in Running : jobs'[i] = jobs[i] /\ jobs[i].from \in inflight \cup lapsed /\ (jobs[i].from \notin lapsed => jobs[i].from # d)
    BY <2>1, <2>4, <2>5 DEF KeeperInv, Marked
  <2> QED
    BY <2>1, <2>2, <2>4, <2>5, <2>6 DEF KeeperInv, Shaped, Marked, TakenOnce
<1>6. ASSUME NEW j \in Job, JobBegins(j) PROVE KeeperInv'
  <2>1. jobs[j].at # "none" /\ UNCHANGED <<keeper, inflight, lapsed>>
    BY <1>6 DEF JobBegins
  <2>2. IsJob(jobs[j]) /\ DOMAIN jobs = Job
    BY DEF KeeperInv, Shaped
  <2>3. CASE jobs' = [jobs EXCEPT ![j].at = "moving"]
    <3>1. jobs' = [jobs EXCEPT ![j] = [jobs[j] EXCEPT !.at = "moving"]]
      BY <2>3
    <3> DEFINE x == [jobs[j] EXCEPT !.at = "moving"]
    <3>2. IsJob(x) /\ x.from = jobs[j].from
      BY <2>2, JobFields
    <3> HIDE DEF x
    <3>3. jobs' = [jobs EXCEPT ![j] = x]
      BY <3>1 DEF x
    <3> QED
      BY <2>1, <3>2, <3>3, JobGoesOn
  <2>4. ASSUME NEW v, jobs' = [jobs EXCEPT ![j].at = "freeing", ![j].victims = @ \ {v}] PROVE KeeperInv'
    <3>1. PICK rest : rest = jobs[j].victims \ {v}
      OBVIOUS
    <3>2. jobs' = [jobs EXCEPT ![j] = [jobs[j] EXCEPT !.at = "freeing", !.victims = rest]]
      BY <2>2, <2>4, <3>1 DEF IsJob
    <3> DEFINE x == [jobs[j] EXCEPT !.at = "freeing", !.victims = rest]
    <3>3. IsJob(x) /\ x.from = jobs[j].from
      BY <2>2 DEF IsJob
    <3> HIDE DEF x
    <3>4. jobs' = [jobs EXCEPT ![j] = x]
      BY <3>2 DEF x
    <3> QED
      BY <2>1, <3>3, <3>4, JobGoesOn
  <2> QED
    BY <1>6, <2>3, <2>4 DEF JobBegins
<1>7. ASSUME NEW j \in Job, VictimDeleted(j) PROVE KeeperInv'
  <2>1. jobs[j].at # "none"
    BY <1>7 DEF VictimDeleted
  <2>2. CASE jobs' = [jobs EXCEPT ![j].at = "started"] /\ UNCHANGED <<keeper, inflight, lapsed>>
    BY <2>1, <2>2, JobFields, JobGoesOn DEF KeeperInv, Shaped
  <2>3. CASE JobEnds(j)
    BY <2>1, <2>3, JobEndKeeps
  <2> QED
    BY <1>7, <2>2, <2>3 DEF VictimDeleted
<1>8. ASSUME NEW j \in Job, Archived(j) PROVE KeeperInv'
  BY <1>8, JobEndKeeps DEF Archived
<1> QED
  BY <1>1, <1>2, <1>3, <1>4, <1>5, <1>6, <1>7, <1>8 DEF KeeperNext

-----------------------------------------------------------------------------
(* The theorems.                                                           *)

\* What is worked on is marked or has lapsed, whatever is pruned from the marks and
\* whatever the bridge, the other plugins and uploads do.
THEOREM KeeperInvariant == Spec => []KeeperInv
<1>1. Init => KeeperInv
  <2> SUFFICES ASSUME Init PROVE KeeperInv
    OBVIOUS
  <2>1. keeper = Resting /\ jobs = [j \in Job |-> NoJob]
    BY DEF Init, KeeperInit
  <2>2. Running = {} /\ keeper.at = "resting"
    BY <2>1 DEF Running, NoJob, Resting
  <2>3. IsKeeper(Resting) /\ IsJob(NoJob)
    BY DEF IsKeeper, IsJob, Resting, NoJob
  <2> QED
    BY <2>1, <2>2, <2>3 DEF KeeperInv, Shaped, Marked, TakenOnce
<1>2. KeeperInv /\ [Next]_vars => KeeperInv'
  <2>1. KeeperInv /\ UNCHANGED keeperVars => KeeperInv'
    BY DEF keeperVars, KeeperInv, Shaped, Marked, TakenOnce, Running
  <2> QED
    BY <2>1, KeeperStep DEF Next, vars
<1> QED
  BY <1>1, <1>2, PTL DEF Spec

\* A release is in the hands of one job or of the loop, unless pruneInflight has
\* forgotten its mark while it was worked on (markInflight, evaluateCandidate).
THEOREM TakenByOne == Spec => []TakenOnce
<1>1. KeeperInv => TakenOnce
  BY DEF KeeperInv
<1> QED
  BY <1>1, KeeperInvariant, PTL

=============================================================================

--------------------------- MODULE RemergeProofs ---------------------------
(***************************************************************************)
(* For any files and directories, and any number of connections and jobs:  *)
(* a finished remerge has lost no file of the disk, its first purge leaves *)
(* no ghost, and a slave that waits for its startup remerge is served with *)
(* its files indexed.  The argument follows each file from the scan to the *)
(* index: still to be scanned, in a listing sent, queued or held, or seen. *)
(*                                                                         *)
(* The theorems but the types assume TidyConnect, that a connection begins *)
(* when its predecessor is wound up; those on completeness also that every *)
(* directory can be read and that no upload ages past the grace unlisted   *)
(* (AllRead).  The code guarantees neither, and the properties fail when   *)
(* these hypotheses do.                                                    *)
(*                                                                         *)
(* And where uploads go on the slaves that are merged, for any tree, any   *)
(* policies and any number of sessions: an archive keeps what it has, and, *)
(* if the policies are settled, a release stays together.  The argument    *)
(* follows the slave that a session has chosen to the directory entered.   *)
(***************************************************************************)
EXTENDS Remerge, Routing, WellFoundedInduction, TLAPS

-----------------------------------------------------------------------------
(* Sequences as bags of messages.                                          *)

Has(q, x) == \E i \in 1..Len(q) : q[i] = x

\* What Append makes of a sequence: the messages it holds, and their places.
LEMMA AppendHas ==
  ASSUME NEW S, NEW q \in Seq(S), NEW x \in S
  PROVE  /\ Append(q, x) \in Seq(S) /\ Len(Append(q, x)) = Len(q) + 1 /\ Append(q, x) # <<>>
         /\ \A y : Has(Append(q, x), y) <=> Has(q, y) \/ y = x
         /\ \A i \in 1..Len(q) : Append(q, x)[i] = q[i]
<1>1. /\ Append(q, x) \in Seq(S) /\ Len(Append(q, x)) = Len(q) + 1 /\ Len(q) \in Nat
      /\ \A i \in 1..Len(q) : Append(q, x)[i] = q[i]
      /\ Append(q, x)[Len(q) + 1] = x
  OBVIOUS
<1>2. \A y : Has(Append(q, x), y) <=> Has(q, y) \/ y = x
  <2> TAKE y
  <2>1. ASSUME Has(Append(q, x), y) PROVE Has(q, y) \/ y = x
    BY <1>1, <2>1 DEF Has
  <2>2. ASSUME Has(q, y) PROVE Has(Append(q, x), y)
    BY <1>1, <2>2 DEF Has
  <2>3. Has(Append(q, x), x)
    BY <1>1 DEF Has
  <2> QED
    BY <2>1, <2>2, <2>3
<1>3. Append(q, x) # <<>>
  BY <1>1
<1> QED
  BY <1>1, <1>2, <1>3

\* What Head and Tail make of one.
LEMMA TailHas ==
  ASSUME NEW S, NEW q \in Seq(S), q # <<>>
  PROVE  /\ Tail(q) \in Seq(S) /\ Len(Tail(q)) = Len(q) - 1 /\ Len(q) \in Nat \ {0}
         /\ Head(q) \in S /\ Head(q) = q[1] /\ Has(q, Head(q))
         /\ \A i \in 1..Len(q) - 1 : Tail(q)[i] = q[i + 1]
         /\ \A y : Has(Tail(q), y) => Has(q, y)
         /\ \A y : Has(q, y) => y = Head(q) \/ Has(Tail(q), y)
<1>1. /\ Tail(q) \in Seq(S) /\ Len(Tail(q)) = Len(q) - 1 /\ Len(q) \in Nat \ {0}
      /\ Head(q) \in S /\ Head(q) = q[1]
      /\ \A i \in 1..Len(q) - 1 : Tail(q)[i] = q[i + 1]
  OBVIOUS
<1>2. Has(q, Head(q))
  BY <1>1 DEF Has
<1>3. ASSUME NEW y, Has(Tail(q), y) PROVE Has(q, y)
  <2>1. PICK i \in 1..Len(q) - 1 : Tail(q)[i] = y
    BY <1>1, <1>3 DEF Has
  <2>2. i + 1 \in 1..Len(q) /\ q[i + 1] = y
    BY <1>1, <2>1
  <2> QED
    BY <2>2 DEF Has
<1>4. ASSUME NEW y, Has(q, y) PROVE y = Head(q) \/ Has(Tail(q), y)
  <2>1. PICK i \in 1..Len(q) : q[i] = y
    BY <1>4 DEF Has
  <2>2. CASE i = 1
    BY <1>1, <2>1, <2>2
  <2>3. CASE i # 1
    <3>1. i - 1 \in 1..Len(q) - 1 /\ Tail(q)[i - 1] = q[(i - 1) + 1] /\ (i - 1) + 1 = i
      BY <1>1, <2>1, <2>3
    <3> QED
      BY <1>1, <2>1, <3>1 DEF Has
  <2> QED
    BY <2>2, <2>3
<1> QED
  BY <1>1, <1>2, <1>3, <1>4

\* The empty sequence, and the one that holds nothing.
LEMMA EmptyHas ==
  ASSUME NEW S, NEW q \in Seq(S)
  PROVE  /\ \A y : ~Has(<<>>, y)
         /\ \A y : Has(q, y) => y \in S
         /\ Len(q) = 0 => q = <<>>
         /\ q # <<>> => Len(q) >= 1
         /\ (\A y : ~Has(q, y)) => q = <<>>
<1>1. \A y : ~Has(<<>>, y)
  BY DEF Has
<1>2. \A y : Has(q, y) => y \in S
  BY DEF Has
<1>3. (Len(q) = 0 => q = <<>>) /\ (q # <<>> => Len(q) >= 1) /\ Len(q) \in Nat
  OBVIOUS
<1>4. Len(q) >= 1 => Has(q, q[1])
  BY <1>3 DEF Has
<1> QED
  BY <1>1, <1>2, <1>3, <1>4

\* The read loop tells listings from answers.
LEMMA Kinds ==
  /\ \A x \in Snapshot : x \notin Reply
  /\ \A x \in Snapshot : x.dir \in Dirs /\ x.files \in SUBSET Files
  /\ \A x \in Reply : x.to \in Command /\ x.ok \in BOOLEAN
  BY DEF Snapshot, Reply

-----------------------------------------------------------------------------
(* Types.                                                                  *)

Hands == [at : {"take", "stop"}] \cup [at : {"add", "prune"}, snap : Snapshot]
Scans == {Idle} \cup [at : {"slot", "reading", "held"}, todo : SUBSET Dirs, dir : SUBSET Dirs,
                      snap : SUBSET Files, to : Command]

Types ==
  /\ TypeOK
  /\ stream \in [Session -> Seq(Snapshot \cup Reply)] /\ queue \in [Session -> Seq(Snapshot)]
  /\ hand \in [Session -> Hands] /\ scan \in Scans

\* Sessions to come, and a job that is about to be issued: there is a number for it.
Numbered ==
  \A s \in Session :
    /\ s > sess => link[s] = "new" /\ job[s] = "none" /\ jobNo[s] = 0
    /\ job[s] \in {"mark", "issue"} => jobNo[s] < MaxJob

\* What the queue goroutine holds.
LEMMA HandTypes ==
  ASSUME NEW h \in Hands
  PROVE  /\ h.at \in {"take", "add", "prune", "stop"}
         /\ h.at \in {"add", "prune"} => h.snap \in Snapshot /\ h = [at |-> h.at, snap |-> h.snap]
  BY DEF Hands

\* The initial states are well typed.
LEMMA InitTypes == Init => Types
<1> SUFFICES ASSUME Init PROVE Types
  OBVIOUS
<1>1. /\ Session \subseteq Nat /\ 0 \in 0..MaxSession /\ 0 \in 0..MaxJob
  BY RemergeAssumption DEF Session
<1>2. scan \in Scans
  BY DEF Init, Scans, Idle
<1>3. /\ hand \in [Session -> Hands] /\ queue \in [Session -> Seq(Snapshot)]
      /\ stream \in [Session -> Seq(Snapshot \cup Reply)]
  BY DEF Init, Hands
<1>4. /\ set \in Settings /\ set.cached \subseteq Files
  <2>1. set \in Setting
    BY RemergeAssumption DEF Init
  <2> QED
    BY <2>1 DEF Init, Setting
<1>5. /\ disk \subseteq Files /\ vfs \in [Files -> {"absent", "unseen", "seen"}]
  BY <1>4, RemergeAssumption DEF Init
<1>6. /\ scan.at = "off" /\ scan.todo = {} /\ scan.dir = {} /\ scan.snap = {} /\ scan.to = <<>>
  BY DEF Init, Idle
<1>7. /\ sess \in 0..MaxSession /\ jobNo \in [Session -> 0..MaxJob] /\ depth \in [Session -> Nat]
      /\ asked \subseteq Command
  BY <1>1 DEF Init
<1>8. \A s \in Session : hand[s].at \in {"take", "add", "prune", "stop"}
  BY <1>3, HandTypes
<1>9. TypeOK
  BY <1>3, <1>4, <1>5, <1>6, <1>7, <1>8 DEF Init, TypeOK
<1> QED
  BY <1>2, <1>3, <1>9 DEF Types

\* A new connection is one of those the slave may make.
LEMMA NextSession ==
  ASSUME Types, Connect
  PROVE  sess + 1 \in Session /\ sess + 1 \in 0..MaxSession /\ sess' = sess + 1
<1>1. sess \in 0..MaxSession /\ sess < MaxSession /\ sess' = sess + 1
  BY DEF Types, TypeOK, Connect
<1> QED
  BY <1>1, RemergeAssumption DEF Session

\* Connections and jobs begin and end in well typed states.
LEMMA LinkTypes ==
  ASSUME Types, NEW s \in Session, Connect \/ StartJob(s) \/ LinkBreaks \/ GoOffline(s) \/ ClearSlave(s)
  PROVE  Types'
<1>1. CASE Connect
  <2>1. sess + 1 \in Session /\ sess + 1 \in 0..MaxSession
    BY <1>1, NextSession
  <2>2. /\ sess' \in 0..MaxSession /\ slaveOn' \in BOOLEAN
        /\ link' \in [Session -> {"new", "up", "broken", "closing", "down"}]
    BY <1>1, <2>1 DEF Types, TypeOK, Connect
  <2>3. \/ job' = [job EXCEPT ![sess + 1] = "done"]
        \/ job' = [job EXCEPT ![sess + 1] = "mark"]
    BY <1>1 DEF Connect
  <2>4. job' \in [Session -> {"none", "mark", "issue", "wait", "drain", "purge",
                             "finished", "end", "expired", "undrained", "late", "done"}]
    BY <2>1, <2>3 DEF Types, TypeOK
  <2>5. avail' \in [Session -> BOOLEAN]
    BY <1>1, <2>1 DEF Types, TypeOK, Connect
  <2> QED
    BY <1>1, <2>2, <2>4, <2>5 DEF Types, TypeOK, Connect, slaveVars, mergeVars, fileVars, history
<1>2. CASE StartJob(s)
  BY <1>2 DEF Types, TypeOK, StartJob, slaveVars, mergeVars, fileVars, history, linkVars
<1>3. CASE LinkBreaks
  <2>1. <<>> \in Seq(Snapshot \cup Reply)
    OBVIOUS
  <2>2. stream' \in [Session -> Seq(Snapshot \cup Reply)]
    BY <1>3, <2>1 DEF Types, LinkBreaks
  <2>3. /\ link' \in [Session -> {"new", "up", "broken", "closing", "down"}]
        /\ asked' \subseteq Command /\ slaveOn' \in BOOLEAN
    BY <1>3 DEF Types, TypeOK, LinkBreaks
  <2> QED
    BY <1>3, <2>2, <2>3 DEF Types, TypeOK, LinkBreaks, mergeVars, fileVars, history
<1>4. CASE GoOffline(s)
  <2>1. <<>> \in Seq(Snapshot \cup Reply)
    OBVIOUS
  <2>2. stream' \in [Session -> Seq(Snapshot \cup Reply)]
    BY <1>4, <2>1 DEF Types, GoOffline
  <2>3. /\ link' \in [Session -> {"new", "up", "broken", "closing", "down"}]
        /\ avail' \in [Session -> BOOLEAN] /\ depth' \in [Session -> Nat]
        /\ asked' \subseteq Command /\ slaveOn' \in BOOLEAN
    BY <1>4 DEF Types, TypeOK, GoOffline
  <2> QED
    BY <1>4, <2>2, <2>3 DEF Types, TypeOK, GoOffline, fileVars, history
<1>5. CASE ClearSlave(s)
  BY <1>5 DEF Types, TypeOK, ClearSlave, slaveVars, mergeVars, fileVars, history
<1> QED
  BY <1>1, <1>2, <1>3, <1>4, <1>5

\* So do the steps of initializeSlaveRemerge ...
LEMMA JobTypes ==
  ASSUME Types, Numbered, NEW s \in Session, JobStep(s) \/ GiveUp(s) \/ DrainTimeout(s)
  PROVE  Types'
<1>1. CASE MarkAllUnseen(s)
  BY <1>1 DEF Types, TypeOK, MarkAllUnseen, linkVars, slaveVars, mergeVars, fileVars
<1>2. CASE IssueRemerge(s)
  <2>1. jobNo' \in [Session -> 0..MaxJob] /\ asked' \subseteq Command
    <3>1. CASE jobNo' = jobNo /\ asked' = asked
      BY <3>1 DEF Types, TypeOK
    <3>2. CASE jobNo' = [jobNo EXCEPT ![s] = @ + 1] /\ asked' \subseteq asked \cup {<<s, jobNo[s] + 1>>}
      <4>1. jobNo[s] \in 0..MaxJob /\ MaxJob \in Nat /\ jobNo[s] < MaxJob
        BY <1>2, RemergeAssumption DEF Types, TypeOK, Numbered, IssueRemerge
      <4>2. jobNo[s] + 1 \in 0..MaxJob /\ jobNo[s] + 1 \in 1..MaxJob
        BY <4>1
      <4>3. <<s, jobNo[s] + 1>> \in Command
        BY <4>2 DEF Command
      <4> QED
        BY <3>2, <4>2, <4>3 DEF Types, TypeOK
    <3>3. \/ jobNo' = jobNo /\ asked' = asked
          \/ jobNo' = [jobNo EXCEPT ![s] = @ + 1] /\ asked' \subseteq asked \cup {<<s, jobNo[s] + 1>>}
      BY <1>2 DEF IssueRemerge
    <3> QED
      BY <3>1, <3>2, <3>3
  <2> QED
    BY <1>2, <2>1 DEF Types, TypeOK, IssueRemerge, linkVars, fileVars, history
<1>3. CASE LoseReply(s)
  BY <1>3 DEF Types, TypeOK, LoseReply, linkVars, slaveVars, mergeVars, fileVars, history
<1>4. CASE GiveUp(s)
  BY <1>4 DEF Types, TypeOK, GiveUp, linkVars, mergeVars, fileVars, history
<1>5. CASE Drain(s) \/ DrainTimeout(s)
  BY <1>5 DEF Types, TypeOK, Drain, DrainTimeout, linkVars, slaveVars, mergeVars, fileVars, history
<1>6. CASE PurgeUnseen(s)
  BY <1>6 DEF Types, TypeOK, PurgeUnseen, linkVars, slaveVars, mergeVars, fileVars, history
<1>7. CASE Finish(s)
  BY <1>7 DEF Types, TypeOK, Finish, linkVars, slaveVars, mergeVars, fileVars, history
<1> QED
  BY <1>1, <1>2, <1>3, <1>4, <1>5, <1>6, <1>7 DEF JobStep

\* ... those of the read loop and of the queue ...
LEMMA MasterTypes ==
  ASSUME Types, NEW s \in Session, MasterStep(s) \/ StopQueue(s)
  PROVE  Types'
<1>1. CASE ReadSnapshot(s)
  <2>1. /\ Tail(stream[s]) \in Seq(Snapshot \cup Reply)
        /\ Append(queue[s], Head(stream[s])) \in Seq(Snapshot)
    BY <1>1, TailHas, AppendHas DEF Types, ReadSnapshot
  <2>2. depth' \in [Session -> Nat]
    BY <1>1 DEF Types, TypeOK, ReadSnapshot
  <2> QED
    BY <1>1, <2>1, <2>2 DEF Types, TypeOK, ReadSnapshot, linkVars, slaveVars, fileVars, history
<1>2. CASE ReadReply(s)
  <2>1. Tail(stream[s]) \in Seq(Snapshot \cup Reply)
    BY <1>2, TailHas DEF Types, ReadReply
  <2>2. \/ job' = job \/ job' = [job EXCEPT ![s] = "done"]
        \/ job' = [job EXCEPT ![s] = "drain"] \/ job' = [job EXCEPT ![s] = "end"]
    BY <1>2 DEF ReadReply
  <2> QED
    BY <1>2, <2>1, <2>2 DEF Types, TypeOK, ReadReply, linkVars, slaveVars, mergeVars, fileVars, history
<1>3. CASE TakeSnapshot(s)
  <2>1. Tail(queue[s]) \in Seq(Snapshot) /\ Head(queue[s]) \in Snapshot
    BY <1>3, TailHas DEF Types, TakeSnapshot
  <2>2. hand' \in [Session -> Hands]
    BY <1>3, <2>1 DEF Types, TakeSnapshot, Hands
  <2>3. \A x \in Session : hand'[x].at \in {"take", "add", "prune", "stop"}
    BY <2>2, HandTypes
  <2> QED
    BY <1>3, <2>1, <2>2, <2>3 DEF Types, TypeOK, TakeSnapshot, linkVars, slaveVars, fileVars, history
<1>4. CASE StopQueue(s)
  <2>1. hand' \in [Session -> Hands]
    BY <1>4 DEF Types, StopQueue, Hands
  <2>2. \A x \in Session : hand'[x].at \in {"take", "add", "prune", "stop"}
    BY <2>1, HandTypes
  <2> QED
    BY <1>4, <2>1, <2>2 DEF Types, TypeOK, StopQueue, linkVars, slaveVars, fileVars, history
<1>5. CASE AddSnapshot(s)
  <2>1. hand' \in [Session -> Hands]
    BY <1>5, HandTypes DEF Types, AddSnapshot, Hands
  <2>2. \A x \in Session : hand'[x].at \in {"take", "add", "prune", "stop"}
    BY <2>1, HandTypes
  <2> QED
    BY <1>5, <2>1, <2>2 DEF Types, TypeOK, AddSnapshot, linkVars, slaveVars, fileVars, history
<1>6. CASE PruneMissing(s)
  <2>1. hand' \in [Session -> Hands]
    BY <1>6 DEF Types, PruneMissing, Hands
  <2>2. \A x \in Session : hand'[x].at \in {"take", "add", "prune", "stop"}
    BY <2>1, HandTypes
  <2>3. depth' \in [Session -> Nat]
    BY <1>6 DEF Types, TypeOK, PruneMissing
  <2> QED
    BY <1>6, <2>1, <2>2, <2>3 DEF Types, TypeOK, PruneMissing, linkVars, slaveVars, fileVars, history
<1> QED
  BY <1>1, <1>2, <1>3, <1>4, <1>5, <1>6 DEF MasterStep

\* ... what the slave writes ...
LEMMA WrittenTypes ==
  ASSUME Types, NEW obj \in Snapshot \cup Reply
  PROVE  Written(obj) \in [Session -> Seq(Snapshot \cup Reply)]
<1>1. \A q \in Seq(Snapshot \cup Reply) : Append(q, obj) \in Seq(Snapshot \cup Reply)
  BY AppendHas
<1> QED
  BY <1>1 DEF Types, Written

\* ... the steps of its scan ...
LEMMA ScanTypes ==
  ASSUME Types, ScanStep \/ StopRemerge
  PROVE  Types'
<1>0. /\ scan \in Scans
      /\ \A x \in Scans : /\ x.at \in {"off", "slot", "reading", "held"} /\ x.todo \in SUBSET Dirs
                          /\ x.dir \in SUBSET Dirs /\ x.snap \in SUBSET Files /\ x.to \in Command \cup {<<>>}
                          /\ x.at # "off" => x.to \in Command
      /\ scan.at # "off" => scan \in [at : {"slot", "reading", "held"}, todo : SUBSET Dirs,
                                    dir : SUBSET Dirs, snap : SUBSET Files, to : Command]
  BY DEF Types, Scans, Idle
<1>1. ASSUME NEW c \in Command, StartScan(c) PROVE Types'
  <2>1. scan' = scan \/ scan' = [Idle EXCEPT !.at = "slot", !.todo = Dirs, !.to = c]
    BY <1>1 DEF StartScan
  <2>2. scan' \in Scans
    BY <1>0, <2>1 DEF Scans, Idle
  <2>3. stream' \in [Session -> Seq(Snapshot \cup Reply)]
    <3>1. [to |-> c, ok |-> FALSE] \in Snapshot \cup Reply
      BY DEF Reply
    <3> QED
      BY <1>1, <3>1, WrittenTypes DEF Types, StartScan
  <2>4. asked' \subseteq Command /\ abort' \in BOOLEAN
    BY <1>1 DEF Types, TypeOK, StartScan
  <2> QED
    BY <1>0, <1>1, <2>2, <2>3, <2>4 DEF Types, TypeOK, StartScan, linkVars, mergeVars, fileVars, history
<1>2. ASSUME NEW d \in Dirs, EnterDir(d) PROVE Types'
  <2>1. scan' \in Scans
    BY <1>2, <1>0 DEF EnterDir, Scans
  <2> QED
    BY <1>0, <1>2, <2>1 DEF Types, TypeOK, EnterDir, linkVars, mergeVars, fileVars, history
<1>3. ASSUME NEW d \in Dirs, ReadDir(d) PROVE Types'
  <2>1. disk \cap In(d) \subseteq Files
    BY DEF In
  <2>2. scan' \in Scans
    BY <1>3, <1>0, <2>1 DEF ReadDir, Scans
  <2> QED
    BY <1>0, <1>3, <2>2 DEF Types, TypeOK, ReadDir, linkVars, mergeVars, fileVars, history
<1>4. ASSUME NEW d \in Dirs, SendSnapshot(d) PROVE Types'
  <2>1. PICK files \in SUBSET scan.snap : stream' = Written([dir |-> d, files |-> files])
    BY <1>4 DEF SendSnapshot
  <2>2. [dir |-> d, files |-> files] \in Snapshot \cup Reply
    BY <1>0 DEF Snapshot
  <2>3. stream' \in [Session -> Seq(Snapshot \cup Reply)]
    BY <2>1, <2>2, WrittenTypes
  <2>4. scan' \in Scans
    BY <1>4, <1>0 DEF SendSnapshot, Scans
  <2> QED
    BY <1>0, <1>4, <2>3, <2>4 DEF Types, TypeOK, SendSnapshot, linkVars, mergeVars, fileVars, history
<1>5. CASE EndScan
  <2>1. [to |-> scan.to, ok |-> scan.todo = {}] \in Snapshot \cup Reply
    BY <1>0, <1>5 DEF EndScan, Reply
  <2>2. stream' \in [Session -> Seq(Snapshot \cup Reply)]
    BY <1>5, <2>1, WrittenTypes DEF EndScan
  <2>3. scan' \in Scans
    BY <1>5 DEF EndScan, Scans
  <2> QED
    BY <1>0, <1>5, <2>2, <2>3 DEF Types, TypeOK, EndScan, linkVars, mergeVars, fileVars, history
<1>6. CASE StopRemerge
  BY <1>6 DEF Types, TypeOK, StopRemerge, linkVars, mergeVars, fileVars, history
<1> QED
  BY <1>1, <1>2, <1>3, <1>4, <1>5, <1>6 DEF ScanStep

\* ... and of uploads and deletions.
LEMMA FileTypes ==
  ASSUME Types, NEW f \in Files, FileStep(f)
  PROVE  Types'
<1>1. /\ UNCHANGED <<linkVars, slaveVars, stream, mergeVars, job, avail>>
      /\ disk' \subseteq Files /\ recent' \subseteq Files /\ uploading' \subseteq Files
      /\ deleting' \subseteq Files /\ owed' \subseteq Files /\ gone' \subseteq Files
      /\ vfs' \in [Files -> {"absent", "unseen", "seen"}]
  BY DEF FileStep, UploadToDisk, UploadIndexed, UploadLost, DeleteOnDisk, DeleteIndexed, Vanish, Age,
         Types, TypeOK, history
<1> QED
  BY <1>1 DEF Types, TypeOK, linkVars, slaveVars, mergeVars

\* There is a number for each command, and later connections are untouched.
LEMMA StepNumbered ==
  ASSUME Types, Numbered, Next
  PROVE  Numbered'
<1> DEFINE SameAt(s) == /\ link'[s] = link[s] \/ s <= sess
                        /\ job'[s] = job[s] \/ (s <= sess /\ job'[s] \notin {"mark", "issue"})
                        /\ jobNo'[s] = jobNo[s]
<1>0. /\ sess \in Nat /\ Session \subseteq Nat
      /\ \A s \in Session : s > sess <=> ~(s <= sess)
  BY DEF Types, TypeOK, Session
<1>1. ASSUME sess' = sess, \A s \in Session : SameAt(s) PROVE Numbered'
  BY <1>0, <1>1 DEF Numbered
<1>2. \A s \in Session : Online(s) \/ job[s] # "none" => s <= sess
  BY <1>0 DEF Numbered, Online
<1>3. CASE Connect
  <2>1. sess + 1 \in Session
    BY <1>3, NextSession
  <2>2. 0 < MaxJob
    BY RemergeAssumption
  <2>3. /\ sess' = sess + 1 /\ jobNo' = jobNo /\ job'[sess + 1] \in {"done", "mark"}
        /\ \A s \in Session \ {sess + 1} : link'[s] = link[s] /\ job'[s] = job[s]
        /\ jobNo[sess + 1] = 0
    BY <1>0, <1>3, <2>1 DEF Connect, Types, TypeOK, Numbered, mergeVars
  <2> QED
    BY <1>0, <2>1, <2>2, <2>3 DEF Numbered
<1>4. ASSUME NEW s \in Session, StartJob(s) PROVE Numbered'
  <2>1. /\ s <= sess /\ jobNo[s] < MaxJob /\ UNCHANGED <<sess, link, jobNo>>
        /\ \A x \in Session \ {s} : job'[x] = job[x]
    BY <1>2, <1>4 DEF StartJob, Types, TypeOK, linkVars, mergeVars
  <2> QED
    BY <1>0, <2>1 DEF Numbered
<1>5. ASSUME NEW s \in Session, MarkAllUnseen(s) PROVE Numbered'
  <2>1. /\ job[s] = "mark" /\ s <= sess /\ UNCHANGED <<sess, link, jobNo>>
        /\ \A x \in Session \ {s} : job'[x] = job[x]
    BY <1>2, <1>5 DEF MarkAllUnseen, Types, TypeOK, linkVars, mergeVars
  <2> QED
    BY <1>0, <2>1 DEF Numbered
<1>6. ASSUME NEW s \in Session, IssueRemerge(s) PROVE Numbered'
  <2>1. /\ job[s] = "issue" /\ s <= sess /\ UNCHANGED <<sess, link>> /\ job'[s] \in {"wait", "done"}
        /\ \A x \in Session \ {s} : job'[x] = job[x] /\ jobNo'[x] = jobNo[x]
    BY <1>2, <1>6 DEF IssueRemerge, Types, TypeOK, linkVars
  <2> QED
    BY <1>0, <2>1 DEF Numbered
<1>7. ASSUME NEW s \in Session, LoseReply(s) \/ GiveUp(s) \/ Drain(s) \/ DrainTimeout(s) \/ PurgeUnseen(s) \/ Finish(s)
      PROVE  Numbered'
  <2>1. /\ UNCHANGED <<sess, link, jobNo>> /\ job[s] # "none" /\ job'[s] \notin {"mark", "issue"}
        /\ \A x \in Session \ {s} : job'[x] = job[x]
    BY <1>7 DEF LoseReply, GiveUp, Drain, DrainTimeout, PurgeUnseen, Finish, Types, TypeOK, linkVars, mergeVars
  <2> QED
    BY <1>1, <1>2, <2>1
<1>8. ASSUME NEW s \in Session, ReadReply(s) PROVE Numbered'
  <2>1. /\ UNCHANGED <<sess, link, jobNo>> /\ Online(s)
        /\ job'[s] = job[s] \/ job'[s] \notin {"mark", "issue"}
        /\ \A x \in Session \ {s} : job'[x] = job[x]
    BY <1>8 DEF ReadReply, Types, TypeOK, linkVars, mergeVars
  <2> QED
    BY <1>1, <1>2, <2>1
<1>9. ASSUME NEW s \in Session, ReadSnapshot(s) \/ TakeSnapshot(s) \/ AddSnapshot(s) \/ PruneMissing(s) \/ StopQueue(s)
      PROVE  Numbered'
  <2>1. UNCHANGED <<sess, link, job, jobNo>>
    BY <1>9 DEF ReadSnapshot, TakeSnapshot, AddSnapshot, PruneMissing, StopQueue, linkVars
  <2> QED
    BY <1>1, <2>1
<1>10. ASSUME NEW s \in Session, GoOffline(s) \/ ClearSlave(s) PROVE Numbered'
  <2>1. /\ UNCHANGED <<sess, job, jobNo>> /\ link[s] # "new"
        /\ \A x \in Session \ {s} : link'[x] = link[x]
    BY <1>10 DEF GoOffline, ClearSlave, Online, Types, TypeOK, mergeVars
  <2>2. s <= sess
    BY <1>0, <2>1 DEF Numbered
  <2> QED
    BY <1>1, <2>1, <2>2
<1>11. CASE LinkBreaks
  <2>1. /\ UNCHANGED <<sess, job, jobNo>>
        /\ \A x \in Session \ {sess} : link'[x] = link[x]
    BY <1>11 DEF LinkBreaks, Types, TypeOK, mergeVars
  <2>2. sess <= sess
    BY <1>0
  <2> QED
    BY <1>1, <2>1, <2>2
<1>12. CASE StopRemerge \/ ScanStep \/ \E f \in Files : FileStep(f)
  <2>1. UNCHANGED <<sess, link, job, jobNo>>
    BY <1>12 DEF StopRemerge, ScanStep, EndScan, StartScan, EnterDir, ReadDir, SendSnapshot, FileStep,
         UploadToDisk, UploadIndexed, UploadLost, DeleteOnDisk, DeleteIndexed, Vanish, Age, linkVars, mergeVars
  <2> QED
    BY <1>1, <2>1
<1> QED
  BY <1>3, <1>4, <1>5, <1>6, <1>7, <1>8, <1>9, <1>10, <1>11, <1>12 DEF Next, JobStep, MasterStep

\* Every step keeps the types.
LEMMA StepTypes ==
  ASSUME Types, Numbered, [Next]_vars
  PROVE  Types' /\ Numbered'
<1>1. CASE UNCHANGED vars
  BY <1>1 DEF vars, Types, TypeOK, Numbered
<1>2. CASE Next
  <2>1. Numbered'
    BY <1>2, StepNumbered
  <2>2. CASE Connect \/ LinkBreaks
    <3>1. 1 \in Session
      BY RemergeAssumption DEF Session
    <3> QED
      BY <2>1, <2>2, <3>1, LinkTypes
  <2> QED
    BY <1>2, <2>1, <2>2, LinkTypes, JobTypes, MasterTypes, ScanTypes, FileTypes DEF Next
<1> QED
  BY <1>1, <1>2

\* The state of a slave's remerge stays well typed: listings and answers in the stream,
\* listings in the queue, a job in one of the places of initializeSlaveRemerge.
THEOREM TypeCorrect == Spec => []TypeOK
<1>1. Init => Types /\ Numbered
  <2> SUFFICES ASSUME Init PROVE Numbered
    BY InitTypes
  <2> QED
    BY DEF Init, Numbered
<1>2. Types => TypeOK
  BY DEF Types
<1> QED
  BY <1>1, <1>2, StepTypes, PTL DEF Spec

-----------------------------------------------------------------------------
(* What holds when connections are wound up in time.                       *)

\* A new connection waits until the master has done with the last one and its scan
\* has ended.
TidyConnect ==
  sess' # sess /\ sess > 0 =>
    link[sess] = "down" /\ job[sess] = "done" /\ hand[sess].at = "stop" /\ scan.at = "off"

Up == sess > 0 /\ link[sess] = "up"
Busy == hand[sess].at \in {"add", "prune"}
Cmd == <<sess, jobNo[sess]>>

\* Only the last connection is at work.
Sessions ==
  /\ slaveOn <=> Up
  /\ ~Up => asked = {}
  /\ sess = 0 => scan.at = "off" /\ owed = {} /\ uploading = {}
  /\ \A r \in Session : r > sess => /\ hand[r].at = "take" /\ avail[r] = FALSE /\ depth[r] = 0
                                    /\ queue[r] = <<>> /\ stream[r] = <<>>
  /\ \A r \in Session : r < sess => link[r] = "down" /\ job[r] = "done" /\ hand[r].at = "stop"

Kept ==
  /\ uploading \subseteq disk /\ owed \subseteq disk /\ gone \cap disk = {}
  /\ scan.at \in {"reading", "held"} => \E d \in scan.todo : scan.dir = {d}

\* A listing that was sent and is not processed.
OnWay(d) == Has(stream[sess], d) \/ Has(queue[sess], d) \/ (Busy /\ hand[sess].snap = d)

\* A command is with the slave, in its scan, or answered by what is sent last.
Flow ==
  /\ job[sess] \notin {"wait", "expired", "late"} =>
       asked = {} /\ scan.at = "off" /\ stream[sess] = <<>>
  /\ asked # {} => asked = {Cmd} /\ scan.at = "off" /\ stream[sess] = <<>>
  /\ scan.at # "off" => scan.to = Cmd /\ \A x \in Reply : ~Has(stream[sess], x)
  /\ \A i \in 1..Len(stream[sess]) - 1 : stream[sess][i] \notin Reply
  /\ \A x \in Reply : Has(stream[sess], x) => x.to = Cmd

Counted ==
  /\ hand[sess].at # "stop"
  /\ depth[sess] = Len(queue[sess]) + (IF Busy THEN 1 ELSE 0)

\* With one root, no listing lacks a file that is on the disk and not recent.
Complete(d) == In(d.dir) \cap disk \subseteq d.files \cup recent
Lists ==
  /\ \A d \in Snapshot : OnWay(d) => Complete(d)
  /\ scan.at = "held" => \A f \in disk \ recent : DirOf[f] \in scan.dir => f \in scan.snap

\* Where the scan of a job may have each file of the disk.
Taken(f) == \/ vfs[f] = "seen"
            \/ \E d \in Snapshot : Has(queue[sess], d) /\ f \in d.files
            \/ hand[sess].at = "add" /\ f \in hand[sess].snap.files
Sent(f) == \E d \in Snapshot : Has(stream[sess], d) /\ f \in d.files
ToScan(f) == \/ asked # {}
             \/ /\ scan.at # "off" /\ DirOf[f] \in scan.todo
                /\ scan.at = "held" /\ DirOf[f] \in scan.dir => f \in scan.snap
Ahead ==
  /\ job[sess] \in {"purge", "finished"} => \A f \in owed : vfs[f] = "seen"
  /\ job[sess] = "drain" => \A f \in owed : Taken(f)
  /\ job[sess] = "wait" /\ (\A x \in Reply : Has(stream[sess], x) => x.ok) =>
       \A f \in owed : Taken(f) \/ Sent(f) \/ ToScan(f)

\* On the first remerge of a connection, what is off the disk is not seen again.
Clean == sess > 0 /\ Online(sess) /\ jobNo[sess] = 0 =>
           scan.at = "off" /\ asked = {} /\ \A d \in Snapshot : ~OnWay(d)
First ==
  /\ sess > 0 /\ Online(sess)
  /\ \/ job[sess] = "issue" /\ jobNo[sess] = 0
     \/ job[sess] \in {"wait", "drain", "purge"} /\ jobNo[sess] = 1
GhostFree ==
  First => \A f \in gone : /\ vfs[f] # "seen"
                           /\ \A d \in Snapshot : OnWay(d) => f \notin d.files
                           /\ scan.at = "held" => f \notin scan.snap

Pruned == set.single /\ set.aging = {}
Safe == Unreadable = {} /\ (set.single => set.aging = {})
Live == Flow /\ Counted /\ (Pruned => Lists) /\ (Safe => Ahead)
Base == Types /\ Numbered /\ Sessions /\ Kept /\ Clean /\ GhostFree
MergeInv == Base /\ (Up => Live)

\* What the types say of connections and of the files of the history.
LEMMA BaseFacts ==
  ASSUME Types
  PROVE  /\ sess \in Nat
         /\ sess > 0 => sess \in Session
         /\ Session \subseteq Nat
         /\ \A f \in owed \cup gone \cup disk \cup uploading : f \in Files
         /\ \A r \in Session : r # sess => r > sess \/ r < sess
  BY RemergeAssumption DEF Types, TypeOK, Session

\* A step of the last connection leaves the others as they were.
LEMMA SessionsRest ==
  ASSUME Sessions, UNCHANGED sess,
         \A r \in Session : r # sess => /\ link'[r] = link[r] /\ job'[r] = job[r] /\ hand'[r] = hand[r]
                                       /\ avail'[r] = avail[r] /\ depth'[r] = depth[r]
                                       /\ queue'[r] = queue[r] /\ stream'[r] = stream[r],
         slaveOn' <=> Up', ~Up' => asked' = {},
         sess = 0 => scan.at' = "off" /\ owed' = {} /\ uploading' = {},
         sess \in Nat, Session \subseteq Nat
  PROVE  Sessions'
<1>1. \A r \in Session : r > sess => r # sess
  OBVIOUS
<1>2. \A r \in Session : r < sess => r # sess
  OBVIOUS
<1> QED
  BY <1>1, <1>2 DEF Sessions

\* The invariant holds in the initial states.
LEMMA InitMerge == Init => MergeInv
<1> SUFFICES ASSUME Init PROVE MergeInv
  OBVIOUS
<1>1. Types /\ Numbered
  BY InitTypes DEF Init, Numbered
<1>2. ~Up /\ ~First /\ sess = 0
  BY DEF Init, Up, First
<1>3. \A r \in Session : ~(r < 0)
  BY RemergeAssumption DEF Session
<1>4. Sessions
  BY <1>2, <1>3 DEF Init, Sessions, Idle
<1>5. Kept
  BY DEF Init, Kept, Idle
<1> QED
  BY <1>1, <1>2, <1>4, <1>5 DEF MergeInv, Base, Clean, GhostFree

-----------------------------------------------------------------------------
(* Uploads and deletions.                                                  *)

\* An upload is listed or indexed, a deleted file is owed no more: both keep the invariant.
LEMMA FileKeeps ==
  ASSUME MergeInv, NEW f \in Files, FileStep(f)
  PROVE  MergeInv'
<1>1. /\ UNCHANGED <<linkVars, slaveVars, stream, mergeVars, job, avail>>
  BY DEF FileStep, UploadToDisk, UploadIndexed, UploadLost, DeleteOnDisk, DeleteIndexed, Vanish, Age, history
<1>2. UNCHANGED <<set, sess, link, slaveOn, scan, abort, asked, stream, queue, hand, depth, jobNo, job, avail>>
  BY <1>1 DEF linkVars, slaveVars, mergeVars
<1>3. /\ Types /\ Numbered /\ Sessions /\ Kept /\ vfs \in [Files -> {"absent", "unseen", "seen"}]
      /\ Types' /\ Numbered'
  BY <1>2, FileTypes DEF MergeInv, Base, Types, TypeOK, Numbered
<1>4. /\ uploading' \subseteq disk' /\ owed' \subseteq disk' /\ gone' \cap disk' = {} /\ gone' \subseteq gone
  BY <1>3 DEF FileStep, UploadToDisk, UploadIndexed, UploadLost, DeleteOnDisk, DeleteIndexed, Vanish, Age, history, Kept
<1>5. set.aging = {} => disk' \ recent' \subseteq disk \ recent
  BY DEF FileStep, UploadToDisk, UploadIndexed, UploadLost, DeleteOnDisk, DeleteIndexed, Vanish, Age
<1>6. \A g \in owed' : vfs'[g] = "seen" \/ (g \in owed /\ vfs'[g] = vfs[g])
  BY <1>3, BaseFacts DEF FileStep, UploadToDisk, UploadIndexed, UploadLost, DeleteOnDisk, DeleteIndexed, Vanish, Age, history, Kept
<1>7. \A g \in gone' : vfs'[g] = "seen" => vfs[g] = "seen"
  BY <1>3, <1>4, BaseFacts DEF FileStep, UploadToDisk, UploadIndexed, UploadLost, DeleteOnDisk, DeleteIndexed, Vanish, Age,
      history, Kept
<1>8. sess = 0 => owed' = {} /\ uploading' = {}
  BY <1>3 DEF FileStep, UploadToDisk, UploadIndexed, UploadLost, DeleteOnDisk, DeleteIndexed, Vanish, Age, history,
       Serving, Sessions
<1>9. \A d : OnWay(d)' <=> OnWay(d)
  BY <1>2 DEF OnWay, Busy
<1>10. Sessions'
  BY <1>2, <1>3, <1>8 DEF Sessions, Up
<1>11. Kept' /\ Clean'
  BY <1>2, <1>3, <1>4, <1>9 DEF Kept, Clean, MergeInv, Base, Online
<1>12. GhostFree'
  <2>1. First' <=> First
    BY <1>2 DEF First, Online
  <2> QED
    BY <1>2, <1>4, <1>7, <1>9, <2>1 DEF GhostFree, MergeInv, Base
<1>13. ASSUME Up' PROVE Live'
  <2>1. Flow /\ Counted /\ (Pruned => Lists) /\ (Safe => Ahead)
    BY <1>2, <1>13 DEF Up, MergeInv, Live
  <2>2. Flow' /\ Counted'
    BY <1>2, <2>1 DEF Flow, Counted, Busy, Cmd
  <2>3. ASSUME Pruned' PROVE Lists'
    <3>1. Lists /\ disk' \ recent' \subseteq disk \ recent
      BY <1>2, <1>5, <2>1, <2>3 DEF Pruned
    <3>2. \A d \in Snapshot : OnWay(d)' => Complete(d)'
      BY <1>9, <3>1 DEF Lists, Complete
    <3> QED
      BY <1>2, <3>1, <3>2 DEF Lists
  <2>4. ASSUME Safe' PROVE Ahead'
    <3>1. Ahead
      BY <1>2, <2>1, <2>4 DEF Safe
    <3>2. \A g : /\ g \in owed' => (Taken(g)' \/ (g \in owed /\ (Taken(g)' <=> Taken(g))))
                 /\ Sent(g)' <=> Sent(g)
                 /\ ToScan(g)' <=> ToScan(g)
      BY <1>2, <1>6 DEF Taken, Sent, ToScan
    <3> QED
      BY <1>2, <1>6, <3>1, <3>2 DEF Ahead
  <2> QED
    BY <2>2, <2>3, <2>4 DEF Live
<1> QED
  BY <1>3, <1>10, <1>11, <1>12, <1>13 DEF MergeInv, Base

-----------------------------------------------------------------------------
(* Only the last connection moves.                                         *)

\* The master acts for the last connection alone.
LEMMA OnlyLast ==
  ASSUME Base, NEW s \in Session,
         \/ StartJob(s) \/ GoOffline(s) \/ ClearSlave(s) \/ StopQueue(s)
         \/ JobStep(s) \/ GiveUp(s) \/ DrainTimeout(s) \/ MasterStep(s)
  PROVE  s = sess /\ sess > 0
<1>1. s # sess => s > sess \/ s < sess
  BY BaseFacts DEF Base
<1>2. \/ Online(s) \/ link[s] = "closing"
      \/ job[s] \notin {"none", "done"}
      \/ hand[s].at \in {"add", "prune"}
      \/ hand[s].at = "take" /\ queue[s] # <<>>
      \/ hand[s].at = "take" /\ link[s] = "down"
  BY DEF StartJob, GoOffline, ClearSlave, StopQueue, JobStep, MarkAllUnseen, IssueRemerge, LoseReply, Drain,
     PurgeUnseen, Finish, GiveUp, DrainTimeout, MasterStep, ReadSnapshot, ReadReply, TakeSnapshot, AddSnapshot,
     PruneMissing
<1>3. ~(s > sess)
  BY <1>2 DEF Base, Sessions, Numbered, Online
<1>4. ~(s < sess)
  BY <1>2 DEF Base, Sessions, Online
<1>5. s > 0
  BY DEF Session
<1> QED
  BY <1>1, <1>3, <1>4, <1>5

-----------------------------------------------------------------------------
(* The job.                                                                *)

\* A step of the job that moves nothing else than the index.
LEMMA JobRest ==
  ASSUME MergeInv, sess > 0, Types', Numbered',
         UNCHANGED <<set, sess, link, slaveOn, scan, asked, stream, queue, hand, depth, jobNo, disk, recent,
                     uploading>>,
         \A r \in Session \ {sess} : job'[r] = job[r] /\ avail'[r] = avail[r],
         job'[sess] \in {"wait", "expired", "late"} => job[sess] \in {"wait", "expired", "late"},
         job[sess] \in {"wait", "expired", "late"} /\ Up => job'[sess] \in {"wait", "expired", "late"},
         owed' \subseteq disk, gone' \cap disk = {}
  PROVE  /\ Types' /\ Numbered' /\ Sessions' /\ Kept' /\ Clean'
         /\ Up' => Flow' /\ Counted' /\ (Pruned => Lists)'
         /\ \A d : OnWay(d)' <=> OnWay(d)
<1>0. Types /\ Sessions /\ Kept /\ Clean
  BY DEF MergeInv, Base
<1>1. /\ Types /\ Sessions /\ Kept /\ Clean /\ sess \in Nat /\ Session \subseteq Nat
      /\ Up' <=> Up
  BY <1>0, BaseFacts DEF Up
<1>2. \A d : OnWay(d)' <=> OnWay(d)
  BY DEF OnWay, Busy
<1>3. Sessions'
  BY <1>1, SessionsRest DEF Sessions
<1>4. Kept' /\ Clean'
  BY <1>1, <1>2 DEF Kept, Clean, Online
<1>5. ASSUME Up' PROVE Flow' /\ Counted' /\ (Pruned => Lists)'
  <2>1. Flow /\ Counted /\ (Pruned => Lists)
    BY <1>1, <1>5 DEF MergeInv, Live
  <2>2. Flow'
    BY <1>1, <1>5, <2>1 DEF Flow, Cmd
  <2>3. Counted'
    BY <2>1 DEF Counted, Busy
  <2>4. \A d : Complete(d)' <=> Complete(d)
    BY DEF Complete
  <2> QED
    BY <1>2, <2>1, <2>2, <2>3, <2>4 DEF Lists, Pruned
<1> QED
  BY <1>2, <1>3, <1>4, <1>5

\* The steps of initializeSlaveRemerge but IssueRemerge: MarkAllUnseen, the wait, the
\* drain, which sees the queue empty once the depth is 0, and PurgeUnseen.
LEMMA JobKeeps ==
  ASSUME MergeInv, NEW s \in Session,
         StartJob(s) \/ MarkAllUnseen(s) \/ LoseReply(s) \/ GiveUp(s) \/ Drain(s) \/ DrainTimeout(s)
         \/ PurgeUnseen(s) \/ Finish(s)
  PROVE  MergeInv'
<1>1. s = sess /\ sess > 0 /\ sess \in Session
  BY OnlyLast DEF MergeInv, Base, JobStep
<1>2. /\ Types /\ Numbered /\ Sessions /\ Kept /\ Clean /\ GhostFree
      /\ job \in [Session -> {"none", "mark", "issue", "wait", "drain", "purge",
                              "finished", "end", "expired", "undrained", "late", "done"}]
      /\ avail \in [Session -> BOOLEAN] /\ vfs \in [Files -> {"absent", "unseen", "seen"}]
  BY DEF MergeInv, Base, Types, TypeOK
<1>3. /\ UNCHANGED <<set, sess, link, slaveOn, scan, asked, stream, queue, hand, depth, jobNo, disk, recent, uploading>>
      /\ \A r \in Session \ {sess} : job'[r] = job[r] /\ avail'[r] = avail[r]
  BY <1>1, <1>2 DEF StartJob, MarkAllUnseen, LoseReply, GiveUp, Drain, DrainTimeout, PurgeUnseen, Finish,
     linkVars, slaveVars, mergeVars, fileVars
<1>4. Types' /\ Numbered'
  BY <1>2, StepTypes DEF Next, JobStep
<1>5. owed' \subseteq disk /\ gone' \cap disk = {}
  BY <1>2 DEF Kept, StartJob, MarkAllUnseen, LoseReply, GiveUp, Drain, DrainTimeout, PurgeUnseen, Finish, history
<1>6. /\ job'[sess] \in {"wait", "expired", "late"} => job[sess] \in {"wait", "expired", "late"}
      /\ job[sess] \in {"wait", "expired", "late"} /\ Up => job'[sess] \in {"wait", "expired", "late"}
  BY <1>1, <1>2 DEF StartJob, MarkAllUnseen, LoseReply, GiveUp, Drain, DrainTimeout, PurgeUnseen, Finish, Up, Online
<1>7. /\ Sessions' /\ Kept' /\ Clean'
      /\ Up' => Flow' /\ Counted' /\ (Pruned => Lists)'
      /\ \A d : OnWay(d)' <=> OnWay(d)
  BY <1>1, <1>3, <1>4, <1>5, <1>6, JobRest
<1>8. ASSUME GhostFree', Up' /\ Safe' => Ahead' PROVE MergeInv'
  BY <1>4, <1>7, <1>8 DEF MergeInv, Base, Live
<1>9. Up' /\ Safe' => Up /\ Live /\ Ahead
  BY <1>3 DEF Up, Safe, MergeInv, Live
<1>10. CASE job'[sess] \notin {"issue", "wait", "drain", "purge", "finished"}
  BY <1>3, <1>8, <1>10 DEF GhostFree, First, Ahead
<1>11. CASE MarkAllUnseen(s)
  <2>1. /\ job[sess] = "mark" /\ job'[sess] = "issue"
        /\ vfs' = [f \in Files |-> IF vfs[f] = "seen" THEN "unseen" ELSE vfs[f]]
    BY <1>1, <1>2, <1>11 DEF MarkAllUnseen
  <2>2. gone' \subseteq Files
    BY <1>4 DEF Types, TypeOK
  <2>3. \A f \in Files : vfs'[f] # "seen"
    BY <1>2, <2>1
  <2>4. First' => sess > 0 /\ Online(sess) /\ jobNo[sess] = 0
    BY <1>3, <2>1 DEF First, Online
  <2>5. GhostFree'
    BY <1>2, <1>3, <1>7, <2>2, <2>3, <2>4 DEF GhostFree, Clean
  <2> QED
    BY <1>3, <1>8, <2>1, <2>5 DEF Ahead
<1>12. CASE Drain(s) /\ depth[s] = 0 /\ job' = [job EXCEPT ![s] = "purge"]
  <2>1. job[sess] = "drain" /\ job'[sess] = "purge" /\ UNCHANGED <<vfs, owed, gone>>
    BY <1>1, <1>2, <1>12 DEF Drain, history
  <2>2. First' => First
    BY <1>3, <2>1 DEF First, Online
  <2>3. GhostFree'
    BY <1>2, <1>3, <1>7, <2>1, <2>2 DEF GhostFree
  <2>4. ASSUME Up', Safe' PROVE Ahead'
    <3>1. Counted /\ Ahead
      BY <1>9, <2>4 DEF Live
    <3>2. queue[sess] \in Seq(Snapshot) /\ Len(queue[sess]) \in Nat
      BY <1>1, <1>2 DEF Types
    <3>3. Len(queue[sess]) = 0 /\ ~Busy
      <4>1. Len(queue[sess]) + (IF Busy THEN 1 ELSE 0) = 0
        BY <1>1, <1>12, <3>1 DEF Counted
      <4>2. CASE Busy
        BY <3>2, <4>1, <4>2
      <4>3. CASE ~Busy
        BY <3>2, <4>1, <4>3
      <4> QED
        BY <4>2, <4>3
    <3>4. \A d : ~Has(queue[sess], d)
      BY <3>2, <3>3, EmptyHas
    <3>5. \A f \in owed : vfs[f] = "seen"
      BY <2>1, <3>1, <3>3, <3>4 DEF Ahead, Taken, Busy
    <3> QED
      BY <1>3, <2>1, <3>5 DEF Ahead
  <2> QED
    BY <1>8, <2>3, <2>4
<1>13. CASE PurgeUnseen(s)
  <2>1. /\ job[sess] = "purge" /\ job'[sess] = "finished" /\ UNCHANGED <<owed, gone>>
        /\ \A f \in Files : vfs[f] = "seen" => vfs'[f] = "seen"
    BY <1>1, <1>2, <1>13 DEF PurgeUnseen, history
  <2>2. GhostFree'
    BY <1>3, <2>1 DEF GhostFree, First
  <2>3. ASSUME Up', Safe' PROVE Ahead'
    <3>1. \A f \in owed : vfs[f] = "seen" /\ f \in Files
      BY <1>2, <1>9, <2>1, <2>3, BaseFacts DEF Ahead
    <3> QED
      BY <1>3, <2>1, <3>1 DEF Ahead
  <2> QED
    BY <1>8, <2>2, <2>3
<1> QED
  BY <1>1, <1>2, <1>10, <1>11, <1>12, <1>13 DEF StartJob, LoseReply, GiveUp, Drain, DrainTimeout, Finish

\* IssueRemerge: the command that a scan will answer.
LEMMA IssueKeeps ==
  ASSUME MergeInv, NEW s \in Session, IssueRemerge(s)
  PROVE  MergeInv'
<1>1. s = sess /\ sess > 0 /\ sess \in Session
  BY OnlyLast DEF MergeInv, Base, JobStep
<1>2. /\ Types /\ Numbered /\ Sessions /\ Kept /\ Clean /\ GhostFree
      /\ job \in [Session -> {"none", "mark", "issue", "wait", "drain", "purge",
                              "finished", "end", "expired", "undrained", "late", "done"}]
      /\ jobNo \in [Session -> 0..MaxJob]
  BY DEF MergeInv, Base, Types, TypeOK
<1>3. /\ UNCHANGED <<set, sess, link, slaveOn, scan, stream, queue, hand, depth, avail, disk, vfs, recent,
                     uploading, owed, gone>>
      /\ \A r \in Session \ {sess} : job'[r] = job[r]
      /\ job[sess] = "issue"
  BY <1>1, <1>2 DEF IssueRemerge, linkVars, fileVars, history
<1>4. \/ /\ Online(sess) /\ job'[sess] = "wait" /\ jobNo'[sess] = jobNo[sess] + 1
         /\ asked' = IF link[sess] = "up" THEN asked \cup {<<sess, jobNo[sess] + 1>>} ELSE asked
      \/ ~Online(sess) /\ job'[sess] = "done" /\ asked' = asked
  BY <1>1, <1>2 DEF IssueRemerge
<1>5. Types' /\ Numbered'
  BY <1>2, StepTypes DEF Next, JobStep
<1>6. (Up' <=> Up) /\ (\A d : OnWay(d)' <=> OnWay(d))
  BY <1>3 DEF Up, OnWay, Busy
<1>7. jobNo[sess] \in Nat /\ sess \in Nat /\ Session \subseteq Nat
  BY <1>1, <1>2, BaseFacts
<1>8. Sessions'
  <2>1. ~Up' => asked' = {}
    BY <1>1, <1>2, <1>4, <1>6 DEF Sessions, Up
  <2> QED
    BY <1>1, <1>2, <1>3, <1>6, <1>7, <2>1, SessionsRest DEF Sessions
<1>9. Kept'
  BY <1>2, <1>3 DEF Kept
<1>10. Clean' /\ GhostFree'
  <2>1. CASE Online(sess) /\ job'[sess] = "wait" /\ jobNo'[sess] = jobNo[sess] + 1
    <3>1. jobNo'[sess] # 0 /\ (jobNo'[sess] = 1 => jobNo[sess] = 0)
      BY <1>7, <2>1
    <3>2. First' => First
      BY <1>3, <2>1, <3>1 DEF First, Online
    <3> QED
      BY <1>2, <1>3, <1>6, <3>1, <3>2 DEF Clean, GhostFree
  <2>2. CASE ~Online(sess)
    BY <1>3, <2>2 DEF Clean, GhostFree, First, Online
  <2> QED
    BY <1>4, <2>1, <2>2
<1>11. ASSUME Up' PROVE Live'
  <2>1. /\ Flow /\ Counted /\ (Pruned => Lists)
        /\ asked = {} /\ scan.at = "off" /\ stream[sess] = <<>>
    BY <1>3, <1>6, <1>11 DEF MergeInv, Live, Flow
  <2>2. /\ job'[sess] = "wait" /\ jobNo'[sess] = jobNo[sess] + 1 /\ asked' = {<<sess, jobNo[sess] + 1>>}
    BY <1>4, <1>6, <1>11, <2>1 DEF Up, Online
  <2>3. Flow'
    <3>1. \A x : ~Has(stream[sess], x)
      BY <2>1 DEF Has
    <3>2. \A i \in 1..Len(stream[sess]) - 1 : FALSE
      BY <2>1
    <3> QED
      BY <1>3, <2>1, <2>2, <3>1, <3>2 DEF Flow, Cmd
  <2>4. Counted' /\ (Pruned => Lists)'
    BY <1>3, <1>6, <2>1 DEF Counted, Busy, Pruned, Lists, Complete
  <2>5. Ahead'
    BY <1>3, <2>2 DEF Ahead, ToScan
  <2> QED
    BY <2>3, <2>4, <2>5 DEF Live
<1> QED
  BY <1>5, <1>8, <1>9, <1>10, <1>11 DEF MergeInv, Base

-----------------------------------------------------------------------------
(* The read loop and the queue.                                            *)

\* A step of theirs that brings no new listing.
PipeStep ==
  /\ UNCHANGED <<set, sess, link, slaveOn, asked, scan, avail, jobNo, disk, recent, uploading, owed, gone>>
  /\ \A r \in Session : r # sess => /\ job'[r] = job[r] /\ hand'[r] = hand[r] /\ depth'[r] = depth[r]
                                    /\ queue'[r] = queue[r] /\ stream'[r] = stream[r]
  /\ \A d \in Snapshot : OnWay(d)' => OnWay(d)
  /\ \A f \in gone : First /\ vfs'[f] = "seen" => vfs[f] = "seen" \/ \E d \in Snapshot : OnWay(d) /\ f \in d.files
  /\ \/ job'[sess] = job[sess] \/ job'[sess] \in {"end", "done"}
     \/ job[sess] = "wait" /\ job'[sess] = "drain"

\* Such a step keeps the invariant when it keeps what is said of a live connection.
LEMMA PipeRest ==
  ASSUME MergeInv, PipeStep, Types', Numbered', Up => Flow' /\ Counted' /\ (Safe => Ahead')
  PROVE  MergeInv'
<1>1. /\ Types /\ Numbered /\ Sessions /\ Kept /\ Clean /\ GhostFree
      /\ UNCHANGED <<set, sess, link, slaveOn, asked, scan, avail, jobNo, disk, recent, uploading, owed, gone>>
  BY DEF MergeInv, Base, PipeStep
<1>2. Up' <=> Up
  BY <1>1 DEF Up
<1>3. sess \in Nat /\ Session \subseteq Nat
  BY <1>1, BaseFacts
<1>4. Sessions'
  BY <1>1, <1>2, <1>3, SessionsRest DEF PipeStep, Sessions
<1>5. Kept' /\ Clean'
  BY <1>1 DEF Kept, Clean, PipeStep, Online
<1>6. GhostFree'
  <2>1. First' => First
    BY <1>1 DEF First, PipeStep, Online
  <2> QED
    BY <1>1, <2>1 DEF GhostFree, PipeStep
<1>7. ASSUME Up' PROVE Live'
  <2>1. Pruned => Lists
    BY <1>2, <1>7 DEF MergeInv, Live
  <2>2. (Pruned => Lists)'
    BY <1>1, <2>1 DEF Pruned, Lists, Complete, PipeStep
  <2>3. Safe' <=> Safe
    BY <1>1 DEF Safe
  <2> QED
    BY <1>2, <1>7, <2>2, <2>3 DEF Live
<1> QED
  BY <1>4, <1>5, <1>6, <1>7 DEF MergeInv, Base

\* enqueueRemerge: a listing goes from the stream to the queue, and is counted.
LEMMA ReadSnapshotKeeps ==
  ASSUME MergeInv, NEW s \in Session, ReadSnapshot(s)
  PROVE  MergeInv'
<1>1. s = sess /\ sess > 0 /\ sess \in Session
  BY OnlyLast DEF MergeInv, Base, MasterStep
<1>2. /\ Types /\ Numbered
      /\ stream \in [Session -> Seq(Snapshot \cup Reply)] /\ queue \in [Session -> Seq(Snapshot)]
      /\ depth \in [Session -> Nat] /\ hand \in [Session -> Hands]
  BY DEF MergeInv, Base, Types, TypeOK
<1>3. Types' /\ Numbered'
  BY <1>2, StepTypes DEF Next, MasterStep
<1>4. PICK d \in Snapshot : d = Head(stream[sess])
  BY <1>1 DEF ReadSnapshot
<1>5. /\ stream[sess] # <<>> /\ stream[sess] \in Seq(Snapshot \cup Reply) /\ queue[sess] \in Seq(Snapshot)
      /\ stream'[sess] = Tail(stream[sess]) /\ queue'[sess] = Append(queue[sess], d)
      /\ depth'[sess] = depth[sess] + 1
      /\ \A r \in Session : r # sess => depth'[r] = depth[r] /\ queue'[r] = queue[r] /\ stream'[r] = stream[r]
      /\ UNCHANGED <<set, sess, link, slaveOn, scan, abort, asked, hand, jobNo, job, avail, disk, recent,
                     uploading, deleting, vfs, owed, gone>>
  BY <1>1, <1>2, <1>4 DEF ReadSnapshot, linkVars, slaveVars, fileVars, history
<1>6. /\ \A x : Has(stream'[sess], x) => Has(stream[sess], x)
      /\ \A x : Has(stream[sess], x) => x = d \/ Has(stream'[sess], x)
      /\ \A x : Has(queue'[sess], x) <=> Has(queue[sess], x) \/ x = d
      /\ Has(stream[sess], d)
      /\ Len(queue'[sess]) = Len(queue[sess]) + 1 /\ Len(queue[sess]) \in Nat
      /\ Len(stream'[sess]) = Len(stream[sess]) - 1 /\ Len(stream[sess]) \in Nat
      /\ \A i \in 1..Len(stream[sess]) - 1 : stream'[sess][i] = stream[sess][i + 1]
  BY <1>4, <1>5, TailHas, AppendHas
<1>7. PipeStep
  BY <1>5, <1>6 DEF PipeStep, OnWay, Busy
<1>8. ASSUME Up PROVE Flow' /\ Counted' /\ (Safe => Ahead')
  <2>1. Flow /\ Counted /\ (Safe => Ahead)
    BY <1>8 DEF MergeInv, Live
  <2>2. Flow'
    <3>1. \A i \in 1..Len(stream'[sess]) - 1 : stream'[sess][i] \notin Reply
      <4> TAKE i \in 1..Len(stream'[sess]) - 1
      <4>1. i \in 1..Len(stream[sess]) - 1 /\ i + 1 \in 1..Len(stream[sess]) - 1
        BY <1>6
      <4> QED
        BY <1>6, <2>1, <4>1 DEF Flow
    <3> QED
      BY <1>5, <1>6, <2>1, <3>1 DEF Flow, Cmd
  <2>3. Counted'
    <3>1. Busy' <=> Busy
      BY <1>5 DEF Busy
    <3>2. depth[sess] = Len(queue[sess]) + (IF Busy THEN 1 ELSE 0)
      BY <2>1 DEF Counted
    <3>3. depth'[sess] = Len(queue'[sess]) + (IF Busy THEN 1 ELSE 0)
      <4>1. CASE Busy
        BY <1>5, <1>6, <3>2, <4>1
      <4>2. CASE ~Busy
        BY <1>5, <1>6, <3>2, <4>2
      <4> QED
        BY <4>1, <4>2
    <3> QED
      BY <1>5, <2>1, <3>1, <3>3 DEF Counted
  <2>4. ASSUME Safe PROVE Ahead'
    <3>1. \A f : /\ Taken(f) => Taken(f)'
                 /\ Sent(f) => Sent(f)' \/ Taken(f)'
                 /\ ToScan(f)' <=> ToScan(f)
      BY <1>5, <1>6 DEF Taken, Sent, ToScan
    <3>2. \A x \in Reply : Has(stream[sess], x) => Has(stream'[sess], x)
      BY <1>6, Kinds
    <3> QED
      BY <1>5, <2>1, <2>4, <3>1, <3>2 DEF Ahead
  <2> QED
    BY <2>2, <2>3, <2>4
<1> QED
  BY <1>3, <1>7, <1>8, PipeRest

\* The answer is the last thing in the stream: once it is read as ok, all is taken.
LEMMA ReadReplyKeeps ==
  ASSUME MergeInv, NEW s \in Session, ReadReply(s)
  PROVE  MergeInv'
<1>1. s = sess /\ sess > 0 /\ sess \in Session
  BY OnlyLast DEF MergeInv, Base, MasterStep
<1>2. /\ Types /\ Numbered
      /\ stream \in [Session -> Seq(Snapshot \cup Reply)]
      /\ job \in [Session -> {"none", "mark", "issue", "wait", "drain", "purge",
                              "finished", "end", "expired", "undrained", "late", "done"}]
  BY DEF MergeInv, Base, Types, TypeOK
<1>3. Types' /\ Numbered'
  BY <1>2, StepTypes DEF Next, MasterStep
<1>4. PICK x \in Reply : x = Head(stream[sess])
  BY <1>1 DEF ReadReply
<1>5. /\ stream[sess] # <<>> /\ stream[sess] \in Seq(Snapshot \cup Reply)
      /\ stream'[sess] = Tail(stream[sess])
      /\ \A r \in Session : r # sess => job'[r] = job[r] /\ stream'[r] = stream[r]
      /\ UNCHANGED <<set, sess, link, slaveOn, scan, abort, asked, queue, hand, depth, jobNo, avail, disk, recent,
                     uploading, deleting, vfs, owed, gone>>
  BY <1>1, <1>2, <1>4 DEF ReadReply, linkVars, slaveVars, mergeVars, fileVars, history
<1>6. /\ \A y : Has(stream'[sess], y) => Has(stream[sess], y)
      /\ \A y : Has(stream[sess], y) => y = x \/ Has(stream'[sess], y)
      /\ Has(stream[sess], x) /\ stream[sess][1] = x
      /\ Len(stream'[sess]) = Len(stream[sess]) - 1 /\ Len(stream[sess]) \in Nat \ {0}
      /\ stream'[sess] \in Seq(Snapshot \cup Reply)
  BY <1>4, <1>5, TailHas
<1>7. /\ job[sess] = "wait" /\ x.to = <<s, jobNo[s]>> => job'[sess] = IF x.ok THEN "drain" ELSE "end"
      /\ job[sess] = "late" /\ x.to = <<s, jobNo[s]>> => job'[sess] = "done"
      /\ ~(job[sess] \in {"wait", "late"} /\ x.to = <<s, jobNo[s]>>) => job'[sess] = job[sess]
  BY <1>1, <1>2, <1>4 DEF ReadReply
<1>8. PipeStep
  BY <1>1, <1>5, <1>6, <1>7 DEF PipeStep, OnWay, Busy
<1>9. ASSUME Up PROVE Flow' /\ Counted' /\ (Safe => Ahead')
  <2>1. Flow /\ Counted /\ (Safe => Ahead)
    BY <1>9 DEF MergeInv, Live
  <2>2. x.to = <<s, jobNo[s]>> /\ asked = {} /\ scan.at = "off"
    BY <1>1, <1>5, <1>6, <2>1 DEF Flow, Cmd
  <2>3. stream'[sess] = <<>>
    <3>1. Len(stream[sess]) = 1
      <4>1. 1 \notin 1..Len(stream[sess]) - 1
        BY <1>6, <2>1 DEF Flow
      <4>2. \A n \in Nat \ {0} : 1 \notin 1..n - 1 => n = 1
        OBVIOUS
      <4> QED
        BY <1>6, <4>1, <4>2
    <3>2. Len(stream'[sess]) = 0
      BY <1>6, <3>1
    <3> QED
      BY <1>6, <3>2, EmptyHas
  <2>4. \A y : ~Has(stream'[sess], y)
    BY <2>3 DEF Has
  <2>5. Flow'
    <3>1. \A i \in 1..Len(stream'[sess]) - 1 : FALSE
      BY <2>3
    <3> QED
      BY <1>5, <2>2, <2>3, <2>4, <3>1 DEF Flow
  <2>6. Counted'
    BY <1>5, <2>1 DEF Counted, Busy
  <2>7. ASSUME Safe PROVE Ahead'
    <3>1. CASE job[sess] = "wait" /\ x.ok
      <4>1. job'[sess] = "drain"
        BY <1>7, <2>2, <3>1
      <4>2. \A y \in Reply : Has(stream[sess], y) => y.ok
        BY <1>6, <2>4, <3>1
      <4>3. \A f : ~Sent(f)
        BY <1>6, <2>4, Kinds DEF Sent
      <4>4. \A f \in owed : Taken(f)
        BY <2>1, <2>2, <2>7, <3>1, <4>2, <4>3 DEF Ahead, ToScan
      <4> QED
        BY <1>5, <4>1, <4>4 DEF Ahead, Taken
    <3>2. CASE job[sess] = "wait" /\ ~x.ok
      BY <1>5, <1>7, <2>2, <3>2 DEF Ahead
    <3>3. CASE job[sess] # "wait"
      <4>1. job'[sess] = job[sess] \/ job'[sess] = "done"
        BY <1>7, <3>3
      <4> QED
        BY <1>5, <2>1, <2>7, <3>3, <4>1 DEF Ahead, Taken
    <3> QED
      BY <3>1, <3>2, <3>3
  <2> QED
    BY <2>5, <2>6, <2>7
<1> QED
  BY <1>3, <1>8, <1>9, PipeRest

\* The queue goroutine takes a listing, which stays counted.
LEMMA TakeKeeps ==
  ASSUME MergeInv, NEW s \in Session, TakeSnapshot(s)
  PROVE  MergeInv'
<1>1. s = sess /\ sess > 0 /\ sess \in Session
  BY OnlyLast DEF MergeInv, Base, MasterStep
<1>2. /\ Types /\ Numbered
      /\ queue \in [Session -> Seq(Snapshot)] /\ hand \in [Session -> Hands]
  BY DEF MergeInv, Base, Types, TypeOK
<1>3. Types' /\ Numbered'
  BY <1>2, StepTypes DEF Next, MasterStep
<1>4. PICK d \in Snapshot : d = Head(queue[sess])
  BY <1>1, <1>2, TailHas DEF TakeSnapshot
<1>5. /\ queue[sess] # <<>> /\ queue[sess] \in Seq(Snapshot) /\ queue'[sess] = Tail(queue[sess])
      /\ hand[sess].at = "take" /\ hand'[sess] = [at |-> "add", snap |-> d]
      /\ \A r \in Session : r # sess => hand'[r] = hand[r] /\ queue'[r] = queue[r]
      /\ UNCHANGED <<set, sess, link, slaveOn, scan, abort, asked, stream, depth, jobNo, job, avail, disk, recent,
                     uploading, deleting, vfs, owed, gone>>
  BY <1>1, <1>2, <1>4 DEF TakeSnapshot, linkVars, slaveVars, fileVars, history
<1>6. /\ \A x : Has(queue'[sess], x) => Has(queue[sess], x)
      /\ \A x : Has(queue[sess], x) => x = d \/ Has(queue'[sess], x)
      /\ Has(queue[sess], d)
      /\ Len(queue'[sess]) = Len(queue[sess]) - 1 /\ Len(queue[sess]) \in Nat
  BY <1>4, <1>5, TailHas
<1>7. ~Busy /\ Busy' /\ hand'[sess].snap = d /\ hand'[sess].at = "add"
  BY <1>5 DEF Busy
<1>8. PipeStep
  BY <1>5, <1>6, <1>7 DEF PipeStep, OnWay
<1>9. ASSUME Up PROVE Flow' /\ Counted' /\ (Safe => Ahead')
  <2>1. Flow /\ Counted /\ (Safe => Ahead)
    BY <1>9 DEF MergeInv, Live
  <2>2. Flow'
    BY <1>5, <2>1 DEF Flow, Cmd
  <2>3. depth[sess] = Len(queue[sess]) + 0
    BY <1>7, <2>1 DEF Counted
  <2>4. depth'[sess] = Len(queue'[sess]) + 1
    BY <1>5, <1>6, <2>3
  <2>5. Counted'
    BY <1>5, <1>7, <2>4 DEF Counted
  <2>6. \A f : /\ Taken(f) => Taken(f)'
               /\ Sent(f)' <=> Sent(f)
               /\ ToScan(f)' <=> ToScan(f)
    BY <1>5, <1>6, <1>7 DEF Taken, Sent, ToScan
  <2>7. Safe => Ahead'
    BY <1>5, <2>1, <2>6 DEF Ahead
  <2> QED
    BY <2>2, <2>5, <2>7
<1> QED
  BY <1>3, <1>8, <1>9, PipeRest

\* It stops only when the connection is gone.
LEMMA StopKeeps ==
  ASSUME MergeInv, NEW s \in Session, StopQueue(s)
  PROVE  MergeInv'
<1>1. s = sess /\ sess > 0 /\ sess \in Session
  BY OnlyLast DEF MergeInv, Base
<1>2. Types /\ Numbered /\ hand \in [Session -> Hands]
  BY DEF MergeInv, Base, Types
<1>3. Types' /\ Numbered'
  BY <1>2, StepTypes DEF Next
<1>4. /\ ~Up /\ hand'[sess] = [at |-> "stop"]
      /\ \A r \in Session : r # sess => hand'[r] = hand[r]
      /\ UNCHANGED <<set, sess, link, slaveOn, scan, abort, asked, stream, queue, depth, jobNo, job, avail, disk,
                     recent, uploading, deleting, vfs, owed, gone>>
  BY <1>1, <1>2 DEF StopQueue, linkVars, slaveVars, fileVars, history, Up
<1>5. ~Busy'
  BY <1>4 DEF Busy
<1>6. PipeStep
  BY <1>4, <1>5 DEF PipeStep, OnWay
<1> QED
  BY <1>3, <1>4, <1>6, PipeRest

\* ProcessRemerge adds what the listing has.
LEMMA AddKeeps ==
  ASSUME MergeInv, NEW s \in Session, AddSnapshot(s)
  PROVE  MergeInv'
<1>1. s = sess /\ sess > 0 /\ sess \in Session
  BY OnlyLast DEF MergeInv, Base, MasterStep
<1>2. /\ Types /\ Numbered /\ hand \in [Session -> Hands]
      /\ gone \subseteq Files /\ vfs \in [Files -> {"absent", "unseen", "seen"}]
  BY DEF MergeInv, Base, Types, TypeOK
<1>3. Types' /\ Numbered'
  BY <1>2, StepTypes DEF Next, MasterStep
<1>4. PICK d \in Snapshot : d = hand[sess].snap
  BY <1>1, <1>2, HandTypes DEF AddSnapshot
<1>5. /\ hand[sess].at = "add" /\ hand'[sess].at = "prune" /\ hand'[sess].snap = d
      /\ vfs' = [f \in Files |-> IF f \in d.files THEN "seen" ELSE vfs[f]]
      /\ \A r \in Session : r # sess => hand'[r] = hand[r]
      /\ UNCHANGED <<set, sess, link, slaveOn, scan, abort, asked, stream, queue, depth, jobNo, job, avail, disk,
                     recent, uploading, deleting, owed, gone>>
  <2>1. hand[sess] = [at |-> "add", snap |-> d]
    BY <1>1, <1>2, <1>4, HandTypes DEF AddSnapshot
  <2> QED
    BY <1>1, <1>2, <1>4, <2>1 DEF AddSnapshot, linkVars, slaveVars, fileVars, history
<1>6. Busy /\ Busy' /\ OnWay(d) /\ \A x : OnWay(x)' <=> OnWay(x)
  BY <1>4, <1>5 DEF Busy, OnWay
<1>7. PipeStep
  BY <1>2, <1>4, <1>5, <1>6 DEF PipeStep
<1>8. ASSUME Up PROVE Flow' /\ Counted' /\ (Safe => Ahead')
  <2>1. Flow /\ Counted /\ (Safe => Ahead)
    BY <1>8 DEF MergeInv, Live
  <2>2. Flow' /\ Counted'
    BY <1>5, <1>6, <2>1 DEF Flow, Counted, Cmd
  <2>3. owed \subseteq Files
    BY <1>2, BaseFacts
  <2>4. \A f \in Files : /\ vfs[f] = "seen" => vfs'[f] = "seen"
                         /\ Taken(f) => Taken(f)'
    BY <1>4, <1>5 DEF Taken
  <2>5. \A f : /\ Sent(f)' <=> Sent(f)
               /\ ToScan(f)' <=> ToScan(f)
    BY <1>5 DEF Sent, ToScan
  <2>6. Safe => Ahead'
    BY <1>5, <2>1, <2>3, <2>4, <2>5 DEF Ahead
  <2> QED
    BY <2>2, <2>6
<1> QED
  BY <1>3, <1>7, <1>8, PipeRest

\* PurgeMissingChildren drops no file that is owed: the listing has it or it is recent.
LEMMA PruneKeeps ==
  ASSUME MergeInv, NEW s \in Session, PruneMissing(s)
  PROVE  MergeInv'
<1>1. s = sess /\ sess > 0 /\ sess \in Session
  BY OnlyLast DEF MergeInv, Base, MasterStep
<1>2. /\ Types /\ Numbered /\ Kept /\ hand \in [Session -> Hands] /\ depth \in [Session -> Nat]
      /\ queue \in [Session -> Seq(Snapshot)]
      /\ gone \subseteq Files /\ vfs \in [Files -> {"absent", "unseen", "seen"}]
  BY DEF MergeInv, Base, Types, TypeOK
<1>3. Types' /\ Numbered'
  BY <1>2, StepTypes DEF Next, MasterStep
<1>4. PICK d \in Snapshot : d = hand[sess].snap
  BY <1>1, <1>2, HandTypes DEF PruneMissing
<1> DEFINE missing == IF set.single THEN In(d.dir) \ (d.files \cup recent) ELSE {}
<1>5. /\ hand[sess].at = "prune" /\ hand'[sess] = [at |-> "take"]
      /\ vfs' = [f \in Files |-> IF f \in missing THEN "absent" ELSE vfs[f]]
      /\ depth'[sess] = IF depth[sess] = 0 THEN 0 ELSE depth[sess] - 1
      /\ \A r \in Session : r # sess => hand'[r] = hand[r] /\ depth'[r] = depth[r]
      /\ UNCHANGED <<set, sess, link, slaveOn, scan, abort, asked, stream, queue, jobNo, job, avail, disk,
                     recent, uploading, deleting, owed, gone>>
  BY <1>1, <1>2, <1>4 DEF PruneMissing, linkVars, slaveVars, fileVars, history
<1>6. Busy /\ ~Busy' /\ OnWay(d) /\ \A x : OnWay(x)' => OnWay(x)
  BY <1>4, <1>5 DEF Busy, OnWay
<1>7. \A f \in Files : vfs'[f] = "seen" => vfs[f] = "seen"
  BY <1>5
<1>8. PipeStep
  BY <1>2, <1>5, <1>6, <1>7 DEF PipeStep
<1>9. ASSUME Up PROVE Flow' /\ Counted' /\ (Safe => Ahead')
  <2>1. Flow /\ Counted /\ (Safe => Ahead) /\ (Pruned => Lists)
    BY <1>9 DEF MergeInv, Live
  <2>2. Flow'
    BY <1>5, <2>1 DEF Flow, Cmd
  <2>3. Counted'
    <3>1. depth[sess] = Len(queue[sess]) + 1
      BY <1>6, <2>1 DEF Counted
    <3>2. Len(queue[sess]) \in Nat
      BY <1>1, <1>2
    <3>3. depth'[sess] = Len(queue[sess]) + 0
      BY <1>5, <3>1, <3>2
    <3> QED
      BY <1>5, <1>6, <3>3 DEF Counted
  <2>4. ASSUME Safe PROVE Ahead'
    <3>1. owed \subseteq Files /\ owed \subseteq disk
      BY <1>2, BaseFacts DEF Kept
    <3>2. \A f \in owed : f \notin missing
      <4>1. CASE set.single
        <5>1. Complete(d)
          BY <1>6, <2>1, <2>4, <4>1 DEF Safe, Pruned, Lists
        <5> QED
          BY <3>1, <4>1, <5>1 DEF Complete
      <4>2. CASE ~set.single
        BY <4>2
      <4> QED
        BY <4>1, <4>2
    <3>3. \A f \in owed : vfs'[f] = vfs[f]
      BY <1>5, <3>1, <3>2
    <3>4. \A f \in owed : Taken(f) => Taken(f)'
      BY <1>5, <3>3 DEF Taken
    <3>5. \A f : /\ Sent(f)' <=> Sent(f)
                 /\ ToScan(f)' <=> ToScan(f)
      BY <1>5 DEF Sent, ToScan
    <3> QED
      BY <1>5, <2>1, <2>4, <3>3, <3>4, <3>5 DEF Ahead
  <2> QED
    BY <2>2, <2>3, <2>4
<1> QED
  BY <1>3, <1>8, <1>9, PipeRest

-----------------------------------------------------------------------------
(* The scan.                                                               *)

\* A step of the slave: it moves the scan, what is asked of it and its stream.
SlaveStep ==
  /\ UNCHANGED <<set, sess, link, slaveOn, queue, hand, depth, jobNo, job, avail, disk, vfs, recent, uploading,
                 owed, gone>>
  /\ \A r \in Session : r # sess => stream'[r] = stream[r]
  /\ asked' \subseteq asked
  /\ sess = 0 => scan.at' = "off"
  /\ scan.at' \in {"reading", "held"} => \E d \in scan'.todo : scan'.dir = {d}

\* Such a step keeps the invariant when it keeps what is said of a live connection.
LEMMA SlaveRest ==
  ASSUME MergeInv, SlaveStep, Types', Numbered', Clean', GhostFree',
         Up => Flow' /\ (Pruned => Lists') /\ (Safe => Ahead')
  PROVE  MergeInv'
<1>1. /\ Types /\ Numbered /\ Sessions /\ Kept
      /\ UNCHANGED <<set, sess, link, slaveOn, queue, hand, depth, jobNo, job, avail, disk, vfs, recent, uploading,
                     owed, gone>>
  BY DEF MergeInv, Base, SlaveStep
<1>2. Up' <=> Up
  BY <1>1 DEF Up
<1>3. sess \in Nat /\ Session \subseteq Nat
  BY <1>1, BaseFacts
<1>4. Sessions'
  BY <1>1, <1>2, <1>3, SessionsRest DEF SlaveStep, Sessions
<1>5. Kept'
  BY <1>1 DEF Kept, SlaveStep
<1>6. ASSUME Up' PROVE Live'
  <2>1. Counted'
    BY <1>1, <1>2, <1>6 DEF MergeInv, Live, Counted, Busy
  <2>2. (Safe' <=> Safe) /\ (Pruned' <=> Pruned)
    BY <1>1 DEF Safe, Pruned
  <2> QED
    BY <1>2, <1>6, <2>1, <2>2 DEF Live
<1> QED
  BY <1>4, <1>5, <1>6 DEF MergeInv, Base

\* What the types say of a scan.
LEMMA ScanFacts ==
  ASSUME Types
  PROVE  /\ scan.at \in {"off", "slot", "reading", "held"} /\ scan.todo \subseteq Dirs
         /\ scan.dir \subseteq Dirs /\ scan.snap \subseteq Files
         /\ scan.at # "off" => scan.to \in Command
                               /\ scan = [at |-> scan.at, todo |-> scan.todo, dir |-> scan.dir,
                                          snap |-> scan.snap, to |-> scan.to]
  BY DEF Types, Scans, Idle

\* A scan begins with every directory left to look at.
LEMMA StartScanKeeps ==
  ASSUME MergeInv, NEW c \in Command, StartScan(c)
  PROVE  MergeInv'
<1>1. /\ Types /\ Numbered /\ Sessions /\ Kept /\ Clean /\ GhostFree
  BY DEF MergeInv, Base
<1>2. Types' /\ Numbered'
  BY <1>1, StepTypes DEF Next, ScanStep
<1>3. Up /\ Flow /\ Counted /\ (Pruned => Lists) /\ (Safe => Ahead)
  BY <1>1 DEF StartScan, Sessions, MergeInv, Live
<1>4. asked = {Cmd} /\ c = Cmd /\ scan.at = "off" /\ stream[sess] = <<>>
  BY <1>3 DEF StartScan, Flow
<1>5. /\ scan' = [Idle EXCEPT !.at = "slot", !.todo = Dirs, !.to = c] /\ asked' = {}
      /\ UNCHANGED <<set, sess, link, slaveOn, stream, queue, hand, depth, jobNo, job, avail, disk, vfs, recent,
                     uploading, owed, gone>>
  BY <1>4 DEF StartScan, linkVars, mergeVars, fileVars, history
<1>6. scan'.at = "slot" /\ scan'.todo = Dirs /\ scan'.to = Cmd
  BY <1>4, <1>5 DEF Idle
<1>7. \A d : OnWay(d)' <=> OnWay(d)
  BY <1>5 DEF OnWay, Busy
<1>8. SlaveStep
  BY <1>3, <1>5, <1>6 DEF SlaveStep, Up
<1>9. Clean'
  BY <1>1, <1>3, <1>4, <1>5 DEF Clean, Up, Online
<1>10. GhostFree'
  BY <1>1, <1>5, <1>6, <1>7 DEF GhostFree, First, Online
<1>11. job[sess] \in {"wait", "expired", "late"}
  BY <1>3, <1>4 DEF Flow
<1>12. Flow'
  <2>1. \A x : ~Has(stream[sess], x)
    BY <1>4 DEF Has
  <2>2. \A i \in 1..Len(stream[sess]) - 1 : FALSE
    BY <1>4
  <2> QED
    BY <1>4, <1>5, <1>6, <1>11, <2>1, <2>2 DEF Flow, Cmd
<1>13. Pruned => Lists'
  BY <1>3, <1>5, <1>6, <1>7 DEF Lists, Complete
<1>14. ASSUME Safe PROVE Ahead'
  <2>1. \A f \in Files : DirOf[f] \in Dirs
    BY RemergeAssumption
  <2>2. owed \subseteq Files
    BY <1>1, BaseFacts
  <2>3. \A f \in owed : ToScan(f)'
    BY <1>5, <1>6, <2>1, <2>2 DEF ToScan
  <2> QED
    BY <1>3, <1>5, <1>11, <1>14, <2>3 DEF Ahead, Taken
<1> QED
  BY <1>2, <1>8, <1>9, <1>10, <1>12, <1>13, <1>14, SlaveRest

\* The scan enters a directory ...
LEMMA EnterKeeps ==
  ASSUME MergeInv, NEW d \in Dirs, EnterDir(d)
  PROVE  MergeInv'
<1>1. /\ Types /\ Numbered /\ Sessions /\ Kept /\ Clean /\ GhostFree
  BY DEF MergeInv, Base
<1>2. Types' /\ Numbered'
  BY <1>1, StepTypes DEF Next, ScanStep
<1>3. /\ scan.at = "slot" /\ d \in scan.todo
      /\ UNCHANGED <<set, sess, link, slaveOn, asked, stream, queue, hand, depth, jobNo, job, avail, disk, vfs,
                     recent, uploading, owed, gone>>
  BY DEF EnterDir, linkVars, mergeVars, fileVars, history
<1>4. scan'.at = "reading" /\ scan'.todo = scan.todo /\ scan'.to = scan.to /\ scan'.dir = {d}
  BY <1>1, ScanFacts DEF EnterDir
<1>5. \A x : OnWay(x)' <=> OnWay(x)
  BY <1>3 DEF OnWay, Busy
<1>6. sess # 0
  BY <1>1, <1>3 DEF Sessions
<1>7. SlaveStep
  BY <1>3, <1>4, <1>6 DEF SlaveStep
<1>8. Clean' /\ GhostFree'
  BY <1>1, <1>3, <1>4, <1>5 DEF Clean, GhostFree, First, Online
<1>9. ASSUME Up PROVE Flow' /\ (Pruned => Lists') /\ (Safe => Ahead')
  <2>1. Flow /\ (Pruned => Lists) /\ (Safe => Ahead)
    BY <1>9 DEF MergeInv, Live
  <2>2. Flow'
    BY <1>3, <1>4, <2>1 DEF Flow, Cmd
  <2>3. Pruned => Lists'
    BY <1>3, <1>4, <1>5, <2>1 DEF Lists, Complete
  <2>4. \A f : /\ Taken(f)' <=> Taken(f)
               /\ Sent(f)' <=> Sent(f)
               /\ ToScan(f) => ToScan(f)'
    BY <1>3, <1>4 DEF Taken, Sent, ToScan
  <2>5. Safe => Ahead'
    BY <1>3, <2>1, <2>4 DEF Ahead
  <2> QED
    BY <2>2, <2>3, <2>5
<1> QED
  BY <1>2, <1>7, <1>8, <1>9, SlaveRest

\* ... reads what is there ...
LEMMA ReadKeeps ==
  ASSUME MergeInv, NEW d \in Dirs, ReadDir(d)
  PROVE  MergeInv'
<1>1. /\ Types /\ Numbered /\ Sessions /\ Kept /\ Clean /\ GhostFree
  BY DEF MergeInv, Base
<1>2. Types' /\ Numbered'
  BY <1>1, StepTypes DEF Next, ScanStep
<1>3. /\ scan.at = "reading" /\ scan.dir = {d}
      /\ UNCHANGED <<set, sess, link, slaveOn, asked, stream, queue, hand, depth, jobNo, job, avail, disk, vfs,
                     recent, uploading, owed, gone>>
  BY DEF ReadDir, linkVars, mergeVars, fileVars, history
<1>4. d \in scan.todo
  BY <1>1, <1>3 DEF Kept
<1>5. /\ scan'.to = scan.to
      /\ \/ d \in Unreadable /\ scan'.at = "slot"
         \/ /\ d \notin Unreadable /\ scan'.at = "held" /\ scan'.todo = scan.todo
            /\ scan'.dir = {d} /\ scan'.snap = disk \cap In(d)
  BY <1>1, <1>3, ScanFacts DEF ReadDir
<1>6. \A x : OnWay(x)' <=> OnWay(x)
  BY <1>3 DEF OnWay, Busy
<1>7. sess # 0
  BY <1>1, <1>3 DEF Sessions
<1>8. SlaveStep
  BY <1>3, <1>4, <1>5, <1>7 DEF SlaveStep
<1>9. Clean'
  BY <1>1, <1>3, <1>6 DEF Clean, Online
<1>10. GhostFree'
  <2>1. First' <=> First
    BY <1>3 DEF First, Online
  <2>2. scan'.at = "held" => \A f \in gone : f \notin scan'.snap
    BY <1>1, <1>5 DEF Kept
  <2> QED
    BY <1>1, <1>3, <1>6, <2>1, <2>2 DEF GhostFree
<1>11. ASSUME Up PROVE Flow' /\ (Pruned => Lists') /\ (Safe => Ahead')
  <2>1. Flow /\ (Pruned => Lists) /\ (Safe => Ahead)
    BY <1>11 DEF MergeInv, Live
  <2>2. Flow'
    BY <1>3, <1>5, <2>1 DEF Flow, Cmd
  <2>3. scan'.at = "held" => \A f \in disk : DirOf[f] \in scan'.dir => f \in scan'.snap
    <3>1. disk \subseteq Files
      BY <1>1 DEF Types, TypeOK
    <3> QED
      BY <1>5, <3>1 DEF In
  <2>4. Pruned => Lists'
    BY <1>3, <1>6, <2>1, <2>3 DEF Lists, Complete
  <2>5. ASSUME Safe PROVE Ahead'
    <3>1. scan'.at = "held" /\ scan'.todo = scan.todo
      BY <1>5, <2>5 DEF Safe
    <3>2. owed \subseteq disk
      BY <1>1 DEF Kept
    <3>3. \A f \in owed : /\ Taken(f)' <=> Taken(f)
                          /\ Sent(f)' <=> Sent(f)
                          /\ ToScan(f) => ToScan(f)'
      BY <1>3, <2>3, <3>1, <3>2 DEF Taken, Sent, ToScan
    <3> QED
      BY <1>3, <2>1, <2>5, <3>3 DEF Ahead
  <2> QED
    BY <2>2, <2>4, <2>5
<1> QED
  BY <1>2, <1>8, <1>9, <1>10, <1>11, SlaveRest

\* ... and sends it: a file of it that is still on the disk is in the listing.
LEMMA SendKeeps ==
  ASSUME MergeInv, NEW d \in Dirs, SendSnapshot(d)
  PROVE  MergeInv'
<1>1. /\ Types /\ Numbered /\ Sessions /\ Kept /\ Clean /\ GhostFree
      /\ stream \in [Session -> Seq(Snapshot \cup Reply)]
  BY DEF MergeInv, Base, Types
<1>2. Types' /\ Numbered'
  BY <1>1, StepTypes DEF Next, ScanStep
<1>3. /\ scan.at = "held" /\ scan.dir = {d} /\ slaveOn
      /\ UNCHANGED <<set, sess, link, slaveOn, asked, queue, hand, depth, jobNo, job, avail, disk, vfs,
                     recent, uploading, owed, gone>>
  BY DEF SendSnapshot, linkVars, mergeVars, fileVars, history
<1>4. PICK files \in SUBSET scan.snap :
        /\ scan.snap \cap disk \subseteq files
        /\ stream' = Written([dir |-> d, files |-> files])
  BY DEF SendSnapshot
<1> DEFINE n == [dir |-> d, files |-> files]
<1>5. n \in Snapshot /\ n.dir = d /\ n.files = files
  BY <1>1, ScanFacts DEF Snapshot
<1>6. Up /\ sess > 0 /\ sess \in Session
  BY <1>1, <1>3, BaseFacts DEF Sessions, Up
<1>7. /\ stream'[sess] = Append(stream[sess], n) /\ stream[sess] \in Seq(Snapshot \cup Reply)
      /\ \A r \in Session : r # sess => stream'[r] = stream[r]
  BY <1>1, <1>3, <1>4, <1>6 DEF Written
<1>8. /\ \A x : Has(stream'[sess], x) <=> Has(stream[sess], x) \/ x = n
      /\ Len(stream'[sess]) = Len(stream[sess]) + 1 /\ Len(stream[sess]) \in Nat
      /\ \A i \in 1..Len(stream[sess]) : stream'[sess][i] = stream[sess][i]
  BY <1>5, <1>7, AppendHas
<1>9. scan'.at = "slot" /\ scan'.todo = scan.todo \ {d} /\ scan'.to = scan.to
  BY <1>1, <1>3, ScanFacts DEF SendSnapshot
<1>10. \A x : OnWay(x)' => OnWay(x) \/ x = n
  BY <1>3, <1>8 DEF OnWay, Busy
<1>11. /\ Flow /\ (Pruned => Lists) /\ (Safe => Ahead)
  BY <1>6 DEF MergeInv, Live
<1>12. /\ job[sess] \in {"wait", "expired", "late"} /\ asked = {} /\ scan.to = Cmd
       /\ \A x \in Reply : ~Has(stream[sess], x)
  BY <1>3, <1>11 DEF Flow
<1>13. \A x \in Reply : ~Has(stream'[sess], x)
  BY <1>5, <1>8, <1>12, Kinds
<1>14. SlaveStep
  BY <1>3, <1>6, <1>7, <1>9 DEF SlaveStep
<1>15. Clean'
  BY <1>1, <1>3 DEF Clean, Online
<1>16. GhostFree'
  <2>1. First' <=> First
    BY <1>3 DEF First, Online
  <2>2. First => \A f \in gone : f \notin n.files
    BY <1>1, <1>3, <1>4, <1>5 DEF GhostFree
  <2> QED
    BY <1>1, <1>3, <1>9, <1>10, <2>1, <2>2 DEF GhostFree
<1>17. Flow'
  <2>1. \A i \in 1..Len(stream'[sess]) - 1 : stream'[sess][i] \notin Reply
    <3> TAKE i \in 1..Len(stream'[sess]) - 1
    <3>1. i \in 1..Len(stream[sess]) /\ stream'[sess][i] = stream[sess][i]
      BY <1>8
    <3>2. Has(stream[sess], stream[sess][i])
      BY <3>1 DEF Has
    <3> QED
      BY <1>12, <3>1, <3>2
  <2> QED
    BY <1>3, <1>9, <1>12, <1>13, <2>1 DEF Flow, Cmd
<1>18. ASSUME Pruned PROVE Lists'
  <2>1. Complete(n)
    BY <1>3, <1>4, <1>5, <1>11, <1>18 DEF Lists, Complete, In
  <2>2. \A x : Complete(x)' <=> Complete(x)
    BY <1>3 DEF Complete
  <2> QED
    BY <1>9, <1>10, <1>11, <1>18, <2>1, <2>2 DEF Lists
<1>19. ASSUME Safe PROVE Ahead'
  <2>1. owed \subseteq disk
    BY <1>1 DEF Kept
  <2>2. \A f \in owed : /\ Taken(f) => Taken(f)'
                        /\ Sent(f) => Sent(f)'
    BY <1>3, <1>8 DEF Taken, Sent
  <2>3. \A f \in owed : ToScan(f) => ToScan(f)' \/ Sent(f)'
    <3> SUFFICES ASSUME NEW f \in owed, ToScan(f) PROVE ToScan(f)' \/ Sent(f)'
      OBVIOUS
    <3>1. CASE DirOf[f] = d
      <4>1. f \in scan.snap \cap disk
        BY <1>3, <1>12, <2>1, <3>1 DEF ToScan
      <4>2. f \in n.files /\ Has(stream'[sess], n)
        BY <1>4, <1>5, <1>8, <4>1
      <4> QED
        BY <1>3, <1>5, <4>2 DEF Sent
    <3>2. CASE DirOf[f] # d
      BY <1>3, <1>9, <1>12, <3>2 DEF ToScan
    <3> QED
      BY <3>1, <3>2
  <2> QED
    BY <1>3, <1>11, <1>12, <1>19, <2>2, <2>3 DEF Ahead
<1> QED
  BY <1>2, <1>14, <1>15, <1>16, <1>17, <1>18, <1>19, SlaveRest

\* The answer is ok only when no directory is left.
LEMMA EndKeeps ==
  ASSUME MergeInv, EndScan
  PROVE  MergeInv'
<1>1. /\ Types /\ Numbered /\ Sessions /\ Kept /\ Clean /\ GhostFree
      /\ stream \in [Session -> Seq(Snapshot \cup Reply)]
  BY DEF MergeInv, Base, Types
<1>2. Types' /\ Numbered'
  BY <1>1, StepTypes DEF Next, ScanStep
<1>3. /\ scan.at \in {"slot", "held"} /\ scan'.at = "off"
      /\ stream' = Written([to |-> scan.to, ok |-> scan.todo = {}])
      /\ UNCHANGED <<set, sess, link, slaveOn, asked, queue, hand, depth, jobNo, job, avail, disk, vfs,
                     recent, uploading, owed, gone>>
  BY DEF EndScan, Idle, linkVars, mergeVars, fileVars, history
<1>4. PICK reply \in Reply : /\ reply.to = scan.to /\ (reply.ok <=> scan.todo = {})
                             /\ stream' = Written(reply)
  <2>1. scan.to \in Command
    BY <1>1, <1>3, ScanFacts
  <2>2. CASE scan.todo = {}
    <3>1. [to |-> scan.to, ok |-> scan.todo = {}] = [to |-> scan.to, ok |-> TRUE]
      BY <2>2
    <3>2. [to |-> scan.to, ok |-> TRUE] \in Reply
      BY <2>1 DEF Reply
    <3> QED
      BY <1>3, <2>2, <3>1, <3>2
  <2>3. CASE scan.todo # {}
    <3>1. [to |-> scan.to, ok |-> scan.todo = {}] = [to |-> scan.to, ok |-> FALSE]
      BY <2>3
    <3>2. [to |-> scan.to, ok |-> FALSE] \in Reply
      BY <2>1 DEF Reply
    <3> QED
      BY <1>3, <2>3, <3>1, <3>2
  <2> QED
    BY <2>2, <2>3
<1>5. \/ ~Up /\ stream' = stream
      \/ /\ Up /\ sess \in Session /\ stream'[sess] = Append(stream[sess], reply)
         /\ \A r \in Session : r # sess => stream'[r] = stream[r]
  BY <1>1, <1>3, <1>4, BaseFacts DEF Written, Sessions, Up
<1>6. Up => /\ \A x : Has(stream'[sess], x) <=> Has(stream[sess], x) \/ x = reply
            /\ Len(stream'[sess]) = Len(stream[sess]) + 1 /\ Len(stream[sess]) \in Nat
            /\ \A i \in 1..Len(stream[sess]) : stream'[sess][i] = stream[sess][i]
  <2> SUFFICES ASSUME Up
      PROVE  /\ \A x : Has(stream'[sess], x) <=> Has(stream[sess], x) \/ x = reply
             /\ Len(stream'[sess]) = Len(stream[sess]) + 1 /\ Len(stream[sess]) \in Nat
             /\ \A i \in 1..Len(stream[sess]) : stream'[sess][i] = stream[sess][i]
    OBVIOUS
  <2>1. stream[sess] \in Seq(Snapshot \cup Reply) /\ reply \in Snapshot \cup Reply
    BY <1>1, <1>4, <1>5
  <2>2. stream'[sess] = Append(stream[sess], reply) /\ Len(stream[sess]) \in Nat
    BY <1>5, <2>1
  <2> QED
    BY <2>1, <2>2, AppendHas
<1>7. \A x \in Snapshot : OnWay(x)' => OnWay(x)
  BY <1>3, <1>4, <1>5, <1>6, Kinds DEF OnWay, Busy
<1>8. SlaveStep
  BY <1>3, <1>5 DEF SlaveStep
<1>9. Clean'
  BY <1>1, <1>3, <1>7 DEF Clean, Online
<1>10. GhostFree'
  <2>1. First' <=> First
    BY <1>3 DEF First, Online
  <2> QED
    BY <1>1, <1>3, <1>7, <2>1 DEF GhostFree
<1>11. ASSUME Up PROVE Flow' /\ (Pruned => Lists') /\ (Safe => Ahead')
  <2>1. Flow /\ (Pruned => Lists) /\ (Safe => Ahead)
    BY <1>11 DEF MergeInv, Live
  <2>2. /\ job[sess] \in {"wait", "expired", "late"} /\ asked = {} /\ scan.to = Cmd
        /\ \A x \in Reply : ~Has(stream[sess], x)
    BY <1>3, <2>1 DEF Flow
  <2>3. Flow'
    <3>1. \A i \in 1..Len(stream'[sess]) - 1 : stream'[sess][i] \notin Reply
      <4> TAKE i \in 1..Len(stream'[sess]) - 1
      <4>1. i \in 1..Len(stream[sess]) /\ stream'[sess][i] = stream[sess][i]
        BY <1>6, <1>11
      <4>2. Has(stream[sess], stream[sess][i])
        BY <4>1 DEF Has
      <4> QED
        BY <2>2, <4>1, <4>2
    <3>2. \A x \in Reply : Has(stream'[sess], x) => x.to = Cmd
      BY <1>4, <1>6, <1>11, <2>2
    <3> QED
      BY <1>3, <2>2, <3>1, <3>2 DEF Flow, Cmd
  <2>4. Pruned => Lists'
    BY <1>3, <1>7, <2>1 DEF Lists, Complete
  <2>5. ASSUME Safe PROVE Ahead'
    <3>1. \A f : /\ Taken(f)' <=> Taken(f)
                 /\ Sent(f) => Sent(f)'
      BY <1>3, <1>6, <1>11 DEF Taken, Sent
    <3>2. Has(stream'[sess], reply)
      BY <1>6, <1>11
    <3>3. reply.ok => \A f : ~ToScan(f)
      BY <1>4, <2>2 DEF ToScan
    <3>4. ASSUME job[sess] = "wait", \A x \in Reply : Has(stream'[sess], x) => x.ok
          PROVE  \A f \in owed : Taken(f)' \/ Sent(f)'
      <4>1. \A f \in owed : Taken(f) \/ Sent(f) \/ ToScan(f)
        BY <2>1, <2>2, <2>5, <3>4 DEF Ahead
      <4> QED
        BY <1>4, <3>1, <3>2, <3>3, <3>4, <4>1
    <3> QED
      BY <1>3, <2>2, <3>4 DEF Ahead
  <2> QED
    BY <2>3, <2>4, <2>5
<1> QED
  BY <1>2, <1>8, <1>9, <1>10, <1>11, SlaveRest

\* Being told to stop moves nothing.
LEMMA StopRemergeKeeps ==
  ASSUME MergeInv, StopRemerge
  PROVE  MergeInv'
<1>1. /\ Types /\ Numbered /\ Sessions /\ Kept /\ Clean /\ GhostFree
  BY DEF MergeInv, Base
<1>2. Types' /\ Numbered'
  BY <1>1, StepTypes DEF Next
<1>3. UNCHANGED <<set, sess, link, slaveOn, scan, asked, stream, queue, hand, depth, jobNo, job, avail, disk, vfs,
                  recent, uploading, owed, gone>>
  BY DEF StopRemerge, linkVars, mergeVars, fileVars, history
<1>4. \A x : OnWay(x)' <=> OnWay(x)
  BY <1>3 DEF OnWay, Busy
<1>5. SlaveStep
  BY <1>1, <1>3 DEF SlaveStep, Sessions, Kept
<1>6. Clean' /\ GhostFree'
  BY <1>1, <1>3, <1>4 DEF Clean, GhostFree, First, Online
<1>7. ASSUME Up PROVE Flow' /\ (Pruned => Lists') /\ (Safe => Ahead')
  <2>1. Flow /\ (Pruned => Lists) /\ (Safe => Ahead)
    BY <1>7 DEF MergeInv, Live
  <2>2. Flow' /\ (Pruned => Lists') /\ (Safe => Ahead')
    BY <1>3, <1>4, <2>1 DEF Flow, Cmd, Lists, Complete, Ahead, Taken, Sent, ToScan
  <2> QED
    BY <2>2
<1> QED
  BY <1>2, <1>5, <1>6, <1>7, SlaveRest

-----------------------------------------------------------------------------
(* Connections.                                                            *)

\* A new connection starts with an empty pipeline.
LEMMA ConnectKeeps ==
  ASSUME MergeInv, Connect, TidyConnect
  PROVE  MergeInv'
<1>1. /\ Types /\ Numbered /\ Sessions /\ Kept /\ Clean /\ GhostFree
      /\ link \in [Session -> {"new", "up", "broken", "closing", "down"}]
      /\ job \in [Session -> {"none", "mark", "issue", "wait", "drain", "purge",
                              "finished", "end", "expired", "undrained", "late", "done"}]
      /\ avail \in [Session -> BOOLEAN]
  BY DEF MergeInv, Base, Types, TypeOK
<1>2. Types' /\ Numbered'
  BY <1>1, StepTypes DEF Next
<1>3. sess \in Nat /\ Session \subseteq Nat /\ sess + 1 \in Session /\ sess + 1 > sess /\ sess + 1 > 0
  BY <1>1, NextSession, BaseFacts
<1>4. /\ sess' = sess + 1 /\ link'[sess + 1] = "up" /\ slaveOn' = TRUE
      /\ job'[sess + 1] \in {"done", "mark"}
      /\ \A r \in Session : r # sess + 1 => link'[r] = link[r] /\ job'[r] = job[r] /\ avail'[r] = avail[r]
      /\ UNCHANGED <<set, scan, abort, asked, stream, queue, hand, depth, jobNo, disk, vfs, recent, uploading,
                     deleting, owed, gone>>
  BY <1>1, <1>3 DEF Connect, slaveVars, mergeVars, fileVars, history
<1>5. /\ scan.at = "off" /\ asked = {}
      /\ sess > 0 => link[sess] = "down" /\ job[sess] = "done" /\ hand[sess].at = "stop"
  BY <1>1, <1>3, <1>4 DEF TidyConnect, Sessions, Connect, Up
<1>6. /\ stream[sess + 1] = <<>> /\ queue[sess + 1] = <<>> /\ hand[sess + 1].at = "take" /\ depth[sess + 1] = 0
  BY <1>1, <1>3 DEF Sessions
<1>7. Up' /\ sess' > 0
  BY <1>3, <1>4 DEF Up
<1>8. \A r \in Session : /\ r > sess + 1 => r > sess /\ r # sess + 1
                         /\ r < sess + 1 => r # sess + 1 /\ (r < sess \/ (r = sess /\ sess > 0))
  BY <1>3 DEF Session
<1>9. Sessions'
  BY <1>1, <1>3, <1>4, <1>5, <1>7, <1>8 DEF Sessions
<1>10. Kept'
  BY <1>1, <1>4 DEF Kept
<1>11. ~Busy' /\ \A d : ~OnWay(d)'
  BY <1>4, <1>6 DEF Busy, OnWay, Has
<1>12. Clean'
  BY <1>4, <1>5, <1>11 DEF Clean
<1>13. ~First'
  BY <1>4 DEF First
<1>14. GhostFree'
  BY <1>13 DEF GhostFree
<1>15. Flow'
  <2>1. \A x : ~Has(<<>>, x)
    BY DEF Has
  <2>2. \A i \in 1..Len(<<>>) - 1 : FALSE
    OBVIOUS
  <2>3. stream'[sess'] = <<>> /\ scan'.at = "off" /\ asked' = {}
    BY <1>4, <1>5, <1>6
  <2> QED
    BY <2>1, <2>2, <2>3 DEF Flow
<1>16. Counted'
  <2>1. depth'[sess'] = 0 /\ queue'[sess'] = <<>> /\ hand'[sess'].at = "take"
    BY <1>4, <1>6
  <2> QED
    BY <1>11, <2>1 DEF Counted
<1>17. Lists' /\ Ahead'
  BY <1>4, <1>5, <1>11 DEF Lists, Ahead
<1> QED
  BY <1>2, <1>9, <1>10, <1>12, <1>14, <1>15, <1>16, <1>17 DEF MergeInv, Base, Live

\* A step that leaves the connection down.
LEMMA DownKeeps ==
  ASSUME MergeInv, Types', Numbered', sess > 0, ~Up', slaveOn' = FALSE, asked' = {},
         UNCHANGED <<sess, scan, queue, hand, jobNo, job, disk, uploading, owed, gone>>,
         Online(sess)' => Online(sess),
         \A f \in gone : vfs'[f] = "seen" => vfs[f] = "seen",
         stream'[sess] = <<>> \/ stream' = stream,
         \A r \in Session : r # sess => link'[r] = link[r] /\ avail'[r] = avail[r] /\ depth'[r] = depth[r]
                                        /\ stream'[r] = stream[r]
  PROVE  MergeInv'
<1>1. /\ Types /\ Sessions /\ Kept /\ Clean /\ GhostFree
  BY DEF MergeInv, Base
<1>2. sess \in Nat /\ Session \subseteq Nat
  BY <1>1, BaseFacts
<1>3. Sessions'
  BY <1>1, <1>2, SessionsRest DEF Sessions
<1>4. Kept'
  BY <1>1 DEF Kept
<1>5. \A d : OnWay(d)' => OnWay(d)
  BY DEF OnWay, Busy, Has
<1>6. Clean'
  BY <1>1, <1>5 DEF Clean
<1>7. First' => First
  BY DEF First
<1>8. GhostFree'
  BY <1>1, <1>5, <1>7 DEF GhostFree
<1> QED
  BY <1>3, <1>4, <1>6, <1>8 DEF MergeInv, Base

\* The connection breaks, and SetOffline and ClearSlave clean up.
LEMMA LinkKeeps ==
  ASSUME MergeInv, NEW s \in Session, LinkBreaks \/ GoOffline(s) \/ ClearSlave(s)
  PROVE  MergeInv'
<1>1. /\ Types /\ Numbered /\ Sessions
      /\ link \in [Session -> {"new", "up", "broken", "closing", "down"}]
      /\ stream \in [Session -> Seq(Snapshot \cup Reply)] /\ avail \in [Session -> BOOLEAN]
      /\ depth \in [Session -> Nat] /\ gone \subseteq Files
  BY DEF MergeInv, Base, Types, TypeOK
<1>2. Types' /\ Numbered'
  BY <1>1, StepTypes DEF Next
<1>3. CASE LinkBreaks
  <2>1. sess > 0 /\ sess \in Session
    BY <1>1, <1>3, BaseFacts DEF LinkBreaks
  <2>2. /\ link'[sess] = "broken" /\ link[sess] = "up" /\ slaveOn' = FALSE /\ asked' = {}
        /\ stream'[sess] = <<>>
        /\ \A r \in Session : r # sess => link'[r] = link[r] /\ stream'[r] = stream[r]
        /\ UNCHANGED <<sess, scan, queue, hand, jobNo, job, avail, depth, vfs, disk, uploading, owed, gone>>
    BY <1>1, <1>3, <2>1 DEF LinkBreaks, mergeVars, fileVars, history
  <2>3. ~Up' /\ Online(sess)
    BY <2>2 DEF Up, Online
  <2> QED
    BY <1>2, <2>1, <2>2, <2>3, DownKeeps
<1>4. CASE GoOffline(s)
  <2>1. s = sess /\ sess > 0 /\ sess \in Session
    BY <1>4, OnlyLast DEF MergeInv, Base
  <2>2. /\ link'[sess] = "closing" /\ Online(sess) /\ slaveOn' = FALSE /\ asked' = {}
        /\ stream'[sess] = <<>>
        /\ \A r \in Session : r # sess => link'[r] = link[r] /\ stream'[r] = stream[r] /\ avail'[r] = avail[r]
                                          /\ depth'[r] = depth[r]
        /\ UNCHANGED <<sess, scan, queue, hand, jobNo, job, vfs, disk, uploading, owed, gone>>
    BY <1>1, <1>4, <2>1 DEF GoOffline, fileVars, history
  <2>3. ~Up'
    BY <2>2 DEF Up
  <2> QED
    BY <1>2, <2>1, <2>2, <2>3, DownKeeps
<1>5. CASE ClearSlave(s)
  <2>1. s = sess /\ sess > 0 /\ sess \in Session
    BY <1>5, OnlyLast DEF MergeInv, Base
  <2>2. /\ link'[sess] = "down" /\ link[sess] = "closing"
        /\ \A r \in Session : r # sess => link'[r] = link[r]
        /\ \A f \in Files : vfs'[f] = "absent"
        /\ UNCHANGED <<sess, scan, slaveOn, asked, stream, queue, hand, depth, jobNo, job, avail, disk, uploading,
                       owed, gone>>
    BY <1>1, <1>5, <2>1 DEF ClearSlave, slaveVars, mergeVars, fileVars, history
  <2>3. ~Up /\ ~Up' /\ ~Online(sess)'
    BY <2>2 DEF Up, Online
  <2>4. slaveOn' = FALSE /\ asked' = {}
    BY <1>1, <2>2, <2>3 DEF Sessions, Types, TypeOK
  <2> QED
    BY <1>1, <1>2, <2>1, <2>2, <2>3, <2>4, DownKeeps
<1> QED
  BY <1>3, <1>4, <1>5

-----------------------------------------------------------------------------
(* The invariant, and what it gives.                                       *)

\* Every step keeps the invariant.
LEMMA MergeStep ==
  ASSUME MergeInv, [Next]_vars, [TidyConnect]_vars
  PROVE  MergeInv'
<1>1. CASE UNCHANGED vars
  <2>1. UNCHANGED <<set, sess, link, slaveOn, asked, stream, queue, hand, depth, jobNo, job, avail,
                    disk, vfs, recent, uploading, deleting, scan, abort, owed, gone>>
    BY <1>1 DEF vars
  <2>2. Types' /\ Numbered' /\ Sessions' /\ Kept'
    BY <2>1 DEF MergeInv, Base, Types, TypeOK, Numbered, Sessions, Up, Kept
  <2>3. \A d : OnWay(d)' <=> OnWay(d)
    BY <2>1 DEF OnWay, Busy
  <2>4. Clean' /\ GhostFree'
    BY <2>1, <2>3 DEF MergeInv, Base, Clean, GhostFree, First, Online
  <2>5. ASSUME Up' PROVE Live'
    <3>1. Up /\ Live
      BY <2>1, <2>5 DEF MergeInv, Up
    <3>2. Flow' /\ Counted'
      BY <2>1, <3>1 DEF Live, Flow, Counted, Busy, Cmd
    <3>3. (Pruned => Lists)'
      BY <2>1, <2>3, <3>1 DEF Live, Pruned, Lists, Complete
    <3>4. (Safe => Ahead)'
      BY <2>1, <3>1 DEF Live, Safe, Ahead, Taken, Sent, ToScan
    <3> QED
      BY <3>2, <3>3, <3>4 DEF Live
  <2> QED
    BY <2>2, <2>4, <2>5 DEF MergeInv, Base
<1>2. CASE Next /\ TidyConnect
  <2>1. ASSUME Connect PROVE MergeInv'
    BY <1>2, <2>1, ConnectKeeps
  <2>2. ASSUME LinkBreaks PROVE MergeInv'
    <3>1. 1 \in Session
      BY RemergeAssumption DEF Session
    <3> QED
      BY <2>2, <3>1, LinkKeeps
  <2>3. ASSUME ScanStep PROVE MergeInv'
    BY <2>3, EndKeeps, StartScanKeeps, EnterKeeps, ReadKeeps, SendKeeps DEF ScanStep
  <2>4. ASSUME NEW s \in Session, JobStep(s) \/ StartJob(s) \/ GiveUp(s) \/ DrainTimeout(s) PROVE MergeInv'
    BY <2>4, JobKeeps, IssueKeeps DEF JobStep
  <2>5. ASSUME NEW s \in Session, MasterStep(s) \/ StopQueue(s) PROVE MergeInv'
    BY <2>5, ReadSnapshotKeeps, ReadReplyKeeps, TakeKeeps, AddKeeps, PruneKeeps, StopKeeps DEF MasterStep
  <2>6. ASSUME NEW s \in Session, GoOffline(s) \/ ClearSlave(s) PROVE MergeInv'
    BY <2>6, LinkKeeps
  <2>7. ASSUME NEW f \in Files, FileStep(f) PROVE MergeInv'
    BY <2>7, FileKeeps
  <2> QED
    BY <1>2, <2>1, <2>2, <2>3, <2>4, <2>5, <2>6, <2>7, StopRemergeKeeps DEF Next
<1> QED
  BY <1>1, <1>2

\* The inductive invariant: every file of the history is indexed, queued, sent or still to
\* be scanned while a job runs, and on the first job no listing brings a ghost back.
THEOREM MergeInvariant == Spec /\ [][TidyConnect]_vars => []MergeInv
  BY InitMerge, MergeStep, PTL DEF Spec

\* A finished job has purged only what the scan did not find.
LEMMA FinishedIsWhole ==
  ASSUME MergeInv, Safe
  PROVE  IndexComplete
<1> SUFFICES ASSUME NEW s \in Session, job[s] = "finished", link[s] = "up"
             PROVE  owed \subseteq Indexed
  BY DEF IndexComplete
<1>1. Types /\ Numbered /\ Sessions
  BY DEF MergeInv, Base
<1>2. s = sess /\ sess > 0
  BY <1>1, BaseFacts DEF Numbered, Sessions, Session
<1>3. \A f \in owed : vfs[f] = "seen" /\ f \in Files
  BY <1>1, <1>2, BaseFacts DEF MergeInv, Live, Up, Ahead
<1> QED
  BY <1>3 DEF Indexed

\* The constants under which no purge drops what it should not.
AllRead == Unreadable = {} /\ \A x \in Settings : x.single => x.aging = {}

\* slave.go:1364: when a remerge is finished, the index holds every file that was on the
\* disk when it began or was uploaded since; for any number of connections and jobs.
THEOREM FinishedIndexIsComplete ==
  ASSUME AllRead
  PROVE  Spec /\ [][TidyConnect]_vars => []IndexComplete
<1>1. MergeInv => Safe
  BY AllRead DEF AllRead, MergeInv, Base, Types, TypeOK, Safe
<1>2. MergeInv => IndexComplete
  BY <1>1, FinishedIsWhole
<1> QED
  BY <1>2, MergeInvariant, PTL

\* Only PurgeUnseen takes a job from its purge to its end.
LEMMA OnlyPurge ==
  ASSUME Types, Numbered, Next, NEW s \in Session, job[s] = "purge", job'[s] = "finished"
  PROVE  PurgeUnseen(s)
<1>1. job \in [Session -> {"none", "mark", "issue", "wait", "drain", "purge",
                           "finished", "end", "expired", "undrained", "late", "done"}]
  BY DEF Types, TypeOK
<1>2. ~Connect
  <2> SUFFICES ASSUME Connect PROVE FALSE
    OBVIOUS
  <2>1. job'[s] \in {job[s], "done", "mark"}
    BY <1>1 DEF Connect
  <2> QED
    BY <2>1
<1>3. ~LinkBreaks /\ ~StopRemerge /\ ~ScanStep /\ \A f \in Files : ~FileStep(f)
  BY DEF LinkBreaks, StopRemerge, ScanStep, EndScan, StartScan, EnterDir, ReadDir, SendSnapshot, FileStep,
     UploadToDisk, UploadIndexed, UploadLost, DeleteOnDisk, DeleteIndexed, Vanish, Age
<1>4. PICK r \in Session :
        \/ StartJob(r) \/ GoOffline(r) \/ ClearSlave(r) \/ StopQueue(r)
        \/ JobStep(r) \/ GiveUp(r) \/ DrainTimeout(r) \/ MasterStep(r)
  BY <1>2, <1>3 DEF Next
<1>5. ~(GoOffline(r) \/ ClearSlave(r) \/ StopQueue(r) \/ ReadSnapshot(r) \/ TakeSnapshot(r) \/ AddSnapshot(r)
        \/ PruneMissing(r))
  BY DEF GoOffline, ClearSlave, StopQueue, ReadSnapshot, TakeSnapshot, AddSnapshot, PruneMissing
<1>6. ~(StartJob(r) \/ MarkAllUnseen(r) \/ IssueRemerge(r) \/ LoseReply(r) \/ Drain(r) \/ Finish(r) \/ GiveUp(r)
        \/ DrainTimeout(r))
  BY <1>1 DEF StartJob, MarkAllUnseen, IssueRemerge, LoseReply, Drain, Finish, GiveUp, DrainTimeout
<1>7. ~ReadReply(r)
  <2> SUFFICES ASSUME ReadReply(r) PROVE FALSE
    OBVIOUS
  <2>1. job'[s] \in {job[s], "drain", "end", "done"}
    BY <1>1 DEF ReadReply
  <2> QED
    BY <2>1
<1>8. PurgeUnseen(r)
  BY <1>4, <1>5, <1>6, <1>7 DEF JobStep, MasterStep
<1>9. r = s
  BY <1>1, <1>8 DEF PurgeUnseen
<1> QED
  BY <1>8, <1>9

\* That purge spares only what the invariant lets it: recent files.
LEMMA PurgeIsClean ==
  ASSUME MergeInv, [Next]_vars
  PROVE  \A s \in Session :
           job[s] = "purge" /\ job'[s] = "finished" /\ Online(s) /\ jobNo[s] = 1
             => Indexed' \cap gone \subseteq recent \cup deleting
<1> SUFFICES ASSUME NEW s \in Session, job[s] = "purge", job'[s] = "finished", Online(s), jobNo[s] = 1
             PROVE  Indexed' \cap gone \subseteq recent
  OBVIOUS
<1>1. Types /\ Numbered /\ GhostFree
  BY DEF MergeInv, Base
<1>2. Next
  BY DEF vars
<1>3. PurgeUnseen(s)
  BY <1>1, <1>2, OnlyPurge
<1>4. s = sess /\ sess > 0
  BY <1>3, OnlyLast DEF JobStep, MergeInv
<1>5. \A f \in gone : vfs[f] # "seen"
  BY <1>1, <1>4 DEF GhostFree, First
<1>6. \A f \in Files : vfs[f] \in {"absent", "unseen", "seen"}
  BY <1>1 DEF Types, TypeOK
<1> QED
  BY <1>3, <1>5, <1>6 DEF PurgeUnseen, Indexed

\* slave_manager.go:1679: the first purge of a connection leaves no entry of a file that
\* is off the disk since the mark, but for those within the 120 s grace.
THEOREM FirstPurgeIsClean == Spec /\ [][TidyConnect]_vars => GhostsPurged
<1>1. MergeInv /\ [Next]_vars =>
        [\A s \in Session :
           job[s] = "purge" /\ job'[s] = "finished" /\ Online(s) /\ jobNo[s] = 1
             => Indexed' \cap gone \subseteq recent \cup deleting]_vars
  BY PurgeIsClean
<1> QED
  BY <1>1, MergeInvariant, PTL DEF Spec, GhostsPurged

-----------------------------------------------------------------------------
(* A slave that waits for its remerge.                                     *)

\* No remerge but the one of the startup.
StartupOnly == \A s \in Session : job[s] = "done" => job'[s] # "mark"

Served == ~set.instant /\ Up /\ avail[sess] => owed \subseteq Indexed /\ job[sess] = "done"

\* A connection that is served at once has a cached index and owes nothing yet.
LEMMA ServedConnect ==
  ASSUME MergeInv, Connect, ~set'.instant, avail'[sess']
  PROVE  owed' \subseteq Indexed' /\ job'[sess'] = "done"
<1>1. /\ Types /\ Sessions
      /\ job \in [Session -> {"none", "mark", "issue", "wait", "drain", "purge",
                              "finished", "end", "expired", "undrained", "late", "done"}]
      /\ avail \in [Session -> BOOLEAN]
  BY DEF MergeInv, Base, Types, TypeOK
<1>2. sess' = sess + 1 /\ sess + 1 \in Session /\ UNCHANGED <<set, owed>>
  BY <1>1, NextSession DEF Connect, history
<1>3. avail'[sess + 1] <=> (sess = 0 /\ set.cached # {}) \/ set.instant
  BY <1>1, <1>2 DEF Connect
<1>4. sess = 0 /\ set.cached # {}
  BY <1>2, <1>3
<1>5. job'[sess + 1] = "done" /\ owed = {}
  BY <1>1, <1>2, <1>4 DEF Connect, Sessions
<1> QED
  BY <1>2, <1>5

\* Uploads and deletions keep index and disk together.
LEMMA ServedFile ==
  ASSUME MergeInv, owed \subseteq Indexed, NEW f \in Files, FileStep(f)
  PROVE  owed' \subseteq Indexed'
<1>1. /\ vfs \in [Files -> {"absent", "unseen", "seen"}] /\ owed \subseteq Files
  BY DEF MergeInv, Base, Types, TypeOK
<1>2. /\ owed' \subseteq Files
      /\ \A g \in Files : g \in owed' => vfs'[g] = "seen" \/ (g \in owed /\ vfs'[g] = vfs[g])
  BY <1>1 DEF FileStep, UploadToDisk, UploadIndexed, UploadLost, DeleteOnDisk, DeleteIndexed, Vanish, Age, history
<1> QED
  BY <1>2 DEF Indexed

\* A queued listing takes no owed file from the index.
LEMMA ServedPrune ==
  ASSUME MergeInv, Safe, Up, owed \subseteq Indexed, NEW s \in Session, s = sess, AddSnapshot(s) \/ PruneMissing(s)
  PROVE  owed' \subseteq Indexed'
<1>1. /\ Types /\ Kept /\ hand \in [Session -> Hands] /\ vfs \in [Files -> {"absent", "unseen", "seen"}]
      /\ owed \subseteq Files /\ owed \subseteq disk
  BY DEF MergeInv, Base, Types, TypeOK, Kept
<1>2. CASE AddSnapshot(s)
  <2>1. owed' = owed /\ \A f \in Files : vfs[f] # "absent" => vfs'[f] # "absent"
    BY <1>1, <1>2 DEF AddSnapshot, history
  <2> QED
    BY <2>1 DEF Indexed
<1>3. CASE PruneMissing(s)
  <2>1. PICK d \in Snapshot : d = hand[sess].snap
    BY <1>1, <1>3, HandTypes DEF PruneMissing
  <2>2. OnWay(d)
    BY <1>3, <2>1 DEF OnWay, Busy, PruneMissing
  <2>3. set.single => Complete(d)
    BY <2>2 DEF MergeInv, Live, Safe, Pruned, Lists
  <2>4. set.single => \A f \in owed : f \notin In(d.dir) \ (d.files \cup recent)
    BY <1>1, <2>3 DEF Complete
  <2>5. owed' = owed /\ \A f \in owed : vfs'[f] = vfs[f]
    BY <1>1, <1>3, <2>1, <2>4 DEF PruneMissing, history
  <2> QED
    BY <1>1, <2>5 DEF Indexed
<1> QED
  BY <1>2, <1>3

\* Every step keeps an available slave indexed.
LEMMA ServedStep ==
  ASSUME MergeInv, Safe, Served, [Next]_vars, [TidyConnect]_vars, [StartupOnly]_vars
  PROVE  Served'
<1> SUFFICES ASSUME ~set'.instant, Up', avail'[sess']
             PROVE  owed' \subseteq Indexed' /\ job'[sess'] = "done"
  BY DEF Served
<1>0. /\ Types /\ Numbered /\ Sessions
      /\ job \in [Session -> {"none", "mark", "issue", "wait", "drain", "purge",
                              "finished", "end", "expired", "undrained", "late", "done"}]
      /\ avail \in [Session -> BOOLEAN]
  BY DEF MergeInv, Base, Types, TypeOK
<1>1. ASSUME sess' = sess, set' = set, Up, avail[sess] PROVE owed \subseteq Indexed /\ job[sess] = "done"
  BY <1>1 DEF Served
<1>2. CASE UNCHANGED vars
  <2>1. UNCHANGED <<set, sess, link, job, avail, vfs, owed>>
    BY <1>2 DEF vars
  <2> QED
    BY <2>1 DEF Served, Up, Indexed
<1>3. CASE Connect
  BY <1>3, ServedConnect
<1>4. CASE LinkBreaks
  <2>1. link'[sess'] = "broken"
    BY <1>0, <1>4, BaseFacts DEF LinkBreaks, Types, TypeOK
  <2> QED
    BY <2>1 DEF Up
<1>5. CASE StopRemerge \/ ScanStep
  <2>1. UNCHANGED <<set, sess, link, job, avail, vfs, owed>>
    BY <1>5 DEF StopRemerge, ScanStep, EndScan, StartScan, EnterDir, ReadDir, SendSnapshot, linkVars, history
  <2> QED
    BY <2>1 DEF Served, Up, Indexed
<1>6. ASSUME NEW f \in Files, FileStep(f) PROVE owed' \subseteq Indexed' /\ job'[sess'] = "done"
  <2>1. UNCHANGED <<set, sess, link, job, avail>>
    BY <1>6 DEF FileStep, UploadToDisk, UploadIndexed, UploadLost, DeleteOnDisk, DeleteIndexed, Vanish, Age, linkVars
  <2>2. owed \subseteq Indexed /\ job[sess] = "done"
    BY <1>1, <2>1 DEF Up
  <2> QED
    BY <1>6, <2>1, <2>2, ServedFile
<1>7. ASSUME NEW s \in Session, \/ StartJob(s) \/ GoOffline(s) \/ ClearSlave(s) \/ StopQueue(s)
                                \/ JobStep(s) \/ GiveUp(s) \/ DrainTimeout(s) \/ MasterStep(s)
      PROVE  owed' \subseteq Indexed' /\ job'[sess'] = "done"
  <2>1. s = sess /\ sess > 0
    BY <1>7, OnlyLast DEF MergeInv
  <2>2. UNCHANGED <<set, sess>>
    BY <1>7 DEF StartJob, GoOffline, ClearSlave, StopQueue, JobStep, MarkAllUnseen, IssueRemerge, LoseReply, Drain,
       PurgeUnseen, Finish, GiveUp, DrainTimeout, MasterStep, ReadSnapshot, ReadReply, TakeSnapshot, AddSnapshot,
       PruneMissing, linkVars
  <2>3. ~GoOffline(s) /\ ~ClearSlave(s)
    BY <1>0, <2>1, <2>2 DEF GoOffline, ClearSlave, Up, Types, TypeOK
  <2>4. link' = link
    BY <1>7, <2>3 DEF StartJob, StopQueue, JobStep, MarkAllUnseen, IssueRemerge, LoseReply, Drain,
       PurgeUnseen, Finish, GiveUp, DrainTimeout, MasterStep, ReadSnapshot, ReadReply, TakeSnapshot, AddSnapshot,
       PruneMissing, linkVars
  <2>5. Up
    BY <2>2, <2>4 DEF Up
  <2>6. ~StartJob(s)
    <3> SUFFICES ASSUME StartJob(s) PROVE FALSE
      OBVIOUS
    <3>1. job[s] = "done" /\ job'[s] = "mark"
      BY <1>0 DEF StartJob
    <3>2. StartupOnly
      BY <3>1 DEF vars
    <3> QED
      BY <3>1, <3>2 DEF StartupOnly
  <2>7. CASE Finish(s)
    <3>1. /\ job[s] \in {"finished", "end", "expired", "undrained"} /\ UNCHANGED <<vfs, owed>>
          /\ job'[s] = IF job[s] = "expired" THEN "late" ELSE "done"
          /\ avail'[s] <=> avail[s] \/ (~set.instant /\ job[s] = "finished")
      BY <1>0, <2>7 DEF Finish, history
    <3>2. ~avail[sess]
      BY <1>1, <2>1, <2>2, <2>5, <3>1
    <3>3. job[s] = "finished" /\ job'[s] = "done"
      BY <2>1, <2>2, <3>1, <3>2
    <3>4. owed \subseteq Indexed
      BY <2>1, <2>5, <3>3, FinishedIsWhole DEF IndexComplete, Up
    <3> QED
      BY <2>1, <2>2, <3>1, <3>3, <3>4 DEF Indexed
  <2>8. ASSUME ~Finish(s) PROVE owed' \subseteq Indexed' /\ job'[sess'] = "done"
    <3>1. avail' = avail
      BY <1>7, <2>3, <2>6, <2>8 DEF StopQueue, JobStep, MarkAllUnseen, IssueRemerge, LoseReply, Drain,
         PurgeUnseen, GiveUp, DrainTimeout, MasterStep, ReadSnapshot, ReadReply, TakeSnapshot, AddSnapshot,
         PruneMissing
    <3>2. owed \subseteq Indexed /\ job[sess] = "done"
      BY <1>1, <2>2, <2>5, <3>1
    <3>3. MasterStep(s) \/ StopQueue(s)
      BY <1>7, <2>1, <2>3, <2>6, <2>8, <3>2 DEF JobStep, MarkAllUnseen, IssueRemerge, LoseReply, Drain,
         PurgeUnseen, GiveUp, DrainTimeout
    <3>4. job' = job
      BY <2>1, <3>2, <3>3 DEF StopQueue, MasterStep, ReadSnapshot, ReadReply, TakeSnapshot, AddSnapshot, PruneMissing
    <3>5. CASE AddSnapshot(s) \/ PruneMissing(s)
      BY <2>1, <2>2, <2>5, <3>2, <3>4, <3>5, ServedPrune
    <3>6. CASE ReadSnapshot(s) \/ ReadReply(s) \/ TakeSnapshot(s) \/ StopQueue(s)
      <4>1. UNCHANGED <<vfs, owed>>
        BY <3>6 DEF StopQueue, ReadSnapshot, ReadReply, TakeSnapshot, history
      <4> QED
        BY <2>2, <3>2, <3>4, <4>1 DEF Indexed
    <3> QED
      BY <3>3, <3>5, <3>6 DEF MasterStep
  <2> QED
    BY <2>7, <2>8
<1> QED
  BY <1>2, <1>3, <1>4, <1>5, <1>6, <1>7 DEF Next

\* README.md:536: a slave that waits for its startup remerge is served only with every
\* file of its disk in the index.
THEOREM AvailableMeansIndexed ==
  ASSUME AllRead
  PROVE  Spec /\ [][TidyConnect]_vars /\ [][StartupOnly]_vars => []AvailableIsIndexed
<1>1. Init => Served
  BY DEF Init, Served, Up
<1>2. MergeInv => Safe
  BY AllRead DEF AllRead, MergeInv, Base, Types, TypeOK, Safe
<1>3. MergeInv /\ Served /\ [Next]_vars /\ [TidyConnect]_vars /\ [StartupOnly]_vars => Served'
  BY <1>2, ServedStep
<1>4. MergeInv /\ Served => AvailableIsIndexed
  <2> SUFFICES ASSUME MergeInv, Served, ~set.instant, NEW s \in Session, avail[s], link[s] = "up"
               PROVE  owed \subseteq Indexed
    BY DEF AvailableIsIndexed
  <2>1. s = sess /\ sess > 0
    BY BaseFacts DEF MergeInv, Base, Numbered, Sessions, Session
  <2> QED
    BY <2>1 DEF Served, Up
<1> QED
  BY <1>1, <1>3, <1>4, MergeInvariant, PTL DEF Spec

-----------------------------------------------------------------------------
(* Paths. *)

\* Directories are paths; what begins a path is a directory.
LEMMA TreeFacts ==
  /\ DirPath \subseteq Tree /\ Tree \subseteq Seq(UNION {Range(p) : p \in Tree})
  /\ \A p \in Tree : Len(p) > 0 /\ \A n \in 1..Len(p) - 1 : SubSeq(p, 1, n) \in DirPath
  /\ \A p \in Tree \ DirPath : Len(p) > 1
  BY RoutingAssumption DEF PathsAreATree

\* A mount that is no deeper than a section is no longer than a path.
LEMMA ShortFits == \A m, n : m \in {0, 1} /\ n \in Nat \ {0} => m <= n
  OBVIOUS

\* The names of paths.
Names == UNION {Range(p) : p \in Tree}

\* A path is a sequence of names, and not empty.
LEMMA PathIsSeq == \A p \in Tree : p \in Seq(Names) /\ Len(p) \in Nat \ {0}
  BY TreeFacts DEF Names

\* A prefix, name by name.
LEMMA PrefixByNames ==
  \A d, p \in Tree : IsPrefix(d, p) <=> Len(d) <= Len(p) /\ \A i \in 1..Len(d) : d[i] = p[i]
<1> SUFFICES ASSUME NEW d \in Tree, NEW p \in Tree
             PROVE IsPrefix(d, p) <=> Len(d) <= Len(p) /\ \A i \in 1..Len(d) : d[i] = p[i]
  OBVIOUS
<1>1. /\ d \in Seq(Names) /\ Len(d) \in Nat /\ p \in Seq(Names) /\ Len(p) \in Nat
  BY PathIsSeq
<1>2. \A q \in Seq(Names), n \in Nat : n <= Len(q) =>
        /\ SubSeq(q, 1, n) \in Seq(Names) /\ Len(SubSeq(q, 1, n)) = n
        /\ \A i \in 1..n : SubSeq(q, 1, n)[i] = q[i]
  OBVIOUS
<1>3. ASSUME Len(d) <= Len(p), \A i \in 1..Len(d) : d[i] = p[i]
      PROVE SubSeq(d, 1, Len(d)) = SubSeq(p, 1, Len(d))
  BY <1>1, <1>2, <1>3
<1>4. ASSUME IsPrefix(d, p) PROVE Len(d) <= Len(p) /\ \A i \in 1..Len(d) : d[i] = p[i]
  BY <1>1, <1>2, <1>4 DEF IsPrefix
<1> QED
  BY <1>3, <1>4 DEF IsPrefix

\* Two paths with the same names are the same.
LEMMA SameNames ==
  ASSUME NEW d \in Tree, NEW p \in Tree, Len(d) = Len(p), \A i \in 1..Len(d) : d[i] = p[i]
  PROVE  d = p
  BY PathIsSeq

\* What is above a path.
LEMMA AboveFacts ==
  \A p \in Tree : \A d \in Above[p] :
    /\ d \in DirPath /\ d \in Tree /\ Len(d) < Len(p) /\ d[1] = p[1]
    /\ \A i \in 1..Len(d) : d[i] = p[i]
<1> SUFFICES ASSUME NEW p \in Tree, NEW d \in Above[p]
             PROVE /\ d \in DirPath /\ d \in Tree /\ Len(d) < Len(p) /\ d[1] = p[1]
                   /\ \A i \in 1..Len(d) : d[i] = p[i]
  OBVIOUS
<1>1. d \in DirPath /\ d \in Tree /\ IsPrefix(d, p) /\ d # p
  BY TreeFacts DEF Above, IsStrictPrefix
<1>2. Len(d) <= Len(p) /\ \A i \in 1..Len(d) : d[i] = p[i]
  BY <1>1, PrefixByNames
<1>3. Len(d) # Len(p)
  BY <1>1, <1>2, SameNames
<1>4. Len(d) \in Nat \ {0} /\ Len(p) \in Nat \ {0}
  BY <1>1, PathIsSeq
<1> QED
  BY <1>1, <1>2, <1>3, <1>4

\* A directory with the names of a path, and shorter, is above it.
LEMMA IsAbove ==
  \A p \in Tree, d \in DirPath :
    Len(d) < Len(p) /\ (\A i \in 1..Len(d) : d[i] = p[i]) => d \in Above[p]
<1> SUFFICES ASSUME NEW p \in Tree, NEW d \in DirPath, Len(d) < Len(p), \A i \in 1..Len(d) : d[i] = p[i]
             PROVE d \in Above[p]
  OBVIOUS
<1>1. d \in Tree /\ Len(d) \in Nat /\ Len(p) \in Nat
  BY PathIsSeq, TreeFacts
<1>2. IsPrefix(d, p) /\ d # p
  BY <1>1, PrefixByNames
<1> QED
  BY <1>2 DEF Above, IsStrictPrefix

\* The beginning of a path is a directory above it.
LEMMA Beginning ==
  \A p \in Tree, n \in Nat \ {0} : n < Len(p) =>
    /\ SubSeq(p, 1, n) \in Above[p] /\ Len(SubSeq(p, 1, n)) = n
    /\ \A i \in 1..n : SubSeq(p, 1, n)[i] = p[i]
<1> SUFFICES ASSUME NEW p \in Tree, NEW n \in Nat \ {0}, n < Len(p)
             PROVE  /\ SubSeq(p, 1, n) \in Above[p] /\ Len(SubSeq(p, 1, n)) = n
                    /\ \A i \in 1..n : SubSeq(p, 1, n)[i] = p[i]
  OBVIOUS
<1>1. p \in Seq(Names) /\ Len(p) \in Nat \ {0}
  BY PathIsSeq
<1>2. Len(SubSeq(p, 1, n)) = n /\ \A i \in 1..n : SubSeq(p, 1, n)[i] = p[i]
  BY <1>1
<1>3. n \in 1..Len(p) - 1
  BY <1>1
<1>4. SubSeq(p, 1, n) \in DirPath
  BY <1>3, TreeFacts
<1>5. \A e : e \in DirPath /\ Len(e) = n /\ (\A i \in 1..n : e[i] = p[i]) => e \in Above[p]
  BY IsAbove
<1> QED
  BY <1>2, <1>4, <1>5

\* A path that is no section has a release, or is one or a file in its place.
LEMMA ReleaseFacts ==
  \A p \in Tree \ Section :
    /\ Len(p) \in Nat /\ Len(p) >= 2
    /\ ReleaseOf(p) \in Tree \ Section /\ Len(ReleaseOf(p)) = 2 /\ ReleaseOf(p)[1] = p[1]
    /\ (ReleaseOf(p) = p /\ ~(Len(p) > 2)) \/ (Len(p) > 2 /\ ReleaseOf(p) \in Release /\ ReleaseOf(p) \in Above[p])
    /\ Len(p) = 2 => ReleaseOf(p) = p
    /\ \A i \in 1..2 : ReleaseOf(p)[i] = p[i]
<1> SUFFICES ASSUME NEW p \in Tree \ Section
             PROVE  /\ Len(p) \in Nat /\ Len(p) >= 2
                    /\ ReleaseOf(p) \in Tree \ Section /\ Len(ReleaseOf(p)) = 2 /\ ReleaseOf(p)[1] = p[1]
                    /\ (ReleaseOf(p) = p /\ ~(Len(p) > 2)) \/ (Len(p) > 2 /\ ReleaseOf(p) \in Release /\ ReleaseOf(p) \in Above[p])
                    /\ Len(p) = 2 => ReleaseOf(p) = p
                    /\ \A i \in 1..2 : ReleaseOf(p)[i] = p[i]
  OBVIOUS
<1> PICK n : n = Len(p)
  OBVIOUS
<1>0. p \in Seq(Names) /\ n \in Nat \ {0}
  BY PathIsSeq
<1>1. p \in Seq(Names) /\ n \in Nat \ {0} /\ n >= 2
  <2>1. CASE p \in DirPath
    <3>1. n # 1
      BY <2>1 DEF Section
    <3> QED
      BY <1>0, <3>1
  <2>2. CASE p \notin DirPath
    <3>1. n > 1
      BY <2>2, TreeFacts
    <3> QED
      BY <1>0, <3>1
  <2> QED
    BY <2>1, <2>2
<1>2. CASE n = 2
  <2>1. SubSeq(p, 1, 2) = p
    <3>1. Len(p) \in Nat /\ SubSeq(p, 1, Len(p)) = p
      BY <1>1
    <3> QED
      BY <1>2, <3>1
  <2>2. ~(n > 2)
    BY <1>2
  <2> QED
    BY <1>1, <1>2, <2>1, <2>2 DEF ReleaseOf
<1>3. CASE n > 2
  <2>1. /\ ReleaseOf(p) \in Above[p] /\ Len(ReleaseOf(p)) = 2
        /\ \A i \in 1..2 : ReleaseOf(p)[i] = p[i]
    BY <1>3, Beginning DEF ReleaseOf
  <2>2. ReleaseOf(p) \in DirPath /\ ReleaseOf(p) \in Tree
    BY <2>1, AboveFacts
  <2>3. PICK r : r = ReleaseOf(p)
    OBVIOUS
  <2>4. r \in Release /\ r \notin Section /\ r[1] = p[1]
    BY <2>1, <2>2, <2>3 DEF Release, Section
  <2>5. r \in Tree \ Section /\ Len(r) = 2 /\ r \in Above[p] /\ \A i \in 1..2 : r[i] = p[i]
    BY <2>1, <2>2, <2>3, <2>4
  <2>6. n # 2
    BY <1>1, <1>3
  <2> QED
    BY <1>1, <1>3, <2>3, <2>4, <2>5, <2>6
<1>4. n = 2 \/ n > 2
  BY <1>1
<1> QED
  BY <1>2, <1>3, <1>4

\* Releases are no sections, and are their own.
LEMMA ReleaseIsItself ==
  \A r \in Release : r \in Tree \ Section /\ ReleaseOf(r) = r
<1> TAKE r \in Release
<1>0. r \in Tree /\ Len(r) = 2
  BY TreeFacts DEF Release
<1>1. r \in Tree \ Section /\ Len(r) = 2
  BY <1>0 DEF Section
<1> QED
  BY <1>1, ReleaseFacts

\* Two paths with the same first two names are of one release.
LEMMA SameRelease ==
  \A p, q \in Tree \ Section : (\A i \in 1..2 : p[i] = q[i]) => ReleaseOf(p) = ReleaseOf(q)
<1> SUFFICES ASSUME NEW p \in Tree \ Section, NEW q \in Tree \ Section, \A i \in 1..2 : p[i] = q[i]
             PROVE  ReleaseOf(p) = ReleaseOf(q)
  OBVIOUS
<1>1. \A x \in {p, q} : ReleaseOf(x) \in Tree /\ Len(ReleaseOf(x)) = 2 /\ \A i \in 1..2 : ReleaseOf(x)[i] = x[i]
  BY ReleaseFacts
<1>2. \A i \in 1..2 : ReleaseOf(p)[i] = ReleaseOf(q)[i]
  BY <1>1
<1> HIDE DEF ReleaseOf
<1> QED
  BY <1>1, <1>2, SameNames

\* What is above a path is of its release, or is its section.
LEMMA AboveInRelease ==
  \A p \in Tree \ Section : \A d \in Above[p] :
    /\ d \in Section \/ (d \in Tree \ Section /\ ReleaseOf(d) = ReleaseOf(p))
    /\ d \in Release => d = ReleaseOf(p) /\ Len(p) > 2
<1> SUFFICES ASSUME NEW p \in Tree \ Section, NEW d \in Above[p]
             PROVE  /\ d \in Section \/ (d \in Tree \ Section /\ ReleaseOf(d) = ReleaseOf(p))
                    /\ d \in Release => d = ReleaseOf(p) /\ Len(p) > 2
  OBVIOUS
<1>1. d \in DirPath /\ d \in Tree /\ Len(d) < Len(p) /\ \A i \in 1..Len(d) : d[i] = p[i]
  BY AboveFacts
<1>2. ASSUME d \notin Section PROVE ReleaseOf(d) = ReleaseOf(p)
  <2>1. Len(d) \in Nat /\ Len(d) >= 2
    BY <1>1, <1>2, ReleaseFacts
  <2>2. \A i \in 1..2 : d[i] = p[i]
    BY <1>1, <2>1
  <2> QED
    BY <1>1, <1>2, <2>2, SameRelease
<1>3. ASSUME d \in Release PROVE d = ReleaseOf(p) /\ Len(p) > 2
  <2>1. d \notin Section /\ ReleaseOf(d) = d /\ Len(d) = 2
    BY <1>3, ReleaseIsItself DEF Release
  <2> QED
    BY <1>1, <1>2, <2>1
<1> QED
  BY <1>1, <1>2, <1>3

\* What is above what is above.
LEMMA AboveAbove == \A p \in Tree : \A d \in Above[p] : \A e \in Above[d] : e \in Above[p]
<1> SUFFICES ASSUME NEW p \in Tree, NEW d \in Above[p], NEW e \in Above[d] PROVE e \in Above[p]
  OBVIOUS
<1>1. d \in Tree /\ Len(d) < Len(p) /\ \A i \in 1..Len(d) : d[i] = p[i]
  BY AboveFacts
<1>2. e \in Tree /\ e \in DirPath /\ Len(e) < Len(d) /\ \A i \in 1..Len(e) : e[i] = d[i]
  BY <1>1, AboveFacts
<1>3. Len(p) \in Nat /\ Len(d) \in Nat /\ Len(e) \in Nat
  BY <1>1, <1>2, PathIsSeq
<1>4. Len(e) < Len(p) /\ \A i \in 1..Len(e) : e[i] = p[i]
  BY <1>1, <1>2, <1>3
<1> QED
  BY <1>2, <1>4, IsAbove

\* What is below a path has it above.
LEMMA BelowFacts ==
  \A d \in Tree : \A p \in Below[d] :
    /\ p \in Tree /\ (p # d => d \in Above[p])
    /\ d \notin Section => p \notin Section /\ ReleaseOf(p) = ReleaseOf(d)
<1> SUFFICES ASSUME NEW d \in Tree, NEW p \in Below[d]
             PROVE  /\ p \in Tree /\ (p # d => d \in Above[p])
                    /\ d \notin Section => p \notin Section /\ ReleaseOf(p) = ReleaseOf(d)
  OBVIOUS
<1>1. p \in Tree /\ Len(d) <= Len(p) /\ \A i \in 1..Len(d) : d[i] = p[i]
  BY PrefixByNames DEF Below
<1>2. Len(p) \in Nat \ {0} /\ Len(d) \in Nat \ {0}
  BY <1>1, PathIsSeq
<1>3. ASSUME p # d PROVE d \in Above[p]
  <2>1. Len(d) < Len(p)
    BY <1>1, <1>2, <1>3, SameNames
  <2>2. SubSeq(p, 1, Len(d)) \in Above[p] /\ Len(SubSeq(p, 1, Len(d))) = Len(d)
        /\ \A i \in 1..Len(d) : SubSeq(p, 1, Len(d))[i] = p[i]
    BY <1>1, <1>2, <2>1, Beginning
  <2>3. SubSeq(p, 1, Len(d)) = d
    <3> PICK e : e = SubSeq(p, 1, Len(d))
      OBVIOUS
    <3>1. e \in Tree /\ Len(e) = Len(d) /\ \A i \in 1..Len(d) : e[i] = d[i]
      BY <1>1, <2>2, AboveFacts
    <3> QED
      BY <3>1, SameNames
  <2> QED
    BY <2>2, <2>3
<1>4. ASSUME d \notin Section PROVE p \notin Section /\ ReleaseOf(p) = ReleaseOf(d)
  <2>1. Len(d) >= 2
    BY <1>4, ReleaseFacts
  <2>2. p \notin Section
    BY <1>1, <1>2, <2>1 DEF Section
  <2>3. \A i \in 1..2 : d[i] = p[i]
    BY <1>1, <1>2, <2>1
  <2> QED
    BY <1>1, <1>4, <2>2, <2>3, SameRelease
<1> QED
  BY <1>1, <1>3, <1>4

\* What is below a directory has below it nothing but that too.
LEMMA BelowBelow ==
  \A d, p \in Tree : \A e \in Above[p] : e \in Below[d] => p \in Below[d]
<1> SUFFICES ASSUME NEW d \in Tree, NEW p \in Tree, NEW e \in Above[p], e \in Below[d] PROVE p \in Below[d]
  OBVIOUS
<1>1. e \in Tree /\ Len(e) < Len(p) /\ \A i \in 1..Len(e) : e[i] = p[i]
  BY AboveFacts
<1>2. Len(d) <= Len(e) /\ \A i \in 1..Len(d) : d[i] = e[i]
  BY <1>1, PrefixByNames DEF Below
<1>3. Len(p) \in Nat /\ Len(d) \in Nat /\ Len(e) \in Nat
  BY <1>1, <1>2, PathIsSeq
<1>4. Len(d) <= Len(p) /\ \A i \in 1..Len(d) : d[i] = p[i]
  BY <1>1, <1>2, <1>3
<1> QED
  BY <1>4, PrefixByNames DEF Below

\* The directory of a path.
LEMMA FrontAbove == \A p \in Tree \ Section : Front(p) \in Above[p]
<1> TAKE p \in Tree \ Section
<1>1. PICK n : n = Len(p)
  OBVIOUS
<1>2. n \in Nat /\ n >= 2
  BY <1>1, ReleaseFacts
<1>3. n - 1 \in Nat \ {0} /\ n - 1 < n
  BY <1>2
<1>4. Front(p) = SubSeq(p, 1, n - 1)
  BY <1>1 DEF Front
<1> QED
  BY <1>1, <1>3, <1>4, Beginning

\* A mount that is no deeper than a section takes all of a section or nothing.
LEMMA MountFits ==
  ASSUME NEW m, Len(m) \in {0, 1}, NEW p \in Tree, NEW q \in Tree, p[1] = q[1]
  PROVE  IsPrefix(m, p) <=> IsPrefix(m, q)
<1>1. Len(p) \in Nat \ {0} /\ Len(q) \in Nat \ {0} /\ p \in Seq(Names) /\ q \in Seq(Names)
  BY PathIsSeq
<1>2. Len(m) <= Len(p) /\ Len(m) <= Len(q)
  BY <1>1, ShortFits
<1>3. \A n \in {0, 1} : n <= Len(p) /\ n <= Len(q) => SubSeq(p, 1, n) = SubSeq(q, 1, n)
  <2>1. SubSeq(p, 1, 0) = <<>> /\ SubSeq(q, 1, 0) = <<>>
    BY <1>1
  <2>2. \A i \in 1..1 : SubSeq(p, 1, 1)[i] = SubSeq(q, 1, 1)[i]
    BY <1>1
  <2>3. 1 <= Len(p) /\ 1 <= Len(q) => SubSeq(p, 1, 1) = SubSeq(q, 1, 1)
    BY <1>1, <2>2
  <2> QED
    BY <1>1, <2>1, <2>3
<1> QED
  BY <1>2, <1>3, Zenon DEF IsPrefix

\* A set of numbers has a least one.
LEMMA LeastOf == \A T : T \subseteq Nat /\ T # {} => \E m \in T : \A k \in T : m <= k
<1> SUFFICES ASSUME NEW T, T \subseteq Nat, T # {} PROVE \E m \in T : \A k \in T : m <= k
  OBVIOUS
<1>1. PICK m \in T : \A k \in T : <<k, m>> \notin OpToRel(<, Nat)
  BY NatLessThanWellFounded, WFMin
<1>2. \A k \in T : ~(k < m)
  BY <1>1 DEF OpToRel
<1> QED
  BY <1>2

\* Of directories above a path, one is the deepest.
LEMMA DeepestAbove ==
  \A p \in Tree : \A S \in SUBSET Above[p] : S # {} => \E a \in S : \A b \in S : Len(b) <= Len(a)
<1> SUFFICES ASSUME NEW p \in Tree, NEW S, S \subseteq Above[p], S # {}
             PROVE \E a \in S : \A b \in S : Len(b) <= Len(a)
  OBVIOUS
<1>1. PICK n : n = Len(p)
  OBVIOUS
<1>2. n \in Nat /\ \A a \in S : Len(a) \in Nat /\ Len(a) < n
  BY <1>1, PathIsSeq, AboveFacts
<1> DEFINE T == {n - Len(a) : a \in S}
<1>3. T \subseteq Nat /\ T # {}
  BY <1>2
<1>4. PICK m \in T : \A k \in T : m <= k
  <2> HIDE DEF T
  <2> QED
    BY <1>3, LeastOf
<1>5. PICK a \in S : m = n - Len(a)
  OBVIOUS
<1>6. ASSUME NEW b \in S PROVE Len(b) <= Len(a)
  <2>1. PICK x, y : x = Len(a) /\ y = Len(b)
    OBVIOUS
  <2>2. x \in Nat /\ y \in Nat /\ x < n /\ y < n
    BY <1>2, <2>1
  <2>3. n - x <= n - y
    BY <1>4, <1>5, <2>1
  <2>4. y <= x
    BY <1>2, <2>2, <2>3
  <2> QED
    BY <2>1, <2>4
<1> QED
  BY <1>6

(* The invariant. *)

Owners == Slave \cup {None, Nobody}
TaskRecord == [at : {"free", "look", "choose", "ask", "enter"},
               op : {"mkd", "stor", "resume", "write", "delete"},
               goal : Tree \cup {<<>>}, path : Tree \cup {<<>>}, on : Slave \cup {None}, was : Owners]
Chosen(t) == t.at \in {"ask", "enter"}

\* A task is about something below a section.
TaskSound(t) ==
  /\ t \in TaskRecord
  /\ t.at # "free" => t.path \in Tree \ Section /\ t.goal \in Tree \ Section
  /\ t.at = "look" => t.op = "stor"
  /\ t.op = "mkd" => t.path \in DirPath \cup {<<>>}
  /\ Chosen(t) => t.on \in Slave

RouteTyped ==
  /\ site \in RouteSettings /\ policy \in {site.before, site.after} /\ available \subseteq Slave
  /\ lies \in [Slave -> SUBSET Tree] /\ entry \in [Tree -> Owners]
  /\ shaken \subseteq Tree
  /\ task \in [Client -> TaskRecord] /\ \A c \in Client : TaskSound(task[c])
SectionsOfNobody == \A p \in Tree : entry[p] = Nobody <=> p \in Section
RouteSound == RouteTyped /\ SectionsOfNobody

\* An archive keeps what it has, and nobody is about to change it.
Archives == {s \in Slave : site.before[s].readOnly /\ site.after[s].readOnly}
ArchivesKept ==
  \A s \in Archives :
    /\ lies[s] = site.lies[s]
    /\ \A p \in Tree : entry[p] = s => p \in lies[s]
    /\ \A c \in Client : Chosen(task[c]) /\ task[c].on = s =>
         task[c].op = "resume" /\ task[c].path \in lies[s]
ArchiveInv == RouteSound /\ ArchivesKept

\* What lies on a slave, or is known to, fits its mount and lies in its directories.
InItsMount ==
  /\ \A p \in Tree : Owner(p) => CanStore(entry[p], p)
  /\ \A s \in Slave : \A p \in lies[s] \ Section : CanStore(s, p) /\ Above[p] \subseteq lies[s]

\* The owner of a release is there, unless it went.
OwnersAreThere == \A r \in Release \ shaken : Owner(r) => entry[r] \in available

\* The slave a session has chosen is that of the release, when it had one and still has.
AsChosen(t) ==
  Chosen(t) => /\ CanStore(t.on, t.path)
               /\ t.op # "delete" /\ Len(t.path) > 2 /\ ReleaseOf(t.path) \notin shaken =>
                    \/ t.was = None \/ t.on = t.was
                    \/ t.was \in Slave /\ ReadOnly(t.was)

PlacedInv ==
  /\ RouteSound /\ InItsMount /\ OwnersAreThere /\ StaysTogether
  /\ \A c \in Client : AsChosen(task[c])

\* What the placement needs of the policies: mounts no deeper than a section, which stay;
\* no archive becomes writable; and what lies somewhere at first fits, and lies once.
SettledPolicies ==
  \A x \in RouteSettings, s \in Slave :
    /\ x.after[s].mount = x.before[s].mount /\ Len(x.before[s].mount) \in {0, 1}
    /\ x.before[s].readOnly => x.after[s].readOnly
    /\ \A p \in x.lies[s] : IsPrefix(x.before[s].mount, p)
    /\ \A t \in Slave \ {s} : x.lies[s] \cap x.lies[t] \subseteq Section

-----------------------------------------------------------------------------
(* The choice of a slave. *)

\* The markers are no slaves.
LEMMA Markers == None \notin Slave /\ Nobody \notin Slave /\ None # Nobody
  BY RoutingAssumption

\* What owns a path below a section.
LEMMA OwnerOrNone ==
  ASSUME RouteSound, NEW p \in Tree \ Section
  PROVE  entry[p] \in Slave \cup {None} /\ (Owner(p) <=> entry[p] # None)
  BY Markers DEF RouteSound, RouteTyped, SectionsOfNobody, Owners, Owner

\* No section has an owner.
LEMMA OwnedIsNoSection ==
  ASSUME RouteSound, NEW p \in Tree, Owner(p) \/ entry[p] = None
  PROVE  p \notin Section
  BY Markers DEF RouteSound, SectionsOfNobody, Owner

\* A slave chosen without regard to a directory: nothing above belongs to another that
\* could have it.
Free(s, p) ==
  /\ s \in available /\ ~ReadOnly(s) /\ CanStore(s, p)
  /\ \A d \in Above[p] : Owner(d) => ~Writable(entry[d], p)
\* A slave chosen for what it has.
OfItsOwner(s, p) == \E d \in {p} \cup Above[p] : entry[d] = s

\* What SelectSlaveForUpload gives owns something above, or nothing above has an owner to go to.
LEMMA SelectFacts ==
  ASSUME RouteSound, NEW p \in Tree, NEW s \in SelectSlaveForUpload(p)
  PROVE  s \in Slave /\ s \in available /\ ~ReadOnly(s) /\ (OfItsOwner(s, p) \/ Free(s, p))
<1> USE DEF RouteSound, RouteTyped
<1>1. Above[p] \subseteq Tree
  BY AboveFacts
<1>2. CASE OwnedAncestor(p) # {}
  <2>1. PICK d \in Ancestors(p) : s = entry[d]
    BY <1>2 DEF SelectSlaveForUpload, OwnedAncestor
  <2>2. d \in Above[p] /\ Owner(d) /\ Writable(entry[d], p)
    BY <2>1 DEF Ancestors
  <2> QED
    BY <2>1, <2>2 DEF Writable, Owner, OfItsOwner
<1>3. CASE OwnedAncestor(p) = {}
  <2>1. Ancestors(p) = {}
    <3> SUFFICES ASSUME Ancestors(p) # {} PROVE FALSE
      OBVIOUS
    <3>1. Ancestors(p) \subseteq Above[p]
      BY DEF Ancestors
    <3>2. \E a \in Ancestors(p) : \A b \in Ancestors(p) : Len(b) <= Len(a)
      BY <3>1, DeepestAbove
    <3> QED
      BY <1>3, <3>2 DEF OwnedAncestor
  <2>2. \A d \in Above[p] : Owner(d) => ~Writable(entry[d], p)
    BY <2>1 DEF Ancestors
  <2>3. s \in Eligible(p)
    BY <1>3 DEF SelectSlaveForUpload
  <2>4. s \in Slave /\ Writable(s, p)
    BY <2>3 DEF Eligible
  <2> QED
    BY <2>2, <2>4 DEF Writable, Free
<1> QED
  BY <1>2, <1>3

\* The same of the slave of a new directory.
LEMMA DirFacts ==
  ASSUME RouteSound, NEW p \in Tree \ Section, NEW s \in SlaveForDir(p)
  PROVE  s \in Slave /\ s \in available /\ ~ReadOnly(s) /\ (OfItsOwner(s, p) \/ Free(s, p))
<1>1. PICK d : d = Front(p)
  OBVIOUS
<1>2. d \in Above[p] /\ d \in Tree
  BY <1>1, FrontAbove, AboveFacts
<1>3. CASE Owner(d) /\ entry[d] \in available /\ ~ReadOnly(entry[d])
  <2>1. s = entry[d]
    BY <1>1, <1>2, <1>3 DEF SlaveForDir
  <2> QED
    BY <1>2, <1>3, <2>1 DEF Owner, OfItsOwner
<1>4. CASE ~(Owner(d) /\ entry[d] \in available /\ ~ReadOnly(entry[d]))
  <2>1. s \in SelectSlaveForUpload(p)
    BY <1>1, <1>2, <1>4 DEF SlaveForDir
  <2> QED
    BY <2>1, SelectFacts
<1> QED
  BY <1>3, <1>4

\* The same of the slave of a file that is written.
LEMMA FileFacts ==
  ASSUME RouteSound, NEW p \in Tree \ Section, NEW s \in SlaveForFile(p)
  PROVE  s \in Slave /\ s \in available /\ ~ReadOnly(s) /\ (OfItsOwner(s, p) \/ Free(s, p))
<1>1. PICK d : d = Front(p)
  OBVIOUS
<1>2. d \in Above[p] /\ d \in Tree
  BY <1>1, FrontAbove, AboveFacts
<1>3. \/ s \in SelectSlaveForUpload(p)
      \/ s \in Owning(p) \/ s \in Owning(d)
  BY <1>1, Zenon DEF SlaveForFile
<1>4. CASE s \in SelectSlaveForUpload(p)
  BY <1>4, SelectFacts
<1>5. ASSUME NEW q \in {p, d}, s \in Owning(q)
      PROVE  s \in Slave /\ s \in available /\ ~ReadOnly(s) /\ (OfItsOwner(s, p) \/ Free(s, p))
  <2>1. s = entry[q] /\ s \in available /\ ~ReadOnly(s)
    BY <1>5 DEF Owning, OwnerThatIsThere
  <2> QED
    BY <1>2, <2>1 DEF RouteSound, RouteTyped, OfItsOwner
<1> QED
  BY <1>3, <1>4, <1>5

\* What is known of a slave that a session has chosen.
LEMMA ChoiceFacts ==
  ASSUME RouteSound, NEW c \in Client, task[c].at = "choose", NEW s \in SlavesFor(task[c])
  PROVE  LET t == task[c] IN
         /\ s \in Slave /\ s \in available
         /\ (t.op = "resume" /\ entry[t.path] = s) \/ ~ReadOnly(s)
         /\ OfItsOwner(s, t.path) \/ Free(s, t.path)
<1>1. PICK t : t = task[c]
  OBVIOUS
<1>2. /\ t.path \in Tree \ Section /\ t.op \in {"mkd", "stor", "resume", "write", "delete"}
      /\ t.op = "mkd" => t.path \in DirPath
  <2>1. TaskSound(t) /\ t.at = "choose"
    BY <1>1 DEF RouteSound, RouteTyped
  <2>2. t.path \in Tree \ Section
    BY <2>1 DEF TaskSound
  <2>3. t.path # <<>>
    <3>1. Len(<<>>) = 0 /\ Len(t.path) \in Nat \ {0}
      BY <2>2, PathIsSeq
    <3> QED
      BY <3>1
  <2> QED
    BY <2>1, <2>2, <2>3 DEF TaskSound, TaskRecord
<1>3. CASE t.path \in DirPath /\ t.op # "delete"
  <2>1. s \in SlaveForDir(t.path)
    BY <1>1, <1>3 DEF SlavesFor
  <2> QED
    BY <1>1, <1>2, <2>1, DirFacts
<1>4. ASSUME s \in OwnerThatIsThere(t.path)
      PROVE s \in Slave /\ s \in available /\ entry[t.path] = s /\ OfItsOwner(s, t.path)
  BY <1>2, <1>4 DEF OwnerThatIsThere, OfItsOwner, RouteSound, RouteTyped
<1>5. CASE ~(t.path \in DirPath /\ t.op # "delete")
  <2>1. CASE t.op = "stor"
    <3>1. s \in SelectSlaveForUpload(t.path)
      BY <1>1, <1>5, <2>1 DEF SlavesFor
    <3> QED
      BY <1>1, <1>2, <3>1, SelectFacts
  <2>2. CASE t.op = "resume"
    <3>1. s \in OwnerThatIsThere(t.path)
      BY <1>1, <1>5, <2>2 DEF SlavesFor
    <3> QED
      BY <1>1, <1>4, <2>2, <3>1
  <2>3. CASE t.op = "write"
    <3>1. s \in SlaveForFile(t.path)
      BY <1>1, <1>5, <2>3 DEF SlavesFor
    <3> QED
      BY <1>1, <1>2, <3>1, FileFacts
  <2>4. CASE t.op = "delete"
    <3>1. s \in Owning(t.path)
      BY <1>1, <1>5, <2>4 DEF SlavesFor
    <3>2. s \in OwnerThatIsThere(t.path) /\ ~ReadOnly(s)
      BY <3>1 DEF Owning
    <3> QED
      BY <1>1, <1>4, <3>2
  <2>5. t.op # "mkd"
    BY <1>2, <1>5
  <2> QED
    BY <1>2, <2>1, <2>2, <2>3, <2>4, <2>5
<1> QED
  BY <1>3, <1>5

\* The mount of a slave takes all of a section or nothing.
LEMMA MountTakes ==
  ASSUME SettledPolicies, RouteSound, NEW s \in Slave, NEW p \in Tree, NEW q \in Tree, p[1] = q[1], CanStore(s, p)
  PROVE  CanStore(s, q)
<1>1. PICK m : m = policy[s].mount
  OBVIOUS
<1>2. site.after[s].mount = site.before[s].mount /\ Len(site.before[s].mount) \in {0, 1}
  BY DEF SettledPolicies, RouteSound, RouteTyped
<1>3. m = site.before[s].mount
  BY <1>1, <1>2 DEF RouteSound, RouteTyped
<1>4. Len(m) \in {0, 1} /\ IsPrefix(m, p)
  BY <1>1, <1>2, <1>3 DEF CanStore
<1>5. IsPrefix(m, q)
  BY <1>4, MountFits
<1> QED
  BY <1>1, <1>5 DEF CanStore

\* The slave chosen for something of a release is that of the release.
LEMMA ChoiceKeepsTogether ==
  ASSUME SettledPolicies, PlacedInv, NEW p \in Tree \ Section, NEW s \in Slave, s \in available,
         OfItsOwner(s, p) \/ Free(s, p)
  PROVE  /\ CanStore(s, p)
         /\ Len(p) > 2 /\ ReleaseOf(p) \notin shaken =>
              LET r == ReleaseOf(p) IN
              entry[r] = None \/ s = entry[r] \/ (entry[r] \in Slave /\ ReadOnly(entry[r]))
<1> USE DEF PlacedInv
<1>1. ASSUME NEW d \in {p} \cup Above[p], entry[d] = s
      PROVE  d \in Tree \ Section /\ ReleaseOf(d) = ReleaseOf(p) /\ d[1] = p[1] /\ Owner(d)
  <2>1. d \in Tree /\ d[1] = p[1]
    BY AboveFacts
  <2>2. Owner(d) /\ d \notin Section
    BY <1>1, <2>1, OwnedIsNoSection DEF Owner
  <2> QED
    BY <2>1, <2>2, AboveInRelease
<1>2. CanStore(s, p)
  <2>1. ASSUME NEW d \in {p} \cup Above[p], entry[d] = s PROVE CanStore(s, p)
    <3>1. d \in Tree /\ d[1] = p[1] /\ CanStore(s, d)
      BY <1>1, <2>1 DEF InItsMount
    <3> QED
      BY <3>1, MountTakes
  <2> QED
    BY <2>1 DEF OfItsOwner, Free
<1>3. ASSUME Len(p) > 2, ReleaseOf(p) \notin shaken, entry[ReleaseOf(p)] # None
      PROVE  LET r == ReleaseOf(p) IN s = entry[r] \/ (entry[r] \in Slave /\ ReadOnly(entry[r]))
  <2>1. PICK r : r = ReleaseOf(p)
    OBVIOUS
  <2>2. r \in Release \ shaken /\ r \in Above[p] /\ r \in Tree \ Section /\ r[1] = p[1]
    BY <1>3, <2>1, ReleaseFacts
  <2>3. entry[r] \in Slave /\ Owner(r) /\ entry[r] \in available
    BY <1>3, <2>1, <2>2, OwnerOrNone DEF OwnersAreThere
  <2>4. CASE Free(s, p)
    <3>1. CanStore(entry[r], p)
      BY <2>2, <2>3, MountTakes DEF InItsMount
    <3>2. ~Writable(entry[r], p)
      BY <2>2, <2>3, <2>4 DEF Free
    <3> QED
      BY <2>1, <2>3, <3>1, <3>2 DEF Writable
  <2>5. CASE OfItsOwner(s, p)
    <3>1. PICK d \in {p} \cup Above[p] : entry[d] = s
      BY <2>5 DEF OfItsOwner
    <3>2. d \in Tree \ Section /\ ReleaseOf(d) = r /\ Owner(d)
      BY <1>1, <2>1, <3>1
    <3>3. CASE d = r
      BY <2>1, <3>1, <3>3
    <3>4. CASE d # r
      <4>1. Len(d) > 2
        BY <3>2, <3>4, ReleaseFacts
      <4> QED
        BY <2>1, <2>2, <2>3, <3>1, <3>2, <4>1 DEF StaysTogether
    <3> QED
      BY <3>3, <3>4
  <2> QED
    BY <2>4, <2>5
<1> QED
  BY <1>2, <1>3

(* The steps of a session. *)

\* A session that has nothing to do.
LEMMA WaitingIsSound == TaskSound(Waiting) /\ ~Chosen(Waiting)
  BY DEF TaskSound, TaskRecord, Waiting, Chosen, Owners

\* The updates of a session's record.
LEMMA TaskFields ==
  ASSUME NEW t, TaskSound(t), t.at # "free", NEW a \in {"choose", "enter", "look"},
         a = "enter" => Chosen(t), a = "look" => t.op = "stor"
  PROVE  LET x == [t EXCEPT !.at = a] IN
         TaskSound(x) /\ x.at = a /\ x.op = t.op /\ x.path = t.path /\ x.on = t.on /\ x.was = t.was
<1>1. PICK x : x = [t EXCEPT !.at = a]
  OBVIOUS
<1>2. x \in TaskRecord /\ x.at = a /\ x.op = t.op /\ x.path = t.path /\ x.goal = t.goal /\ x.on = t.on /\ x.was = t.was
  BY <1>1 DEF TaskSound, TaskRecord
<1>3. TaskSound(x)
  BY <1>2 DEF TaskSound, Chosen
<1> QED
  BY <1>1, <1>2, <1>3, Zenon

\* What Begin, Looks, Chooses and IsRefused have in common; the last adds directories.
SessionStep(c) ==
  /\ UNCHANGED <<site, policy, available, entry, shaken>>
  /\ task' = [task EXCEPT ![c] = task'[c]] /\ TaskSound(task'[c])

\* A session begins.
LEMMA BeginIs ==
  ASSUME RouteSound, NEW c \in Client, NEW op \in site.ops, NEW p \in Tree, Begin(c, op, p)
  PROVE  SessionStep(c) /\ lies' = lies /\ ~Chosen(task'[c])
<1>1. PICK a \in {"look", "choose"} : a = IF op = "stor" THEN "look" ELSE "choose"
  OBVIOUS
<1>2. PICK x : x = [at |-> a, op |-> op, goal |-> p, path |-> p, on |-> None, was |-> None]
  OBVIOUS
<1>3. task' = [task EXCEPT ![c] = x] /\ p \in Wanted(op)
  BY <1>1, <1>2, Zenon DEF Begin
<1>4. op \in {"mkd", "stor", "resume", "write", "delete"}
  BY RoutingAssumption DEF SettingsTyped, RouteSound, RouteTyped
<1>5. p \notin Section /\ (op = "mkd" => p \in DirPath)
  <2>1. CASE op = "mkd"
    <3>1. p \in DirPath /\ entry[p] = None
      BY <1>3, <2>1 DEF Wanted
    <3> QED
      BY <3>1, OwnedIsNoSection
  <2>2. CASE op \in {"stor", "resume", "write"}
    <3>1. p \in Tree \ DirPath
      BY <1>3, <2>2 DEF Wanted
    <3> QED
      BY <2>2, <3>1 DEF Section
  <2>3. CASE op = "delete"
    <3>1. Owner(p)
      BY <1>3, <2>3 DEF Wanted
    <3> QED
      BY <2>3, <3>1, OwnedIsNoSection
  <2> QED
    BY <1>4, <2>1, <2>2, <2>3
<1>6. x \in TaskRecord /\ x.at = a /\ x.op = op /\ x.path = p /\ x.goal = p
  BY <1>1, <1>2, <1>4 DEF TaskRecord, Owners
<1>7. TaskSound(x) /\ ~Chosen(x)
  <2>1. a = "look" => op = "stor"
    BY <1>1
  <2> QED
    BY <1>5, <1>6, <2>1 DEF TaskSound, Chosen
<1>8. task'[c] = x
  BY <1>3 DEF RouteSound, RouteTyped
<1> QED
  BY <1>3, <1>7, <1>8 DEF SessionStep, Begin

\* A session ends what it does.
LEMMA EndsIs ==
  ASSUME RouteSound, NEW c \in Client, Ends(c)
  PROVE  task' = [task EXCEPT ![c] = task'[c]] /\ TaskSound(task'[c]) /\ ~Chosen(task'[c])
<1>1. task'[c] = Waiting
  BY DEF Ends, RouteSound, RouteTyped
<1> QED
  BY <1>1, WaitingIsSound DEF Ends

\* A session looks for what is missing above its file.
LEMMA LooksIs ==
  ASSUME RouteSound, NEW c \in Client, Looks(c)
  PROVE  SessionStep(c) /\ lies' = lies /\ ~Chosen(task'[c])
<1>1. PICK t : t = task[c]
  OBVIOUS
<1>2. TaskSound(t) /\ t.at = "look" /\ UNCHANGED <<site, policy, available, lies, entry, shaken>>
  BY <1>1 DEF Looks, RouteSound, RouteTyped
<1>3. t.goal \in Tree \ Section /\ t.op = "stor"
  BY <1>2 DEF TaskSound
<1> DEFINE absent == {d \in Above[t.goal] : entry[d] = None}
           first == {d \in absent : \A e \in absent : Len(d) <= Len(e)}
<1>4. PICK next \in IF absent = {} THEN {t.goal} ELSE first :
        Ends(c) \/ task' = [task EXCEPT ![c].at = "choose", ![c].path = next]
  BY <1>1 DEF Looks
<1>5. next \in Tree \ Section
  <2>1. CASE absent = {}
    BY <1>3, <1>4, <2>1
  <2>2. CASE absent # {}
    <3>1. next \in Above[t.goal] /\ entry[next] = None
      BY <1>4, <2>2
    <3>2. next \in Tree
      BY <1>3, <3>1, AboveFacts
    <3> QED
      BY <3>1, <3>2, OwnedIsNoSection
  <2> QED
    BY <2>1, <2>2
<1> HIDE DEF absent, first
<1>6. CASE Ends(c)
  BY <1>2, <1>6, EndsIs DEF SessionStep
<1>7. CASE task' = [task EXCEPT ![c].at = "choose", ![c].path = next]
  <2>1. PICK x : x = [t EXCEPT !.at = "choose", !.path = next]
    OBVIOUS
  <2>2. task' = [task EXCEPT ![c] = x] /\ task'[c] = x
    BY <1>1, <1>2, <1>7, <2>1 DEF RouteSound, RouteTyped, TaskSound, TaskRecord
  <2>3. x \in TaskRecord /\ x.at = "choose" /\ x.path = next /\ x.goal = t.goal /\ x.op = "stor"
    BY <1>2, <1>3, <1>5, <2>1 DEF TaskSound, TaskRecord
  <2>4. TaskSound(x) /\ ~Chosen(x)
    BY <1>3, <1>5, <2>3 DEF TaskSound, Chosen
  <2> QED
    BY <1>2, <2>2, <2>4 DEF SessionStep
<1> QED
  BY <1>4, <1>6, <1>7

\* A session chooses, or gives up.
LEMMA ChoosesIs ==
  ASSUME RouteSound, NEW c \in Client, Chooses(c)
  PROVE  /\ SessionStep(c) /\ lies' = lies
         /\ Chosen(task'[c]) =>
              LET t == task[c]
                  x == task'[c]
              IN /\ t.at = "choose" /\ t.path \in Tree \ Section
                 /\ x.path = t.path /\ x.op = t.op /\ x.on \in SlavesFor(t)
                 /\ x.was = entry[ReleaseOf(t.path)]
<1>1. PICK t : t = task[c]
  OBVIOUS
<1>2. TaskSound(t) /\ t.at = "choose" /\ UNCHANGED <<site, policy, available, lies, entry, shaken>>
  BY <1>1 DEF Chooses, RouteSound, RouteTyped
<1>3. t.path \in Tree \ Section
  BY <1>2 DEF TaskSound
<1>4. CASE Ends(c)
  BY <1>2, <1>4, EndsIs DEF SessionStep
<1>5. ASSUME NEW s \in SlavesFor(t),
             task' = [task EXCEPT ![c].at = "ask", ![c].on = s, ![c].was = entry[ReleaseOf(t.path)]]
      PROVE  /\ SessionStep(c)
             /\ task'[c].path = t.path /\ task'[c].op = t.op /\ task'[c].on = s
             /\ task'[c].was = entry[ReleaseOf(t.path)]
  <2>1. PICK w : w = entry[ReleaseOf(t.path)]
    OBVIOUS
  <2>2. PICK x : x = [t EXCEPT !.at = "ask", !.on = s, !.was = w]
    OBVIOUS
  <2>3. task' = [task EXCEPT ![c] = x] /\ task'[c] = x
    BY <1>1, <1>2, <1>5, <2>1, <2>2 DEF RouteSound, RouteTyped, TaskSound, TaskRecord
  <2>4. w \in Owners
    BY <1>3, <2>1, ReleaseFacts DEF RouteSound, RouteTyped
  <2>5. s \in Slave
    BY <1>1, <1>2, ChoiceFacts
  <2>6. /\ x \in TaskRecord /\ x.at = "ask" /\ x.path = t.path /\ x.goal = t.goal /\ x.op = t.op
        /\ x.on = s /\ x.was = w
    BY <1>2, <2>2, <2>4, <2>5 DEF TaskSound, TaskRecord
  <2>7. TaskSound(x)
    BY <1>2, <2>5, <2>6 DEF TaskSound
  <2> QED
    BY <1>2, <2>1, <2>3, <2>6, <2>7 DEF SessionStep
<1>6. Ends(c) \/ \E s \in SlavesFor(t) :
        task' = [task EXCEPT ![c].at = "ask", ![c].on = s, ![c].was = entry[ReleaseOf(t.path)]]
  BY <1>1, Zenon DEF Chooses
<1>7. CASE \E s \in SlavesFor(t) :
        task' = [task EXCEPT ![c].at = "ask", ![c].on = s, ![c].was = entry[ReleaseOf(t.path)]]
  BY <1>1, <1>2, <1>3, <1>5, <1>7
<1>8. Ends(c) => ~Chosen(task'[c])
  BY EndsIs
<1> QED
  BY <1>2, <1>4, <1>6, <1>7, <1>8

(* Steps that only a session takes. *)

\* The settings lay out whole trees.
LEMMA LaidOut ==
  \A x \in RouteSettings :
    /\ x.lies \in [Slave -> SUBSET Tree]
    /\ \A s \in Slave : \A p \in x.lies[s] : p \in Tree /\ Above[p] \subseteq x.lies[s]
  BY RoutingAssumption DEF SettingsTyped, Above

\* Archives are read-only, whatever the policies.
LEMMA ArchiveIsReadOnly == ASSUME RouteSound, NEW s \in Archives PROVE s \in Slave /\ ReadOnly(s)
  BY DEF Archives, ReadOnly, RouteSound, RouteTyped

\* What a slave adds is what it was chosen for, and lies in its directories.
LEMMA SlaveAdds ==
  ASSUME SettledPolicies, PlacedInv, NEW s \in Slave, NEW p \in Tree \ Section, CanStore(s, p),
         NEW S, S = Above[p] \/ S = {p} \cup Above[p],
         lies' = [lies EXCEPT ![s] = lies[s] \cup S], UNCHANGED <<policy, entry>>
  PROVE  InItsMount'
<1>1. /\ \A k \in Slave \ {s} : lies'[k] = lies[k]
      /\ lies'[s] = lies[s] \cup S
  BY DEF PlacedInv, RouteSound, RouteTyped
<1>2. ASSUME NEW q \in S PROVE CanStore(s, q) /\ Above[q] \subseteq S
  <2>1. q \in Tree /\ q[1] = p[1] /\ Above[q] \subseteq S
    BY <1>2, AboveFacts, AboveAbove
  <2> QED
    BY <2>1, MountTakes DEF PlacedInv
<1>3. \A k \in Slave : \A q \in lies'[k] \ Section : CanStore(k, q) /\ Above[q] \subseteq lies'[k]
  BY <1>1, <1>2 DEF PlacedInv, InItsMount
<1> QED
  BY <1>3 DEF PlacedInv, InItsMount, CanStore, Owner

\* What a slave deletes takes all below with it.
LEMMA SlaveDeletes ==
  ASSUME PlacedInv, NEW s \in Slave, NEW d \in Tree,
         lies' = [lies EXCEPT ![s] = lies[s] \ Below[d]], UNCHANGED <<policy, entry>>
  PROVE  InItsMount'
<1>1. /\ \A k \in Slave \ {s} : lies'[k] = lies[k]
      /\ lies'[s] = lies[s] \ Below[d] /\ lies[s] \subseteq Tree
  BY DEF PlacedInv, RouteSound, RouteTyped
<1>2. \A q \in lies'[s] \ Section : CanStore(s, q) /\ Above[q] \subseteq lies'[s]
  BY <1>1, BelowBelow DEF PlacedInv, InItsMount
<1>3. \A k \in Slave : \A q \in lies'[k] \ Section : CanStore(k, q) /\ Above[q] \subseteq lies'[k]
  BY <1>1, <1>2 DEF PlacedInv, InItsMount
<1> QED
  BY <1>3 DEF PlacedInv, InItsMount, CanStore, Owner

\* Where the sessions alone move, and what lies on the slaves.
LEMMA SoundSession ==
  ASSUME RouteSound, NEW c \in Client, SessionStep(c), lies' \in [Slave -> SUBSET Tree]
  PROVE  RouteSound' /\ \A k \in Client \ {c} : task'[k] = task[k]
<1>1. PICK x : x = task'[c]
  OBVIOUS
<1>2. task' = [task EXCEPT ![c] = x] /\ TaskSound(x) /\ x \in TaskRecord
  BY <1>1 DEF SessionStep, TaskSound
<1>3. task' \in [Client -> TaskRecord] /\ \A k \in Client \ {c} : task'[k] = task[k]
  BY <1>2 DEF RouteSound, RouteTyped
<1>4. \A k \in Client : TaskSound(task'[k])
  BY <1>1, <1>2, <1>3 DEF RouteSound, RouteTyped
<1> QED
  BY <1>3, <1>4 DEF SessionStep, RouteSound, RouteTyped, SectionsOfNobody

\* Where a session moves and no archive is written to.
LEMMA SessionKeepsArchives ==
  ASSUME ArchiveInv, NEW c \in Client, SessionStep(c), lies' \in [Slave -> SUBSET Tree],
         \A s \in Archives : lies'[s] = lies[s],
         \A s \in Archives : Chosen(task'[c]) /\ task'[c].on = s =>
                               task'[c].op = "resume" /\ task'[c].path \in lies[s]
  PROVE  ArchiveInv'
<1>1. RouteSound' /\ \A k \in Client \ {c} : task'[k] = task[k]
  BY SoundSession DEF ArchiveInv
<1>2. Archives' = Archives /\ site' = site /\ entry' = entry
  BY DEF SessionStep, Archives
<1> QED
  BY <1>1, <1>2 DEF ArchiveInv, ArchivesKept

\* Where a session moves and what it wrote fits.
LEMMA SessionKeepsPlaces ==
  ASSUME PlacedInv, NEW c \in Client, SessionStep(c), lies' \in [Slave -> SUBSET Tree], InItsMount',
         AsChosen(task'[c])
  PROVE  PlacedInv'
<1>1. RouteSound' /\ \A k \in Client \ {c} : task'[k] = task[k]
  BY SoundSession DEF PlacedInv
<1>2. UNCHANGED <<policy, available, entry, shaken>>
  BY DEF SessionStep
<1>3. \A k \in Client : AsChosen(task'[k])
  BY <1>1 DEF PlacedInv
<1>4. \A k \in Client : AsChosen(task[k])'
  BY <1>2, <1>3 DEF AsChosen, CanStore, ReadOnly
<1>5. OwnersAreThere' /\ StaysTogether'
  BY <1>2 DEF PlacedInv, OwnersAreThere, StaysTogether, Owner, ReadOnly
<1> QED
  BY <1>1, <1>4, <1>5 DEF PlacedInv

\* Steps that leave the disks alone leave the mounts alone.
LEMMA SameMounts == InItsMount /\ UNCHANGED <<policy, entry, lies>> => InItsMount'
  BY DEF InItsMount, Owner, CanStore

\* To begin and to look disturb nothing.
LEMMA BeginLooksKeep ==
  ASSUME NEW c \in Client,
         Looks(c) \/ \E op \in site.ops, p \in Tree : Begin(c, op, p)
  PROVE  (ArchiveInv => ArchiveInv') /\ (PlacedInv => PlacedInv')
<1>1. RouteSound => SessionStep(c) /\ lies' = lies /\ ~Chosen(task'[c])
  BY BeginIs, LooksIs
<1>2. RouteSound => lies' \in [Slave -> SUBSET Tree]
  BY <1>1 DEF RouteSound, RouteTyped
<1>3. ASSUME ArchiveInv PROVE ArchiveInv'
  BY <1>1, <1>2, <1>3, SessionKeepsArchives DEF ArchiveInv
<1>4. ASSUME PlacedInv PROVE PlacedInv'
  <2>1. InItsMount'
    BY <1>1, <1>4, SameMounts DEF PlacedInv, SessionStep
  <2>2. AsChosen(task'[c])
    BY <1>1, <1>4 DEF PlacedInv, AsChosen
  <2> QED
    BY <1>1, <1>2, <1>4, <2>1, <2>2, SessionKeepsPlaces DEF PlacedInv
<1> QED
  BY <1>3, <1>4

\* A choice is of the slave of the release.
LEMMA ChoosesKeeps ==
  ASSUME NEW c \in Client, Chooses(c)
  PROVE  (ArchiveInv => ArchiveInv') /\ (SettledPolicies /\ PlacedInv => PlacedInv')
<1>1. PICK t, x : t = task[c] /\ x = task'[c]
  OBVIOUS
<1>2. RouteSound => /\ SessionStep(c) /\ lies' = lies /\ lies' \in [Slave -> SUBSET Tree]
                    /\ Chosen(x) => /\ t.at = "choose" /\ t.path \in Tree \ Section
                                    /\ x.path = t.path /\ x.op = t.op /\ x.on \in SlavesFor(t)
                                    /\ x.was = entry[ReleaseOf(t.path)]
  BY <1>1, ChoosesIs DEF RouteSound, RouteTyped
<1>3. RouteSound /\ Chosen(x) =>
        /\ x.on \in Slave /\ x.on \in available
        /\ (x.op = "resume" /\ entry[x.path] = x.on) \/ ~ReadOnly(x.on)
        /\ OfItsOwner(x.on, x.path) \/ Free(x.on, x.path)
  BY <1>1, <1>2, ChoiceFacts
<1>4. ASSUME ArchiveInv PROVE ArchiveInv'
  <2>1. RouteSound
    BY <1>4 DEF ArchiveInv
  <2>2. ASSUME NEW s \in Archives, Chosen(x), x.on = s PROVE x.op = "resume" /\ x.path \in lies[s]
    BY <1>2, <1>3, <1>4, <2>1, <2>2, ArchiveIsReadOnly DEF ArchiveInv, ArchivesKept
  <2> QED
    BY <1>1, <1>2, <1>4, <2>1, <2>2, SessionKeepsArchives
<1>5. ASSUME SettledPolicies, PlacedInv PROVE PlacedInv'
  <2>1. RouteSound
    BY <1>5 DEF PlacedInv
  <2>2. InItsMount'
    BY <1>2, <1>5, <2>1, SameMounts DEF PlacedInv, SessionStep
  <2>3. AsChosen(x)
    <3>1. SUFFICES ASSUME Chosen(x) PROVE AsChosen(x)
      BY DEF AsChosen
    <3>2. x.path \in Tree \ Section /\ x.on \in Slave /\ x.on \in available
          /\ (OfItsOwner(x.on, x.path) \/ Free(x.on, x.path)) /\ x.was = entry[ReleaseOf(x.path)]
      BY <1>2, <1>3, <2>1, <3>1
    <3>3. /\ CanStore(x.on, x.path)
          /\ Len(x.path) > 2 /\ ReleaseOf(x.path) \notin shaken =>
               x.was = None \/ x.on = x.was \/ (x.was \in Slave /\ ReadOnly(x.was))
      BY <1>5, <3>2, ChoiceKeepsTogether
    <3> QED
      BY <3>3 DEF AsChosen
  <2> QED
    BY <1>1, <1>2, <1>5, <2>1, <2>2, <2>3, SessionKeepsPlaces
<1> QED
  BY <1>4, <1>5

\* The slave does it.
LEMMA AsksIs ==
  ASSUME RouteSound, NEW c \in Client, Asks(c)
  PROVE  LET t == task[c]
             x == task'[c]
         IN /\ SessionStep(c) /\ TaskSound(t) /\ Chosen(t) /\ t.path \in Tree \ Section /\ t.on \in Slave
            /\ x.op = t.op /\ x.path = t.path /\ x.on = t.on /\ x.was = t.was
            /\ lies' = [lies EXCEPT ![t.on] = IF t.op = "delete" THEN lies[t.on] \ Below[t.path]
                                              ELSE lies[t.on] \cup ({t.path} \cup Above[t.path])]
            /\ lies' \in [Slave -> SUBSET Tree]
<1>1. PICK t : t = task[c]
  OBVIOUS
<1>2. TaskSound(t) /\ t.at = "ask" /\ UNCHANGED <<site, policy, available, entry, shaken>>
  BY <1>1 DEF Asks, RouteSound, RouteTyped
<1>3. t.path \in Tree \ Section /\ t.on \in Slave /\ Chosen(t)
  BY <1>2 DEF TaskSound, Chosen
<1>4. PICK x : x = [t EXCEPT !.at = "enter"]
  OBVIOUS
<1>5. TaskSound(x) /\ x.op = t.op /\ x.path = t.path /\ x.on = t.on /\ x.was = t.was
  BY <1>2, <1>3, <1>4, TaskFields
<1>6. task' = [task EXCEPT ![c] = x] /\ task'[c] = x
  <2>1. task' = [task EXCEPT ![c].at = "enter"]
    BY DEF Asks, To
  <2> QED
    BY <1>1, <1>4, <2>1 DEF RouteSound, RouteTyped
<1>7. PICK S : S = IF t.op = "delete" THEN lies[t.on] \ Below[t.path]
                   ELSE lies[t.on] \cup ({t.path} \cup Above[t.path])
  OBVIOUS
<1>8. lies' = [lies EXCEPT ![t.on] = S]
  <2>1. lies[t.on] \cup {t.path} \cup Above[t.path] = lies[t.on] \cup ({t.path} \cup Above[t.path])
    OBVIOUS
  <2> QED
    BY <1>1, <1>3, <1>7, <2>1 DEF Asks, RouteSound, RouteTyped
<1>9. S \subseteq Tree
  BY <1>3, <1>7, AboveFacts DEF RouteSound, RouteTyped
<1>10. lies' \in [Slave -> SUBSET Tree]
  BY <1>3, <1>8, <1>9 DEF RouteSound, RouteTyped
<1>11. SessionStep(c)
  BY <1>2, <1>5, <1>6 DEF SessionStep
<1> QED
  BY <1>1, <1>2, <1>3, <1>5, <1>6, <1>7, <1>8, <1>10, <1>11

\* What the slave did fits.
LEMMA AsksKeeps ==
  ASSUME NEW c \in Client, Asks(c)
  PROVE  (ArchiveInv => ArchiveInv') /\ (SettledPolicies /\ PlacedInv => PlacedInv')
<1>1. PICK t, x : t = task[c] /\ x = task'[c]
  OBVIOUS
<1> DEFINE Facts ==
      /\ SessionStep(c) /\ TaskSound(t) /\ Chosen(t) /\ t.path \in Tree \ Section /\ t.on \in Slave
      /\ x.op = t.op /\ x.path = t.path /\ x.on = t.on /\ x.was = t.was
      /\ lies' = [lies EXCEPT ![t.on] = IF t.op = "delete" THEN lies[t.on] \ Below[t.path]
                                        ELSE lies[t.on] \cup ({t.path} \cup Above[t.path])]
      /\ lies' \in [Slave -> SUBSET Tree]
<1>2. RouteSound => Facts
  BY <1>1, AsksIs
<1>4. ASSUME ArchiveInv PROVE ArchiveInv'
  <2>1. RouteSound /\ Facts
    BY <1>2, <1>4 DEF ArchiveInv
  <2>2. \A s \in Archives : t.on = s => t.op = "resume" /\ t.path \in lies[s] /\ lies[s] = site.lies[s]
    BY <1>1, <1>4, <2>1 DEF ArchiveInv, ArchivesKept
  <2>3. ASSUME NEW s \in Archives PROVE lies'[s] = lies[s]
    <3>1. CASE t.on # s
      BY <2>1, <3>1 DEF RouteSound, RouteTyped, Archives
    <3>2. CASE t.on = s
      <4>1. Above[t.path] \subseteq lies[s] /\ t.path \in lies[s] /\ t.op = "resume"
        BY <2>1, <2>2, <3>2, LaidOut DEF RouteSound, RouteTyped
      <4>2. lies'[s] = lies[s] \cup ({t.path} \cup Above[t.path])
        BY <2>1, <3>2, <4>1 DEF RouteSound, RouteTyped
      <4> QED
        BY <4>1, <4>2
    <3> QED
      BY <3>1, <3>2
  <2> QED
    BY <1>1, <1>4, <2>1, <2>2, <2>3, SessionKeepsArchives
<1>5. ASSUME SettledPolicies, PlacedInv PROVE PlacedInv'
  <2>1. Facts
    BY <1>2, <1>5 DEF PlacedInv
  <2>2. AsChosen(t)
    BY <1>1, <1>5 DEF PlacedInv
  <2>3. AsChosen(x) /\ CanStore(t.on, t.path)
    BY <2>1, <2>2 DEF AsChosen
  <2>4. UNCHANGED <<policy, entry>>
    BY <2>1 DEF SessionStep
  <2>5. InItsMount'
    <3>1. CASE t.op = "delete"
      <4>1. lies' = [lies EXCEPT ![t.on] = lies[t.on] \ Below[t.path]]
        BY <2>1, <3>1
      <4> QED
        BY <1>5, <2>1, <2>4, <4>1, SlaveDeletes
    <3>2. CASE t.op # "delete"
      <4>1. PICK S : S = {t.path} \cup Above[t.path]
        OBVIOUS
      <4>2. lies' = [lies EXCEPT ![t.on] = lies[t.on] \cup S]
        BY <2>1, <3>2, <4>1
      <4> QED
        BY <1>5, <2>1, <2>3, <2>4, <4>1, <4>2, SlaveAdds
    <3> QED
      BY <3>1, <3>2
  <2> QED
    BY <1>1, <1>5, <2>1, <2>3, <2>5, SessionKeepsPlaces
<1> QED
  BY <1>4, <1>5

\* What a refusal leaves behind fits.
LEMMA IsRefusedKeeps ==
  ASSUME NEW c \in Client, IsRefused(c)
  PROVE  (ArchiveInv => ArchiveInv') /\ (SettledPolicies /\ PlacedInv => PlacedInv')
<1>1. PICK t : t = task[c]
  OBVIOUS
<1>2. RouteSound => /\ SessionStep(c) /\ ~Chosen(task'[c])
                    /\ Chosen(t) /\ t.path \in Tree \ Section /\ t.on \in Slave
  <2> SUFFICES ASSUME RouteSound
               PROVE  /\ SessionStep(c) /\ ~Chosen(task'[c])
                      /\ Chosen(t) /\ t.path \in Tree \ Section /\ t.on \in Slave
    OBVIOUS
  <2>1. TaskSound(t) /\ t.at = "ask" /\ UNCHANGED <<site, policy, available, entry, shaken>> /\ Ends(c)
    BY <1>1 DEF IsRefused, RouteSound, RouteTyped
  <2>2. t.path \in Tree \ Section /\ t.on \in Slave /\ Chosen(t)
    BY <2>1 DEF TaskSound, Chosen
  <2> QED
    BY <2>1, <2>2, EndsIs DEF SessionStep
<1>3. \/ lies' = lies
      \/ t.op = "stor" /\ lies' = [lies EXCEPT ![t.on] = lies[t.on] \cup Above[t.path]]
  BY <1>1 DEF IsRefused
<1>4. RouteSound => lies' \in [Slave -> SUBSET Tree]
  <2> SUFFICES ASSUME RouteSound PROVE lies' \in [Slave -> SUBSET Tree]
    OBVIOUS
  <2>1. Above[t.path] \subseteq Tree /\ t.on \in Slave
    BY <1>2, AboveFacts
  <2> QED
    BY <1>3, <2>1 DEF RouteSound, RouteTyped
<1>5. ASSUME ArchiveInv PROVE ArchiveInv'
  <2>1. RouteSound
    BY <1>5 DEF ArchiveInv
  <2>2. ASSUME NEW s \in Archives PROVE lies'[s] = lies[s]
    <3>1. s = t.on => t.op # "stor"
      BY <1>1, <1>2, <1>5, <2>1 DEF ArchiveInv, ArchivesKept
    <3> QED
      BY <1>2, <1>3, <2>1, <3>1 DEF Archives, RouteSound, RouteTyped
  <2> QED
    BY <1>2, <1>4, <1>5, <2>1, <2>2, SessionKeepsArchives
<1>6. ASSUME SettledPolicies, PlacedInv PROVE PlacedInv'
  <2>1. RouteSound /\ AsChosen(t)
    BY <1>1, <1>6 DEF PlacedInv
  <2>2. CanStore(t.on, t.path) /\ UNCHANGED <<policy, entry>>
    BY <1>2, <2>1 DEF AsChosen, SessionStep
  <2>3. InItsMount'
    <3>1. CASE lies' = lies
      BY <1>6, <2>2, <3>1, SameMounts DEF PlacedInv
    <3>2. CASE lies' = [lies EXCEPT ![t.on] = lies[t.on] \cup Above[t.path]]
      <4>1. PICK S : S = Above[t.path]
        OBVIOUS
      <4>2. lies' = [lies EXCEPT ![t.on] = lies[t.on] \cup S]
        BY <3>2, <4>1
      <4> QED
        BY <1>2, <1>6, <2>1, <2>2, <4>1, <4>2, SlaveAdds
    <3> QED
      BY <1>3, <3>1, <3>2
  <2>4. AsChosen(task'[c])
    BY <1>2, <2>1 DEF AsChosen
  <2> QED
    BY <1>2, <1>4, <1>6, <2>1, <2>3, <2>4, SessionKeepsPlaces
<1> QED
  BY <1>5, <1>6

(* Steps that change the index. *)

\* What is entered for a task: what it was for, with the directories that were missing.
News(t) == {t.path} \cup {d \in Above[t.path] : entry[d] = None}
EntersAdds(t) == entry' = [p \in Tree |-> IF p \in News(t) THEN t.on ELSE entry[p]]
EntersDrops(t) == entry' = [p \in Tree |-> IF p \in Below[t.path] THEN None ELSE entry[p]]
Shakes(t) ==
  LET r == ReleaseOf(t.path) IN
  \/ entry[r] # t.was \/ t.on \notin available \/ (t.path = r /\ entry[r] # None)

\* What is entered or dropped.
LEMMA EntersIs ==
  ASSUME RouteSound, NEW c \in Client, Enters(c)
  PROVE  LET t == task[c] IN
         /\ UNCHANGED <<site, policy, available, lies>>
         /\ Chosen(t) /\ t.path \in Tree \ Section /\ t.on \in Slave
         /\ task' = [task EXCEPT ![c] = task'[c]] /\ TaskSound(task'[c]) /\ ~Chosen(task'[c])
         /\ IF t.op = "delete" THEN EntersDrops(t) /\ shaken' = shaken
            ELSE EntersAdds(t) /\ shaken' = IF Shakes(t) THEN shaken \cup {ReleaseOf(t.path)} ELSE shaken
<1>1. PICK t : t = task[c]
  OBVIOUS
<1>2. TaskSound(t) /\ t.at = "enter" /\ UNCHANGED <<site, policy, available, lies>>
  BY <1>1 DEF Enters, RouteSound, RouteTyped
<1>3. t.path \in Tree \ Section /\ t.on \in Slave /\ Chosen(t)
  BY <1>2 DEF TaskSound, Chosen
<1>4. task' = [task EXCEPT ![c] = task'[c]] /\ TaskSound(task'[c]) /\ ~Chosen(task'[c])
  <2>1. CASE Ends(c)
    BY <2>1, EndsIs
  <2>2. CASE t.op = "stor" /\ To(c, "look")
    <3>1. PICK x : x = [t EXCEPT !.at = "look"]
      OBVIOUS
    <3>2. TaskSound(x) /\ x.at = "look"
      BY <1>2, <2>2, <3>1, TaskFields
    <3>3. task' = [task EXCEPT ![c] = x] /\ task'[c] = x
      BY <1>1, <2>2, <3>1 DEF To, RouteSound, RouteTyped
    <3> QED
      BY <3>2, <3>3 DEF Chosen
  <2> QED
    BY <1>1, <2>1, <2>2 DEF Enters
<1>5. CASE t.op = "delete"
  <2>1. EntersDrops(t)
    BY <1>1, <1>5 DEF Enters, EntersDrops
  <2>2. shaken' = shaken
    BY <1>1, <1>5 DEF Enters
  <2> QED
    BY <1>1, <1>2, <1>3, <1>4, <1>5, <2>1, <2>2
<1>6. CASE t.op # "delete"
  <2>1. EntersAdds(t)
    BY <1>1, <1>6 DEF Enters, EntersAdds, News
  <2>2. shaken' = IF Shakes(t) THEN shaken \cup {ReleaseOf(t.path)} ELSE shaken
    BY <1>1, <1>6 DEF Enters, Shakes
  <2> QED
    BY <1>1, <1>2, <1>3, <1>4, <1>6, <2>1, <2>2
<1> QED
  BY <1>5, <1>6

\* Whose release it is.
LEMMA NewsFacts ==
  ASSUME RouteSound, NEW t, t.path \in Tree \ Section
  PROVE  \A q \in News(t) : /\ q \in Tree \ Section /\ ReleaseOf(q) = ReleaseOf(t.path) /\ q[1] = t.path[1]
                            /\ q \in Release => q = ReleaseOf(t.path)
<1> SUFFICES ASSUME NEW q \in News(t)
             PROVE /\ q \in Tree \ Section /\ ReleaseOf(q) = ReleaseOf(t.path) /\ q[1] = t.path[1]
                   /\ q \in Release => q = ReleaseOf(t.path)
  OBVIOUS
<1>1. CASE q = t.path
  BY <1>1, ReleaseIsItself
<1>2. CASE q \in Above[t.path] /\ entry[q] = None
  <2>1. q \in Tree /\ q[1] = t.path[1]
    BY <1>2, AboveFacts
  <2>2. q \notin Section
    BY <1>2, <2>1, OwnedIsNoSection
  <2> QED
    BY <1>2, <2>1, <2>2, AboveInRelease
<1> QED
  BY <1>1, <1>2 DEF News

\* The index stays typed and the sections nobody's, whatever is entered.
LEMMA EntersSound ==
  ASSUME RouteSound, NEW c \in Client, Enters(c)
  PROVE  RouteSound' /\ \A k \in Client \ {c} : task'[k] = task[k]
<1>1. PICK t, x : t = task[c] /\ x = task'[c]
  OBVIOUS
<1>2. /\ UNCHANGED <<site, policy, available, lies>>
      /\ Chosen(t) /\ t.path \in Tree \ Section /\ t.on \in Slave
      /\ task' = [task EXCEPT ![c] = x] /\ TaskSound(x) /\ ~Chosen(x)
      /\ IF t.op = "delete" THEN EntersDrops(t) /\ shaken' = shaken
         ELSE EntersAdds(t) /\ shaken' = IF Shakes(t) THEN shaken \cup {ReleaseOf(t.path)} ELSE shaken
  BY <1>1, EntersIs
<1>3. task' \in [Client -> TaskRecord] /\ \A k \in Client \ {c} : task'[k] = task[k]
  BY <1>2 DEF RouteSound, RouteTyped, TaskSound
<1>4. \A k \in Client : TaskSound(task'[k])
  BY <1>1, <1>2, <1>3 DEF RouteSound, RouteTyped
<1>5. entry' \in [Tree -> Owners] /\ SectionsOfNobody'
  <2>1. CASE t.op = "delete"
    <3>1. \A p \in Below[t.path] : p \notin Section
      BY <1>2, BelowFacts
    <3> QED
      BY <1>2, <2>1, <3>1, Markers DEF EntersDrops, RouteSound, RouteTyped, SectionsOfNobody, Owners
  <2>2. CASE t.op # "delete"
    <3>1. \A p \in News(t) : p \notin Section
      BY <1>2, NewsFacts
    <3> QED
      BY <1>2, <2>2, <3>1, Markers DEF EntersAdds, RouteSound, RouteTyped, SectionsOfNobody, Owners
  <2> QED
    BY <2>1, <2>2
<1>6. shaken' \subseteq Tree
  BY <1>2, ReleaseFacts DEF RouteSound, RouteTyped
<1> QED
  BY <1>2, <1>3, <1>4, <1>5, <1>6 DEF RouteSound, RouteTyped

\* StaysTogether, before and after a step.
With(e, pol, p, r) == e[r] \in Slave /\ (e[p] = e[r] \/ pol[e[r]].readOnly)
LEMMA TogetherNow ==
  StaysTogether <=>
    \A p \in Tree : Len(p) > 2 /\ entry[p] \in Slave /\ ReleaseOf(p) \notin shaken =>
      With(entry, policy, p, ReleaseOf(p))
  BY Zenon DEF StaysTogether, Owner, ReadOnly, With
LEMMA TogetherThen ==
  StaysTogether' <=>
    \A p \in Tree : Len(p) > 2 /\ entry'[p] \in Slave /\ ReleaseOf(p) \notin shaken' =>
      With(entry', policy', p, ReleaseOf(p))
  BY Zenon DEF StaysTogether, Owner, ReadOnly, With

\* What is entered for an archive lies there.
LEMMA EntersKeepsArchives ==
  ASSUME ArchiveInv, NEW c \in Client, Enters(c)
  PROVE  ArchiveInv'
<1>1. PICK t, x : t = task[c] /\ x = task'[c]
  OBVIOUS
<1>2. RouteSound /\ RouteSound' /\ \A k \in Client \ {c} : task'[k] = task[k]
  BY EntersSound DEF ArchiveInv
<1>3. /\ UNCHANGED <<site, policy, available, lies>>
      /\ Chosen(t) /\ t.path \in Tree \ Section /\ t.on \in Slave /\ ~Chosen(x)
      /\ IF t.op = "delete" THEN EntersDrops(t) ELSE EntersAdds(t)
  BY <1>1, <1>2, EntersIs
<1>4. Archives' = Archives
  BY <1>3 DEF Archives
<1>5. ASSUME NEW s \in Archives, NEW p \in Tree, entry'[p] = s PROVE p \in lies[s]
  <2>1. s \in Slave /\ lies[s] = site.lies[s] /\ site \in RouteSettings
    BY <1>2 DEF ArchiveInv, ArchivesKept, Archives, RouteSound, RouteTyped
  <2>2. CASE entry[p] = s
    BY <2>2 DEF ArchiveInv, ArchivesKept
  <2>3. CASE entry[p] # s
    <3>1. t.op # "delete" /\ p \in News(t) /\ t.on = s
      BY <1>3, <1>5, <2>1, <2>3, Markers DEF EntersDrops, EntersAdds
    <3>2. t.path \in lies[s]
      BY <1>1, <1>3, <3>1 DEF ArchiveInv, ArchivesKept
    <3>3. Above[t.path] \subseteq lies[s]
      BY <2>1, <3>2, LaidOut
    <3> QED
      BY <3>1, <3>2, <3>3 DEF News
  <2> QED
    BY <2>2, <2>3
<1>6. ArchivesKept'
  BY <1>1, <1>2, <1>3, <1>4, <1>5 DEF ArchiveInv, ArchivesKept
<1> QED
  BY <1>2, <1>6 DEF ArchiveInv

\* What is entered is of the slave of its release, unless the release has changed hands.
LEMMA EntersKeepsPlaces ==
  ASSUME SettledPolicies, PlacedInv, NEW c \in Client, Enters(c)
  PROVE  PlacedInv'
<1>1. PICK t, x : t = task[c] /\ x = task'[c]
  OBVIOUS
<1>2. RouteSound /\ RouteSound' /\ \A k \in Client \ {c} : task'[k] = task[k]
  BY EntersSound DEF PlacedInv
<1>3. /\ UNCHANGED <<site, policy, available, lies>>
      /\ Chosen(t) /\ t.path \in Tree \ Section /\ t.on \in Slave /\ ~Chosen(x)
      /\ t.op = "delete" => EntersDrops(t) /\ shaken' = shaken
      /\ t.op # "delete" => /\ EntersAdds(t)
                            /\ shaken' = IF Shakes(t) THEN shaken \cup {ReleaseOf(t.path)} ELSE shaken
  BY <1>1, <1>2, EntersIs
<1>4. shaken \subseteq shaken'
  BY <1>3
<1>5. AsChosen(t)
  BY <1>1 DEF PlacedInv
<1>6. \A k \in Client : AsChosen(task[k])'
  <2>1. \A k \in Client : AsChosen(task'[k])
    BY <1>1, <1>2, <1>3 DEF PlacedInv, AsChosen
  <2> QED
    BY <1>3, <1>4, <2>1 DEF AsChosen, CanStore, ReadOnly
<1>7. ASSUME NEW p \in Tree, Owner(p)', Len(p) > 2 PROVE p \in Tree \ Section /\ ReleaseOf(p) \in Release
                                               /\ ReleaseOf(p) \in Above[p] /\ ReleaseOf(p) \in Tree \ Section
  <2>1. p \notin Section
    BY <1>2, <1>7, Markers DEF RouteSound, SectionsOfNobody, Owner
  <2> QED
    BY <1>7, <2>1, ReleaseFacts
<1>8. CASE t.op = "delete"
  <2>1. \A p \in Tree : entry'[p] = IF p \in Below[t.path] THEN None ELSE entry[p]
    BY <1>3, <1>8 DEF EntersDrops
  <2>2. \A p \in Tree : Owner(p)' => Owner(p) /\ entry'[p] = entry[p] /\ p \notin Below[t.path]
    BY <2>1, Markers DEF Owner
  <2>3. InItsMount'
    BY <1>3, <2>2 DEF PlacedInv, InItsMount, CanStore
  <2>4. OwnersAreThere'
    <3>1. Release \subseteq Tree
      BY ReleaseIsItself
    <3> QED
      BY <1>3, <1>8, <2>2, <3>1 DEF PlacedInv, OwnersAreThere
  <2>5. StaysTogether'
    <3> SUFFICES ASSUME NEW p \in Tree, Len(p) > 2, Owner(p)', ReleaseOf(p) \notin shaken
                 PROVE  With(entry', policy', p, ReleaseOf(p))
      BY <1>3, <1>8, TogetherThen DEF Owner
    <3>1. PICK r : r = ReleaseOf(p)
      OBVIOUS
    <3>2. r \in Tree /\ r \in Above[p]
      BY <1>7, <3>1
    <3>3. Owner(p) /\ entry'[p] = entry[p] /\ p \notin Below[t.path]
      BY <2>2
    <3>4. r \notin Below[t.path]
      BY <1>3, <3>2, <3>3, BelowBelow
    <3>5. entry'[r] = entry[r]
      BY <2>1, <3>2, <3>4
    <3>6. Owner(r) /\ (entry[p] = entry[r] \/ ReadOnly(entry[r]))
      BY <3>1, <3>3 DEF PlacedInv, StaysTogether
    <3> QED
      BY <1>3, <3>1, <3>3, <3>5, <3>6 DEF Owner, ReadOnly, With
  <2> QED
    BY <1>2, <1>6, <2>3, <2>4, <2>5 DEF PlacedInv
<1>9. CASE t.op # "delete"
  <2>1. /\ \A p \in Tree : entry'[p] = IF p \in News(t) THEN t.on ELSE entry[p]
        /\ shaken' = IF Shakes(t) THEN shaken \cup {ReleaseOf(t.path)} ELSE shaken
    BY <1>3, <1>9 DEF EntersAdds
  <2>2. \A q \in News(t) : /\ q \in Tree \ Section /\ ReleaseOf(q) = ReleaseOf(t.path) /\ q[1] = t.path[1]
                           /\ q \in Release => q = ReleaseOf(t.path)
    BY <1>2, <1>3, NewsFacts
  <2>3. CanStore(t.on, t.path)
    BY <1>3, <1>5 DEF AsChosen
  <2>4. \A q \in News(t) : CanStore(t.on, q)
    BY <1>2, <1>3, <2>2, <2>3, MountTakes
  <2>5. InItsMount'
    <3>1. \A p \in Tree : Owner(p)' => CanStore(entry'[p], p)
      BY <1>3, <2>1, <2>4 DEF PlacedInv, InItsMount, Owner
    <3> QED
      BY <1>3, <3>1 DEF PlacedInv, InItsMount, CanStore
  <2>6. OwnersAreThere'
    <3> SUFFICES ASSUME NEW r \in Release \ shaken', Owner(r)' PROVE entry'[r] \in available
      BY <1>3 DEF OwnersAreThere
    <3>1. r \in Tree
      BY ReleaseIsItself
    <3>2. CASE r \in News(t)
      <4>1. r = ReleaseOf(t.path) /\ entry'[r] = t.on
        BY <2>1, <2>2, <3>1, <3>2
      <4>2. ~Shakes(t)
        BY <2>1, <4>1
      <4> QED
        BY <4>1, <4>2 DEF Shakes
    <3>3. CASE r \notin News(t)
      BY <1>4, <2>1, <3>1, <3>3 DEF PlacedInv, OwnersAreThere, Owner
    <3> QED
      BY <3>2, <3>3
  <2>7. StaysTogether'
    <3> SUFFICES ASSUME NEW p \in Tree, Len(p) > 2, Owner(p)', ReleaseOf(p) \notin shaken'
                 PROVE  With(entry', policy', p, ReleaseOf(p))
      BY TogetherThen DEF Owner
    <3>1. PICK r : r = ReleaseOf(p)
      OBVIOUS
    <3>2. r \in Release /\ r \in Tree \ Section /\ r \in Above[p] /\ p \in Tree \ Section /\ r \notin shaken
      BY <1>4, <1>7, <3>1
    <3>3. Owner(p) => Owner(r) /\ (entry[p] = entry[r] \/ ReadOnly(entry[r]))
      BY <3>1, <3>2 DEF PlacedInv, StaysTogether
    <3>5. CASE r # ReleaseOf(t.path)
      <4>1. p \notin News(t) /\ r \notin News(t)
        BY <2>2, <3>1, <3>2, <3>5
      <4>2. entry'[p] = entry[p] /\ entry'[r] = entry[r]
        BY <2>1, <3>2, <4>1
      <4> QED
        BY <1>3, <2>1, <3>1, <3>3, <4>2 DEF Owner, ReadOnly, With
    <3>6. CASE r = ReleaseOf(t.path)
      <4>1. ~Shakes(t)
        BY <2>1, <3>1, <3>6
      <4>2. entry[r] = t.was /\ (t.path = r => entry[r] = None)
        BY <3>6, <4>1 DEF Shakes
      <4>3. CASE r \in News(t)
        <5>1. entry[r] = None
          BY <4>2, <4>3 DEF News
        <5>2. ~Owner(p)
          BY <3>3, <5>1, Markers DEF Owner
        <5>3. p \in News(t)
          BY <2>1, <5>2 DEF Owner
        <5>4. entry'[p] = t.on /\ entry'[r] = t.on
          BY <2>1, <3>2, <4>3, <5>3
        <5> QED
          BY <1>3, <3>1, <5>4 DEF With
      <4>4. CASE r \notin News(t)
        <5>1. r # t.path
          BY <4>4 DEF News
        <5>2. Len(t.path) > 2 /\ r \in Above[t.path]
          BY <1>3, <3>6, <5>1, ReleaseFacts
        <5>3. entry[r] # None /\ entry'[r] = entry[r]
          BY <2>1, <3>2, <4>4, <5>2 DEF News
        <5>4. Owner(r)
          BY <1>2, <3>2, <5>3, OwnerOrNone
        <5>5. t.on = entry[r] \/ ReadOnly(entry[r])
          BY <1>3, <1>5, <1>9, <3>2, <3>6, <4>2, <5>2, <5>3 DEF AsChosen
        <5>6. entry'[p] = t.on \/ (Owner(p) /\ entry'[p] = entry[p])
          BY <2>1 DEF Owner
        <5> QED
          BY <1>3, <3>1, <3>3, <5>3, <5>4, <5>5, <5>6 DEF Owner, ReadOnly, With
      <4> QED
        BY <4>3, <4>4
    <3> QED
      BY <3>5, <3>6
  <2> QED
    BY <1>2, <1>6, <2>5, <2>6, <2>7 DEF PlacedInv
<1> QED
  BY <1>8, <1>9

-----------------------------------------------------------------------------
(* Slaves and policies. *)

\* What the index makes of a slave that goes.
LEMMA GoesIs ==
  ASSUME RouteSound, NEW s \in Slave, Goes(s)
  PROVE  /\ UNCHANGED <<site, policy, lies, task>> /\ available' = available \ {s}
         /\ shaken' = shaken \cup ({p \in Tree : entry[p] = s} \cap Release)
         /\ entry' \in [Tree -> Owners]
         /\ \A p \in Tree :
              IF entry[p] = s
              THEN entry'[p] = None \/
                   (entry'[p] \in Slave /\ \E q \in Below[p] : q # p /\ entry[q] = entry'[p])
              ELSE entry'[p] = entry[p]
<1> DEFINE went == {p \in Tree : entry[p] = s}
           heirs == [d \in went |-> {entry[p] : p \in Below[d]} \ {s, None}]
           heir(e, d) == IF heirs[d] = {} THEN e = None ELSE e \in heirs[d]
<1>1. PICK new \in [went -> Slave \cup {None}] :
        /\ \A d \in went : heir(new[d], d)
        /\ entry' = [p \in Tree |-> IF p \in went THEN new[p] ELSE entry[p]]
  BY DEF Goes
<1>2. ASSUME NEW p \in went
      PROVE  entry'[p] = None \/
             (entry'[p] \in Slave /\ \E q \in Below[p] : q # p /\ entry[q] = entry'[p])
  <2>1. entry'[p] = new[p] /\ new[p] \in Slave \cup {None} /\ heir(new[p], p)
    BY <1>1
  <2>2. heirs[p] = {entry[q] : q \in Below[p]} \ {s, None}
    OBVIOUS
  <2> QED
    BY <2>1, <2>2
<1>3. \A p \in Tree \ went : entry'[p] = entry[p]
  BY <1>1
<1>4. entry' \in [Tree -> Owners]
  BY <1>1 DEF RouteSound, RouteTyped, Owners
<1>5. /\ UNCHANGED <<site, policy, lies, task>> /\ available' = available \ {s}
      /\ shaken' = shaken \cup (went \cap Release)
  BY DEF Goes
<1> QED
  BY <1>2, <1>3, <1>4, <1>5

\* A slave that goes leaves what it had to others of the same release, which is no longer together.
LEMMA GoesKeeps ==
  ASSUME NEW s \in Slave, Goes(s)
  PROVE  (ArchiveInv => ArchiveInv') /\ (SettledPolicies /\ PlacedInv => PlacedInv')
<1> DEFINE Facts ==
      /\ UNCHANGED <<site, policy, lies, task>> /\ available' = available \ {s}
      /\ shaken' = shaken \cup ({p \in Tree : entry[p] = s} \cap Release)
      /\ entry' \in [Tree -> Owners]
      /\ \A p \in Tree :
           IF entry[p] = s
           THEN entry'[p] = None \/
                (entry'[p] \in Slave /\ \E q \in Below[p] : q # p /\ entry[q] = entry'[p])
           ELSE entry'[p] = entry[p]
<1>1. RouteSound => Facts
  BY GoesIs
<1>2. RouteSound => RouteSound'
  <2> SUFFICES ASSUME RouteSound PROVE RouteSound'
    OBVIOUS
  <2>1. Facts
    BY <1>1
  <2>2. \A p \in Tree : entry[p] = s => p \notin Section
    BY Markers DEF RouteSound, SectionsOfNobody
  <2>3. SectionsOfNobody'
    BY <2>1, <2>2, Markers DEF RouteSound, SectionsOfNobody
  <2>4. shaken' \subseteq Tree /\ available' \subseteq Slave
    BY <2>1 DEF RouteSound, RouteTyped
  <2> QED
    BY <2>1, <2>3, <2>4 DEF RouteSound, RouteTyped
<1>3. ASSUME ArchiveInv PROVE ArchiveInv'
  <2>1. RouteSound /\ RouteSound' /\ Facts
    BY <1>1, <1>2, <1>3 DEF ArchiveInv
  <2>2. ASSUME NEW a \in Archives, NEW p \in Tree, entry'[p] = a PROVE p \in lies[a]
    <3>1. a \in Slave /\ lies[a] = site.lies[a] /\ site \in RouteSettings
      BY <1>3, <2>1 DEF ArchiveInv, ArchivesKept, Archives, RouteSound, RouteTyped
    <3>2. CASE entry[p] # s
      BY <1>3, <2>1, <2>2, <3>2 DEF ArchiveInv, ArchivesKept
    <3>3. CASE entry[p] = s
      <4>1. PICK q \in Below[p] : q # p /\ entry[q] = a
        BY <2>1, <2>2, <3>1, <3>3, Markers
      <4>2. q \in Tree /\ p \in Above[q]
        BY <4>1, BelowFacts
      <4>3. q \in lies[a]
        BY <1>3, <4>1, <4>2 DEF ArchiveInv, ArchivesKept
      <4> QED
        BY <3>1, <4>2, <4>3, LaidOut
    <3> QED
      BY <3>2, <3>3
  <2>3. Archives' = Archives
    BY <2>1 DEF Archives
  <2>4. ArchivesKept'
    BY <1>3, <2>1, <2>2, <2>3 DEF ArchiveInv, ArchivesKept
  <2> QED
    BY <2>1, <2>4 DEF ArchiveInv
<1>4. ASSUME SettledPolicies, PlacedInv PROVE PlacedInv'
  <2>1. RouteSound /\ RouteSound' /\ Facts
    BY <1>1, <1>2, <1>4 DEF PlacedInv
  <2>2. UNCHANGED <<site, policy, lies, task>> /\ shaken \subseteq shaken'
    BY <2>1
  <2>3. ASSUME NEW p \in Tree, Owner(p)' PROVE CanStore(entry'[p], p)
    <3>1. CASE entry[p] # s
      <4>1. entry'[p] = entry[p]
        BY <2>1, <3>1
      <4> QED
        BY <1>4, <2>3, <4>1 DEF PlacedInv, InItsMount, Owner
    <3>2. CASE entry[p] = s
      <4>1. PICK q \in Below[p] : q # p /\ entry[q] = entry'[p]
        BY <2>1, <2>3, <3>2, Markers DEF Owner
      <4>2. q \in Tree /\ p \in Above[q] /\ p[1] = q[1]
        BY <4>1, BelowFacts, AboveFacts
      <4>3. entry[q] \in Slave /\ CanStore(entry[q], q)
        BY <1>4, <2>3, <4>1, <4>2 DEF PlacedInv, InItsMount, Owner
      <4>4. CanStore(entry[q], p)
        BY <1>4, <2>1, <4>2, <4>3, MountTakes
      <4> QED
        BY <4>1, <4>4
    <3> QED
      BY <3>1, <3>2
  <2>4. InItsMount'
    BY <1>4, <2>2, <2>3 DEF PlacedInv, InItsMount, CanStore
  <2>5. OwnersAreThere'
    <3> SUFFICES ASSUME NEW r \in Release \ shaken', Owner(r)' PROVE entry'[r] \in available'
      BY DEF OwnersAreThere
    <3>1. r \in Tree /\ entry[r] # s
      BY <2>1, ReleaseIsItself
    <3>2. entry'[r] = entry[r]
      BY <2>1, <3>1
    <3>3. entry[r] \in available
      BY <1>4, <2>2, <3>2 DEF PlacedInv, OwnersAreThere, Owner
    <3> QED
      BY <2>1, <3>1, <3>2, <3>3
  <2>6. StaysTogether'
    <3> SUFFICES ASSUME NEW p \in Tree, Len(p) > 2, Owner(p)', ReleaseOf(p) \notin shaken'
                 PROVE  With(entry', policy', p, ReleaseOf(p))
      BY TogetherThen DEF Owner
    <3>1. PICK r : r = ReleaseOf(p)
      OBVIOUS
    <3>2. p \notin Section
      BY <2>1, Markers DEF RouteSound, SectionsOfNobody, Owner
    <3>3. r \in Release /\ r \in Tree /\ r \notin shaken
      BY <2>2, <3>1, <3>2, ReleaseFacts
    <3>4. entry[r] # s
      BY <2>1, <3>1, <3>3
    <3>5. entry'[r] = entry[r]
      BY <2>1, <3>3, <3>4
    <3>6. Owner(p)
      BY <2>1 DEF Owner
    <3>7. Owner(r) /\ (entry[p] = entry[r] \/ ReadOnly(entry[r]))
      BY <1>4, <3>1, <3>3, <3>6 DEF PlacedInv, StaysTogether
    <3>8. entry'[p] = entry[r] \/ ReadOnly(entry[r])
      BY <2>1, <3>4, <3>7
    <3> QED
      BY <2>2, <3>1, <3>5, <3>7, <3>8 DEF Owner, ReadOnly, With
  <2>7. \A k \in Client : AsChosen(task[k])'
    BY <1>4, <2>2 DEF PlacedInv, AsChosen, CanStore, ReadOnly
  <2> QED
    BY <2>1, <2>4, <2>5, <2>6, <2>7 DEF PlacedInv
<1> QED
  BY <1>3, <1>4

\* A slave that returns takes what lies on it, with its release.
LEMMA ReturnsKeeps ==
  ASSUME NEW s \in Slave, Returns(s)
  PROVE  (ArchiveInv => ArchiveInv') /\ (SettledPolicies /\ PlacedInv => PlacedInv')
<1>1. /\ UNCHANGED <<site, policy, task>> /\ available' = available \cup {s}
      /\ \A p \in Tree : entry'[p] = IF p \in lies[s] \ Section THEN s ELSE entry[p]
      /\ shaken' = shaken \cup {r \in Release \cap lies[s] : entry[r] \notin {None, s}}
      /\ lies' = [lies EXCEPT ![s] = IF ReadOnly(s) THEN lies[s] ELSE lies[s] \cup Section]
  BY DEF Returns
<1>2. ASSUME RouteSound
      PROVE  /\ RouteSound'
             /\ \A k \in Slave : lies[k] \subseteq lies'[k] /\ lies'[k] \ Section = lies[k] \ Section
             /\ \A k \in Slave : k # s \/ ReadOnly(s) => lies'[k] = lies[k]
             /\ lies[s] \subseteq Tree
  <2>1. Section \subseteq Tree
    BY TreeFacts DEF Section
  <2>2. /\ lies' \in [Slave -> SUBSET Tree] /\ lies[s] \subseteq Tree
        /\ \A k \in Slave : lies[k] \subseteq lies'[k] /\ lies'[k] \ Section = lies[k] \ Section
        /\ \A k \in Slave : k # s \/ ReadOnly(s) => lies'[k] = lies[k]
    BY <1>1, <1>2, <2>1 DEF RouteSound, RouteTyped
  <2>3. entry' \in [Tree -> Owners]
    BY <1>2 DEF Returns, RouteSound, RouteTyped, Owners
  <2>4. SectionsOfNobody'
    BY <1>1, <1>2, Markers DEF RouteSound, SectionsOfNobody
  <2>5. shaken' \subseteq Tree /\ available' \subseteq Slave
    BY <1>1, <1>2, ReleaseIsItself DEF RouteSound, RouteTyped
  <2> QED
    BY <1>1, <1>2, <2>2, <2>3, <2>4, <2>5 DEF RouteSound, RouteTyped
<1>3. ASSUME ArchiveInv PROVE ArchiveInv'
  <2>1. RouteSound
    BY <1>3 DEF ArchiveInv
  <2>2. Archives' = Archives
    BY <1>1 DEF Archives
  <2>3. ASSUME NEW a \in Archives PROVE lies'[a] = lies[a]
    BY <1>2, <2>1, ArchiveIsReadOnly
  <2>4. ASSUME NEW a \in Archives, NEW p \in Tree, entry'[p] = a PROVE p \in lies[a]
    BY <1>1, <1>3, <2>4 DEF ArchiveInv, ArchivesKept
  <2>5. ArchivesKept'
    BY <1>1, <1>3, <2>2, <2>3, <2>4 DEF ArchiveInv, ArchivesKept
  <2> QED
    BY <1>2, <2>1, <2>5 DEF ArchiveInv
<1>4. ASSUME SettledPolicies, PlacedInv PROVE PlacedInv'
  <2>1. RouteSound
    BY <1>4 DEF PlacedInv
  <2>2. UNCHANGED <<site, policy, task>> /\ shaken \subseteq shaken'
    BY <1>1
  <2>3. \A p \in Tree : Owner(p)' => CanStore(entry'[p], p)
    BY <1>1, <1>4 DEF PlacedInv, InItsMount, Owner
  <2>4. \A k \in Slave : \A p \in lies'[k] \ Section : CanStore(k, p) /\ Above[p] \subseteq lies'[k]
    <3> SUFFICES ASSUME NEW k \in Slave, NEW p \in lies'[k] \ Section
                 PROVE CanStore(k, p) /\ Above[p] \subseteq lies'[k]
      OBVIOUS
    <3>1. p \in lies[k] \ Section /\ lies[k] \subseteq lies'[k]
      BY <1>2, <2>1
    <3>2. CanStore(k, p) /\ Above[p] \subseteq lies[k]
      BY <1>4, <3>1 DEF PlacedInv, InItsMount
    <3> QED
      BY <3>1, <3>2
  <2>5. InItsMount'
    BY <2>2, <2>3, <2>4 DEF InItsMount, CanStore
  <2>6. OwnersAreThere'
    <3> SUFFICES ASSUME NEW r \in Release \ shaken', Owner(r)' PROVE entry'[r] \in available'
      BY DEF OwnersAreThere
    <3>1. r \in Tree
      BY ReleaseIsItself
    <3>2. CASE entry'[r] = s
      BY <1>1, <3>2
    <3>3. CASE entry'[r] # s
      <4>1. entry'[r] = entry[r]
        BY <1>1, <3>1, <3>3
      <4>2. entry[r] \in available
        BY <1>4, <2>2, <4>1 DEF PlacedInv, OwnersAreThere, Owner
      <4> QED
        BY <1>1, <4>1, <4>2
    <3> QED
      BY <3>2, <3>3
  <2>7. StaysTogether'
    <3> SUFFICES ASSUME NEW p \in Tree, Len(p) > 2, Owner(p)', ReleaseOf(p) \notin shaken'
                 PROVE  With(entry', policy', p, ReleaseOf(p))
      BY TogetherThen DEF Owner
    <3>1. PICK r : r = ReleaseOf(p)
      OBVIOUS
    <3>2. p \notin Section
      BY <1>2, <2>1, Markers DEF RouteSound, SectionsOfNobody, Owner
    <3>3. r \in Release /\ r \in Tree \ Section /\ r \notin shaken /\ r \notin shaken' /\ r \in Above[p]
      BY <2>2, <3>1, <3>2, ReleaseFacts
    <3>4. r \in lies[s] => entry[r] \in {None, s} /\ entry'[r] = s
      BY <1>1, <3>3
    <3>5. r \notin lies[s] => entry'[r] = entry[r]
      BY <1>1, <3>3
    <3>6. CASE p \in lies[s]
      <4>1. r \in lies[s]
        BY <1>4, <3>2, <3>3, <3>6 DEF PlacedInv, InItsMount
      <4>2. entry'[p] = s /\ entry'[r] = s
        BY <1>1, <3>2, <3>4, <3>6, <4>1
      <4> QED
        BY <3>1, <4>2 DEF With
    <3>7. CASE p \notin lies[s]
      <4>1. entry'[p] = entry[p]
        BY <1>1, <3>7
      <4>2. With(entry, policy, p, r)
        BY <1>4, <3>1, <3>3, <4>1, TogetherNow DEF PlacedInv, Owner
      <4>3. entry'[r] = entry[r]
        BY <3>4, <3>5, <4>2, Markers DEF With
      <4> QED
        BY <2>2, <3>1, <4>1, <4>2, <4>3 DEF With
    <3> QED
      BY <3>6, <3>7
  <2>8. \A k \in Client : AsChosen(task[k])'
    BY <1>4, <2>2 DEF PlacedInv, AsChosen, CanStore, ReadOnly
  <2>9. RouteSound'
    BY <1>2, <2>1
  <2> QED
    BY <2>5, <2>6, <2>7, <2>8, <2>9 DEF PlacedInv
<1> QED
  BY <1>3, <1>4

\* New policies, where settled.
LEMMA RehashKeeps ==
  ASSUME Rehash
  PROVE  (ArchiveInv => ArchiveInv') /\ (SettledPolicies /\ PlacedInv => PlacedInv')
<1>1. /\ policy = site.before /\ policy' = site.after
      /\ UNCHANGED <<site, available, lies, entry, task>>
      /\ shaken' = shaken \cup {r \in Release : Owner(r) /\ (ReadOnly(entry[r]) \/ site.after[entry[r]].readOnly)}
  BY DEF Rehash
<1>2. RouteSound => RouteSound'
  <2>1. Release \subseteq Tree
    BY ReleaseIsItself
  <2> QED
    BY <1>1, <2>1 DEF RouteSound, RouteTyped, SectionsOfNobody
<1>3. ASSUME ArchiveInv PROVE ArchiveInv'
  BY <1>1, <1>2, <1>3 DEF ArchiveInv, ArchivesKept, Archives
<1>4. ASSUME SettledPolicies, PlacedInv PROVE PlacedInv'
  <2>1. \A s \in Slave : policy'[s].mount = policy[s].mount /\ (policy[s].readOnly => policy'[s].readOnly)
    BY <1>1, <1>4 DEF SettledPolicies, PlacedInv, RouteSound, RouteTyped
  <2>2. shaken \subseteq shaken' /\ UNCHANGED <<site, available, lies, entry, task>>
    BY <1>1
  <2>3. InItsMount'
    <3>1. \A s \in Slave, p \in Tree : CanStore(s, p) => IsPrefix(policy'[s].mount, p)
      BY <2>1 DEF CanStore
    <3>2. \A p \in Tree : Owner(p) => IsPrefix(policy'[entry[p]].mount, p)
      BY <1>4, <3>1 DEF PlacedInv, InItsMount, Owner
    <3>3. \A s \in Slave : \A p \in lies[s] \ Section : IsPrefix(policy'[s].mount, p) /\ Above[p] \subseteq lies[s]
      BY <1>4, <3>1 DEF PlacedInv, InItsMount, RouteSound, RouteTyped
    <3> QED
      BY <2>2, <3>2, <3>3 DEF InItsMount, CanStore, Owner
  <2>4. OwnersAreThere'
    BY <1>4, <2>2 DEF PlacedInv, OwnersAreThere, Owner
  <2>5. StaysTogether'
    <3> SUFFICES ASSUME NEW p \in Tree, Len(p) > 2, Owner(p)', ReleaseOf(p) \notin shaken'
                 PROVE  With(entry', policy', p, ReleaseOf(p))
      BY TogetherThen DEF Owner
    <3>1. With(entry, policy, p, ReleaseOf(p))
      BY <1>4, <2>2, TogetherNow DEF PlacedInv, Owner
    <3> QED
      BY <2>1, <2>2, <3>1 DEF With
  <2>6. ASSUME NEW k \in Client PROVE AsChosen(task[k])'
    <3>1. PICK t : t = task[k]
      OBVIOUS
    <3>2. AsChosen(t) /\ TaskSound(t)
      BY <1>4, <3>1 DEF PlacedInv, RouteSound, RouteTyped
    <3>3. Chosen(t) => t.on \in Slave
      BY <3>2 DEF TaskSound
    <3>4. AsChosen(t)'
      BY <2>1, <2>2, <3>2, <3>3 DEF AsChosen, CanStore, ReadOnly
    <3> QED
      BY <2>2, <3>1, <3>4 DEF AsChosen, CanStore, ReadOnly
  <2> QED
    BY <1>2, <1>4, <2>3, <2>4, <2>5, <2>6 DEF PlacedInv
<1> QED
  BY <1>3, <1>4

-----------------------------------------------------------------------------
(* The theorems. *)

\* At first.
LEMMA RouteInvInit ==
  RouteInit => ArchiveInv /\ (SettledPolicies => PlacedInv)
<1> SUFFICES ASSUME RouteInit PROVE ArchiveInv /\ (SettledPolicies => PlacedInv)
  OBVIOUS
<1>1. /\ site \in RouteSettings /\ policy = site.before /\ available = Slave /\ shaken = {}
      /\ lies = [s \in Slave |-> site.lies[s] \cup IF site.before[s].readOnly THEN {} ELSE Section]
      /\ task = [c \in Client |-> Waiting]
  BY DEF RouteInit
<1>2. \A s \in Slave : site.lies[s] \subseteq Tree /\ \A p \in site.lies[s] : Above[p] \subseteq site.lies[s]
  BY <1>1, LaidOut
<1>3. \A p \in Tree :
        /\ p \in Section => entry[p] = Nobody
        /\ p \notin Section => \/ entry[p] = None /\ \A s \in Slave : p \notin site.lies[s]
                               \/ entry[p] \in Slave /\ p \in site.lies[entry[p]]
  <2> TAKE p \in Tree
  <2>1. entry[p] = IF p \in Section THEN Nobody
                   ELSE IF \E s \in Slave : p \in site.lies[s]
                   THEN CHOOSE s \in Slave : p \in site.lies[s] ELSE None
    BY DEF RouteInit
  <2>2. ASSUME \E s \in Slave : p \in site.lies[s]
        PROVE  LET o == CHOOSE s \in Slave : p \in site.lies[s] IN o \in Slave /\ p \in site.lies[o]
    BY <2>2
  <2>3. PICK o : o = CHOOSE s \in Slave : p \in site.lies[s]
    OBVIOUS
  <2>4. (\E s \in Slave : p \in site.lies[s]) => o \in Slave /\ p \in site.lies[o]
    BY <2>2, <2>3
  <2>5. entry[p] = IF p \in Section THEN Nobody
                   ELSE IF \E s \in Slave : p \in site.lies[s] THEN o ELSE None
    BY <2>1, <2>3, Zenon
  <2> QED
    BY <2>4, <2>5
<1>4. RouteSound
  <2>1. entry \in [Tree -> Owners]
    <3>1. \A p \in Tree : entry[p] \in Owners
      BY <1>3 DEF Owners
    <3>2. PICK e : e = entry
      OBVIOUS
    <3>3. e = [p \in Tree |-> e[p]]
      BY <3>2 DEF RouteInit
    <3> QED
      BY <3>1, <3>2, <3>3
  <2>2. SectionsOfNobody
    BY <1>3, Markers DEF SectionsOfNobody
  <2>3. Section \subseteq Tree
    BY TreeFacts DEF Section
  <2>4. lies \in [Slave -> SUBSET Tree]
    BY <1>1, <1>2, <2>3
  <2>5. Waiting \in TaskRecord /\ TaskSound(Waiting)
    BY WaitingIsSound DEF TaskSound
  <2> QED
    BY <1>1, <2>1, <2>2, <2>4, <2>5 DEF RouteSound, RouteTyped
<1>5. \A c \in Client : ~Chosen(task[c])
  BY <1>1, WaitingIsSound
<1>6. ArchiveInv
  <2>1. \A s \in Archives : lies[s] = site.lies[s]
    BY <1>1 DEF Archives
  <2>2. \A s \in Archives : \A p \in Tree : entry[p] = s => p \in lies[s]
    BY <1>3, <2>1, Markers DEF Archives
  <2> QED
    BY <1>4, <1>5, <2>1, <2>2 DEF ArchiveInv, ArchivesKept
<1>7. ASSUME SettledPolicies PROVE PlacedInv
  <2>1. \A s \in Slave : /\ \A p \in site.lies[s] : CanStore(s, p)
                         /\ \A k \in Slave \ {s} : site.lies[s] \cap site.lies[k] \subseteq Section
    BY <1>1, <1>7 DEF SettledPolicies, CanStore
  <2>2. \A p \in Tree : Owner(p) => p \notin Section /\ p \in site.lies[entry[p]]
    BY <1>3, Markers DEF Owner
  <2>3. \A s \in Slave : \A p \in lies[s] \ Section : p \in site.lies[s]
    BY <1>1
  <2>4. \A s \in Slave : site.lies[s] \subseteq lies[s]
    BY <1>1
  <2>5. InItsMount
    <3>1. \A p \in Tree : Owner(p) => CanStore(entry[p], p)
      BY <2>1, <2>2 DEF Owner
    <3>2. \A s \in Slave : \A p \in lies[s] \ Section : CanStore(s, p) /\ Above[p] \subseteq lies[s]
      BY <1>2, <2>1, <2>3, <2>4
    <3> QED
      BY <3>1, <3>2 DEF InItsMount
  <2>6. OwnersAreThere
    BY <1>1 DEF OwnersAreThere, Owner
  <2>7. StaysTogether
    <3> SUFFICES ASSUME NEW p \in Tree, Len(p) > 2, entry[p] \in Slave, ReleaseOf(p) \notin shaken
                 PROVE  With(entry, policy, p, ReleaseOf(p))
      BY TogetherNow
    <3>1. PICK r, s : r = ReleaseOf(p) /\ s = entry[p]
      OBVIOUS
    <3>2. p \notin Section /\ p \in site.lies[s] /\ s \in Slave
      BY <2>2, <3>1 DEF Owner
    <3>3. r \in Above[p] /\ r \in Tree \ Section
      BY <3>1, <3>2, ReleaseFacts
    <3>4. r \in site.lies[s]
      BY <1>2, <3>2, <3>3
    <3>5. entry[r] \in Slave /\ r \in site.lies[entry[r]]
      BY <1>3, <3>2, <3>3, <3>4
    <3>6. entry[r] = s
      BY <2>1, <3>2, <3>3, <3>4, <3>5
    <3> QED
      BY <3>1, <3>5, <3>6 DEF With
  <2>8. \A c \in Client : AsChosen(task[c])
    BY <1>5 DEF AsChosen
  <2> QED
    BY <1>4, <2>5, <2>6, <2>7, <2>8 DEF PlacedInv
<1> QED
  BY <1>6, <1>7

\* Every step.
LEMMA RouteInvStep ==
  ASSUME [RouteNext]_routeVars
  PROVE  (ArchiveInv => ArchiveInv') /\ (SettledPolicies /\ PlacedInv => PlacedInv')
<1>1. CASE UNCHANGED routeVars
  <2>1. ArchiveInv => ArchiveInv'
    BY <1>1 DEF routeVars, ArchiveInv, ArchivesKept, Archives, RouteSound, RouteTyped, SectionsOfNobody
  <2>2. PlacedInv => PlacedInv'
    <3>1. StaysTogether => StaysTogether'
      BY <1>1, TogetherNow, TogetherThen DEF routeVars
    <3> QED
      BY <1>1, <3>1 DEF routeVars, PlacedInv, InItsMount, OwnersAreThere, AsChosen, CanStore, Owner, ReadOnly,
                        RouteSound, RouteTyped, SectionsOfNobody
  <2> QED
    BY <2>1, <2>2
<1>2. ASSUME NEW c \in Client, Enters(c)
      PROVE (ArchiveInv => ArchiveInv') /\ (SettledPolicies /\ PlacedInv => PlacedInv')
  BY <1>2, EntersKeepsArchives, EntersKeepsPlaces
<1> QED
  BY <1>1, <1>2, BeginLooksKeep, ChoosesKeeps, AsksKeeps, IsRefusedKeeps, GoesKeeps, ReturnsKeeps, RehashKeeps,
     ZenonT(60) DEF RouteNext

\* An archive has what it had, however files and directories are made, resumed and
\* deleted (selectWritableSlaveForCreate, resolveOwningSlave).
THEOREM ArchivesStay == RouteSpec => []ArchiveStays
<1>1. ArchiveInv => ArchiveStays
  BY DEF ArchiveInv, ArchivesKept, ArchiveStays, Archives
<1> QED
  BY <1>1, RouteInvInit, RouteInvStep, PTL DEF RouteSpec

\* A release stays together on the slave of its directory, and archives are left alone,
\* if the policies are settled (SelectSlaveForUpload, MakeDir).
THEOREM ReleasesAreWellPlaced ==
  ASSUME SettledPolicies
  PROVE  RouteSpec => []WellPlaced
<1>1. RouteInit => ArchiveInv /\ PlacedInv
  BY RouteInvInit
<1>2. ArchiveInv /\ PlacedInv /\ [RouteNext]_routeVars => ArchiveInv' /\ PlacedInv'
  BY RouteInvStep
<1>3. ArchiveInv /\ PlacedInv => WellPlaced
  BY DEF ArchiveInv, ArchivesKept, ArchiveStays, Archives, PlacedInv, WellPlaced
<1> QED
  BY <1>1, <1>2, <1>3, PTL DEF RouteSpec

=============================================================================

------------------------------ MODULE Remerge ------------------------------
(***************************************************************************)
(* The remerge of one slave: how the master's index of the slave's files   *)
(* (its part of the VFS) is rebuilt from a scan of the slave's disk after  *)
(* a connection, or brought up to date by a job of SITE REMERGE, while     *)
(* uploads and deletes go on and the connection may break and come back.   *)
(*                                                                         *)
(* Master side, per connection: the goroutine of initializeSlaveRemerge    *)
(* (the job), the read loop, the queue goroutine that runs ProcessRemerge, *)
(* and SetOffline.  Slave side: handleRemerge and the disk.  The tree is   *)
(* two levels deep: directories that hold files.  Only files are entries.  *)
(* A job covers the whole tree and all roots.  A remerge command is named  *)
(* by its connection and a number; what happens when the indexes of two    *)
(* connections collide is in SlaveLink, the pausing of scans in            *)
(* RemergeFlow.                                                            *)
(***************************************************************************)
EXTENDS Naturals, Sequences, FiniteSets

CONSTANTS
  Files,
  Dirs,
  DirOf,        \* the directory of each file
  OnDisk,       \* files on the disk to begin with
  Unreadable,   \* directories whose os.ReadDir fails
  Settings,     \* the settings that a run starts from
  MaxSession,   \* bound: connections the slave makes
  MaxJob        \* bound: remerges on one connection

\* How the daemons are set up: `cached' is what the index loaded from
\* userdata/vfs.dat has of the slave, `single' that there is one scan target, so
\* that snapshots prune (pruneChildren), `instant' the master's remerge_mode;
\* `aging' are the files that may outgrow the 120 s purge grace.
Setting == [cached : SUBSET Files, single : BOOLEAN, instant : BOOLEAN,
            aging : SUBSET Files]

ASSUME RemergeAssumption ==
  /\ DirOf \in [Files -> Dirs]
  /\ OnDisk \subseteq Files /\ Unreadable \subseteq Dirs
  /\ Settings \subseteq Setting
  /\ MaxSession \in Nat \ {0} /\ MaxJob \in Nat \ {0}

Session == 1..MaxSession

\* AsyncResponseRemerge: the listing of one directory.
Snapshot == [dir : Dirs, files : SUBSET Files]
\* A remerge command: the connection it was sent on, its number there.
Command == Session \X (1..MaxJob)
\* Its final answer.
Reply == [to : Command, ok : BOOLEAN]

VARIABLES
  set,        \* the setting, fixed from the start
  sess,       \* session of the RemoteSlave in sm.slaves
  link,       \* that session as the master sees it
  slaveOn,    \* the slave's online flag
  asked,      \* remerge commands the slave has not started
  stream,     \* objects the slave wrote and the read loop has not read
  queue,      \* remergeQueue
  hand,       \* what the queue goroutine is doing: its snapshots left to add/prune
  depth,      \* remergeQueueDepth
  job,        \* where initializeSlaveRemerge is
  jobNo,      \* remerges begun on each connection
  avail,      \* available
  disk,       \* files on the slave's disk
  vfs,        \* the slave's entries in the index
  recent,     \* files modified less than 120 s ago
  uploading,  \* files received by the slave, not yet in the index
  deleting,   \* files removed by the slave, still in the index
  scan,       \* handleRemerge: where it is, what is left, what it has read
  abort,      \* remergeAbort
  owed,       \* history: on disk since the mark, or indexed by an upload since
  gone        \* history: off the disk ever since the mark

linkVars == <<set, sess, link, slaveOn>>
slaveVars == <<scan, abort, asked>>
mergeVars == <<queue, hand, depth, jobNo>>
fileVars == <<disk, recent, uploading, deleting>>
history == <<owed, gone>>
vars == <<set, sess, link, slaveOn, asked, stream, queue, hand, depth, jobNo, job, avail,
          disk, vfs, recent, uploading, deleting, scan, abort, owed, gone>>

Idle == [at |-> "off", todo |-> {}, dir |-> {}, snap |-> {}, to |-> <<>>]

TypeOK ==
  /\ set \in Settings
  /\ sess \in 0..MaxSession
  /\ link \in [Session -> {"new", "up", "broken", "closing", "down"}]
  /\ slaveOn \in BOOLEAN
  /\ asked \subseteq Command
  /\ \A s \in Session : stream[s] \in Seq(Snapshot \cup Reply)
  /\ \A s \in Session : queue[s] \in Seq(Snapshot)
  /\ \A s \in Session : hand[s].at \in {"take", "add", "prune", "stop"}
  /\ depth \in [Session -> Nat]
  /\ jobNo \in [Session -> 0..MaxJob]
  /\ job \in [Session -> {"none", "mark", "issue", "wait", "drain", "purge",
                          "finished", "end", "expired", "undrained", "late", "done"}]
  /\ avail \in [Session -> BOOLEAN]
  /\ disk \subseteq Files
  /\ vfs \in [Files -> {"absent", "unseen", "seen"}]
  /\ recent \subseteq Files
  /\ uploading \subseteq Files /\ deleting \subseteq Files
  /\ scan.at \in {"off", "slot", "reading", "held"}
  /\ scan.todo \subseteq Dirs /\ scan.dir \subseteq Dirs
  /\ scan.snap \subseteq Files /\ scan.to \in Command \cup {<<>>}
  /\ abort \in BOOLEAN
  /\ owed \subseteq Files /\ gone \subseteq Files

Init ==
  /\ set \in Settings
  /\ sess = 0
  /\ link = [s \in Session |-> "new"]
  /\ slaveOn = FALSE
  /\ asked = {}
  /\ stream = [s \in Session |-> <<>>]
  /\ queue = [s \in Session |-> <<>>]
  /\ hand = [s \in Session |-> [at |-> "take"]]
  /\ depth = [s \in Session |-> 0]
  /\ jobNo = [s \in Session |-> 0]
  /\ job = [s \in Session |-> "none"]
  /\ avail = [s \in Session |-> FALSE]
  /\ disk = OnDisk
  /\ vfs = [f \in Files |-> IF f \in set.cached THEN "seen" ELSE "absent"]
  /\ recent = {} /\ uploading = {} /\ deleting = {}
  /\ scan = Idle
  /\ abort = FALSE
  /\ owed = {} /\ gone = {}

Online(s) == link[s] \in {"up", "broken"}   \* as the master believes
Indexed == {f \in Files : vfs[f] # "absent"}
In(d) == {f \in Files : DirOf[f] = d}

(***************************************************************************)
(* Connections.                                                            *)
(***************************************************************************)

\* The slave has waited out its 10 s and dials again: by then every scan step
\* that checks the online flag has seen it down, but a scan inside a ReadDir
\* may still be there.  The master rejects the name while it is online.  The
\* first connection of a slave with a cached index skips its remerge.
Connect ==
  /\ sess < MaxSession /\ ~slaveOn
  /\ sess > 0 => ~Online(sess)
  /\ scan.at \in {"off", "reading"}
  /\ sess' = sess + 1
  /\ link' = [link EXCEPT ![sess + 1] = "up"]
  /\ slaveOn' = TRUE
  /\ LET cached == sess = 0 /\ set.cached # {} IN
       /\ job' = [job EXCEPT ![sess + 1] = IF cached THEN "done" ELSE "mark"]
       /\ avail' = [avail EXCEPT ![sess + 1] = cached \/ set.instant]
  /\ UNCHANGED <<set, slaveVars, stream, mergeVars, fileVars, vfs, history>>

\* A configured or manual job, on a slave that is not remerging; the slave is
\* made available whatever the mode.
StartJob(s) ==
  /\ Online(s) /\ job[s] = "done" /\ jobNo[s] < MaxJob
  /\ job' = [job EXCEPT ![s] = "mark"]
  /\ avail' = [avail EXCEPT ![s] = TRUE]
  /\ UNCHANGED <<linkVars, slaveVars, stream, mergeVars, fileVars, vfs, history>>

\* The connection breaks and the slave notices first: what is in flight is lost.
LinkBreaks ==
  /\ sess > 0 /\ link[sess] = "up"
  /\ link' = [link EXCEPT ![sess] = "broken"]
  /\ slaveOn' = FALSE
  /\ asked' = {}
  /\ stream' = [stream EXCEPT ![sess] = <<>>]
  /\ UNCHANGED <<set, sess, scan, abort, mergeVars, job, avail, fileVars, vfs, history>>

\* SetOffline up to conn.Close: no longer available, the queue depth zeroed,
\* remergeStop closed.
GoOffline(s) ==
  /\ Online(s)
  /\ link' = [link EXCEPT ![s] = "closing"]
  /\ avail' = [avail EXCEPT ![s] = FALSE]
  /\ depth' = [depth EXCEPT ![s] = 0]
  /\ slaveOn' = FALSE
  /\ asked' = {}
  /\ stream' = [stream EXCEPT ![s] = <<>>]
  /\ UNCHANGED <<set, sess, scan, abort, queue, hand, jobNo, job, fileVars, vfs, history>>

\* Its onOffline callback: ClearSlave drops every entry under the slave's name.
ClearSlave(s) ==
  /\ link[s] = "closing"
  /\ link' = [link EXCEPT ![s] = "down"]
  /\ vfs' = [f \in Files |-> "absent"]
  /\ UNCHANGED <<set, sess, slaveOn, slaveVars, stream, mergeVars, job, avail,
                 fileVars, history>>

(***************************************************************************)
(* initializeSlaveRemerge.                                                 *)
(***************************************************************************)

\* Mutant: the entries are left as the last remerge saw them.
MarkNothing(s) ==
  /\ job[s] = "mark"
  /\ owed' = disk \ uploading
  /\ gone' = Files \ disk
  /\ job' = [job EXCEPT ![s] = "issue"]
  /\ UNCHANGED <<linkVars, slaveVars, stream, mergeVars, avail, fileVars, vfs>>

\* MarkAllUnseen.
MarkAllUnseen(s) ==
  /\ job[s] = "mark"
  /\ vfs' = [f \in Files |-> IF vfs[f] = "seen" THEN "unseen" ELSE vfs[f]]
  /\ owed' = disk \ uploading
  /\ gone' = Files \ disk
  /\ job' = [job EXCEPT ![s] = "issue"]
  /\ UNCHANGED <<linkVars, slaveVars, stream, mergeVars, avail, fileVars>>

\* IssueRemerge, refused when the slave has gone offline.
IssueRemerge(s) ==
  /\ job[s] = "issue"
  /\ \/ /\ Online(s)
        /\ jobNo' = [jobNo EXCEPT ![s] = @ + 1]
        /\ asked' = IF link[s] = "up" THEN asked \cup {<<s, jobNo[s] + 1>>} ELSE asked
        /\ job' = [job EXCEPT ![s] = "wait"]
     \/ /\ ~Online(s)
        /\ job' = [job EXCEPT ![s] = "done"]
        /\ UNCHANGED <<asked, jobNo>>
  /\ UNCHANGED <<linkVars, scan, abort, stream, queue, hand, depth, avail, fileVars,
                 vfs, history>>

\* SetOffline wakes FetchResponse.
LoseReply(s) ==
  /\ job[s] = "wait" /\ ~Online(s)
  /\ job' = [job EXCEPT ![s] = "end"]
  /\ UNCHANGED <<linkVars, slaveVars, stream, mergeVars, avail, fileVars, vfs, history>>

\* Its timer fires, and the slave is told to stop.  A stop that reaches the
\* slave before the scan has begun is forgotten when the scan begins.
GiveUp(s) ==
  /\ job[s] = "wait"
  /\ job' = [job EXCEPT ![s] = "expired"]
  /\ abort' \in IF link[s] = "up" THEN {abort, scan.at # "off"} ELSE {abort}
  /\ UNCHANGED <<linkVars, scan, asked, stream, mergeVars, avail, fileVars, vfs, history>>

\* WaitForRemergeDrain: the depth is looked at before the connection is.
Drain(s) ==
  /\ job[s] = "drain"
  /\ \/ depth[s] = 0 /\ job' = [job EXCEPT ![s] = "purge"]
     \/ depth[s] # 0 /\ ~Online(s) /\ job' = [job EXCEPT ![s] = "end"]
  /\ UNCHANGED <<linkVars, slaveVars, stream, mergeVars, avail, fileVars, vfs, history>>

\* Its deadline.
DrainTimeout(s) ==
  /\ job[s] = "drain" /\ depth[s] # 0
  /\ job' = [job EXCEPT ![s] = "undrained"]
  /\ UNCHANGED <<linkVars, slaveVars, stream, mergeVars, avail, fileVars, vfs, history>>

\* PurgeUnseen spares what was modified less than 120 s ago.
PurgeUnseen(s) ==
  /\ job[s] = "purge"
  /\ vfs' = [f \in Files |-> IF vfs[f] = "unseen" /\ f \notin recent
                             THEN "absent" ELSE vfs[f]]
  /\ job' = [job EXCEPT ![s] = "finished"]
  /\ UNCHANGED <<linkVars, slaveVars, stream, mergeVars, avail, fileVars, history>>

\* Mutant: the slave becomes available however the remerge ended.
FinishAnyway(s) ==
  /\ job[s] \in {"finished", "end", "expired", "undrained"}
  /\ job' = [job EXCEPT ![s] = IF @ = "expired" THEN "late" ELSE "done"]
  /\ avail' = [avail EXCEPT ![s] = TRUE]
  /\ UNCHANGED <<linkVars, slaveVars, stream, mergeVars, fileVars, vfs, history>>

\* The end of the job: a slave that waited for its remerge becomes available.
\* After a timeout it stays marked remerging until the late answer comes.
Finish(s) ==
  /\ job[s] \in {"finished", "end", "expired", "undrained"}
  /\ job' = [job EXCEPT ![s] = IF @ = "expired" THEN "late" ELSE "done"]
  /\ avail' = [avail EXCEPT ![s] = @ \/ (~set.instant /\ job[s] = "finished")]
  /\ UNCHANGED <<linkVars, slaveVars, stream, mergeVars, fileVars, vfs, history>>

(***************************************************************************)
(* The read loop and the queue goroutine.                                  *)
(***************************************************************************)

ReadSnapshot(s) ==   \* enqueueRemerge
  /\ Online(s) /\ stream[s] # <<>> /\ Head(stream[s]) \in Snapshot
  /\ stream' = [stream EXCEPT ![s] = Tail(@)]
  /\ queue' = [queue EXCEPT ![s] = Append(@, Head(stream[s]))]
  /\ depth' = [depth EXCEPT ![s] = @ + 1]
  /\ UNCHANGED <<linkVars, slaveVars, hand, jobNo, job, avail, fileVars, vfs, history>>

ReadReply(s) ==      \* routeResponse; an old command's reply has no waiter
  LET reply == Head(stream[s])
      own == reply.to = <<s, jobNo[s]>>
  IN
  /\ Online(s) /\ stream[s] # <<>> /\ reply \in Reply
  /\ stream' = [stream EXCEPT ![s] = Tail(@)]
  /\ job' = IF own /\ job[s] = "wait"
            THEN [job EXCEPT ![s] = IF reply.ok THEN "drain" ELSE "end"]
            ELSE IF own /\ job[s] = "late" THEN [job EXCEPT ![s] = "done"]
            ELSE job
  /\ UNCHANGED <<linkVars, slaveVars, mergeVars, avail, fileVars, vfs, history>>

\* The select takes a snapshot; once remergeStop is closed it may stop instead.
TakeSnapshot(s) ==
  /\ hand[s].at = "take" /\ queue[s] # <<>>
  /\ hand' = [hand EXCEPT ![s] = [at |-> "add", snap |-> Head(queue[s])]]
  /\ queue' = [queue EXCEPT ![s] = Tail(@)]
  /\ UNCHANGED <<linkVars, slaveVars, stream, depth, jobNo, job, avail, fileVars, vfs,
                 history>>

StopQueue(s) ==
  /\ hand[s].at = "take" /\ link[s] \in {"closing", "down"}
  /\ hand' = [hand EXCEPT ![s] = [at |-> "stop"]]
  /\ UNCHANGED <<linkVars, slaveVars, stream, queue, depth, jobNo, job, avail, fileVars,
                 vfs, history>>

\* ProcessRemerge adds the files of the snapshot ...
AddSnapshot(s) ==
  /\ hand[s].at = "add"
  /\ vfs' = [f \in Files |-> IF f \in hand[s].snap.files THEN "seen" ELSE vfs[f]]
  /\ hand' = [hand EXCEPT ![s].at = "prune"]
  /\ UNCHANGED <<linkVars, slaveVars, stream, queue, depth, jobNo, job, avail, fileVars, history>>

\* Mutant: the depth is not kept from falling below zero.
PruneNoFloor(s) ==
  /\ hand[s].at = "prune"
  /\ hand' = [hand EXCEPT ![s] = [at |-> "take"]]
  /\ depth' = [depth EXCEPT ![s] = @ - 1]
  /\ UNCHANGED <<linkVars, slaveVars, stream, queue, jobNo, job, avail, fileVars,
                 vfs, history>>

\* Mutant: the depth is not taken back.
PruneUncounted(s) ==
  /\ hand[s].at = "prune"
  /\ hand' = [hand EXCEPT ![s] = [at |-> "take"]]
  /\ UNCHANGED <<linkVars, slaveVars, stream, queue, depth, jobNo, job, avail, fileVars,
                 vfs, history>>

\* Mutant: PurgeMissingChildren without the grace.
PruneRecentToo(s) ==
  LET d == hand[s].snap IN
  /\ hand[s].at = "prune"
  /\ vfs' = [f \in Files |-> IF f \in In(d.dir) \ d.files THEN "absent" ELSE vfs[f]]
  /\ hand' = [hand EXCEPT ![s] = [at |-> "take"]]
  /\ depth' = [depth EXCEPT ![s] = IF @ = 0 THEN 0 ELSE @ - 1]
  /\ UNCHANGED <<linkVars, slaveVars, stream, queue, jobNo, job, avail, fileVars, history>>

\* ... and drops the children it does not list (PurgeMissingChildren).
PruneMissing(s) ==
  LET d == hand[s].snap
      missing == IF set.single THEN In(d.dir) \ (d.files \cup recent) ELSE {}
  IN
  /\ hand[s].at = "prune"
  /\ vfs' = [f \in Files |-> IF f \in missing THEN "absent" ELSE vfs[f]]
  /\ hand' = [hand EXCEPT ![s] = [at |-> "take"]]
  /\ depth' = [depth EXCEPT ![s] = IF @ = 0 THEN 0 ELSE @ - 1]
  /\ UNCHANGED <<linkVars, slaveVars, stream, queue, jobNo, job, avail, fileVars, history>>

(***************************************************************************)
(* The slave.                                                              *)
(***************************************************************************)

\* An object goes out on the current stream, or its write fails.
Written(obj) ==
  IF slaveOn THEN [stream EXCEPT ![sess] = Append(@, obj)] ELSE stream

\* handleRemerge: one at a time on a slave.
StartScan(c) ==
  /\ c \in asked
  /\ asked' = asked \ {c}
  /\ \/ /\ scan.at = "off"
        /\ scan' = [Idle EXCEPT !.at = "slot", !.todo = Dirs, !.to = c]
        /\ abort' = FALSE
        /\ UNCHANGED stream
     \/ /\ scan.at # "off"
        /\ stream' = Written([to |-> c, ok |-> FALSE])
        /\ UNCHANGED <<scan, abort>>
  /\ UNCHANGED <<linkVars, mergeVars, job, avail, fileVars, vfs, history>>

\* waitForRemergeSlot lets the scan enter a directory.
EnterDir(d) ==
  /\ scan.at = "slot" /\ slaveOn /\ ~abort /\ d \in scan.todo
  /\ scan' = [scan EXCEPT !.at = "reading", !.dir = {d}]
  /\ UNCHANGED <<linkVars, abort, asked, stream, mergeVars, job, avail, fileVars, vfs, history>>

\* os.ReadDir returns; when it fails the directory is passed over in silence.
ReadDir(d) ==
  /\ scan.at = "reading" /\ scan.dir = {d}
  /\ scan' = IF d \in Unreadable
             THEN [scan EXCEPT !.at = "slot", !.todo = @ \ {d}, !.dir = {}]
             ELSE [scan EXCEPT !.at = "held", !.snap = disk \cap In(d)]
  /\ UNCHANGED <<linkVars, abort, asked, stream, mergeVars, job, avail, fileVars, vfs, history>>

\* Every entry was waited for and looked up (one that has vanished by then is
\* left out); the listing is sent.  A write that fails ends the scan.
SendSnapshot(d) ==
  /\ scan.at = "held" /\ scan.dir = {d} /\ slaveOn /\ ~abort
  /\ \E files \in SUBSET scan.snap :
       /\ scan.snap \cap disk \subseteq files
       /\ stream' = Written([dir |-> d, files |-> files])
  /\ scan' = [scan EXCEPT !.at = "slot", !.todo = @ \ {d}, !.dir = {}, !.snap = {}]
  /\ UNCHANGED <<linkVars, abort, asked, mergeVars, job, avail, fileVars, vfs, history>>

\* Mutant: a scan that was stopped or cut off reports success.
EndScanOk ==
  /\ scan.at \in {"slot", "held"}
  /\ scan.todo = {} \/ abort \/ ~slaveOn
  /\ stream' = Written([to |-> scan.to, ok |-> TRUE])
  /\ scan' = Idle
  /\ abort' = FALSE
  /\ UNCHANGED <<linkVars, asked, mergeVars, job, avail, fileVars, vfs, history>>

\* The scan is through, was told to stop, or found the slave offline.
EndScan ==
  /\ scan.at \in {"slot", "held"}
  /\ scan.todo = {} \/ abort \/ ~slaveOn
  /\ stream' = Written([to |-> scan.to, ok |-> scan.todo = {}])
  /\ scan' = Idle
  /\ abort' = FALSE
  /\ UNCHANGED <<linkVars, asked, mergeVars, job, avail, fileVars, vfs, history>>

\* SITE REMERGESTOP, as the slave executes it.
StopRemerge ==
  /\ slaveOn /\ scan.at # "off" /\ ~abort
  /\ abort' = TRUE
  /\ UNCHANGED <<linkVars, scan, asked, stream, mergeVars, job, avail, fileVars, vfs, history>>

(***************************************************************************)
(* Uploads, deletes, and what happens behind the daemon's back.            *)
(***************************************************************************)

Serving == sess > 0 /\ link[sess] = "up" /\ avail[sess]

UploadToDisk(f) ==     \* the slave creates and fills the file
  /\ Serving /\ f \notin disk /\ vfs[f] = "absent"
  /\ disk' = disk \cup {f}
  /\ uploading' = uploading \cup {f}
  /\ recent' = recent \cup {f}
  /\ gone' = gone \ {f}
  /\ UNCHANGED <<linkVars, slaveVars, stream, mergeVars, job, avail, deleting, vfs, owed>>

UploadIndexed(f) ==    \* UploadFile's AddFile, after the transfer's status
  /\ f \in uploading
  /\ vfs' = [vfs EXCEPT ![f] = "seen"]
  /\ uploading' = uploading \ {f}
  /\ recent' = recent \cup {f}
  /\ owed' = owed \cup {f}
  /\ UNCHANGED <<linkVars, slaveVars, stream, mergeVars, job, avail, disk, deleting, gone>>

UploadLost(f) ==       \* the slave went offline before the status came
  /\ f \in uploading /\ ~slaveOn
  /\ uploading' = uploading \ {f}
  /\ UNCHANGED <<linkVars, slaveVars, stream, mergeVars, job, avail, disk, recent,
                 deleting, vfs, history>>

DeleteOnDisk(f) ==     \* SlaveManager.DeleteFile: first the slave ...
  /\ Serving /\ vfs[f] # "absent" /\ f \in disk \ uploading
  /\ disk' = disk \ {f}
  /\ deleting' = deleting \cup {f}
  /\ owed' = owed \ {f}
  /\ UNCHANGED <<linkVars, slaveVars, stream, mergeVars, job, avail, recent,
                 uploading, vfs, gone>>

DeleteIndexed(f) ==    \* ... then the index
  /\ f \in deleting
  /\ vfs' = [vfs EXCEPT ![f] = "absent"]
  /\ deleting' = deleting \ {f}
  /\ owed' = owed \ {f}
  /\ UNCHANGED <<linkVars, slaveVars, stream, mergeVars, job, avail, disk, recent,
                 uploading, gone>>

Vanish(f) ==           \* removed by a script or an administrator
  /\ f \in disk \ uploading
  /\ disk' = disk \ {f}
  /\ owed' = owed \ {f}
  /\ UNCHANGED <<linkVars, slaveVars, stream, mergeVars, job, avail, recent,
                 uploading, deleting, vfs, gone>>

\* 120 s pass without a change to it.  A listing that was sent is processed
\* faster than that, one that was read may be held up for longer.
Age(f) ==
  /\ f \in recent \cap set.aging
  /\ \A s \in Session :
       stream[s] = <<>> /\ queue[s] = <<>> /\ hand[s].at \notin {"add", "prune"}
  /\ recent' = recent \ {f}
  /\ UNCHANGED <<linkVars, slaveVars, stream, mergeVars, job, avail, disk,
                 uploading, deleting, vfs, history>>

----------------------------------------------------------------------------

JobStep(s) ==
  \/ MarkAllUnseen(s) \/ IssueRemerge(s) \/ LoseReply(s) \/ Drain(s)
  \/ PurgeUnseen(s) \/ Finish(s)

MasterStep(s) ==
  \/ ReadSnapshot(s) \/ ReadReply(s) \/ TakeSnapshot(s) \/ AddSnapshot(s)
  \/ PruneMissing(s)

ScanStep ==
  \/ EndScan
  \/ \E c \in Command : StartScan(c)
  \/ \E d \in Dirs : EnterDir(d) \/ ReadDir(d) \/ SendSnapshot(d)

FileStep(f) ==
  \/ UploadToDisk(f) \/ UploadIndexed(f) \/ UploadLost(f)
  \/ DeleteOnDisk(f) \/ DeleteIndexed(f) \/ Vanish(f) \/ Age(f)

Next ==
  \/ Connect \/ LinkBreaks \/ StopRemerge \/ ScanStep
  \/ \E s \in Session :
       \/ StartJob(s) \/ GoOffline(s) \/ ClearSlave(s) \/ StopQueue(s)
       \/ JobStep(s) \/ GiveUp(s) \/ DrainTimeout(s) \/ MasterStep(s)
  \/ \E f \in Files : FileStep(f)

Spec == Init /\ [][Next]_vars

\* Goroutines run, and the disk answers.  No timer is assumed to fire.
FairSpec ==
  /\ Spec
  /\ WF_vars(ScanStep)
  /\ \A s \in Session : WF_vars(JobStep(s)) /\ WF_vars(MasterStep(s))

----------------------------------------------------------------------------
(***************************************************************************)
(* Properties.                                                             *)
(***************************************************************************)

\* slave_manager.go:1679 "Purge files that were physically deleted from the
\* slave": the first purge of a connection leaves no entry of a file that has
\* been off the disk ever since the remerge began, but for those within the
\* 120 s grace.  (A later one may: the listings of a job that was stopped are
\* still queued when the next one marks, and enter as seen.)
GhostsPurged ==
  [][\A s \in Session :
       job[s] = "purge" /\ job'[s] = "finished" /\ Online(s) /\ jobNo[s] = 1
         => Indexed' \cap gone \subseteq recent \cup deleting]_vars

\* slave.go:1364: no purge may drop what the scan did not look at.  When a
\* remerge is finished, the index holds every file that was on the disk when it
\* began or was uploaded since, and is still there.
IndexComplete ==
  \A s \in Session :
    job[s] = "finished" /\ link[s] = "up" => owed \subseteq Indexed

\* README.md:536 "off: keep the slave unavailable until startup remerge
\* finishes": whoever is served by a slave that waits for its remerge sees an
\* index with every file of the disk in it.
AvailableIsIndexed ==
  ~set.instant => \A s \in Session :
    avail[s] /\ link[s] = "up" => owed \subseteq Indexed

\* README.md:536, the other half: unless its link breaks, it is told to stop or
\* the master loses patience, a slave that connects does become available.
StartupCompletes ==
  \A s \in Session :
    job[s] = "mark" ~>
      avail[s] \/ link[s] # "up" \/ abort \/ job[s] \in {"expired", "undrained"}
=============================================================================

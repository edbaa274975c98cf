---------------------------- MODULE FtpTransfer ----------------------------
(***************************************************************************)
(* The FTP sessions of one user and the files of one slave: login, STOR    *)
(* (fresh or resumed), RETR, DELE and RNFR/RNTO as the command handlers    *)
(* run them, each session in its own goroutine; the reservation of paths;  *)
(* the transfer fields other sessions count; a kick (slowkick, SITE KICK)  *)
(* that runs in a goroutine of its own; and a slave that goes on writing   *)
(* when its link drops or the master is tired of waiting for it.           *)
(*                                                                         *)
(* How a transfer runs on the slave is in SlaveTransfer, how commands      *)
(* reach it in SlaveLink, how the index is rebuilt in Remerge: here these  *)
(* are single steps.                                                       *)
(***************************************************************************)
EXTENDS Naturals, FiniteSets

CONSTANTS
  Sessions,
  Paths,
  Stored,       \* paths on the disk and in the index to begin with
  LoginSlots, UploadSlots, DownloadSlots, MaxSim,   \* of the user; 0 is no limit
  Settings      \* the settings that a run starts from

\* How the clients open their data channels ("pasv" and "port" go to the slave,
\* "bridged" ends at the master), and which disturbances there are.
Setting == [mode : {"pasv", "port", "bridged"}, may : SUBSET {"kick", "delete", "rename", "drop", "timeout"}]

\* The writers of a file nobody waits for any more: of an upload that made it,
\* or of one that resumed it.
Fresh == "fresh"
Resumed == "resumed"
Orphans == {Fresh, Resumed}

ASSUME FtpTransferAssumption ==
  /\ IsFiniteSet(Sessions) /\ Orphans \cap Sessions = {} /\ Stored \subseteq Paths
  /\ {LoginSlots, UploadSlots, DownloadSlots, MaxSim} \subseteq Nat
  /\ Settings \subseteq Setting

VARIABLES
  set,        \* the setting, fixed from the start
  at,         \* where each session's handler is
  cmd,        \* its command
  prepared,   \* it has a listener, an address or a slave that listens
  dir, tied,  \* TransferDirection; a slave index or connection is attached
  kick,       \* a DisconnectActiveSession of it: not there, has looked, is through
  reserved,   \* activeUploadReservations
  readers,    \* activeDownloadPaths
  gauge,      \* metrics: transfers begun and not ended
  job,        \* its transfer on the slave
  up,         \* the slave's link
  disk,       \* each path on the slave: is it there, who is writing it
  index,      \* paths in the VFS
  late,       \* RECEIVEs nobody waits for that the slave has not begun
  tired       \* history: paths of uploads the master stopped waiting for

sessionVars == <<set, at, cmd, prepared>>
fieldVars == <<dir, tied, gauge>>
pathVars == <<reserved, readers>>
slaveVars == <<job, up, disk, index, late, tired>>
vars == <<set, at, cmd, prepared, dir, tied, kick, reserved, readers, gauge, job, up, disk, index,
          late, tired>>

NoCmd == [verb |-> "none"]
Gone == [there |-> FALSE, by |-> {}]
Locations == {"out", "admit", "idle", "reserve", "slots", "open", "begin", "attach",
              "ask", "wait", "index", "settle", "unlink", "unindex", "move", "reindex",
              "leave"}

TypeOK ==
  /\ set \in Settings
  /\ at \in [Sessions -> Locations]
  /\ \A s \in Sessions : cmd[s] = NoCmd \/ cmd[s].verb \in {"STOR", "RETR", "DELE", "RNTO"}
  /\ prepared \in [Sessions -> BOOLEAN]
  /\ dir \in [Sessions -> {"", "upload", "download"}]
  /\ tied \in [Sessions -> BOOLEAN]
  /\ kick \in [Sessions -> {"no", "looked", "closed"}]
  /\ reserved \subseteq Paths
  /\ readers \in [Paths -> Nat]
  /\ gauge \in [{"upload", "download"} -> Nat]
  /\ job \in [Sessions -> {"none", "run", "abort", "ok", "failed", "lost"}]
  /\ up \in BOOLEAN
  /\ disk \in [Paths -> [there : BOOLEAN, by : SUBSET (Sessions \cup Orphans)]]
  /\ index \subseteq Paths
  /\ late \subseteq [path : Paths, rest : BOOLEAN]
  /\ tired \subseteq Paths

Init ==
  /\ set \in Settings
  /\ at = [s \in Sessions |-> "out"]
  /\ cmd = [s \in Sessions |-> NoCmd]
  /\ prepared = [s \in Sessions |-> FALSE]
  /\ dir = [s \in Sessions |-> ""]
  /\ tied = [s \in Sessions |-> FALSE]
  /\ kick = [s \in Sessions |-> "no"]
  /\ reserved = {}
  /\ readers = [p \in Paths |-> 0]
  /\ gauge = [d \in {"upload", "download"} |-> 0]
  /\ job = [s \in Sessions |-> "none"]
  /\ up = TRUE
  /\ disk = [p \in Paths |-> [there |-> p \in Stored, by |-> {}]]
  /\ index = Stored
  /\ late = {}
  /\ tired = {}

LoggedIn == {s \in Sessions : at[s] \notin {"out", "admit"}}
Doing(d) == {s \in LoggedIn : dir[s] = d}     \* countTransfersForUser
Direction(s) == IF cmd[s].verb = "STOR" THEN "upload" ELSE "download"
Free(limit, used) == limit = 0 \/ Cardinality(used) < limit

Go(s, loc) == at' = [at EXCEPT ![s] = loc]
Refuse(s) == Go(s, "idle") /\ cmd' = [cmd EXCEPT ![s] = NoCmd]

(***************************************************************************)
(* USER/PASS, and the end of a session.                                    *)
(***************************************************************************)

CheckLogin(s) ==        \* countSessionsForUser against LoginSlots
  /\ at[s] = "out" /\ Free(LoginSlots, LoggedIn)
  /\ Go(s, "admit")
  /\ UNCHANGED <<set, cmd, prepared, fieldVars, kick, pathVars, slaveVars>>

Admit(s) ==             \* IsLogged = true
  /\ at[s] = "admit" /\ Go(s, "idle")
  /\ UNCHANGED <<set, cmd, prepared, fieldVars, kick, pathVars, slaveVars>>

\* The client leaves, or the read of a connection that a kick closed fails.
Disconnect(s) ==
  /\ at[s] = "idle" /\ kick[s] # "looked"
  /\ Go(s, "out")
  /\ kick' = [kick EXCEPT ![s] = "no"]
  /\ UNCHANGED <<set, cmd, prepared, fieldVars, pathVars, slaveVars>>

(***************************************************************************)
(* Commands arrive.  Each is checked against the state of this moment.     *)
(***************************************************************************)

Command(s, c, loc) ==
  /\ at[s] = "idle" /\ kick[s] # "closed"
  /\ cmd' = [cmd EXCEPT ![s] = c]
  /\ prepared' = [prepared EXCEPT ![s] = TRUE]
  /\ Go(s, loc)
  /\ UNCHANGED <<set, fieldVars, kick, pathVars, slaveVars>>

ActiveUpload(p) ==
  p \in reserved \/ \E s \in Sessions : dir[s] = "upload" /\ cmd[s].path = p

Stor(s, p, rest) ==     \* a resume needs the file, a fresh upload its absence
  /\ rest = (p \in index)
  /\ Command(s, [verb |-> "STOR", path |-> p, rest |-> rest], "reserve")

Retr(s, p) ==
  /\ p \in index /\ ~ActiveUpload(p)
  /\ Command(s, [verb |-> "RETR", path |-> p], "slots")

Dele(s, p) ==
  /\ "delete" \in set.may /\ ~ActiveUpload(p)
  /\ Command(s, [verb |-> "DELE", path |-> p], "unlink")

Rnto(s, p, q) ==        \* neither RNFR nor RNTO looks for transfers
  /\ "rename" \in set.may /\ p \in index /\ p # q
  /\ Command(s, [verb |-> "RNTO", path |-> p, to |-> q], "move")

(***************************************************************************)
(* Reservations and slots.                                                 *)
(***************************************************************************)

\* Mutant: an upload does not look at the downloads.
ReserveUploadOnly(s) ==
  LET p == cmd[s].path IN
  /\ at[s] = "reserve" /\ cmd[s].verb = "STOR"
  /\ IF p \notin reserved
     THEN /\ reserved' = reserved \cup {p}
          /\ Go(s, "slots") /\ UNCHANGED cmd
     ELSE Refuse(s) /\ UNCHANGED reserved
  /\ UNCHANGED <<set, prepared, fieldVars, kick, readers, slaveVars>>

\* reserveUploadPath; activeDownloadForPath after it finds nothing it did not.
ReserveUpload(s) ==
  LET p == cmd[s].path IN
  /\ at[s] = "reserve" /\ cmd[s].verb = "STOR"
  /\ IF p \notin reserved /\ readers[p] = 0
     THEN /\ reserved' = reserved \cup {p}
          /\ Go(s, "slots") /\ UNCHANGED cmd
     ELSE Refuse(s) /\ UNCHANGED reserved
  /\ UNCHANGED <<set, prepared, fieldVars, kick, readers, slaveVars>>

ReserveDownload(s) ==
  LET p == cmd[s].path IN
  /\ at[s] = "reserve" /\ cmd[s].verb = "RETR"
  /\ IF p \notin reserved
     THEN /\ readers' = [readers EXCEPT ![p] = @ + 1]
          /\ Go(s, "open") /\ UNCHANGED cmd
     ELSE Refuse(s) /\ UNCHANGED readers
  /\ UNCHANGED <<set, prepared, fieldVars, kick, reserved, slaveVars>>

\* UploadSlots or DownloadSlots, then MaxSim: STOR looks when it has its path,
\* RETR before.
CheckSlots(s) ==
  LET stor == cmd[s].verb = "STOR"
      free == /\ Free(IF stor THEN UploadSlots ELSE DownloadSlots, Doing(Direction(s)))
              /\ Free(MaxSim, Doing("upload") \cup Doing("download"))
  IN
  /\ at[s] = "slots"
  /\ \/ free /\ Go(s, IF stor THEN "open" ELSE "reserve") /\ UNCHANGED cmd
     \/ ~free /\ stor /\ Go(s, "leave") /\ UNCHANGED cmd
     \/ ~free /\ ~stor /\ Refuse(s)
  /\ UNCHANGED <<set, prepared, fieldVars, kick, pathVars, slaveVars>>

\* Mutant: releaseDownloadPath deletes the path's counter.
LeaveUncounted(s) ==
  LET p == cmd[s].path IN
  /\ at[s] = "leave"
  /\ Go(s, "idle")
  /\ cmd' = [cmd EXCEPT ![s] = NoCmd]
  /\ reserved' = IF cmd[s].verb = "STOR" THEN reserved \ {p} ELSE reserved
  /\ readers' = IF cmd[s].verb = "RETR" THEN [readers EXCEPT ![p] = 0] ELSE readers
  /\ UNCHANGED <<set, prepared, fieldVars, kick, slaveVars>>

\* The deferred release.
Leave(s) ==
  LET p == cmd[s].path IN
  /\ at[s] = "leave"
  /\ Go(s, "idle")
  /\ cmd' = [cmd EXCEPT ![s] = NoCmd]
  /\ reserved' = IF cmd[s].verb = "STOR" THEN reserved \ {p} ELSE reserved
  /\ readers' = IF cmd[s].verb = "RETR" THEN [readers EXCEPT ![p] = @ - 1] ELSE readers
  /\ UNCHANGED <<set, prepared, fieldVars, kick, slaveVars>>

(***************************************************************************)
(* The data channel and the transfer fields.                               *)
(***************************************************************************)

\* Mutant: Open waits for a channel that is no longer there.
OpenWaits(s) ==
  /\ at[s] = "open" /\ prepared[s]
  /\ prepared' = [prepared EXCEPT ![s] = FALSE]
  /\ Go(s, "begin")
  /\ UNCHANGED <<set, cmd, fieldVars, kick, pathVars, slaveVars>>

\* The address or slave of the prepared channel is taken, or the client's data
\* connection accepted; a kick may have cleared it, and the wait may fail (425).
Open(s) ==
  /\ at[s] = "open"
  /\ prepared' = [prepared EXCEPT ![s] = FALSE]
  /\ \/ prepared[s] /\ Go(s, "begin")
     \/ (set.mode = "bridged" \/ ~prepared[s]) /\ Go(s, "leave")
  /\ UNCHANGED <<set, cmd, fieldVars, kick, pathVars, slaveVars>>

\* beginTransfer: only a slave that already listens is known here.
Begin(s) ==
  /\ at[s] = "begin"
  /\ dir' = [dir EXCEPT ![s] = Direction(s)]
  /\ tied' = [tied EXCEPT ![s] = (set.mode = "pasv")]
  /\ gauge' = [gauge EXCEPT ![Direction(s)] = @ + 1]
  /\ Go(s, IF set.mode = "pasv" THEN "ask" ELSE "attach")
  /\ UNCHANGED <<set, cmd, prepared, kick, pathVars, slaveVars>>

\* trackTransferConn, or onTransferReady once the slave has connected.
Attach(s) ==
  /\ at[s] = "attach"
  /\ \/ /\ up \/ set.mode = "bridged"
        /\ tied' = [tied EXCEPT ![s] = TRUE]
        /\ Go(s, "ask")
        /\ UNCHANGED job
     \/ /\ set.mode = "port"
        /\ job' = [job EXCEPT ![s] = IF up THEN "failed" ELSE "lost"]
        /\ Go(s, "settle")
        /\ UNCHANGED tied
  /\ UNCHANGED <<set, cmd, prepared, dir, gauge, kick, pathVars, up, disk, index, late, tired>>

\* endTransfer: whoever comes first, the handler or a kick, takes the transfer
\* off the gauge.
EndTransfer(s) ==
  /\ dir' = [dir EXCEPT ![s] = ""]
  /\ tied' = [tied EXCEPT ![s] = FALSE]
  /\ gauge' = IF dir[s] = "" THEN gauge ELSE [gauge EXCEPT ![dir[s]] = @ - 1]

\* The transfer is over.  An upload that came through may still be rejected (it
\* is empty, or its checksum is not the one of the SFV) and is then deleted.
Settle(s) ==
  /\ at[s] = "settle"
  /\ EndTransfer(s)
  /\ job' = [job EXCEPT ![s] = "none"]
  /\ \/ Go(s, "leave")
     \/ cmd[s].verb = "STOR" /\ job[s] = "ok" /\ Go(s, "unlink")
  /\ UNCHANGED <<set, cmd, prepared, kick, pathVars, up, disk, index, late, tired>>

(***************************************************************************)
(* DisconnectActiveSession, in the goroutine of a plugin or of another     *)
(* session.                                                                *)
(***************************************************************************)

\* It looks at the transfer under the lock and aborts what is attached to it:
\* AbortTransfer needs the slave's link, closing a bridged connection does not.
KickLook(s) ==
  /\ "kick" \in set.may /\ at[s] # "out" /\ kick[s] = "no"
  /\ kick' = [kick EXCEPT ![s] = "looked"]
  /\ job' = IF /\ tied[s] /\ dir[s] # "" /\ job[s] \in {"none", "run"}
               /\ up \/ set.mode = "bridged"
            THEN [job EXCEPT ![s] = "abort"] ELSE job
  /\ UNCHANGED <<sessionVars, fieldVars, pathVars, up, disk, index, late, tired>>

\* Then it clears the prepared channel without a lock, ends the transfer and
\* closes the control connection.
KickClear(s) ==
  /\ kick[s] = "looked"
  /\ kick' = [kick EXCEPT ![s] = "closed"]
  /\ prepared' = [prepared EXCEPT ![s] = FALSE]
  /\ EndTransfer(s)
  /\ UNCHANGED <<set, at, cmd, pathVars, slaveVars>>

(***************************************************************************)
(* The transfer on the slave, and what the bridge makes of its outcome.    *)
(***************************************************************************)

\* The files when nobody waits for these sessions' transfers any more.
Orphaned(gone) ==
  [p \in Paths |->
     [disk[p] EXCEPT !.by =
        (@ \ gone) \cup {IF cmd[s].rest THEN Resumed ELSE Fresh : s \in @ \cap gone}]]

\* A fresh upload creates its file, O_EXCL; a resume and a download open one.
SlaveStart(s) ==
  LET p == cmd[s].path
      opens == disk[p].there = (cmd[s].verb = "RETR" \/ cmd[s].rest)
      writer == IF cmd[s].verb = "STOR" THEN {s} ELSE {}
  IN
  /\ at[s] = "ask"
  /\ Go(s, "wait")
  /\ \/ /\ up /\ opens /\ (job[s] = "none" \/ set.mode = "bridged")
        /\ job' = [job EXCEPT ![s] = IF @ = "abort" THEN @ ELSE "run"]
        /\ disk' = [disk EXCEPT ![p] = [there |-> TRUE, by |-> @.by \cup writer]]
     \/ /\ up /\ (~opens \/ (job[s] = "abort" /\ set.mode # "bridged"))
        /\ job' = [job EXCEPT ![s] = "failed"]
        /\ UNCHANGED disk
     \/ ~up /\ job' = [job EXCEPT ![s] = "lost"] /\ UNCHANGED disk
  /\ UNCHANGED <<set, cmd, prepared, fieldVars, kick, pathVars, up, index, late, tired>>

\* s no longer writes to any file, under whatever name it is now.
Written(s) == [p \in Paths |-> [disk[p] EXCEPT !.by = @ \ {s}]]

\* The sender closes the data connection, or the file is sent.  The connection
\* of a bridged upload that was cut is closed in the same way.
JobEnds(s) ==
  /\ at[s] = "wait"
  /\ \/ job[s] = "run" /\ job' = [job EXCEPT ![s] = "ok"]
     \/ /\ job[s] = "abort" /\ set.mode = "bridged" /\ cmd[s].verb = "STOR"
        /\ job' = [job EXCEPT ![s] = "failed"]
  /\ disk' = Written(s)
  /\ UNCHANGED <<sessionVars, fieldVars, kick, pathVars, up, index, late, tired>>

\* It is aborted, idle for too long or broken: cleanupFailedReceive removes
\* whatever has the name now, or cuts a resumed file back.
JobFails(s) ==
  LET p == cmd[s].path
      fresh == cmd[s].verb = "STOR" /\ ~cmd[s].rest
  IN
  /\ at[s] = "wait" /\ job[s] \in {"run", "abort"}
  /\ ~(job[s] = "abort" /\ set.mode = "bridged" /\ cmd[s].verb = "STOR")
  /\ job' = [job EXCEPT ![s] = "failed"]
  /\ disk' = IF fresh THEN [Written(s) EXCEPT ![p] = Gone] ELSE Written(s)
  /\ UNCHANGED <<sessionVars, fieldVars, kick, pathVars, up, index, late, tired>>

\* The master's own timers, with the link up: the RECEIVE or SEND is not
\* acknowledged within 60 s, or the transfer not over within two hours.  The
\* handler goes on as after a failure; the slave goes on with the transfer, or
\* begins it yet.
GiveUp(s) ==
  LET stor == cmd[s].verb = "STOR" IN
  /\ "timeout" \in set.may /\ up
  /\ job' = [job EXCEPT ![s] = "lost"]
  /\ Go(s, "wait")
  /\ \/ /\ at[s] = "wait" /\ job[s] \in {"run", "abort"}
        /\ disk' = Orphaned({s})
        /\ UNCHANGED late
     \/ /\ at[s] = "ask"
        /\ late' = IF stor THEN late \cup {[path |-> cmd[s].path, rest |-> cmd[s].rest]}
                   ELSE late
        /\ UNCHANGED disk
  /\ tired' = IF stor THEN tired \cup {cmd[s].path} ELSE tired
  /\ UNCHANGED <<set, cmd, prepared, fieldVars, kick, pathVars, up, index>>

\* Mutant: an upload is indexed whatever its status says.
ReturnBlind(s) ==
  /\ at[s] = "wait" /\ job[s] \in {"ok", "failed", "lost"}
  /\ Go(s, IF cmd[s].verb = "STOR" THEN "index" ELSE "settle")
  /\ UNCHANGED <<set, cmd, prepared, fieldVars, kick, pathVars, slaveVars>>

\* The status arrives.  After a failure the slave is asked whether the file is there; that
\* it says no arrives as an error (FetchResponse), and the index stays as it is.
Return(s) ==
  /\ at[s] = "wait" /\ job[s] \in {"ok", "failed", "lost"}
  /\ Go(s, IF job[s] = "ok" /\ cmd[s].verb = "STOR" THEN "index" ELSE "settle")
  /\ UNCHANGED <<set, cmd, prepared, fieldVars, kick, pathVars, slaveVars>>

Index(s) ==             \* AddFile
  /\ at[s] = "index"
  /\ index' = index \cup {cmd[s].path}
  /\ Go(s, "settle")
  /\ UNCHANGED <<set, cmd, prepared, fieldVars, kick, pathVars, job, up, disk, late, tired>>

(***************************************************************************)
(* SlaveManager.DeleteFile and RenameFile: the slave first, then the index.*)
(***************************************************************************)

Unlink(s) ==
  LET p == cmd[s].path IN
  /\ at[s] = "unlink"
  /\ \/ up /\ p \in index /\ disk' = [disk EXCEPT ![p] = Gone] /\ Go(s, "unindex")
     \/ ~(up /\ p \in index) /\ Go(s, "leave") /\ UNCHANGED disk
  /\ UNCHANGED <<set, cmd, prepared, fieldVars, kick, pathVars, job, up, index, late, tired>>

Unindex(s) ==
  /\ at[s] = "unindex"
  /\ index' = index \ {cmd[s].path}
  /\ Go(s, "leave")
  /\ UNCHANGED <<set, cmd, prepared, fieldVars, kick, pathVars, job, up, disk, late, tired>>

\* os.Rename replaces what has the new name.
Move(s) ==
  LET p == cmd[s].path
      q == cmd[s].to
      found == up /\ p \in index /\ disk[p].there
  IN
  /\ at[s] = "move"
  /\ \/ found /\ disk' = [disk EXCEPT ![p] = Gone, ![q] = disk[p]] /\ Go(s, "reindex")
     \/ ~found /\ Go(s, "leave") /\ UNCHANGED disk
  /\ UNCHANGED <<set, cmd, prepared, fieldVars, kick, pathVars, job, up, index, late, tired>>

Reindex(s) ==
  LET p == cmd[s].path
      q == cmd[s].to
  IN
  /\ at[s] = "reindex"
  /\ index' = IF p \in index THEN (index \ {p}) \cup {q} ELSE index
  /\ Go(s, "leave")
  /\ UNCHANGED <<set, cmd, prepared, fieldVars, kick, pathVars, job, up, disk, late, tired>>

(***************************************************************************)
(* The slave's link.                                                       *)
(***************************************************************************)

\* Whoever waits for the slave fails; the slave's transfers go on by themselves.
LinkDrops ==
  LET waiting == {s \in Sessions : at[s] = "wait" /\ job[s] \in {"run", "abort"}} IN
  /\ "drop" \in set.may /\ up
  /\ up' = FALSE
  /\ job' = [s \in Sessions |-> IF s \in waiting THEN "lost" ELSE job[s]]
  /\ disk' = Orphaned(waiting)
  /\ index' = {}
  /\ UNCHANGED <<sessionVars, fieldVars, kick, pathVars, late, tired>>

\* It is back, and a remerge has indexed what it found on the disk.
LinkReturns ==
  /\ ~up /\ up' = TRUE
  /\ index' = {p \in Paths : disk[p].there}
  /\ UNCHANGED <<sessionVars, fieldVars, kick, pathVars, job, disk, late, tired>>

\* The slave begins a RECEIVE whose caller has given up, if it still can.
LateStart(c) ==
  LET opens == disk[c.path].there = c.rest IN
  /\ c \in late /\ late' = late \ {c}
  /\ disk' = IF opens
             THEN [disk EXCEPT ![c.path] = [there |-> TRUE,
                                            by |-> @.by \cup {IF c.rest THEN Resumed ELSE Fresh}]]
             ELSE disk
  /\ UNCHANGED <<sessionVars, fieldVars, kick, pathVars, job, up, index, tired>>

\* An upload that nobody waits for ends, or fails: one that made its file removes
\* what has the name now, one that resumed it cuts it back.
OrphanEnds(p, o) ==
  /\ o \in disk[p].by
  /\ \/ disk' = [disk EXCEPT ![p].by = @ \ {o}]
     \/ o = Fresh /\ disk' = [disk EXCEPT ![p] = Gone]
  /\ UNCHANGED <<sessionVars, fieldVars, kick, pathVars, job, up, index, late, tired>>

----------------------------------------------------------------------------

Handler(s) ==
  \/ Admit(s) \/ ReserveUpload(s) \/ ReserveDownload(s) \/ CheckSlots(s) \/ Leave(s)
  \/ Open(s) \/ Begin(s) \/ Attach(s) \/ Settle(s)
  \/ Return(s) \/ Index(s) \/ Unlink(s) \/ Unindex(s) \/ Move(s) \/ Reindex(s)

Slave(s) == SlaveStart(s) \/ JobEnds(s) \/ JobFails(s)

Client(s) ==
  \/ CheckLogin(s) \/ Disconnect(s)
  \/ \E p \in Paths :
       \/ \E rest \in BOOLEAN : Stor(s, p, rest)
       \/ Retr(s, p) \/ Dele(s, p)
       \/ \E q \in Paths : Rnto(s, p, q)

Next ==
  \/ \E s \in Sessions : Handler(s) \/ Slave(s) \/ Client(s) \/ KickLook(s) \/ KickClear(s)
                        \/ GiveUp(s)
  \/ LinkDrops \/ LinkReturns
  \/ \E c \in late : LateStart(c)
  \/ \E p \in Paths, o \in Orphans : OrphanEnds(p, o)

Spec == Init /\ [][Next]_vars

\* Goroutines run; data connections have deadlines and transfers idle limits.
FairSpec ==
  /\ Spec
  /\ \A s \in Sessions : WF_vars(Handler(s)) /\ WF_vars(Slave(s))

----------------------------------------------------------------------------
(***************************************************************************)
(* Properties.                                                             *)
(***************************************************************************)

\* The handlers between their reservation and its deferred release.
Holding(verb) ==
  {s \in Sessions : /\ cmd[s].verb = verb
                    /\ at[s] \notin {"out", "admit", "idle", "reserve"}
                    /\ verb = "STOR" \/ at[s] # "slots"}

\* commands.go:2044 "No Permission To Download A File Currently Being Uploaded":
\* from its reservation to its release, an upload has its path to itself,
\* whatever kicks, deletes, renames, lost links and time-outs do in between.  On
\* the slave, as long as nobody renames, what a RETR sends is not being written to
\* but by an upload whose handler has stopped waiting for the slave (1609: its
\* path is released then, whatever the slave goes on doing).
UploadsApart ==
  /\ \A s \in Holding("STOR"), t \in Holding("STOR") \cup Holding("RETR") :
       s # t => cmd[s].path # cmd[t].path
  /\ "rename" \notin set.may =>
       \A s \in Sessions :
         cmd[s].verb = "RETR" /\ job[s] = "run" => disk[cmd[s].path].by \subseteq Orphans

\* session_bandwidth.go:81 "so the gauge and latency aren't double-counted", and
\* the deferred releases: reservations and the gauge are exactly those of the
\* handlers that are at work, however often a kick has been there before them.
BooksBalance ==
  /\ reserved = {cmd[s].path : s \in Holding("STOR")}
  /\ \A p \in Paths : readers[p] = Cardinality({s \in Holding("RETR") : cmd[s].path = p})
  /\ \A d \in {"upload", "download"} :
       gauge[d] = Cardinality({s \in Sessions : dir[s] = d})

\* RETR serves what is in the index: without deletes, renames and lost links
\* behind an upload's back, an indexed file nobody holds is on the disk, and
\* complete.  README.md:778 "partial uploads are cleaned up on the slave side
\* instead of being left behind as junk": with a direct data channel, every file
\* on the disk that no session is at work on is in the index, too.  Neither is
\* said of a path where the master has stopped waiting for an upload: the slave
\* goes on writing there, and may remove by its name what others put there.
IndexedIsComplete ==
  set.may \subseteq {"kick", "timeout"} =>
    \A p \in Paths \ (reserved \cup tired) :
      /\ p \in index => disk[p].there /\ disk[p].by = {}
      /\ set.mode # "bridged" /\ disk[p].there => p \in index

\* Every command returns to the session's command loop, kicked or not.
CommandsReturn ==
  \A s \in Sessions : at[s] # "out" ~> at[s] \in {"idle", "out"}
=============================================================================

--------------------------- MODULE SlaveTransfer ---------------------------
(***************************************************************************)
(* The transfers of one path on one slave: set up by LISTEN or CONNECT,    *)
(* claimed by RECEIVE or SEND, aborted by a command and reaped by a timer  *)
(* that each run in a goroutine of their own, downloads that follow an     *)
(* upload of the same file, and transfers that go on when the link to the  *)
(* master is lost or their caller has waited for too long.                 *)
(*                                                                         *)
(* Files are inodes, as an open file outlives its name.  An upload's new   *)
(* inode bears the upload's own name.  How commands are delivered is in    *)
(* SlaveLink, how the final status reaches its waiter in TransferWait, and *)
(* who may transfer what in FtpTransfer.                                   *)
(***************************************************************************)
EXTENDS Naturals, FiniteSets

CONSTANTS
  Uploads, Downloads,
  MaxAborts,    \* bound: transfers that a kick aborts
  Old, Nil,    \* the inode that is there to begin with; no inode, no transfer
  Settings      \* the settings that a run starts from

AllTransfers == Uploads \cup Downloads
Inodes == Uploads \cup {Old}

\* Who takes part, what may happen, and a bound: the chunks of a file.
Setting == [who : SUBSET AllTransfers, may : SUBSET {"abort", "reap", "drop", "timeout"}, chunks : Nat \ {0}]

ASSUME SlaveTransferAssumption ==
  /\ IsFiniteSet(AllTransfers) /\ Uploads \cap Downloads = {}
  /\ {Old, Nil} \cap AllTransfers = {} /\ Old # Nil
  /\ MaxAborts \in Nat
  /\ \A s \in Settings : s \in Setting

VARIABLES
  set,        \* the setting, fixed from the start
  phase,      \* where each transfer's goroutine on the slave is
  listed,     \* transfers in Slave.transfers
  aborted,    \* transfers with an abortReason
  killer,     \* its ABORT command: not sent, sent, flagged, through
  reaper,     \* transfers whose reaper has found them unclaimed
  pos, off,   \* where it starts in the file and how far it is
  inode,      \* the open file
  assoc,      \* the upload a download follows
  reg,        \* uploadByPath
  status,     \* what ReceiveFile or SendFile returns
  name, size, \* the inode at the path, and the sizes of all
  known,      \* the largest size of the path in the master's index, or on its way there
  link, own,  \* the connection; transfers that were asked for on the present one
  waiter,     \* the goroutine on the master
  forsaken,   \* history: transfers whose caller has given up
  kept        \* history: what each upload has written and no failed resume has cut

diskVars == <<name, size, kept>>
ownVars == <<pos, off, inode, assoc>>
killVars == <<aborted, killer, reaper>>
onSlaveVars == <<phase, listed, ownVars, reg, status, diskVars>>
masterVars == <<link, own, waiter, known, forsaken>>
aroundVars == <<set, killVars, masterVars>>
transferVars == <<set, phase, listed, aborted, killer, reaper, pos, off, inode, assoc, reg, status,
          name, size, known, link, own, waiter, forsaken, kept>>

Early == {"setup", "taken", "accept", "open", "opened"}
Phases == Early \cup {"none", "find", "run", "eof", "forget", "skip", "ending", "report", "over"}

TransferTypeOK ==
  /\ set \in Settings
  /\ phase \in [AllTransfers -> Phases]
  /\ listed \subseteq AllTransfers /\ aborted \subseteq AllTransfers /\ reaper \subseteq AllTransfers
  /\ killer \in [AllTransfers -> {"no", "sent", "flagged", "through"}]
  /\ pos \in [AllTransfers -> 0..set.chunks] /\ off \in [AllTransfers -> 0..set.chunks]
  /\ inode \in [AllTransfers -> Inodes \cup {Nil}]
  /\ assoc \in [Downloads -> Uploads \cup {Nil}]
  /\ reg \in Uploads \cup {Nil}
  /\ status \in [AllTransfers -> {"", "ok", "error"}]
  /\ name \in Inodes \cup {Nil}
  /\ size \in [Inodes -> 0..set.chunks]
  /\ link \in BOOLEAN
  /\ own \subseteq AllTransfers
  /\ waiter \in [AllTransfers -> {"no", "setup", "asked", "wait", "ok", "error"}]
  /\ known \in 0..set.chunks /\ forsaken \subseteq AllTransfers
  /\ kept \in [Uploads -> 0..set.chunks]

TransferInit ==
  /\ set \in Settings
  /\ phase = [t \in AllTransfers |-> "none"]
  /\ listed = {} /\ aborted = {} /\ reaper = {}
  /\ killer = [t \in AllTransfers |-> "no"]
  /\ pos = [t \in AllTransfers |-> 0] /\ off = [t \in AllTransfers |-> 0]
  /\ inode = [t \in AllTransfers |-> Nil]
  /\ assoc = [d \in Downloads |-> Nil]
  /\ reg = Nil
  /\ status = [t \in AllTransfers |-> ""]
  /\ name \in {Nil, Old}
  /\ size = [i \in Inodes |-> IF i = Old THEN 1 ELSE 0]
  /\ link = TRUE /\ own = {}
  /\ waiter = [t \in AllTransfers |-> "no"]
  /\ known = (IF name = Old THEN 1 ELSE 0) /\ forsaken = {}
  /\ kept = [u \in Uploads |-> 0]

Goes(t, p) == phase' = [phase EXCEPT ![t] = p]
Calls(t, c) == waiter' = [waiter EXCEPT ![t] = c]

(***************************************************************************)
(* The callers.  FtpTransfer keeps the uploads of a path apart as long as  *)
(* their callers are at work.                                              *)
(***************************************************************************)

AtWork(t) == waiter[t] \in {"asked", "wait"}

\* RECEIVE or SEND, for a transfer that is set up, be it on an earlier
\* connection.  An upload may be resumed anywhere up to the size STOR has found
\* in the index, before it reserved the path (GetFileSize): neither a resume that
\* failed nor a lost link tells the index how long the file is now.
Ask(t, at) ==
  /\ waiter[t] = "setup" /\ link
  /\ t \in Uploads => \A u \in Uploads : ~AtWork(u)
  /\ at > 0 => t \in Uploads /\ at <= known
  /\ pos' = [pos EXCEPT ![t] = at]
  /\ own' = own \cup {t}
  /\ Calls(t, "asked")
  /\ UNCHANGED <<set, phase, listed, killVars, off, inode, assoc, reg, status, diskVars, link, known, forsaken>>

\* onReady has told the session where its transfer is: a kick sends ABORT.
Abort(t) ==
  /\ "abort" \in set.may /\ killer[t] = "no" /\ t \in own
  /\ Cardinality({u \in AllTransfers : killer[u] # "no"}) < MaxAborts
  /\ waiter[t] \in {"asked", "wait"}
  /\ killer' = [killer EXCEPT ![t] = "sent"]
  /\ UNCHANGED <<set, onSlaveVars, aborted, reaper, masterVars>>

\* FetchResponse or WaitTransferStatus fails: the link is lost, or the ack has
\* not come for 60 s or the status for two hours.  The slave is not told.
GivesUp(t) ==
  /\ AtWork(t) /\ (t \notin own \/ "timeout" \in set.may)
  /\ Calls(t, "error")
  /\ forsaken' = forsaken \cup {t}
  /\ UNCHANGED <<set, onSlaveVars, killVars, link, own, known>>

Drop ==                 \* what is on the slave goes on
  /\ "drop" \in set.may /\ link
  /\ link' = FALSE /\ own' = {}
  /\ UNCHANGED <<set, onSlaveVars, killVars, waiter, known, forsaken>>

Larger(m, n) == IF m < n THEN n ELSE m

Reconnect ==            \* the remerge indexes what it finds
  /\ ~link
  /\ link' = TRUE
  /\ known' = IF name = Nil THEN known ELSE Larger(known, size[name])
  /\ UNCHANGED <<set, onSlaveVars, killVars, own, waiter, forsaken>>

(***************************************************************************)
(* The slave: set-up, claim, data channel.                                 *)
(***************************************************************************)

Listen(t) ==            \* handleListen, handleConnect, for PASV or PORT
  /\ waiter[t] = "no" /\ link /\ t \in set.who
  /\ Goes(t, "setup")
  /\ listed' = listed \cup {t}
  /\ Calls(t, "setup")
  /\ UNCHANGED <<set, ownVars, reg, status, diskVars, killVars, link, own, known, forsaken>>

Hears(t, answer) == IF AtWork(t) THEN Calls(t, answer) ELSE UNCHANGED waiter

\* handleReceive, handleSend: found and acknowledged, WaitTransferStatus begins;
\* or not found, which is an error for the waiter.  Nobody may wait any more.
Take(t) ==
  /\ waiter[t] # "setup" /\ phase[t] = "setup" /\ t \in own
  /\ IF t \in listed THEN Goes(t, "taken") /\ Hears(t, "wait")
                     ELSE Goes(t, "over") /\ Hears(t, "error")
  /\ UNCHANGED <<set, listed, ownVars, reg, status, diskVars, killVars, link, own, known, forsaken>>

Claim(t) ==             \* claimed = true
  /\ phase[t] = "taken"
  /\ Goes(t, "accept")
  /\ UNCHANGED <<listed, ownVars, reg, status, diskVars, aroundVars>>

\* acceptPassiveConn.  An abort closes the listener, but not a connection that
\* has just been accepted or is still being dialled.
Connected(t) ==
  /\ phase[t] = "accept"
  /\ Goes(t, "open")
  /\ UNCHANGED <<listed, ownVars, reg, status, diskVars, aroundVars>>

Ends(t, s) == Goes(t, "ending") /\ status' = [status EXCEPT ![t] = s]

NotConnected(t) ==
  /\ phase[t] = "accept"
  /\ Ends(t, "error")
  /\ UNCHANGED <<listed, ownVars, reg, diskVars, aroundVars>>

\* The deferred calls at the end: unregisterUpload, finished, removeTransfer.
Close(t) ==
  /\ phase[t] = "ending"
  /\ Goes(t, "report")
  /\ listed' = listed \ {t}
  /\ reg' = IF reg = t THEN Nil ELSE reg
  /\ UNCHANGED <<ownVars, status, diskVars, aroundVars>>

\* The handler's goroutine writes the status.  A RemoteSlave of a later
\* connection has no waiter for it.
Report(t) ==
  /\ phase[t] = "report"
  /\ Goes(t, "over")
  /\ IF t \in own THEN Hears(t, status[t]) ELSE UNCHANGED waiter
  /\ UNCHANGED <<set, listed, ownVars, reg, status, diskVars, killVars, link, own, known, forsaken>>

(***************************************************************************)
(* ReceiveFile.                                                            *)
(***************************************************************************)

OpenTo(u, i) == inode' = [inode EXCEPT ![u] = i] /\ off' = [off EXCEPT ![u] = pos[u]]

\* Mutant: O_TRUNC in the place of O_EXCL.
OpenUploadTruncates(u) ==
  /\ phase[u] = "open" /\ u \in Uploads
  /\ \/ /\ name # Nil \/ pos[u] = 0
        /\ LET i == IF name = Nil THEN u ELSE name IN
           /\ OpenTo(u, i)
           /\ name' = i
           /\ size' = [size EXCEPT ![i] = IF pos[u] = 0 THEN 0 ELSE @]
        /\ Goes(u, "opened")
        /\ UNCHANGED <<kept, status>>
     \/ /\ pos[u] > 0 /\ name = Nil
        /\ Ends(u, "error")
        /\ UNCHANGED <<inode, off, diskVars>>
  /\ UNCHANGED <<listed, pos, assoc, reg, aroundVars>>

\* A fresh upload makes the file (Stat, O_EXCL), a resumed one opens it.
OpenUpload(u) ==
  /\ phase[u] = "open" /\ u \in Uploads
  /\ \/ /\ pos[u] = 0 /\ name = Nil
        /\ OpenTo(u, u)
        /\ name' = u /\ size' = [size EXCEPT ![u] = 0]
        /\ Goes(u, "opened")
        /\ UNCHANGED <<kept, status>>
     \/ /\ pos[u] > 0 /\ name # Nil
        /\ OpenTo(u, name)
        /\ Goes(u, "opened")
        /\ UNCHANGED <<diskVars, status>>
     \/ /\ (pos[u] > 0) = (name = Nil)
        /\ Ends(u, "error")
        /\ UNCHANGED <<inode, off, diskVars>>
  /\ UNCHANGED <<listed, pos, assoc, reg, aroundVars>>

Register(u) ==          \* the peer is the expected one: registerUpload
  /\ phase[u] = "opened"
  /\ reg' = u
  /\ Goes(u, "run")
  /\ UNCHANGED <<listed, ownVars, status, diskVars, aroundVars>>

\* A turn of the loop with a chunk, once it is on the disk.
Receive(u) ==
  /\ phase[u] = "run" /\ u \in Uploads /\ u \notin aborted
  /\ off[u] < set.chunks
  /\ off' = [off EXCEPT ![u] = @ + 1]
  /\ size' = [size EXCEPT ![inode[u]] = Larger(@, off[u] + 1)]
  /\ kept' = [kept EXCEPT ![u] = off[u] + 1]
  /\ UNCHANGED <<phase, listed, pos, inode, assoc, reg, status, name, aroundVars>>

\* EOF; an abort sets its reason before it closes.  The status carries the size
\* of the file, which its waiter puts into the index.
Received(u) ==
  /\ phase[u] = "run" /\ u \in Uploads /\ u \notin aborted
  /\ Ends(u, "ok")
  /\ known' = IF u \in own /\ AtWork(u) THEN Larger(known, size[inode[u]]) ELSE known
  /\ UNCHANGED <<set, listed, ownVars, reg, diskVars, killVars, link, own, waiter, forsaken>>

\* Another peer, an abort, a broken read or write, 30 s without data; and
\* cleanupFailedReceive, which removes what has the name.
ReceiveFails(u) ==
  /\ phase[u] \in {"opened", "run"} /\ u \in Uploads
  /\ Ends(u, "error")
  /\ IF pos[u] = 0
     THEN name' = Nil /\ UNCHANGED <<size, kept>>
     ELSE /\ size' = [size EXCEPT ![inode[u]] = pos[u]]
          /\ kept' = [v \in Uploads |-> IF inode[v] = inode[u] /\ pos[u] < kept[v]
                                        THEN pos[u] ELSE kept[v]]
          /\ UNCHANGED name
  /\ UNCHANGED <<listed, ownVars, reg, aroundVars>>

(***************************************************************************)
(* SendFile, which follows a live upload of the file.                      *)
(***************************************************************************)

IsFinished(u) == u \in aborted \/ phase[u] \in {"report", "over"}
Live(u) == u # Nil /\ ~IsFinished(u)

OpenDownload(d) ==
  /\ phase[d] = "open" /\ d \in Downloads
  /\ IF name # Nil
     THEN OpenTo(d, name) /\ Goes(d, "find") /\ UNCHANGED status
     ELSE Ends(d, "error") /\ UNCHANGED <<inode, off>>
  /\ UNCHANGED <<listed, pos, assoc, reg, diskVars, aroundVars>>

Send(d) ==
  /\ phase[d] = "run" /\ d \in Downloads /\ d \notin aborted
  /\ off[d] < size[inode[d]]
  /\ off' = [off EXCEPT ![d] = @ + 1]
  /\ UNCHANGED <<phase, listed, pos, inode, assoc, reg, status, diskVars, aroundVars>>

AtEof(d) ==
  /\ phase[d] = "run" /\ d \in Downloads /\ d \notin aborted
  /\ off[d] >= size[inode[d]]
  /\ Goes(d, "eof")
  /\ UNCHANGED <<listed, ownVars, reg, status, diskVars, aroundVars>>

Stops(d) ==             \* no upload is found: on with the first read, or the end
  \/ phase[d] \in {"find", "forget"} /\ Goes(d, "run") /\ UNCHANGED status
  \/ phase[d] \in {"eof", "skip"} /\ Ends(d, "ok")

\* findAssociatedUpload before the loop, and again at the end of the file
\* unless the upload found before still lives.  A finished one counts as none,
\* and its entry is to be forgotten first.
Find(d) ==
  /\ phase[d] \in {"find", "eof"}
  /\ \/ /\ phase[d] = "eof" /\ Live(assoc[d])
        /\ Goes(d, "run")
        /\ UNCHANGED <<assoc, status>>
     \/ /\ ~(phase[d] = "eof" /\ Live(assoc[d])) /\ Live(reg)
        /\ assoc' = [assoc EXCEPT ![d] = reg]
        /\ Goes(d, "run")
        /\ UNCHANGED status
     \/ /\ ~(phase[d] = "eof" /\ Live(assoc[d])) /\ reg # Nil /\ ~Live(reg)
        /\ assoc' = [assoc EXCEPT ![d] = reg]
        /\ Goes(d, IF phase[d] = "find" THEN "forget" ELSE "skip")
        /\ UNCHANGED status
     \/ /\ ~(phase[d] = "eof" /\ Live(assoc[d])) /\ reg = Nil
        /\ Stops(d)
        /\ UNCHANGED assoc
  /\ UNCHANGED <<listed, pos, off, inode, reg, diskVars, aroundVars>>

\* Mutant: the entry is deleted, whosever it is by now.
ForgetAny(d) ==
  /\ phase[d] \in {"forget", "skip"}
  /\ reg' = Nil
  /\ Stops(d)
  /\ UNCHANGED <<listed, ownVars, diskVars, aroundVars>>

\* A finished upload was found: unregisterUpload, if it is still the entry.
Forget(d) ==
  /\ phase[d] \in {"forget", "skip"}
  /\ reg' = IF reg = assoc[d] THEN Nil ELSE reg
  /\ Stops(d)
  /\ UNCHANGED <<listed, ownVars, diskVars, aroundVars>>

\* Another peer, an abort, a write that breaks or blocks for 60 s, 20 s without
\* news of the upload it follows.
SendFails(d) ==
  /\ phase[d] \in {"open", "run"} /\ d \in Downloads
  /\ Ends(d, "error")
  /\ UNCHANGED <<listed, ownVars, reg, diskVars, aroundVars>>

(***************************************************************************)
(* ABORT and the reaper of what was never claimed.                         *)
(***************************************************************************)

Claimed(t) == phase[t] \notin {"none", "setup", "taken"}
aborting == <<set, phase, ownVars, reg, status, diskVars, masterVars>>

AbortFlags(t) ==        \* Transfer.Abort, of a transfer that is listed
  /\ killer[t] = "sent"
  /\ killer' = [killer EXCEPT ![t] = IF t \in listed THEN "flagged" ELSE "through"]
  /\ aborted' = IF t \in listed THEN aborted \cup {t} ELSE aborted
  /\ UNCHANGED <<aborting, listed, reaper>>

AbortTidies(t) ==       \* nobody else would drop it, unless it is claimed by now
  /\ killer[t] = "flagged"
  /\ killer' = [killer EXCEPT ![t] = "through"]
  /\ listed' = IF Claimed(t) THEN listed ELSE listed \ {t}
  /\ UNCHANGED <<aborting, aborted, reaper>>

ReapLooks(t) ==         \* two minutes after the set-up
  /\ "reap" \in set.may /\ t \in listed \ reaper /\ ~Claimed(t)
  /\ reaper' = reaper \cup {t}
  /\ UNCHANGED <<aborting, aborted, killer, listed>>

\* Mutant: it is aborted but stays in the map.
ReapAbortsOnly(t) ==
  /\ t \in reaper
  /\ reaper' = reaper \ {t}
  /\ aborted' = aborted \cup {t}
  /\ UNCHANGED <<aborting, killer, listed>>

Reap(t) ==
  /\ t \in reaper
  /\ reaper' = reaper \ {t}
  /\ aborted' = aborted \cup {t}
  /\ listed' = listed \ {t}
  /\ UNCHANGED <<aborting, killer>>

(***************************************************************************)
(* The specification.                                                      *)
(***************************************************************************)

\* What the slave does by itself, be it after a time-out; and what a client does.
SlaveStep(t) ==
  \/ Claim(t) \/ NotConnected(t) \/ Close(t) \/ Report(t)
  \/ OpenUpload(t) \/ Register(t) \/ ReceiveFails(t)
  \/ OpenDownload(t) \/ Find(t) \/ AtEof(t) \/ Forget(t) \/ SendFails(t)

ClientStep(t) == Connected(t) \/ Receive(t) \/ Received(t) \/ Send(t)

KillStep(t) == AbortFlags(t) \/ AbortTidies(t) \/ ReapLooks(t) \/ Reap(t)

CallStep(t) == Take(t) \/ GivesUp(t)

TransferNext ==
  \/ \E t \in AllTransfers :
       \/ \E at \in 0..set.chunks : Ask(t, at)
       \/ Listen(t) \/ CallStep(t) \/ Abort(t) \/ SlaveStep(t) \/ ClientStep(t) \/ KillStep(t)
  \/ Drop \/ Reconnect

TransferSpec == TransferInit /\ [][TransferNext]_transferVars

\* Goroutines run; timers fire: of the set-up, of an idle upload, of a blocked
\* download, of the reaper.  Clients owe nothing.
TransferFairSpec ==
  /\ TransferSpec
  /\ \A t \in AllTransfers :
       /\ WF_transferVars(CallStep(t)) /\ WF_transferVars(SlaveStep(t))
       /\ WF_transferVars(AbortFlags(t) \/ AbortTidies(t)) /\ WF_transferVars(ReapLooks(t) \/ Reap(t))

(***************************************************************************)
(* Properties.                                                             *)
(***************************************************************************)

\* The file was made by an upload that nobody waited for any more, and which has
\* failed and removed it since (cleanupFailedReceive).
Wiped(u) == inode[u] \in forsaken /\ status[inode[u]] = "error"

\* What a waiter was told is stored is in the file of that name, however later
\* transfers of the path are refused, fail or are aborted, and whether or not
\* callers have given up and links are lost: all that the upload has written, but
\* for what a resume from before its end has cut off when it failed, unless the
\* file was made by an upload whose caller had given up and failed after all.
\* Nothing else stays: a fresh upload that failed has left no file, and between
\* uploads the file is as long as one that was stored has made it, or ends where
\* a resume that failed has cut it.  The exceptions: README, Known departures.
StoredStays ==
  /\ \A u \in Uploads : waiter[u] = "ok" => (name = inode[u] /\ size[name] >= kept[u]) \/ Wiped(u)
  /\ \A u \in Uploads : status[u] = "error" => name # u
  /\ name # Nil /\ (\A u \in Uploads : phase[u] \notin {"opened", "run"})
       => \/ name = Old /\ size[name] = 1
          \/ \E u \in Uploads :
               /\ inode[u] = name
               /\ \/ status[u] = "ok" /\ size[name] = off[u]
                  \/ status[u] = "error" /\ pos[u] > 0 /\ size[name] = pos[u]

\* A download that reads to the end of its file does not stop there while an
\* upload of the path is being received, be it the first or a later one
\* (SendFile's second findAssociatedUpload, unregisterUpload's CompareAndDelete),
\* unless an upload goes on without its caller: then two may share the entry of
\* uploadByPath.
FollowsLiveUpload ==
  [][\A d \in Downloads :
       Uploads \cap forsaken = {} /\ phase[d] = "eof" /\ phase'[d] = "ending" =>
         \A u \in Uploads : phase[u] = "run" => u \in aborted]_transferVars

\* Every waiter gets an answer, and its transfer ends though nobody waits for it
\* any more: the time-outs of the data channel, of an idle upload and of a
\* follower without news.  Whatever is set up leaves Slave.transfers
\* (removeTransfer, handleAbort, reapUnclaimedTransfer), whether it is claimed,
\* aborted, reaped or orphaned.
TransfersEnd ==
  \A t \in AllTransfers :
    /\ AtWork(t) ~> ~AtWork(t)
    /\ phase[t] \notin {"none", "setup"} ~> phase[t] = "over"
    /\ t \in listed ~> t \notin listed
=============================================================================

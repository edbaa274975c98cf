------------------------ MODULE SlaveTransferProofs ------------------------
(***************************************************************************)
(* For any number of transfers of a path, of any file size, aborted,       *)
(* reaped, resumed and refused in any order, given up by their callers and *)
(* on links that are lost: what a waiter was told is stored stays in the   *)
(* file, but for what a failed resume cuts and for the file of an upload   *)
(* that went on without its caller; and a download does not end before an  *)
(* upload that is being received.  The argument keeps apart what is true   *)
(* of a transfer by itself (Matched), of callers (Callers) and of the file *)
(* (Files); only Entered needs that no upload goes on without its caller.  *)
(*                                                                         *)
(* And where the callers of transfers wait on the master, for any number   *)
(* of them: TransferWait is well typed, a sleeping caller's status has     *)
(* woken it or is about to, and what a caller is given is what             *)
(* TransferResult promises.                                                *)
(*                                                                         *)
(* And on the session, where the third part has its own comment: how the   *)
(* data channel of a transfer is set up.                                   *)
(***************************************************************************)
EXTENDS SlaveTransfer, TransferWait, DataSetup, TLAPS

\* Where a transfer is on the slave when its caller is at work, or has given up.
Engaged == Phases \ {"none", "setup", "over"}
Holds(u) == phase[u] \in {"opened", "run"}
Fresh(u) == Holds(u) /\ pos[u] = 0

\* The goroutine on the slave, its caller on the master, and its open file.
MatchedAt(t) ==
    /\ waiter[t] = "no" => phase[t] = "none"
    /\ waiter[t] \in {"setup", "asked"} => phase[t] = "setup"
    /\ phase[t] \notin {"ending", "report", "over"} => status[t] = ""
    /\ phase[t] \in {"ending", "report"} => status[t] # ""
    /\ waiter[t] = "ok" => status[t] = "ok"
    /\ phase[t] \in {"none", "setup", "taken", "accept", "open"} => inode[t] = Nil
    /\ phase[t] \in {"opened", "run", "find", "eof", "forget", "skip"} => inode[t] # Nil
    /\ status[t] = "ok" => inode[t] # Nil
    /\ phase[t] = "opened" => t \in Uploads
    /\ phase[t] \in {"find", "eof", "forget", "skip"} => t \in Downloads
Matched == \A t \in AllTransfers : MatchedAt(t)

\* A caller that has not given up waits as long as its transfer is on the slave;
\* and the uploads of the path have one caller at a time.
CallerAt(t) ==
  IF t \in forsaken THEN waiter[t] = "error"
  ELSE /\ phase[t] = "setup" => waiter[t] \in {"setup", "asked"}
       /\ phase[t] \in Engaged => waiter[t] = "wait"
Callers ==
  /\ \A t \in AllTransfers : CallerAt(t)
  /\ \A u, v \in Uploads : AtWork(u) /\ AtWork(v) => u = v

\* The inode that an upload has made, which is fresh, is open to others only after it.
MadeByOwner ==
  /\ \A u \in Uploads : name = u => pos[u] = 0 /\ inode[u] = u /\ status[u] # "error"
  /\ \A u, v \in Uploads : inode[u] = v => inode[v] = v
  /\ \A u \in Uploads : Fresh(u) => name = u /\ inode[u] = u

\* Without giving up, nobody has opened the file of a fresh upload that is received.
Alone == \A u, v \in Uploads \ forsaken : Fresh(v) /\ inode[u] = v => u = v

\* An open file has the name, and so has one that is stored.
Named ==
  \A u \in Uploads \ forsaken :
    inode[u] # Nil /\ status[u] # "error" => name = inode[u] \/ Wiped(u)

\* What an upload has written, and no failed resume has cut, is there.
KeptIsThere == \A u \in Uploads : IF inode[u] = Nil THEN kept[u] = 0 ELSE kept[u] <= size[inode[u]]

\* The file is as long as an upload has made it, or as it was cut.
Accounts(u) ==
  /\ inode[u] = name
  /\ \/ size[name] = off[u] /\ (Holds(u) \/ status[u] = "ok")
     \/ size[name] = pos[u] /\ pos[u] > 0 /\ status[u] = "error"
Accounted == name = Nil \/ (name = Old /\ size[name] = 1) \/ \E u \in Uploads : Accounts(u)

Files == MadeByOwner /\ Alone /\ Named /\ KeptIsThere /\ Accounted

\* The entry of uploadByPath, and what is about to forget it.
Entered ==
  Uploads \cap forsaken = {} => \A u \in Uploads : phase[u] = "run" => reg = u \/ u \in aborted
Forgetting ==
  \A d \in Downloads : phase[d] \in {"forget", "skip"} => assoc[d] \in Uploads /\ IsFinished(assoc[d])
Entries == Entered /\ Forgetting

TransferInv == TransferTypeOK /\ Matched /\ Callers /\ Files /\ Entries

\* What the types and the assumption say of the numbers and the names.
LEMMA Data ==
  ASSUME TransferTypeOK
  PROVE  /\ set.chunks \in Nat /\ set.chunks # 0
         /\ Old \notin AllTransfers /\ Nil \notin AllTransfers /\ Old # Nil
         /\ \A t \in AllTransfers : t \in Uploads <=> t \notin Downloads
         /\ \A u \in Uploads : u \in AllTransfers /\ u \in Inodes /\ u # Nil /\ u # Old /\ u \notin Downloads
         /\ \A d \in Downloads : d \in AllTransfers
         /\ \A t \in AllTransfers : pos[t] \in Nat /\ off[t] \in Nat
         /\ \A t \in AllTransfers : inode[t] # Nil => inode[t] \in Inodes
         /\ \A i \in Inodes : size[i] \in Nat
         /\ \A u \in Uploads : kept[u] \in Nat
         /\ known \in Nat
<1>1. set \in Setting
  BY SlaveTransferAssumption DEF TransferTypeOK
<1>2. set.chunks \in Nat /\ set.chunks # 0
  BY <1>1 DEF Setting
<1>3. 0..set.chunks \subseteq Nat
  BY <1>2
<1>4. \A t \in AllTransfers : pos[t] \in 0..set.chunks /\ off[t] \in 0..set.chunks
  BY DEF TransferTypeOK
<1>5. \A i \in Inodes : size[i] \in 0..set.chunks
  BY DEF TransferTypeOK
<1>6. \A t \in AllTransfers : t \in Uploads <=> t \notin Downloads
  BY SlaveTransferAssumption DEF AllTransfers
<1>7. Old \notin AllTransfers /\ Nil \notin AllTransfers /\ Old # Nil
  BY SlaveTransferAssumption
<1>8. \A t \in AllTransfers : inode[t] # Nil => inode[t] \in Inodes
  BY DEF TransferTypeOK
<1>9. known \in 0..set.chunks /\ \A u \in Uploads : kept[u] \in 0..set.chunks
  BY DEF TransferTypeOK
<1>10. \A u \in Uploads : u \in AllTransfers /\ u \in Inodes
  BY DEF AllTransfers, Inodes
<1>11. \A d \in Downloads : d \in AllTransfers
  BY DEF AllTransfers
<1> QED
  BY <1>2, <1>3, <1>4, <1>5, <1>6, <1>7, <1>8, <1>9, <1>10, <1>11

\* The invariant holds in the initial states.
LEMMA InitInv == TransferInit => TransferInv
<1> SUFFICES ASSUME TransferInit PROVE TransferInv
  OBVIOUS
<1>1. set.chunks \in Nat /\ set.chunks # 0
  <2>1. set \in Setting
    BY SlaveTransferAssumption DEF TransferInit
  <2> QED
    BY <2>1 DEF Setting
<1>2. TransferTypeOK
  <2>1. 0 \in 0..set.chunks /\ 1 \in 0..set.chunks
    BY <1>1
  <2>2. size \in [Inodes -> 0..set.chunks] /\ kept \in [Uploads -> 0..set.chunks]
    BY <2>1 DEF TransferInit
  <2>3. known \in 0..set.chunks
    BY <2>1 DEF TransferInit
  <2> QED
    BY <2>1, <2>2, <2>3 DEF TransferInit, TransferTypeOK, Phases, Early, AllTransfers, Inodes
<1>3. /\ \A t \in AllTransfers : phase[t] = "none" /\ status[t] = "" /\ waiter[t] = "no" /\ inode[t] = Nil
      /\ forsaken = {} /\ \A u \in Uploads : kept[u] = 0
  BY DEF TransferInit
<1>4. Matched /\ Callers /\ Entries
  BY <1>2, <1>3, Data DEF Matched, MatchedAt, Callers, CallerAt, AtWork, Engaged, Entries, Entered, Forgetting
<1>5. \A u \in Uploads : u \in AllTransfers /\ u # Nil /\ u # Old /\ name # u
  BY <1>2, Data DEF TransferInit
<1>6. Accounted
  BY <1>2, Data DEF TransferInit, Accounted, Inodes
<1>7. MadeByOwner /\ Alone /\ Named /\ KeptIsThere
  BY <1>3, <1>5 DEF MadeByOwner, Alone, Named, KeptIsThere, Fresh, Holds
<1> QED
  BY <1>2, <1>4, <1>6, <1>7 DEF TransferInv, Files

-----------------------------------------------------------------------------
(* Steps that leave the file alone.                                        *)

\* The part of the invariant about the file is kept where the file and all open files
\* are left alone, and only who has not opened it may get a status or a position.
LEMMA FilesKeep ==
  ASSUME TransferInv, UNCHANGED <<name, size, kept>>, forsaken \subseteq forsaken',
         \A u \in Uploads : /\ inode'[u] = inode[u] /\ off'[u] = off[u]
                            /\ Holds(u)' <=> Holds(u)
                            /\ inode[u] = Nil \/ (pos'[u] = pos[u] /\ status'[u] = status[u])
  PROVE  Files'
<1>1. TransferTypeOK /\ Matched /\ Files
  BY DEF TransferInv
<1>2. \A u \in Uploads : u \in AllTransfers /\ u # Nil /\ u # Old
  BY <1>1, Data
<1>3. \A u \in Uploads : inode[u] = Nil => ~Holds(u)
  BY <1>1, <1>2 DEF Holds, Matched, MatchedAt
<1>4. \A u \in Uploads : Fresh(u)' <=> Fresh(u)
  BY <1>3 DEF Fresh
<1>5. MadeByOwner'
  BY <1>1, <1>2, <1>4 DEF Files, MadeByOwner
<1>6. Alone'
  BY <1>1, <1>4 DEF Files, Alone
<1>7. Named'
  <2> SUFFICES ASSUME NEW u \in Uploads, u \notin forsaken, inode[u] # Nil, status[u] # "error"
               PROVE  name = inode[u] \/ Wiped(u)'
    BY DEF Named
  <2>1. name = inode[u] \/ Wiped(u)
    BY <1>1 DEF Files, Named
  <2>2. CASE Wiped(u)
    <3>1. inode[u] \in Uploads
      <4>1. inode[u] \in AllTransfers
        BY <1>1, <2>2 DEF Wiped, TransferTypeOK
      <4>2. inode[u] \in Inodes /\ Old \notin AllTransfers
        BY <1>1, <1>2, Data
      <4> QED
        BY <4>1, <4>2 DEF Inodes
    <3>2. inode[inode[u]] = inode[u]
      BY <1>1, <3>1 DEF Files, MadeByOwner
    <3> QED
      BY <1>2, <2>2, <3>1, <3>2 DEF Wiped
  <2> QED
    BY <2>1, <2>2
<1>8. KeptIsThere'
  BY <1>1 DEF Files, KeptIsThere
<1>9. Accounted'
  <2>1. \A u \in Uploads : Accounts(u) /\ name # Nil => Accounts(u)'
    BY DEF Accounts
  <2> QED
    BY <1>1, <2>1 DEF Files, Accounted
<1> QED
  BY <1>5, <1>6, <1>7, <1>8, <1>9 DEF Files

\* A step of one transfer that leaves the file and all open files alone, and whose
\* upload, if it is one, is as far with its file as before.
Plain(t) ==
  /\ TransferTypeOK' /\ MatchedAt(t)' /\ CallerAt(t)'
  /\ UNCHANGED <<set, pos, off, inode, assoc, name, size, kept, forsaken>> /\ aborted \subseteq aborted'
  /\ \A x \in AllTransfers \ {t} :
       phase'[x] = phase[x] /\ waiter'[x] = waiter[x] /\ status'[x] = status[x]
  /\ inode[t] = Nil \/ status'[t] = status[t]
  /\ Holds(t)' <=> Holds(t)
  /\ phase'[t] = "run" => phase[t] = "run"
  /\ phase[t] \in {"report", "over"} => phase'[t] \in {"report", "over"}
  /\ phase'[t] \in {"forget", "skip"} => phase'[t] = phase[t]
  /\ reg' = reg \/ (reg = t /\ phase'[t] # "run")
  /\ AtWork(t)' => AtWork(t)

\* A plain step keeps the invariant.
LEMMA PlainKeeps ==
  ASSUME TransferInv, NEW t \in AllTransfers, Plain(t)
  PROVE  TransferInv'
<1>1. /\ TransferTypeOK /\ Matched /\ Callers /\ Entries
      /\ \A x \in AllTransfers : x \in Uploads <=> x \notin Downloads
      /\ \A x \in Uploads \cup Downloads : x \in AllTransfers
  BY Data DEF TransferInv
<1>2. Matched'
  <2>1. \A x \in AllTransfers \ {t} : /\ phase'[x] = phase[x] /\ waiter'[x] = waiter[x]
                                       /\ status'[x] = status[x] /\ inode'[x] = inode[x]
    BY DEF Plain
  <2>2. \A x \in AllTransfers \ {t} : MatchedAt(x)'
    BY <1>1, <2>1 DEF Matched, MatchedAt
  <2> QED
    BY <2>2 DEF Plain, Matched
<1>3. Callers'
  <2>1. \A x \in AllTransfers : CallerAt(x)'
    BY <1>1 DEF Plain, Callers, CallerAt
  <2>2. \A x \in AllTransfers : AtWork(x)' => AtWork(x)
    BY <1>1 DEF Plain, AtWork
  <2> QED
    BY <1>1, <2>1, <2>2 DEF Callers
<1>4. Forgetting'
  <2> SUFFICES ASSUME NEW d \in Downloads, phase'[d] \in {"forget", "skip"}
               PROVE  assoc'[d] \in Uploads /\ IsFinished(assoc[d])'
    BY DEF Forgetting, Plain
  <2>1. phase[d] = phase'[d] /\ assoc'[d] = assoc[d] /\ assoc[d] \in Uploads /\ IsFinished(assoc[d])
    BY <1>1 DEF Plain, Entries, Forgetting
  <2> QED
    BY <1>1, <2>1 DEF Plain, IsFinished
<1>5. Entered'
  BY <1>1 DEF Entries, Entered, Plain
<1>6. Files'
  BY <1>1, FilesKeep DEF Plain, Holds
<1> QED
  BY <1>2, <1>3, <1>4, <1>5, <1>6 DEF TransferInv, Entries, Plain

\* The steps that are plain ones.
LEMMA PlainSteps ==
  ASSUME TransferInv, NEW t \in AllTransfers,
         \/ Listen(t) \/ Abort(t) \/ Claim(t) \/ Connected(t) \/ NotConnected(t) \/ Close(t)
         \/ AbortFlags(t) \/ AbortTidies(t) \/ ReapLooks(t) \/ Reap(t)
  PROVE  Plain(t)
<1>0. TransferTypeOK /\ MatchedAt(t) /\ CallerAt(t) /\ (t \in Uploads <=> t \notin Downloads)
  BY Data DEF TransferInv, Matched, Callers
<1>1. CASE Listen(t)
  <2>1. TransferTypeOK'
    BY <1>0, <1>1 DEF Listen, Goes, Calls, TransferTypeOK, Phases, Early, aroundVars, killVars,
        masterVars, ownVars, onSlaveVars, diskVars
  <2>2. /\ phase[t] = "none" /\ phase'[t] = "setup" /\ waiter[t] = "no" /\ waiter'[t] = "setup"
        /\ \A x \in AllTransfers \ {t} : phase'[x] = phase[x] /\ waiter'[x] = waiter[x]
        /\ UNCHANGED <<set, pos, off, inode, assoc, name, size, kept, forsaken, status, reg, aborted>>
    BY <1>0, <1>1 DEF Listen, Goes, Calls, TransferTypeOK, MatchedAt, aroundVars, killVars,
        masterVars, ownVars, onSlaveVars, diskVars
  <2>3. CallerAt(t)' /\ t \notin forsaken
    BY <1>0, <2>2 DEF CallerAt, Engaged
  <2> QED
    BY <1>0, <2>1, <2>2, <2>3 DEF Plain, MatchedAt, AtWork, Holds
<1>2. CASE Abort(t) \/ AbortFlags(t) \/ AbortTidies(t) \/ ReapLooks(t) \/ Reap(t)
  <2>1. TransferTypeOK'
    BY <1>0, <1>2 DEF Abort, AbortFlags, AbortTidies, ReapLooks, Reap, TransferTypeOK, aborting,
        aroundVars, killVars, masterVars, ownVars, onSlaveVars, diskVars
  <2>2. /\ UNCHANGED <<set, pos, off, inode, assoc, name, size, kept, forsaken, phase, waiter, status, reg>>
        /\ aborted \subseteq aborted'
    BY <1>2 DEF Abort, AbortFlags, AbortTidies, ReapLooks, Reap, aborting, aroundVars, killVars,
        masterVars, ownVars, onSlaveVars, diskVars
  <2> QED
    BY <1>0, <2>1, <2>2 DEF Plain, MatchedAt, CallerAt, AtWork, Holds
<1>3. ASSUME /\ phase[t] \in Engaged \ {"opened", "run", "find", "eof", "forget", "skip"}
             /\ UNCHANGED <<set, pos, off, inode, assoc, name, size, kept, forsaken, waiter, aborted>>
             /\ \A x \in AllTransfers \ {t} : phase'[x] = phase[x] /\ status'[x] = status[x]
             /\ reg' = reg \/ reg = t
             /\ TransferTypeOK'
             /\ \/ phase[t] = "taken" /\ phase'[t] = "accept" /\ status'[t] = status[t]
                \/ phase[t] = "accept" /\ phase'[t] = "open" /\ status'[t] = status[t]
                \/ phase[t] = "accept" /\ phase'[t] = "ending" /\ status'[t] = "error"
                \/ phase[t] = "ending" /\ phase'[t] = "report" /\ status'[t] = status[t]
      PROVE  Plain(t)
  <2>1. CallerAt(t)'
    BY <1>0, <1>3 DEF CallerAt, Engaged, Phases, Early
  <2>2. MatchedAt(t)' /\ (inode[t] = Nil \/ status'[t] = status[t])
    BY <1>0, <1>3 DEF MatchedAt, Engaged, Phases, Early
  <2> QED
    BY <1>3, <2>1, <2>2 DEF Plain, AtWork, Holds
<1>4. CASE Claim(t) \/ Connected(t) \/ NotConnected(t) \/ Close(t)
  <2>1. TransferTypeOK'
    BY <1>0, <1>4 DEF Claim, Connected, NotConnected, Close, Goes, Ends, TransferTypeOK, Phases,
        Early, aroundVars, killVars, masterVars, ownVars, onSlaveVars, diskVars
  <2>2. /\ UNCHANGED <<set, pos, off, inode, assoc, name, size, kept, forsaken, waiter, aborted>>
        /\ reg' = reg \/ reg = t
    BY <1>4 DEF Claim, Connected, NotConnected, Close, aroundVars, killVars, masterVars,
        ownVars, onSlaveVars, diskVars
  <2>3. /\ \A x \in AllTransfers \ {t} : phase'[x] = phase[x] /\ status'[x] = status[x]
        /\ \/ phase[t] = "taken" /\ phase'[t] = "accept" /\ status'[t] = status[t]
           \/ phase[t] = "accept" /\ phase'[t] = "open" /\ status'[t] = status[t]
           \/ phase[t] = "accept" /\ phase'[t] = "ending" /\ status'[t] = "error"
           \/ phase[t] = "ending" /\ phase'[t] = "report" /\ status'[t] = status[t]
    BY <1>0, <1>4 DEF Claim, Connected, NotConnected, Close, Goes, Ends, TransferTypeOK, ownVars
  <2>4. phase[t] \in Engaged \ {"opened", "run", "find", "eof", "forget", "skip"}
    BY <2>3 DEF Engaged, Phases, Early
  <2> QED
    BY <1>3, <2>1, <2>2, <2>3, <2>4
<1> QED
  BY <1>1, <1>2, <1>4

\* An answer: to the command, and the final status.  Who has given up hears nothing.
LEMMA AnswerSteps ==
  ASSUME TransferInv, NEW t \in AllTransfers, Take(t) \/ Report(t)
  PROVE  Plain(t)
<1>0. TransferTypeOK /\ MatchedAt(t) /\ CallerAt(t) /\ (t \in Uploads <=> t \notin Downloads)
  BY Data DEF TransferInv, Matched, Callers
<1>1. CASE Take(t)
  <2>1. /\ waiter[t] # "setup" /\ phase[t] = "setup" /\ status[t] = "" /\ inode[t] = Nil
        /\ UNCHANGED <<set, listed, ownVars, reg, status, diskVars, killVars, link, own, known, forsaken>>
    BY <1>0, <1>1 DEF Take, MatchedAt
  <2>2. /\ t \notin forsaken => waiter[t] = "asked"
        /\ t \in forsaken => waiter[t] = "error"
    BY <1>0, <2>1 DEF CallerAt
  <2>3. /\ \/ phase' = [phase EXCEPT ![t] = "taken"] /\ Hears(t, "wait")
           \/ phase' = [phase EXCEPT ![t] = "over"] /\ Hears(t, "error")
        /\ AtWork(t) <=> t \notin forsaken
    BY <1>1, <2>2 DEF Take, Goes, AtWork
  <2>4. \/ /\ t \notin forsaken
           /\ \/ phase' = [phase EXCEPT ![t] = "taken"] /\ waiter' = [waiter EXCEPT ![t] = "wait"]
              \/ phase' = [phase EXCEPT ![t] = "over"] /\ waiter' = [waiter EXCEPT ![t] = "error"]
        \/ /\ t \in forsaken /\ waiter' = waiter
           /\ phase' = [phase EXCEPT ![t] = "taken"] \/ phase' = [phase EXCEPT ![t] = "over"]
    BY <2>3 DEF Hears, Calls
  <2>5. TransferTypeOK'
    BY <1>0, <2>1, <2>4 DEF TransferTypeOK, Phases, Early, killVars, ownVars, diskVars
  <2>6. /\ \/ /\ t \notin forsaken
              /\ \/ phase'[t] = "taken" /\ waiter'[t] = "wait"
                 \/ phase'[t] = "over" /\ waiter'[t] = "error"
           \/ t \in forsaken /\ waiter'[t] = "error" /\ phase'[t] \in {"taken", "over"}
        /\ \A x \in AllTransfers \ {t} : phase'[x] = phase[x] /\ waiter'[x] = waiter[x]
    BY <1>0, <2>2, <2>4 DEF TransferTypeOK
  <2>7. MatchedAt(t)' /\ CallerAt(t)' /\ (AtWork(t)' => AtWork(t))
    BY <1>0, <2>1, <2>2, <2>3, <2>6 DEF MatchedAt, CallerAt, AtWork, Engaged, Phases, Early, ownVars
  <2> QED
    BY <1>0, <2>1, <2>5, <2>6, <2>7 DEF Plain, Holds, killVars, ownVars, diskVars
<1>2. CASE Report(t)
  <2>1. /\ phase[t] = "report" /\ phase' = [phase EXCEPT ![t] = "over"]
        /\ status[t] \in {"ok", "error"}
        /\ UNCHANGED <<set, listed, ownVars, reg, status, diskVars, killVars, link, own, known, forsaken>>
    BY <1>0, <1>2 DEF Report, Goes, TransferTypeOK, MatchedAt
  <2>2. waiter' = waiter \/ (AtWork(t) /\ waiter' = [waiter EXCEPT ![t] = status[t]])
    BY <1>2 DEF Report, Calls, Hears
  <2>3. TransferTypeOK'
    BY <1>0, <2>1, <2>2 DEF TransferTypeOK, Phases, Early, killVars, ownVars, diskVars
  <2>4. /\ phase'[t] = "over" /\ (waiter'[t] = waiter[t] \/ (AtWork(t) /\ waiter'[t] = status[t]))
        /\ \A x \in AllTransfers \ {t} : phase'[x] = phase[x] /\ waiter'[x] = waiter[x]
    BY <1>0, <2>1, <2>2 DEF TransferTypeOK
  <2>5. MatchedAt(t)' /\ CallerAt(t)' /\ (AtWork(t)' => AtWork(t))
    BY <1>0, <2>1, <2>4 DEF MatchedAt, CallerAt, AtWork, Engaged, ownVars
  <2> QED
    BY <1>0, <2>1, <2>3, <2>4, <2>5 DEF Plain, Holds, killVars, ownVars, diskVars
<1> QED
  BY <1>1, <1>2

-----------------------------------------------------------------------------
(* Steps that are about the connection, or that begin a transfer.          *)

\* A lost or a new connection, and a caller that gives up.
LEMMA LinkSteps ==
  ASSUME TransferInv, Drop \/ Reconnect \/ \E t \in AllTransfers : GivesUp(t)
  PROVE  TransferInv'
<1>1. /\ TransferTypeOK /\ Matched /\ Callers /\ Entries
      /\ UNCHANGED <<set, onSlaveVars, killVars>>
      /\ \A u \in Uploads : u \in AllTransfers
  BY Data DEF TransferInv, Drop, Reconnect, GivesUp
<1>2. UNCHANGED <<set, phase, listed, aborted, killer, reaper, pos, off, inode, assoc, reg, status, name, size, kept>>
  BY <1>1 DEF onSlaveVars, killVars, ownVars, diskVars
<1>3. TransferTypeOK' /\ Matched' /\ Callers' /\ forsaken \subseteq forsaken'
  <2>1. CASE Drop \/ Reconnect
    <3>1. waiter' = waiter /\ link' \in BOOLEAN /\ own' \subseteq AllTransfers /\ forsaken' = forsaken
      BY <1>1, <2>1 DEF Drop, Reconnect, TransferTypeOK
    <3>2. known' \in 0..set.chunks
      BY <1>1, <2>1 DEF Drop, Reconnect, Larger, TransferTypeOK
    <3> QED
      BY <1>1, <1>2, <3>1, <3>2 DEF TransferTypeOK, Matched, MatchedAt, Callers, CallerAt, AtWork
  <2>2. ASSUME NEW t \in AllTransfers, GivesUp(t)
        PROVE  TransferTypeOK' /\ Matched' /\ Callers' /\ forsaken \subseteq forsaken'
    <3>1. /\ waiter' \in [AllTransfers -> {"no", "setup", "asked", "wait", "ok", "error"}]
          /\ waiter'[t] = "error" /\ \A x \in AllTransfers \ {t} : waiter'[x] = waiter[x]
          /\ UNCHANGED <<link, own, known>> /\ forsaken' = forsaken \cup {t}
      BY <1>1, <2>2 DEF GivesUp, Calls, TransferTypeOK
    <3>2. TransferTypeOK' /\ Matched'
      BY <1>1, <1>2, <3>1 DEF TransferTypeOK, Matched, MatchedAt
    <3>3. \A x \in AllTransfers : CallerAt(x)' /\ (AtWork(x)' => AtWork(x))
      BY <1>1, <1>2, <3>1 DEF Callers, CallerAt, AtWork
    <3> QED
      BY <1>1, <3>1, <3>2, <3>3 DEF Callers
  <2> QED
    BY <2>1, <2>2
<1>4. Entries'
  BY <1>1, <1>2, <1>3 DEF Entries, Entered, Forgetting, IsFinished
<1>5. Files'
  BY <1>2, <1>3, FilesKeep DEF Holds
<1> QED
  BY <1>3, <1>4, <1>5 DEF TransferInv

\* RECEIVE or SEND is asked for: nobody else has an upload of the path at work.
LEMMA AskStep ==
  ASSUME TransferInv, NEW t \in AllTransfers, NEW at \in 0..set.chunks, Ask(t, at)
  PROVE  TransferInv'
<1>1. /\ TransferTypeOK /\ Matched /\ Callers /\ Entries
      /\ \A x \in Uploads : x \in AllTransfers
  BY Data DEF TransferInv
<1>2. /\ waiter[t] = "setup" /\ phase[t] = "setup" /\ waiter'[t] = "asked" /\ inode[t] = Nil
      /\ \A x \in AllTransfers \ {t} : waiter'[x] = waiter[x] /\ pos'[x] = pos[x]
      /\ t \in Uploads => \A u \in Uploads : ~AtWork(u)
      /\ own' = own \cup {t}
  BY <1>1 DEF Ask, Calls, TransferTypeOK, Matched, MatchedAt
<1>3. UNCHANGED <<set, phase, listed, aborted, killer, reaper, off, inode, assoc, reg, status, name, size, kept,
                  link, known, forsaken>>
  BY DEF Ask, killVars, diskVars
<1>4. TransferTypeOK'
  <2>1. pos' \in [AllTransfers -> 0..set.chunks]
    BY <1>1 DEF Ask, TransferTypeOK
  <2>2. waiter' \in [AllTransfers -> {"no", "setup", "asked", "wait", "ok", "error"}]
    BY <1>1 DEF Ask, Calls, TransferTypeOK
  <2> QED
    BY <1>1, <1>2, <1>3, <2>1, <2>2 DEF TransferTypeOK
<1>5. Matched' /\ Entries'
  BY <1>1, <1>2, <1>3 DEF Matched, MatchedAt, Entries, Entered, Forgetting, IsFinished
<1>6. Callers'
  <2>1. \A x \in AllTransfers : CallerAt(x)'
    BY <1>1, <1>2, <1>3 DEF Callers, CallerAt, Engaged
  <2>2. \A x \in AllTransfers \ {t} : AtWork(x)' <=> AtWork(x)
    BY <1>2 DEF AtWork
  <2> QED
    BY <1>1, <1>2, <2>1, <2>2 DEF Callers
<1>7. Files'
  BY <1>1, <1>2, <1>3, FilesKeep DEF Holds
<1> QED
  BY <1>4, <1>5, <1>6, <1>7 DEF TransferInv

-----------------------------------------------------------------------------
(* Uploads and the file.                                                   *)

\* A step of an upload that is received: only its own phase and status change.
UploadStep(u) ==
  /\ u \in Uploads /\ phase[u] \in Engaged /\ phase'[u] \in Engaged
  /\ phase[u] \notin {"report", "over", "find", "eof", "forget", "skip"}
  /\ phase'[u] \notin {"report", "over", "find", "eof", "forget", "skip"}
  /\ TransferTypeOK' /\ MatchedAt(u)'
  /\ UNCHANGED <<set, pos, assoc, aborted, waiter, forsaken>>
  /\ \A x \in AllTransfers \ {u} : /\ phase'[x] = phase[x] /\ status'[x] = status[x]
                                   /\ inode'[x] = inode[x]
  /\ \/ reg' = reg /\ (phase'[u] = "run" => phase[u] = "run")
     \/ reg' = u

\* All but the file is as it should be after it.
LEMMA UploadKeeps ==
  ASSUME TransferInv, NEW u \in AllTransfers, UploadStep(u), Files'
  PROVE  TransferInv'
<1>1. /\ TransferTypeOK /\ Matched /\ Callers /\ Entries
      /\ \A x \in Uploads : x \in AllTransfers /\ x \notin Downloads
      /\ \A x \in Downloads : x \in AllTransfers
  BY Data DEF TransferInv
<1>2. Matched'
  BY <1>1 DEF UploadStep, Matched, MatchedAt
<1>3. Callers'
  <2>1. \A x \in AllTransfers : CallerAt(x)'
    BY <1>1 DEF UploadStep, Callers, CallerAt, Engaged
  <2> QED
    BY <1>1, <2>1 DEF UploadStep, Callers, AtWork
<1>4. Forgetting'
  <2>1. \A d \in Downloads : phase'[d] = phase[d] /\ assoc'[d] = assoc[d]
    BY <1>1 DEF UploadStep
  <2>2. \A v \in Uploads : IsFinished(v) => IsFinished(v)'
    BY <1>1 DEF UploadStep, IsFinished
  <2> QED
    BY <1>1, <2>1, <2>2 DEF Entries, Forgetting, IsFinished
<1>5. Entered'
  <2> SUFFICES ASSUME Uploads \cap forsaken = {}, NEW v \in Uploads, phase'[v] = "run"
               PROVE  reg' = v \/ v \in aborted
    BY DEF Entered, UploadStep
  <2>1. CASE v = u
    BY <1>1, <2>1 DEF UploadStep, Entries, Entered
  <2>2. CASE v # u
    <3>1. phase[v] = "run" /\ (reg = v \/ v \in aborted)
      BY <1>1, <2>2 DEF UploadStep, Entries, Entered
    <3>2. waiter[v] = "wait" /\ waiter[u] = "wait"
      BY <1>1, <3>1 DEF UploadStep, Callers, CallerAt, Engaged, Phases
    <3> QED
      BY <1>1, <2>2, <3>2 DEF UploadStep, Callers, AtWork
  <2> QED
    BY <2>1, <2>2
<1> QED
  BY <1>2, <1>3, <1>4, <1>5 DEF TransferInv, Entries, UploadStep

\* A fresh upload makes the file: the path has none, and the inode is nobody's.
LEMMA FreshOpens ==
  ASSUME TransferInv, NEW u \in AllTransfers, OpenUpload(u), pos[u] = 0, name = Nil
  PROVE  TransferInv'
<1>1. /\ TransferTypeOK /\ Matched /\ Files
      /\ set.chunks \in Nat
      /\ \A x \in Uploads : x \in AllTransfers /\ x \in Inodes /\ x # Nil /\ x # Old /\ x \notin Downloads
  BY Data DEF TransferInv
<1>2. /\ u \in Uploads /\ phase[u] = "open" /\ status[u] = "" /\ inode[u] = Nil
      /\ phase' = [phase EXCEPT ![u] = "opened"] /\ inode' = [inode EXCEPT ![u] = u]
      /\ off' = [off EXCEPT ![u] = 0] /\ name' = u /\ size' = [size EXCEPT ![u] = 0]
      /\ UNCHANGED <<listed, pos, assoc, reg, aroundVars, status, kept>>
  <2>1. ~(pos[u] > 0)
    BY <1>1
  <2> QED
    BY <1>1, <2>1 DEF OpenUpload, OpenTo, Goes, Matched, MatchedAt
<1>3. UNCHANGED <<set, listed, aborted, killer, reaper, pos, assoc, reg, status, link, own, waiter, known,
                  forsaken, kept>>
  BY <1>2 DEF aroundVars, killVars, masterVars
<1>4. /\ phase'[u] = "opened" /\ inode'[u] = u /\ off'[u] = 0 /\ size'[u] = 0
      /\ \A x \in AllTransfers \ {u} : phase'[x] = phase[x] /\ inode'[x] = inode[x] /\ off'[x] = off[x]
      /\ \A i \in Inodes \ {u} : size'[i] = size[i]
  BY <1>1, <1>2 DEF TransferTypeOK
<1>5. TransferTypeOK'
  <2>1. 0 \in 0..set.chunks
    BY <1>1
  <2> QED
    BY <1>1, <1>2, <1>3, <2>1 DEF TransferTypeOK, Phases, Early
<1>6. UploadStep(u)
  <2>1. MatchedAt(u)'
    BY <1>1, <1>2, <1>3, <1>4 DEF Matched, MatchedAt
  <2> QED
    BY <1>2, <1>3, <1>4, <1>5, <2>1 DEF UploadStep, Engaged, Phases, Early
<1>7. \A v \in Uploads : inode[v] # u
  BY <1>1, <1>2 DEF Files, MadeByOwner
<1>8. \A v \in Uploads \ {u} : ~Fresh(v) /\ ~Fresh(v)'
  BY <1>1, <1>2, <1>3, <1>4 DEF Files, MadeByOwner, Fresh, Holds
<1>9. MadeByOwner'
  <2>1. \A v \in Uploads : name' = v => pos'[v] = 0 /\ inode'[v] = v /\ status'[v] # "error"
    BY <1>2, <1>3, <1>4
  <2>2. \A v, w \in Uploads : inode'[v] = w => inode'[w] = w
    BY <1>1, <1>4, <1>7 DEF Files, MadeByOwner
  <2>3. \A v \in Uploads : Fresh(v)' => name' = v /\ inode'[v] = v
    BY <1>2, <1>4, <1>8
  <2> QED
    BY <2>1, <2>2, <2>3 DEF MadeByOwner
<1>10. Alone'
  BY <1>1, <1>4, <1>7, <1>8 DEF Alone
<1>11. Named'
  <2> SUFFICES ASSUME NEW v \in Uploads, v # u, v \notin forsaken, inode[v] # Nil, status[v] # "error"
               PROVE  Wiped(v)'
    BY <1>1, <1>2, <1>3, <1>4 DEF Named
  <2>1. Wiped(v)
    BY <1>1, <1>2 DEF Files, Named
  <2> QED
    BY <1>1, <1>3, <1>4, <2>1 DEF Wiped
<1>12. KeptIsThere'
  <2> SUFFICES ASSUME NEW v \in Uploads
               PROVE  IF inode'[v] = Nil THEN kept[v] = 0 ELSE kept[v] <= size'[inode'[v]]
    BY <1>3 DEF KeptIsThere
  <2>1. CASE v = u
    <3>1. kept[u] = 0
      BY <1>1, <1>2 DEF Files, KeptIsThere
    <3>2. kept[u] <= size'[inode'[u]]
      BY <1>4, <3>1
    <3> QED
      BY <1>1, <1>4, <2>1, <3>2
  <2>2. CASE v # u
    <3>1. inode'[v] = inode[v] /\ (inode[v] # Nil => size'[inode[v]] = size[inode[v]])
      BY <1>1, <1>4, <1>7, <2>2, Data
    <3> QED
      BY <1>1, <3>1 DEF Files, KeptIsThere
  <2> QED
    BY <2>1, <2>2
<1>13. Accounted'
  <2>1. Accounts(u)'
    BY <1>2, <1>4 DEF Accounts, Holds
  <2> QED
    BY <1>2, <2>1 DEF Accounted
<1> QED
  BY <1>6, <1>9, <1>10, <1>11, <1>12, <1>13, UploadKeeps DEF Files

\* A resumed upload opens the file, as long as that is by now.  If it is the file of a
\* fresh upload that is still received, one of the two has no caller.
LEMMA ResumeOpens ==
  ASSUME TransferInv, NEW u \in AllTransfers, OpenUpload(u), pos[u] > 0, name # Nil
  PROVE  TransferInv'
<1>1. /\ TransferTypeOK /\ Matched /\ Callers /\ Files
      /\ \A x \in AllTransfers : pos[x] \in Nat
      /\ \A x \in Uploads : x \in AllTransfers /\ x \in Inodes /\ x # Nil /\ x # Old /\ x \notin Downloads
  BY Data DEF TransferInv
<1>2. /\ u \in Uploads /\ phase[u] = "open" /\ status[u] = "" /\ inode[u] = Nil
      /\ phase' = [phase EXCEPT ![u] = "opened"] /\ inode' = [inode EXCEPT ![u] = name]
      /\ off' = [off EXCEPT ![u] = pos[u]]
      /\ UNCHANGED <<listed, pos, assoc, reg, aroundVars, diskVars, status>>
  BY <1>1 DEF OpenUpload, OpenTo, Goes, Ends, Matched, MatchedAt
<1>3. UNCHANGED <<set, listed, aborted, killer, reaper, pos, assoc, reg, status, link, own, waiter, known,
                  forsaken, name, size, kept>>
  BY <1>2 DEF aroundVars, killVars, masterVars, diskVars
<1>4. /\ phase'[u] = "opened" /\ inode'[u] = name /\ off'[u] = pos[u] /\ pos[u] # 0
      /\ \A x \in AllTransfers \ {u} : phase'[x] = phase[x] /\ inode'[x] = inode[x] /\ off'[x] = off[x]
  <2>1. pos[u] # 0
    OBVIOUS
  <2> QED
    BY <1>1, <1>2, <2>1 DEF TransferTypeOK
<1>5. TransferTypeOK'
  BY <1>1, <1>2, <1>3 DEF TransferTypeOK, Phases, Early
<1>6. UploadStep(u)
  <2>1. MatchedAt(u)'
    BY <1>1, <1>2, <1>3, <1>4 DEF Matched, MatchedAt
  <2> QED
    BY <1>2, <1>3, <1>4, <1>5, <2>1 DEF UploadStep, Engaged, Phases, Early
<1>7. ~Fresh(u)' /\ \A v \in Uploads \ {u} : Fresh(v)' <=> Fresh(v)
  BY <1>1, <1>3, <1>4 DEF Fresh, Holds
<1>8. name # u /\ \A v \in Uploads : inode[v] # u
  BY <1>1, <1>2 DEF Files, MadeByOwner
<1>9. MadeByOwner'
  <2>1. \A v \in Uploads : name = v => pos'[v] = 0 /\ inode'[v] = v /\ status'[v] # "error"
    BY <1>1, <1>3, <1>4, <1>8 DEF Files, MadeByOwner
  <2>2. \A v, w \in Uploads : inode'[v] = w => inode'[w] = w
    BY <1>1, <1>4, <1>8 DEF Files, MadeByOwner
  <2>3. \A v \in Uploads : Fresh(v)' => name = v /\ inode'[v] = v
    BY <1>1, <1>4, <1>7 DEF Files, MadeByOwner
  <2> QED
    BY <1>3, <2>1, <2>2, <2>3 DEF MadeByOwner
<1>10. Alone'
  <2> SUFFICES ASSUME NEW v \in Uploads, NEW w \in Uploads, v \notin forsaken, w \notin forsaken,
                      Fresh(w), w # u, inode'[v] = w
               PROVE  v = w
    BY <1>3, <1>7 DEF Alone
  <2>1. CASE v # u
    BY <1>1, <1>4, <2>1 DEF Files, Alone
  <2>2. CASE v = u
    <3>1. phase[w] \in Engaged /\ phase[u] \in Engaged
      BY <1>2 DEF Fresh, Holds, Engaged, Phases, Early
    <3> QED
      BY <1>1, <2>2, <3>1 DEF Callers, CallerAt, AtWork
  <2> QED
    BY <2>1, <2>2
<1>11. Named'
  <2> SUFFICES ASSUME NEW v \in Uploads, v # u, v \notin forsaken, inode[v] # Nil, status[v] # "error"
               PROVE  name = inode[v] \/ Wiped(v)'
    BY <1>1, <1>2, <1>3, <1>4 DEF Named
  <2>1. name = inode[v] \/ Wiped(v)
    BY <1>1, <1>2 DEF Files, Named
  <2> QED
    BY <1>1, <1>3, <1>4, <2>1 DEF Wiped
<1>12. KeptIsThere'
  <2> SUFFICES ASSUME NEW v \in Uploads
               PROVE  IF inode'[v] = Nil THEN kept[v] = 0 ELSE kept[v] <= size[inode'[v]]
    BY <1>3 DEF KeptIsThere
  <2>1. CASE v = u
    <3>1. kept[u] = 0 /\ name \in Inodes
      BY <1>1, <1>2 DEF Files, KeptIsThere, TransferTypeOK
    <3>2. size[name] \in Nat
      BY <1>1, <3>1, Data
    <3> QED
      BY <1>4, <2>1, <3>1, <3>2
  <2>2. CASE v # u
    BY <1>1, <1>4, <2>2 DEF Files, KeptIsThere
  <2> QED
    BY <2>1, <2>2
<1>13. Accounted'
  <2>1. \A v \in Uploads : Accounts(v) => v # u
    BY <1>2 DEF Accounts
  <2>2. \A v \in Uploads : Accounts(v) => Accounts(v)'
    BY <1>1, <1>3, <1>4, <2>1 DEF Accounts, Holds
  <2> QED
    BY <1>1, <1>3, <2>2 DEF Files, Accounted
<1> QED
  BY <1>6, <1>9, <1>10, <1>11, <1>12, <1>13, UploadKeeps DEF Files

\* An upload that is refused is a plain step.
LEMMA OpenRefused ==
  ASSUME TransferInv, NEW u \in AllTransfers, OpenUpload(u), (pos[u] > 0) = (name = Nil)
  PROVE  Plain(u)
<1>1. /\ TransferTypeOK /\ MatchedAt(u) /\ CallerAt(u) /\ pos[u] \in Nat
  BY Data DEF TransferInv, Matched, Callers
<1>2. /\ u \in Uploads /\ phase[u] = "open" /\ Ends(u, "error")
      /\ UNCHANGED <<listed, pos, assoc, reg, aroundVars, inode, off, diskVars>>
  BY <1>1 DEF OpenUpload
<1>3. TransferTypeOK'
  BY <1>1, <1>2 DEF Ends, Goes, TransferTypeOK, Phases, Early, aroundVars, killVars, masterVars,
      diskVars
<1>4. /\ status[u] = "" /\ phase'[u] = "ending" /\ status'[u] = "error" /\ inode[u] = Nil
      /\ \A x \in AllTransfers \ {u} : phase'[x] = phase[x] /\ status'[x] = status[x]
      /\ UNCHANGED <<set, pos, off, inode, assoc, name, size, kept, forsaken, waiter, aborted, reg>>
  BY <1>1, <1>2 DEF Ends, Goes, TransferTypeOK, MatchedAt, aroundVars, killVars,
      masterVars, diskVars
<1>5. MatchedAt(u)' /\ CallerAt(u)'
  BY <1>1, <1>2, <1>4 DEF MatchedAt, CallerAt, Engaged, Phases, Early
<1> QED
  BY <1>2, <1>3, <1>4, <1>5 DEF Plain, AtWork, Holds

\* ReceiveFile's open, whichever way it goes.
LEMMA OpenStep ==
  ASSUME TransferInv, NEW u \in AllTransfers, OpenUpload(u)
  PROVE  TransferInv'
<1>0. pos[u] \in Nat
  BY Data DEF TransferInv
<1>1. pos[u] = 0 \/ pos[u] > 0
  BY <1>0
<1>2. pos[u] = 0 => ~(pos[u] > 0)
  BY <1>0
<1>3. CASE pos[u] = 0 /\ name = Nil
  BY <1>3, FreshOpens
<1>4. CASE pos[u] > 0 /\ name # Nil
  BY <1>4, ResumeOpens
<1>5. CASE (pos[u] > 0) = (name = Nil)
  BY <1>5, OpenRefused, PlainKeeps
<1> QED
  BY <1>1, <1>2, <1>3, <1>4, <1>5

\* registerUpload.
LEMMA RegisterStep ==
  ASSUME TransferInv, NEW u \in AllTransfers, Register(u)
  PROVE  TransferInv'
<1>1. /\ TransferTypeOK /\ Matched
      /\ \A x \in Uploads : x \in AllTransfers
  BY Data DEF TransferInv
<1>2. u \in Uploads /\ phase[u] = "opened" /\ reg' = u
  BY <1>1 DEF Register, Matched, MatchedAt
<1>3. UNCHANGED <<set, listed, aborted, killer, reaper, pos, off, inode, assoc, status, link, own, waiter,
                  known, forsaken, name, size, kept>>
  BY DEF Register, aroundVars, killVars, masterVars, ownVars, diskVars
<1>4. phase'[u] = "run" /\ \A x \in AllTransfers \ {u} : phase'[x] = phase[x]
  BY <1>1 DEF Register, Goes, TransferTypeOK
<1>5. TransferTypeOK'
  BY <1>1, <1>2, <1>3 DEF Register, Goes, TransferTypeOK, Phases, Early
<1>6. UploadStep(u)
  <2>1. MatchedAt(u)'
    BY <1>1, <1>2, <1>3, <1>4 DEF Matched, MatchedAt
  <2> QED
    BY <1>2, <1>3, <1>4, <1>5, <2>1 DEF UploadStep, Engaged, Phases, Early
<1>7. Files'
  BY <1>1, <1>2, <1>3, <1>4, FilesKeep DEF Holds
<1> QED
  BY <1>6, <1>7, UploadKeeps

\* A chunk is written: the file only grows.
LEMMA ReceiveStep ==
  ASSUME TransferInv, NEW u \in AllTransfers, Receive(u)
  PROVE  TransferInv'
<1>1. /\ TransferTypeOK /\ Matched /\ Files
      /\ set.chunks \in Nat /\ \A i \in Inodes : size[i] \in Nat /\ size[i] \in 0..set.chunks
      /\ \A x \in AllTransfers : pos[x] \in Nat /\ off[x] \in Nat /\ off[x] \in 0..set.chunks
      /\ \A x \in AllTransfers : inode[x] # Nil => inode[x] \in Inodes
      /\ \A x \in Uploads : x \in AllTransfers /\ x # Nil /\ kept[x] \in Nat
  BY Data DEF TransferInv, TransferTypeOK
<1>2. u \in Uploads /\ phase[u] = "run" /\ status[u] = "" /\ inode[u] \in Inodes /\ off[u] < set.chunks
      /\ inode[u] # Nil
  BY <1>1 DEF Receive, Matched, MatchedAt
<1>3. UNCHANGED <<set, phase, listed, aborted, killer, reaper, pos, inode, assoc, reg, status, link, own, waiter,
                  known, forsaken, name>>
  BY DEF Receive, aroundVars, killVars, masterVars
<1>4. /\ off'[u] = off[u] + 1 /\ \A x \in AllTransfers \ {u} : off'[x] = off[x]
      /\ kept'[u] = off[u] + 1 /\ \A x \in Uploads \ {u} : kept'[x] = kept[x]
      /\ size'[inode[u]] = Larger(size[inode[u]], off[u] + 1)
      /\ \A i \in Inodes \ {inode[u]} : size'[i] = size[i]
  BY <1>1, <1>2 DEF Receive, TransferTypeOK
<1>5. TransferTypeOK'
  <2>1. off[u] + 1 \in 0..set.chunks
    <3>1. off[u] \in Nat /\ set.chunks \in Nat /\ off[u] < set.chunks
      BY <1>1, <1>2
    <3> QED
      BY <3>1
  <2>2. off' \in [AllTransfers -> 0..set.chunks] /\ kept' \in [Uploads -> 0..set.chunks]
    BY <1>1, <2>1 DEF Receive, TransferTypeOK
  <2>3. size' \in [Inodes -> 0..set.chunks]
    BY <1>1, <1>2, <2>1 DEF Receive, Larger, TransferTypeOK
  <2> QED
    BY <1>1, <1>3, <2>2, <2>3 DEF TransferTypeOK
<1>6. UploadStep(u)
  <2>1. MatchedAt(u)'
    BY <1>1, <1>3 DEF Matched, MatchedAt
  <2> QED
    BY <1>2, <1>3, <1>5, <2>1 DEF UploadStep, Engaged, Phases, Early
<1>7. MadeByOwner' /\ Alone' /\ Named'
  BY <1>1, <1>3 DEF Files, MadeByOwner, Alone, Named, Fresh, Holds, Wiped
<1>8. /\ off[u] + 1 \in Nat /\ size'[inode[u]] \in {size[inode[u]], off[u] + 1}
      /\ size[inode[u]] <= size'[inode[u]] /\ off[u] + 1 <= size'[inode[u]]
      /\ size'[inode[u]] = off[u] + 1 \/ (size'[inode[u]] = size[inode[u]] /\ size[inode[u]] # off[u])
  <2>1. size[inode[u]] \in Nat /\ off[u] \in Nat
    BY <1>1, <1>2
  <2> QED
    BY <1>4, <2>1 DEF Larger
<1>9. KeptIsThere'
  <2> SUFFICES ASSUME NEW v \in Uploads
               PROVE  IF inode[v] = Nil THEN kept'[v] = 0 ELSE kept'[v] <= size'[inode[v]]
    BY <1>3 DEF KeptIsThere
  <2>1. CASE v = u
    BY <1>2, <1>4, <1>8, <2>1
  <2>2. CASE v # u
    <3>1. kept'[v] = kept[v] /\ IF inode[v] = Nil THEN kept[v] = 0 ELSE kept[v] <= size[inode[v]]
      BY <1>1, <1>4, <2>2 DEF Files, KeptIsThere
    <3>2. inode[v] # Nil => /\ inode[v] \in Inodes /\ size[inode[v]] \in Nat
                            /\ size'[inode[v]] = size[inode[v]] \/ inode[v] = inode[u]
      BY <1>1, <1>4
    <3>3. kept[v] \in Nat /\ size[inode[u]] \in Nat /\ size'[inode[u]] \in Nat
      BY <1>1, <1>2, <1>8
    <3> QED
      BY <1>8, <3>1, <3>2, <3>3
  <2> QED
    BY <2>1, <2>2
<1>10. Accounted'
  <2>1. CASE name # inode[u]
    <3>1. name # Nil => size'[name] = size[name]
      BY <1>1, <1>4, <2>1 DEF TransferTypeOK
    <3>2. \A v \in Uploads : Accounts(v) => v # u
      BY <2>1 DEF Accounts
    <3>3. \A v \in Uploads : Accounts(v) /\ name # Nil => Accounts(v)'
      BY <1>1, <1>3, <1>4, <3>1, <3>2 DEF Accounts, Holds
    <3> QED
      BY <1>1, <1>3, <3>1, <3>3 DEF Files, Accounted
  <2>2. CASE name = inode[u] /\ size'[name] = off[u] + 1
    <3>1. Accounts(u)'
      BY <1>2, <1>3, <1>4, <2>2 DEF Accounts, Holds
    <3> QED
      BY <1>2, <3>1 DEF Accounted
  <2>3. CASE name = inode[u] /\ size'[name] = size[name] /\ size[name] # off[u]
    <3>1. \A v \in Uploads : Accounts(v) => v # u
      BY <1>2, <2>3 DEF Accounts
    <3>2. \A v \in Uploads : Accounts(v) => Accounts(v)'
      BY <1>1, <1>3, <1>4, <2>3, <3>1 DEF Accounts, Holds
    <3> QED
      BY <1>1, <1>3, <2>3, <3>2 DEF Files, Accounted
  <2> QED
    BY <1>8, <2>1, <2>2, <2>3
<1> QED
  BY <1>6, <1>7, <1>9, <1>10, UploadKeeps DEF Files

\* The upload is stored.
LEMMA ReceivedStep ==
  ASSUME TransferInv, NEW u \in AllTransfers, Received(u)
  PROVE  TransferInv'
<1>1. /\ TransferTypeOK /\ Matched /\ Files
      /\ \A x \in Uploads : x \in AllTransfers /\ x # Nil
      /\ \A x \in AllTransfers : inode[x] # Nil => inode[x] \in Inodes
  BY Data DEF TransferInv
<1>2. u \in Uploads /\ phase[u] = "run" /\ status[u] = "" /\ inode[u] # Nil /\ inode[u] \in Inodes
  BY <1>1 DEF Received, Matched, MatchedAt
<1>3. UNCHANGED <<set, listed, aborted, killer, reaper, pos, off, inode, assoc, reg, link, own, waiter,
                  forsaken, name, size, kept>>
  BY DEF Received, killVars, ownVars, diskVars
<1>4. /\ phase'[u] = "ending" /\ status'[u] = "ok"
      /\ \A x \in AllTransfers \ {u} : phase'[x] = phase[x] /\ status'[x] = status[x]
  BY <1>1 DEF Received, Ends, Goes, TransferTypeOK
<1>5. TransferTypeOK'
  <2>1. known' \in 0..set.chunks
    BY <1>1, <1>2 DEF Received, Larger, TransferTypeOK
  <2> QED
    BY <1>1, <1>2, <1>3, <2>1 DEF Received, Ends, Goes, TransferTypeOK, Phases, Early
<1>6. UploadStep(u)
  <2>1. MatchedAt(u)'
    BY <1>1, <1>2, <1>3, <1>4 DEF Matched, MatchedAt
  <2> QED
    BY <1>2, <1>3, <1>4, <1>5, <2>1 DEF UploadStep, Engaged, Phases, Early
<1>7. \A v \in Uploads : Fresh(v)' => Fresh(v)
  BY <1>1, <1>3, <1>4 DEF Fresh, Holds
<1>8. MadeByOwner' /\ Alone'
  BY <1>1, <1>3, <1>4, <1>7 DEF Files, MadeByOwner, Alone
<1>9. Named'
  <2> SUFFICES ASSUME NEW v \in Uploads, v \notin forsaken, inode[v] # Nil, status'[v] # "error"
               PROVE  name = inode[v] \/ Wiped(v)'
    BY <1>3 DEF Named
  <2>1. status[v] # "error"
    BY <1>1, <1>2, <1>4
  <2>2. name = inode[v] \/ Wiped(v)
    BY <1>1, <2>1 DEF Files, Named
  <2>3. Wiped(v) => inode[v] \in AllTransfers /\ inode[v] # u
    BY <1>1, <1>2 DEF Wiped, TransferTypeOK
  <2> QED
    BY <1>3, <1>4, <2>2, <2>3 DEF Wiped
<1>10. KeptIsThere'
  BY <1>1, <1>3 DEF Files, KeptIsThere
<1>11. Accounted'
  <2>1. \A v \in Uploads : Accounts(v) => Accounts(v)'
    BY <1>1, <1>2, <1>3, <1>4 DEF Accounts, Holds
  <2> QED
    BY <1>1, <1>3, <2>1 DEF Files, Accounted
<1> QED
  BY <1>6, <1>8, <1>9, <1>10, <1>11, UploadKeeps DEF Files

\* cleanupFailedReceive: a fresh file goes, which nobody else has open unless a caller has
\* given up; a resumed one is cut or filled up to where the resume began.
LEMMA ReceiveFailsStep ==
  ASSUME TransferInv, NEW u \in AllTransfers, ReceiveFails(u)
  PROVE  TransferInv'
<1>1. /\ TransferTypeOK /\ Matched /\ Callers /\ Files
      /\ \A i \in Inodes : size[i] \in Nat
      /\ \A x \in AllTransfers : pos[x] \in Nat
      /\ \A x \in AllTransfers : inode[x] # Nil => inode[x] \in Inodes
      /\ \A x \in Uploads : x \in AllTransfers /\ x # Nil /\ x # Old /\ x \in Inodes /\ kept[x] \in Nat
  BY Data DEF TransferInv
<1>2. /\ u \in Uploads /\ Holds(u) /\ status[u] = "" /\ inode[u] \in Inodes /\ inode[u] # Nil
      /\ phase[u] \in {"opened", "run"}
  BY <1>1 DEF ReceiveFails, Matched, MatchedAt, Holds
<1>3. UNCHANGED <<set, listed, aborted, killer, reaper, pos, off, inode, assoc, reg, link, own, waiter, known,
                  forsaken>>
  BY DEF ReceiveFails, aroundVars, killVars, masterVars, ownVars
<1>4. /\ phase'[u] = "ending" /\ status'[u] = "error"
      /\ \A x \in AllTransfers \ {u} : phase'[x] = phase[x] /\ status'[x] = status[x]
  BY <1>1 DEF ReceiveFails, Ends, Goes, TransferTypeOK
<1>8. \/ pos[u] = 0 /\ name' = Nil /\ size' = size /\ kept' = kept
      \/ /\ pos[u] > 0 /\ pos[u] # 0 /\ name' = name /\ size' = [size EXCEPT ![inode[u]] = pos[u]]
         /\ kept' = [v \in Uploads |-> IF inode[v] = inode[u] /\ pos[u] < kept[v] THEN pos[u] ELSE kept[v]]
  BY <1>1 DEF ReceiveFails
<1>5. TransferTypeOK'
  <2>1. name' \in Inodes \cup {Nil} /\ size' \in [Inodes -> 0..set.chunks]
    BY <1>1, <1>8 DEF TransferTypeOK
  <2>2. kept' \in [Uploads -> 0..set.chunks]
    BY <1>1, <1>8 DEF TransferTypeOK
  <2>3. phase' \in [AllTransfers -> Phases] /\ status' \in [AllTransfers -> {"", "ok", "error"}]
    BY <1>1 DEF ReceiveFails, Ends, Goes, TransferTypeOK, Phases
  <2> QED
    BY <1>1, <1>3, <2>1, <2>2, <2>3 DEF TransferTypeOK
<1>6. UploadStep(u)
  <2>1. MatchedAt(u)'
    BY <1>1, <1>2, <1>3, <1>4 DEF Matched, MatchedAt
  <2> QED
    BY <1>2, <1>3, <1>4, <1>5, <2>1 DEF UploadStep, Engaged, Phases, Early
<1>7. \A v \in Uploads : (Fresh(v)' => v # u /\ Fresh(v)) /\ (status'[v] = "error" <=> v = u \/ status[v] = "error")
  BY <1>1, <1>3, <1>4 DEF Fresh, Holds
<1>9. ASSUME NEW v \in Uploads, Wiped(v) PROVE Wiped(v)'
  <2>1. inode[v] \in AllTransfers
    BY <1>1, <1>9 DEF Wiped, TransferTypeOK
  <2> QED
    BY <1>3, <1>4, <1>9, <2>1 DEF Wiped
<1>10. CASE pos[u] = 0
  <2>1. name' = Nil /\ size' = size /\ kept' = kept /\ name = u /\ inode[u] = u /\ Fresh(u)
    BY <1>1, <1>2, <1>8, <1>10 DEF Files, MadeByOwner, Fresh
  <2>2. \A v \in Uploads \ {u} : ~Fresh(v)
    BY <1>1, <2>1 DEF Files, MadeByOwner
  <2>3. MadeByOwner' /\ Alone'
    BY <1>1, <1>3, <1>7, <2>1, <2>2 DEF Files, MadeByOwner, Alone
  <2>4. Named'
    <3> SUFFICES ASSUME NEW v \in Uploads, v \notin forsaken, inode[v] # Nil, v # u, status[v] # "error"
                 PROVE  Wiped(v)'
      BY <1>3, <1>7 DEF Named
    <3>1. name = inode[v] \/ Wiped(v)
      BY <1>1 DEF Files, Named
    <3>2. CASE inode[v] = u
      <4>1. u \in forsaken
        BY <1>1, <1>2, <2>1, <3>2 DEF Files, Alone
      <4> QED
        BY <1>3, <1>4, <3>2, <4>1 DEF Wiped
    <3> QED
      BY <1>9, <2>1, <3>1, <3>2
  <2>5. KeptIsThere' /\ Accounted'
    BY <1>1, <1>3, <2>1 DEF Files, KeptIsThere, Accounted
  <2> QED
    BY <1>6, <2>3, <2>4, <2>5, UploadKeeps DEF Files
<1>11. CASE pos[u] # 0
  <2>1. /\ pos[u] > 0 /\ name' = name
        /\ size'[inode[u]] = pos[u] /\ \A i \in Inodes \ {inode[u]} : size'[i] = size[i]
        /\ \A v \in Uploads : kept'[v] = IF inode[v] = inode[u] /\ pos[u] < kept[v] THEN pos[u] ELSE kept[v]
    BY <1>1, <1>2, <1>8, <1>11 DEF TransferTypeOK
  <2>2. name # u
    BY <1>1, <1>2, <1>11 DEF Files, MadeByOwner
  <2>3. MadeByOwner' /\ Alone'
    BY <1>1, <1>3, <1>7, <2>1, <2>2 DEF Files, MadeByOwner, Alone
  <2>4. Named'
    <3> SUFFICES ASSUME NEW v \in Uploads, v \notin forsaken, inode[v] # Nil, v # u, status[v] # "error"
                 PROVE  name = inode[v] \/ Wiped(v)'
      BY <1>3, <1>7, <2>1 DEF Named
    <3> QED
      BY <1>1, <1>9 DEF Files, Named
  <2>5. KeptIsThere'
    <3> SUFFICES ASSUME NEW v \in Uploads
                 PROVE  IF inode[v] = Nil THEN kept'[v] = 0 ELSE kept'[v] <= size'[inode[v]]
      BY <1>3 DEF KeptIsThere
    <3>1. kept[v] \in Nat /\ pos[u] \in Nat
      BY <1>1
    <3>2. IF inode[v] = Nil THEN kept[v] = 0 ELSE kept[v] <= size[inode[v]]
      BY <1>1 DEF Files, KeptIsThere
    <3>3. CASE inode[v] = inode[u]
      <4>1. size'[inode[v]] = pos[u] /\ kept'[v] = IF pos[u] < kept[v] THEN pos[u] ELSE kept[v]
        BY <2>1, <3>3
      <4>2. kept'[v] <= pos[u]
        BY <3>1, <4>1
      <4> QED
        BY <1>2, <3>3, <4>1, <4>2
    <3>4. CASE inode[v] # inode[u]
      <4>1. kept'[v] = kept[v] /\ (inode[v] # Nil => size'[inode[v]] = size[inode[v]])
        BY <1>1, <2>1, <3>4
      <4> QED
        BY <3>2, <4>1
    <3> QED
      BY <3>3, <3>4
  <2>6. Accounted'
    <3>1. CASE name = inode[u]
      <4>1. Accounts(u)'
        BY <1>3, <1>4, <2>1, <3>1 DEF Accounts
      <4> QED
        BY <1>2, <4>1 DEF Accounted
    <3>2. CASE name # inode[u]
      <4>1. name # Nil => size'[name] = size[name]
        BY <1>1, <2>1, <3>2 DEF TransferTypeOK
      <4>2. \A v \in Uploads : Accounts(v) => v # u
        BY <3>2 DEF Accounts
      <4>3. \A v \in Uploads : Accounts(v) /\ name # Nil => Accounts(v)'
        BY <1>1, <1>3, <1>4, <2>1, <4>1, <4>2 DEF Accounts, Holds
      <4> QED
        BY <1>1, <2>1, <4>1, <4>3 DEF Files, Accounted
    <3> QED
      BY <3>1, <3>2
  <2> QED
    BY <1>6, <2>3, <2>4, <2>5, <2>6, UploadKeeps DEF Files
<1> QED
  BY <1>10, <1>11

-----------------------------------------------------------------------------
(* Downloads.                                                              *)

\* A step of a download: it leaves uploads and files alone, and forgets an upload only
\* when that has finished.
DownloadStep(d) ==
  /\ phase' \in [AllTransfers -> Phases] /\ status' \in [AllTransfers -> {"", "ok", "error"}]
  /\ off' \in [AllTransfers -> 0..set.chunks] /\ inode' \in [AllTransfers -> Inodes \cup {Nil}]
  /\ assoc' \in [Downloads -> Uploads \cup {Nil}]
  /\ UNCHANGED <<set, listed, pos, aborted, killer, reaper, name, size, kept, link, own, waiter,
                 known, forsaken>>
  /\ \A x \in AllTransfers \ {d} : /\ phase'[x] = phase[x] /\ status'[x] = status[x]
                                  /\ inode'[x] = inode[x] /\ off'[x] = off[x]
  /\ \A x \in Downloads \ {d} : assoc'[x] = assoc[x]
  /\ phase[d] \in {"open", "run", "find", "eof", "forget", "skip"}
  /\ \/ phase'[d] \in {"find", "run", "eof", "forget", "skip"} /\ status'[d] = "" /\ inode'[d] # Nil
     \/ phase'[d] = "ending" /\ status'[d] \in {"ok", "error"} /\ (status'[d] = "ok" => inode'[d] # Nil)
  /\ phase'[d] \in {"forget", "skip"} => assoc'[d] \in Uploads /\ IsFinished(assoc'[d])
  /\ reg' = reg \/ (reg' = Nil /\ reg \in Uploads /\ IsFinished(reg))

\* A step of a download keeps the invariant.
LEMMA DownloadKeeps ==
  ASSUME TransferInv, NEW d \in Downloads, DownloadStep(d)
  PROVE  TransferInv'
<1>1. /\ TransferTypeOK /\ Matched /\ Callers /\ Entries
      /\ \A x \in Uploads : x \in AllTransfers /\ x \notin Downloads
      /\ d \in AllTransfers /\ \A x \in Downloads : x \in AllTransfers
  BY Data DEF TransferInv
<1>2. UNCHANGED <<set, listed, pos, aborted, killer, reaper, name, size, kept, link, own, waiter, known, forsaken>>
  BY DEF DownloadStep
<1>3. \A u \in Uploads : /\ phase'[u] = phase[u] /\ status'[u] = status[u] /\ inode'[u] = inode[u]
                         /\ off'[u] = off[u]
  BY <1>1 DEF DownloadStep
<1>4. TransferTypeOK'
  BY <1>1, <1>2 DEF DownloadStep, TransferTypeOK
<1>5. Matched'
  <2>1. MatchedAt(d)'
    <3>1. waiter[d] \notin {"no", "setup", "asked", "ok"}
      BY <1>1 DEF DownloadStep, Matched, MatchedAt
    <3>2. status'[d] = "ok" => inode'[d] # Nil
      BY DEF DownloadStep
    <3> QED
      BY <1>1, <1>2, <3>1, <3>2 DEF DownloadStep, MatchedAt
  <2>2. \A x \in AllTransfers \ {d} : /\ phase'[x] = phase[x] /\ status'[x] = status[x]
                                       /\ inode'[x] = inode[x] /\ waiter'[x] = waiter[x]
    BY <1>2 DEF DownloadStep
  <2>3. \A x \in AllTransfers \ {d} : MatchedAt(x)'
    BY <1>1, <2>2 DEF Matched, MatchedAt
  <2> QED
    BY <2>1, <2>3 DEF Matched
<1>6. Callers'
  <2>1. phase[d] \in Engaged /\ phase'[d] # "setup"
    BY DEF DownloadStep, Engaged, Phases, Early
  <2>2. \A x \in AllTransfers : CallerAt(x)'
    BY <1>1, <1>2, <2>1 DEF DownloadStep, Callers, CallerAt
  <2> QED
    BY <1>1, <1>2, <2>2 DEF Callers, AtWork
<1>7. Forgetting'
  <2>1. \A u \in Uploads : IsFinished(u) => IsFinished(u)'
    BY <1>2, <1>3 DEF IsFinished
  <2>2. \A e \in Downloads : phase'[e] \in {"forget", "skip"} => assoc'[e] \in Uploads /\ IsFinished(assoc'[e])
    BY <1>1 DEF DownloadStep, Entries, Forgetting
  <2> QED
    BY <2>1, <2>2 DEF Forgetting, IsFinished
<1>8. Entered'
  <2> SUFFICES ASSUME Uploads \cap forsaken = {}, NEW u \in Uploads, phase[u] = "run"
               PROVE  reg' = u \/ u \in aborted
    BY <1>2, <1>3 DEF Entered
  <2>1. reg = u \/ u \in aborted
    BY <1>1 DEF Entries, Entered
  <2>2. reg' = reg \/ IsFinished(reg)
    BY DEF DownloadStep
  <2>3. IsFinished(u) => u \in aborted
    BY DEF IsFinished
  <2>4. CASE reg = u
    BY <2>2, <2>3, <2>4
  <2> QED
    BY <2>1, <2>4
<1>9. Files'
  BY <1>2, <1>3, FilesKeep DEF Holds
<1> QED
  BY <1>4, <1>5, <1>6, <1>7, <1>8, <1>9 DEF TransferInv, Entries

\* The steps of a download are such steps.
LEMMA DownloadSteps ==
  ASSUME TransferInv, NEW d \in AllTransfers,
         OpenDownload(d) \/ Send(d) \/ AtEof(d) \/ Find(d) \/ Forget(d) \/ SendFails(d)
  PROVE  d \in Downloads /\ DownloadStep(d)
<1>0. /\ TransferTypeOK /\ MatchedAt(d) /\ Forgetting
      /\ \A x \in Downloads : x \in AllTransfers
  BY Data DEF TransferInv, Entries, Matched
<1>1. /\ d \in Downloads
      /\ UNCHANGED <<set, listed, pos, aborted, killer, reaper, name, size, kept, link, own, waiter, known, forsaken>>
  BY <1>0 DEF OpenDownload, Send, AtEof, Find, Forget, SendFails, MatchedAt,
              aroundVars, killVars, masterVars, ownVars, diskVars
<1>2. CASE OpenDownload(d)
  <2>1. /\ phase[d] = "open" /\ UNCHANGED <<assoc, reg>>
        /\ \/ /\ name # Nil /\ phase' = [phase EXCEPT ![d] = "find"] /\ status' = status
              /\ inode' = [inode EXCEPT ![d] = name] /\ off' = [off EXCEPT ![d] = pos[d]]
           \/ /\ phase' = [phase EXCEPT ![d] = "ending"] /\ status' = [status EXCEPT ![d] = "error"]
              /\ UNCHANGED <<inode, off>>
    BY <1>2 DEF OpenDownload, OpenTo, Goes, Ends
  <2>2. status[d] = ""
    BY <1>0, <2>1 DEF MatchedAt
  <2>3. /\ phase' \in [AllTransfers -> Phases] /\ status' \in [AllTransfers -> {"", "ok", "error"}]
        /\ assoc' \in [Downloads -> Uploads \cup {Nil}]
    BY <1>0, <2>1 DEF TransferTypeOK, Phases, Early
  <2>4. pos[d] \in 0..set.chunks /\ name \in Inodes \cup {Nil}
    BY <1>0 DEF TransferTypeOK
  <2>5. off' \in [AllTransfers -> 0..set.chunks] /\ inode' \in [AllTransfers -> Inodes \cup {Nil}]
    <3>1. off \in [AllTransfers -> 0..set.chunks] /\ inode \in [AllTransfers -> Inodes \cup {Nil}]
      BY <1>0 DEF TransferTypeOK
    <3>2. /\ off' = off \/ off' = [off EXCEPT ![d] = pos[d]]
          /\ inode' = inode \/ inode' = [inode EXCEPT ![d] = name]
      BY <2>1
    <3> QED
      BY <2>4, <3>1, <3>2
  <2>6. \A x \in AllTransfers \ {d} : /\ phase'[x] = phase[x] /\ status'[x] = status[x]
                                      /\ inode'[x] = inode[x] /\ off'[x] = off[x]
    BY <1>0, <2>1 DEF TransferTypeOK
  <2>7. \/ phase'[d] = "find" /\ status'[d] = "" /\ inode'[d] # Nil
        \/ phase'[d] = "ending" /\ status'[d] = "error"
    BY <1>0, <2>1, <2>2 DEF TransferTypeOK
  <2> QED
    BY <1>1, <2>1, <2>3, <2>5, <2>6, <2>7 DEF DownloadStep
<1>3. CASE Send(d)
  <2>1. /\ phase[d] = "run" /\ UNCHANGED <<phase, inode, assoc, reg, status>>
        /\ off[d] < size[inode[d]] /\ off' = [off EXCEPT ![d] = off[d] + 1]
    BY <1>3 DEF Send
  <2>2. status[d] = "" /\ inode[d] # Nil
    BY <1>0, <2>1 DEF MatchedAt
  <2>3. off[d] \in 0..set.chunks /\ size[inode[d]] \in 0..set.chunks /\ set.chunks \in Nat
    BY <1>0, <2>2, Data DEF TransferTypeOK
  <2>4. off[d] + 1 \in 0..set.chunks
    BY <2>1, <2>3
  <2> QED
    BY <1>0, <1>1, <2>1, <2>2, <2>4 DEF DownloadStep, TransferTypeOK
<1>4. CASE AtEof(d) \/ SendFails(d)
  <2>1. /\ phase[d] \in {"open", "run"} /\ UNCHANGED <<off, inode, assoc, reg>>
        /\ \/ phase[d] = "run" /\ phase' = [phase EXCEPT ![d] = "eof"] /\ status' = status
           \/ phase' = [phase EXCEPT ![d] = "ending"] /\ status' = [status EXCEPT ![d] = "error"]
    BY <1>4 DEF AtEof, SendFails, Goes, Ends, ownVars
  <2>2. status[d] = "" /\ (phase[d] = "run" => inode[d] # Nil)
    BY <1>0, <2>1 DEF MatchedAt
  <2> QED
    BY <1>0, <1>1, <2>1, <2>2 DEF DownloadStep, TransferTypeOK, Phases, Early
<1>5. ASSUME phase[d] \in {"find", "eof", "forget", "skip"}, Stops(d)
      PROVE  /\ phase' \in [AllTransfers -> Phases] /\ status' \in [AllTransfers -> {"", "ok", "error"}]
             /\ \A x \in AllTransfers \ {d} : phase'[x] = phase[x] /\ status'[x] = status[x]
             /\ \/ phase'[d] = "run" /\ status'[d] = ""
                \/ phase'[d] = "ending" /\ status'[d] = "ok"
  <2>1. \/ phase' = [phase EXCEPT ![d] = "run"] /\ status' = status
        \/ phase' = [phase EXCEPT ![d] = "ending"] /\ status' = [status EXCEPT ![d] = "ok"]
    BY <1>5 DEF Stops, Goes, Ends
  <2>2. status[d] = ""
    BY <1>0, <1>5 DEF MatchedAt
  <2> QED
    BY <1>0, <2>1, <2>2 DEF TransferTypeOK, Phases, Early
<1>6. CASE Find(d)
  <2>1. phase[d] \in {"find", "eof"} /\ UNCHANGED <<off, inode, reg>>
    BY <1>6 DEF Find
  <2>2. status[d] = "" /\ inode[d] # Nil
    BY <1>0, <2>1 DEF MatchedAt
  <2>3. CASE Stops(d) /\ assoc' = assoc
    BY <1>0, <1>1, <1>5, <2>1, <2>2, <2>3 DEF DownloadStep, TransferTypeOK
  <2>4. CASE /\ phase' = [phase EXCEPT ![d] = "run"] /\ status' = status
             /\ assoc' = assoc \/ assoc' = [assoc EXCEPT ![d] = reg]
    BY <1>0, <1>1, <2>1, <2>2, <2>4 DEF DownloadStep, TransferTypeOK, Phases, Early
  <2>5. CASE /\ phase' = [phase EXCEPT ![d] = "forget"] \/ phase' = [phase EXCEPT ![d] = "skip"]
             /\ status' = status /\ assoc' = [assoc EXCEPT ![d] = reg]
             /\ reg # Nil /\ ~Live(reg)
    <3>1. assoc'[d] = reg /\ reg \in Uploads /\ IsFinished(reg)
      BY <1>0, <1>1, <2>5 DEF TransferTypeOK, Live
    <3> QED
      BY <1>0, <1>1, <2>1, <2>2, <2>5, <3>1 DEF DownloadStep, TransferTypeOK, Phases, Early
  <2>6. \/ Stops(d) /\ assoc' = assoc
        \/ /\ phase' = [phase EXCEPT ![d] = "run"] /\ status' = status
           /\ assoc' = assoc \/ assoc' = [assoc EXCEPT ![d] = reg]
        \/ /\ phase' = [phase EXCEPT ![d] = "forget"] \/ phase' = [phase EXCEPT ![d] = "skip"]
           /\ status' = status /\ assoc' = [assoc EXCEPT ![d] = reg]
           /\ reg # Nil /\ ~Live(reg)
    BY <1>6 DEF Find, Goes
  <2> QED
    BY <2>3, <2>4, <2>5, <2>6
<1>7. CASE Forget(d)
  <2>1. /\ phase[d] \in {"forget", "skip"} /\ Stops(d) /\ UNCHANGED <<off, inode, assoc>>
        /\ reg' = IF reg = assoc[d] THEN Nil ELSE reg
    BY <1>7 DEF Forget, ownVars
  <2>2. assoc[d] \in Uploads /\ IsFinished(assoc[d])
    BY <1>0, <1>1, <2>1 DEF Forgetting
  <2>3. status[d] = "" /\ inode[d] # Nil
    BY <1>0, <2>1 DEF MatchedAt
  <2>4. reg' = reg \/ (reg' = Nil /\ reg \in Uploads /\ IsFinished(reg))
    BY <2>1, <2>2
  <2> QED
    BY <1>0, <1>1, <1>5, <2>1, <2>3, <2>4 DEF DownloadStep, TransferTypeOK
<1> QED
  BY <1>1, <1>2, <1>3, <1>4, <1>6, <1>7

-----------------------------------------------------------------------------
(* The invariant, and what follows from it.                                *)

\* Every step keeps the invariant.
LEMMA StepInv ==
  ASSUME TransferInv, [TransferNext]_transferVars
  PROVE  TransferInv'
<1>1. CASE UNCHANGED transferVars
  <2>1. /\ TransferTypeOK' /\ Matched' /\ Callers' /\ Entries'
        /\ forsaken' = forsaken
    BY <1>1 DEF transferVars, TransferInv, TransferTypeOK, Matched, MatchedAt, Callers, CallerAt, AtWork,
        Entries, Entered, Forgetting, IsFinished
  <2>2. Files'
    BY <1>1, FilesKeep DEF transferVars, Holds
  <2> QED
    BY <2>1, <2>2 DEF TransferInv
<1>2. CASE Drop \/ Reconnect
  BY <1>2, LinkSteps
<1>3. ASSUME NEW t \in AllTransfers,
             \/ \E at \in 0..set.chunks : Ask(t, at)
             \/ Listen(t) \/ CallStep(t) \/ Abort(t) \/ SlaveStep(t) \/ ClientStep(t) \/ KillStep(t)
      PROVE  TransferInv'
  <2>1. CASE \E at \in 0..set.chunks : Ask(t, at)
    BY <2>1, AskStep
  <2>2. CASE GivesUp(t)
    BY <2>2, LinkSteps
  <2>3. CASE \/ Listen(t) \/ Abort(t) \/ Claim(t) \/ Connected(t) \/ NotConnected(t) \/ Close(t)
             \/ AbortFlags(t) \/ AbortTidies(t) \/ ReapLooks(t) \/ Reap(t)
    BY <2>3, PlainSteps, PlainKeeps
  <2>4. CASE Take(t) \/ Report(t)
    BY <2>4, AnswerSteps, PlainKeeps
  <2>5. CASE OpenUpload(t)
    BY <2>5, OpenStep
  <2>6. CASE Register(t)
    BY <2>6, RegisterStep
  <2>7. CASE Receive(t)
    BY <2>7, ReceiveStep
  <2>8. CASE Received(t)
    BY <2>8, ReceivedStep
  <2>9. CASE ReceiveFails(t)
    BY <2>9, ReceiveFailsStep
  <2>10. CASE OpenDownload(t) \/ Send(t) \/ AtEof(t) \/ Find(t) \/ Forget(t) \/ SendFails(t)
    BY <2>10, DownloadSteps, DownloadKeeps
  <2> QED
    BY <1>3, <2>1, <2>2, <2>3, <2>4, <2>5, <2>6, <2>7, <2>8, <2>9, <2>10
      DEF CallStep, SlaveStep, ClientStep, KillStep
<1> QED
  BY <1>1, <1>2, <1>3 DEF TransferNext

\* The invariant of every execution: goroutines, callers, the file and uploadByPath.
THEOREM TransferInvariant == TransferSpec => []TransferInv
  BY InitInv, StepInv, PTL DEF TransferSpec

\* The state of the transfers of a path stays well typed.
THEOREM TypeCorrect == TransferSpec => []TransferTypeOK
<1>1. TransferInv => TransferTypeOK
  BY DEF TransferInv
<1> QED
  BY <1>1, TransferInvariant, PTL

\* ReceiveFile and cleanupFailedReceive: what a waiter was told is stored stays in the
\* file of that name, however later uploads are refused, fail, are aborted or given up,
\* but for what a resume cuts when it fails and for the file of an upload that went on
\* without its caller and failed; and a fresh upload that failed has left no file.
THEOREM WhatIsStoredStays == TransferSpec => []StoredStays
<1>1. TransferInv => StoredStays
  <2> SUFFICES ASSUME TransferInv PROVE StoredStays
    OBVIOUS
  <2>1. /\ TransferTypeOK /\ Matched /\ Callers /\ Files
        /\ \A u \in Uploads : u \in AllTransfers /\ kept[u] \in Nat
        /\ \A x \in AllTransfers : inode[x] # Nil => inode[x] \in Inodes
        /\ \A i \in Inodes : size[i] \in Nat
    BY Data DEF TransferInv
  <2>2. ASSUME NEW u \in Uploads, waiter[u] = "ok"
        PROVE  (name = inode[u] /\ size[name] >= kept[u]) \/ Wiped(u)
    <3>1. status[u] = "ok" /\ inode[u] # Nil /\ u \notin forsaken
      BY <2>1, <2>2 DEF Matched, MatchedAt, Callers, CallerAt
    <3>2. name = inode[u] \/ Wiped(u)
      BY <2>1, <3>1 DEF Files, Named
    <3>3. kept[u] <= size[inode[u]] /\ kept[u] \in Nat /\ size[inode[u]] \in Nat
      BY <2>1, <3>1 DEF Files, KeptIsThere
    <3> QED
      BY <3>2, <3>3
  <2>3. \A u \in Uploads : status[u] = "error" => name # u
    BY <2>1 DEF Files, MadeByOwner
  <2>4. ASSUME name # Nil, \A u \in Uploads : phase[u] \notin {"opened", "run"}
        PROVE  \/ name = Old /\ size[name] = 1
               \/ \E u \in Uploads :
                    /\ inode[u] = name
                    /\ \/ status[u] = "ok" /\ size[name] = off[u]
                       \/ status[u] = "error" /\ pos[u] > 0 /\ size[name] = pos[u]
    BY <2>1, <2>4 DEF Files, Accounted, Accounts, Holds
  <2> QED
    BY <2>2, <2>3, <2>4 DEF StoredStays
<1> QED
  BY <1>1, TransferInvariant, PTL

\* SendFile's second look at uploadByPath: a download that has read to the end does not
\* stop there while an upload of the path is received, as unregisterUpload deletes no
\* entry but its own; as long as no upload goes on without its caller.
THEOREM LiveUploadsAreFollowed == TransferSpec => FollowsLiveUpload
<1>1. TransferInv /\ [TransferNext]_transferVars =>
        [\A d \in Downloads :
           Uploads \cap forsaken = {} /\ phase[d] = "eof" /\ phase'[d] = "ending" =>
             \A u \in Uploads : phase[u] = "run" => u \in aborted]_transferVars
  <2> SUFFICES ASSUME TransferInv, [TransferNext]_transferVars, NEW d \in Downloads,
                      Uploads \cap forsaken = {}, phase[d] = "eof", phase'[d] = "ending",
                      NEW u \in Uploads, phase[u] = "run"
               PROVE  u \in aborted
    OBVIOUS
  <2>0. /\ TransferTypeOK /\ d \in AllTransfers /\ d \notin Uploads /\ u # Nil
        /\ reg = u \/ u \in aborted
    BY Data DEF TransferInv, Entries, Entered
  <2>1. \A t \in AllTransfers : \A p : Goes(t, p) => t = d /\ p = "ending"
    BY <2>0 DEF Goes, TransferTypeOK
  <2>2. UNCHANGED phase => FALSE
    OBVIOUS
  <2>3. PICK t \in AllTransfers :
           \/ \E at \in 0..set.chunks : Ask(t, at)
           \/ Listen(t) \/ CallStep(t) \/ Abort(t) \/ SlaveStep(t) \/ ClientStep(t) \/ KillStep(t)
    BY <2>2 DEF TransferNext, Drop, Reconnect, onSlaveVars, transferVars
  <2>4. CASE Find(t) \/ Forget(t)
    <3>1. t = d
      BY <2>1, <2>4 DEF Find, Forget, Stops, Ends
    <3>2. phase[d] = "eof" /\ Find(d)
      BY <2>4, <3>1 DEF Forget
    <3>3. ~Goes(d, "run") /\ ~Goes(d, "skip")
      BY <2>0, <2>1
    <3>4. reg = Nil
      BY <2>1, <3>2, <3>3 DEF Find, Stops, Ends
    <3> QED
      BY <2>0, <3>4
  <2>5. CASE \/ NotConnected(t) \/ OpenUpload(t) \/ ReceiveFails(t) \/ OpenDownload(t)
             \/ SendFails(t) \/ Received(t)
    <3>1. t = d
      BY <2>1, <2>5 DEF NotConnected, OpenUpload, ReceiveFails, OpenDownload, SendFails,
          Received, Ends
    <3> QED
      BY <2>0, <2>5, <3>1 DEF NotConnected, OpenUpload, ReceiveFails, OpenDownload, SendFails,
          Received
  <2>6. ~(\/ Claim(t) \/ Connected(t) \/ Close(t) \/ Report(t) \/ Register(t) \/ AtEof(t)
          \/ Take(t) \/ Listen(t))
    BY <2>1 DEF Claim, Connected, Close, Report, Register, AtEof, Take, Listen
  <2>7. ~(\/ GivesUp(t) \/ Abort(t) \/ Receive(t) \/ Send(t) \/ KillStep(t)
          \/ \E at \in 0..set.chunks : Ask(t, at))
    BY <2>2 DEF GivesUp, Abort, Receive, Send, KillStep, AbortFlags, AbortTidies, ReapLooks,
        Reap, Ask,
                onSlaveVars, aborting
  <2> QED
    BY <2>3, <2>4, <2>5, <2>6, <2>7 DEF CallStep, SlaveStep, ClientStep
<1> QED
  BY <1>1, TransferInvariant, PTL DEF TransferSpec, FollowsLiveUpload

-----------------------------------------------------------------------------
(* Waiting for the final status (TransferWait).                           *)

Returned(t) == caller[t] \in {"got", "failed"}
Waits(t) == caller[t] \in Looking \cup {"sleep"}

\* A caller that waits has a channel.
HasBell == \A t \in Transfers : Waits(t) => bell[t] # "none"

\* While the slave is online, what it has sent is on its way or stored, until the
\* caller returns.
StatusKept ==
  \A t \in Transfers :
    online /\ t \in sent /\ ~Returned(t) =>
      t \in wire \/ ReaderAt(t, "update") \/ ReaderAt(t, "store") \/ t \in completed

\* Once the caller has looked there, a status that is stored behind its back
\* comes with a closed channel.
LookedBeforeStored ==
  \A t \in Transfers :
    caller[t] \in {"finished", "online", "sleep"} /\ t \in completed =>
      bell[t] = "closed" \/ ReaderAt(t, "delete") \/ ReaderAt(t, "ring")

\* A RemoteTransfer is finished only by what the slave has sent.
FinishedSent == \A t \in Transfers : remote[t] = "finished" => t \in sent

WaitInv == TypeOK /\ HasBell /\ StatusKept /\ LookedBeforeStored /\ FinishedSent

USE TransferWaitAssumption

\* No status has been sent and nobody waits.
LEMMA WaitInit == Init => WaitInv
  BY DEF Init, WaitInv, TypeOK, HasBell, StatusKept, LookedBeforeStored, FinishedSent,
         Returned, Waits, Looking, ReaderAt

\* Each step of the slave, of the read loop and of a caller keeps the invariant.
LEMMA WaitStep == WaitInv /\ [Next]_vars => WaitInv'
<1> SUFFICES ASSUME WaitInv, [Next]_vars PROVE WaitInv'
  OBVIOUS
<1> USE DEF WaitInv, TypeOK, HasBell, StatusKept, LookedBeforeStored, FinishedSent,
            Returned, Waits, Looking, ReaderAt
<1>1. CASE SetOffline
  BY <1>1 DEF SetOffline, mapVars, callVars
<1>2. ASSUME NEW t \in Transfers, SendStatus(t) PROVE WaitInv'
  BY <1>2 DEF SendStatus, mapVars, callVars
<1>3. ASSUME NEW t \in Transfers, Read(t) PROVE WaitInv'
  BY <1>3 DEF Read, mapVars, callVars
<1>4. ASSUME NEW t \in Transfers, Update(t) PROVE WaitInv'
  BY <1>4 DEF Update, slaveVars, callVars, ReaderGoes
<1>5. ASSUME NEW t \in Transfers, Store(t) PROVE WaitInv'
  BY <1>5 DEF Store, slaveVars, callVars, ReaderGoes
<1>6. ASSUME NEW t \in Transfers, Delete(t) PROVE WaitInv'
  BY <1>6 DEF Delete, slaveVars, callVars, ReaderGoes
<1>7. ASSUME NEW t \in Transfers, Ring(t) PROVE WaitInv'
  BY <1>7 DEF Ring, slaveVars, callVars
<1>8. ASSUME NEW t \in Transfers, Wait(t) PROVE WaitInv'
  BY <1>8 DEF Wait, slaveVars, CallerGoes
<1>9. ASSUME NEW t \in Transfers, GetCompleted(t) PROVE WaitInv'
  BY <1>9 DEF GetCompleted, slaveVars, Returns, CallerGoes
<1>10. ASSUME NEW t \in Transfers, GetFinished(t) PROVE WaitInv'
  BY <1>10 DEF GetFinished, slaveVars, Returns, CallerGoes
<1>11. ASSUME NEW t \in Transfers, LookOnline(t) PROVE WaitInv'
  BY <1>11 DEF LookOnline, slaveVars, Returns, CallerGoes
<1>12. ASSUME NEW t \in Transfers, Wake(t) PROVE WaitInv'
  BY <1>12 DEF Wake, slaveVars, CallerGoes
<1>13. ASSUME NEW t \in Transfers, Tick(t) PROVE WaitInv'
  BY <1>13 DEF Tick, slaveVars, CallerGoes
<1>14. ASSUME NEW t \in Transfers, Deadline(t) PROVE WaitInv'
  BY <1>14 DEF Deadline, slaveVars, mapVars
<1>15. ASSUME NEW t \in Transfers, Expire(t) PROVE WaitInv'
  BY <1>15 DEF Expire, slaveVars, Returns, CallerGoes
<1>16. CASE UNCHANGED vars
  BY <1>16 DEF vars
<1> QED
  BY <1>1, <1>2, <1>3, <1>4, <1>5, <1>6, <1>7, <1>8, <1>9, <1>10, <1>11, <1>12, <1>13, <1>14, <1>15, <1>16
     DEF Next, ReadStep, CallerStep

\* The invariant of every execution: where a status can be, and who is woken.
THEOREM WaitInvariant == Spec => []WaitInv
  BY WaitInit, WaitStep, PTL DEF Spec

\* The maps, channels and callers of a RemoteSlave stay well typed.
THEOREM WaitTypeCorrect == Spec => []TypeOK
<1>1. WaitInv => TypeOK
  BY DEF WaitInv
<1> QED
  BY <1>1, WaitInvariant, PTL

\* WaitTransferStatus never sleeps beside a status that has come: either it is
\* still on its way, or the caller's channel is closed.
THEOREM SleepersAreWoken == Spec => []SleeperIsWoken
<1>1. WaitInv => SleeperIsWoken
  BY DEF WaitInv, StatusKept, LookedBeforeStored, SleeperIsWoken, Returned, ReaderAt
<1> QED
  BY <1>1, WaitInvariant, PTL

-----------------------------------------------------------------------------

\* At the start nobody is promised anything.
LEMMA InitImplements == Init => Result!Init
  BY DEF Init, Result!Init, Looking

\* What the read loop does, and where a waiting caller looks, is hidden.
LEMMA HiddenStep ==
  ASSUME WaitInv,
         ReadStep \/ \E t \in Transfers : Wake(t) \/ Tick(t)
  PROVE  UNCHANGED Result!vars
<1>1. CASE ReadStep
  BY <1>1 DEF ReadStep, Read, Update, Store, Delete, Ring, slaveVars, callVars, mapVars,
         Result!vars
<1>2. ASSUME NEW t \in Transfers, Wake(t) \/ Tick(t) PROVE UNCHANGED Result!vars
  BY <1>2 DEF Wake, Tick, CallerGoes, slaveVars, Result!vars, Looking, WaitInv, TypeOK
<1> QED
  BY <1>1, <1>2

\* A caller that looks finds the status that was sent, fails because the slave
\* is offline, or goes on to wait.
LEMMA LookImplements ==
  ASSUME WaitInv, NEW t \in Transfers, GetCompleted(t) \/ GetFinished(t) \/ LookOnline(t)
  PROVE  Result!Get(t) \/ Result!Fail(t) \/ UNCHANGED Result!vars
<1> USE DEF WaitInv, TypeOK, Looking, slaveVars, Returns, CallerGoes
<1>1. CASE GetCompleted(t)
  <2>1. CASE t \in completed
    BY <1>1, <2>1 DEF GetCompleted, Result!Get, Result!Becomes
  <2>2. CASE t \notin completed
    BY <1>1, <2>2 DEF GetCompleted, Result!vars
  <2> QED
    BY <2>1, <2>2
<1>2. CASE GetFinished(t)
  <2>1. CASE remote[t] = "finished"
    BY <1>2, <2>1 DEF GetFinished, FinishedSent, Result!Get, Result!Becomes
  <2>2. CASE remote[t] # "finished"
    BY <1>2, <2>2 DEF GetFinished, Result!vars
  <2> QED
    BY <2>1, <2>2
<1>3. CASE LookOnline(t)
  <2>1. CASE online
    BY <1>3, <2>1 DEF LookOnline, Result!vars
  <2>2. CASE ~online
    BY <1>3, <2>2 DEF LookOnline, Result!Fail, Result!Becomes
  <2> QED
    BY <2>1, <2>2
<1> QED
  BY <1>1, <1>2, <1>3

\* Every step is one of the promise, or hidden from it.
LEMMA StepImplements == WaitInv /\ [Next]_vars => [Result!Next]_(Result!vars)
<1> SUFFICES ASSUME WaitInv, [Next]_vars PROVE [Result!Next]_(Result!vars)
  OBVIOUS
<1> USE DEF Result!Next
<1>1. CASE ReadStep \/ \E t \in Transfers : Wake(t) \/ Tick(t)
  BY <1>1, HiddenStep
<1>2. CASE SetOffline
  BY <1>2 DEF SetOffline, callVars, Result!GoOffline
<1>3. ASSUME NEW t \in Transfers, SendStatus(t) PROVE Result!Send(t)
  BY <1>3 DEF SendStatus, callVars, Result!Send
<1>4. ASSUME NEW t \in Transfers, Wait(t) PROVE Result!Ask(t)
  BY <1>4 DEF Wait, CallerGoes, slaveVars, Looking, WaitInv, TypeOK, Result!Ask,
         Result!Becomes
<1>5. ASSUME NEW t \in Transfers, GetCompleted(t) \/ GetFinished(t) \/ LookOnline(t)
      PROVE  [Result!Next]_(Result!vars)
  BY <1>5, LookImplements
<1>6. ASSUME NEW t \in Transfers, Deadline(t) PROVE Result!Expire(t)
  BY <1>6 DEF Deadline, slaveVars, Looking, Result!Expire
<1>7. ASSUME NEW t \in Transfers, Expire(t) PROVE Result!Fail(t)
  BY <1>7 DEF Expire, Returns, CallerGoes, slaveVars, Looking, WaitInv, TypeOK,
         Result!Fail, Result!Becomes
<1>8. CASE UNCHANGED vars
  BY <1>8 DEF vars, Result!vars
<1> QED
  BY <1>1, <1>2, <1>3, <1>4, <1>5, <1>6, <1>7, <1>8 DEF Next, CallerStep

\* The safety of TransferResult: a caller is given the status its slave has sent,
\* and goes without one only if the slave is offline or the deadline has passed.
THEOREM PromiseIsKept == Spec => Result!Init /\ [][Result!Next]_(Result!vars)
  BY InitImplements, StepImplements, WaitInvariant, PTL DEF Spec


-----------------------------------------------------------------------------
(***************************************************************************)
(* DataSetup.  For any settings and any number of set-ups: a transfer that *)
(* runs uses the set-up that was announced last, in the TLS role that goes *)
(* with it, from an offset only if REST asked for one; and no port that    *)
(* listens or transfer that waits is forgotten, whatever fails or is       *)
(* kicked.  The argument follows the last announcement from the field of   *)
(* the Session that keeps it to the place of the handler that uses it.     *)
(***************************************************************************)

Places == {"idle", "raw", "accept", "accepted", "failed", "upgrade", "relay", "run", "end", "gone"}

SessionTyped == s \in Session
PortsTyped ==
  /\ made \in 0..MaxSetups
  /\ open \subseteq 1..made
  /\ waiting \subseteq [setup : 1..made, client : BOOLEAN]
HandTyped == hand \in [at : Places, cmd : {""} \cup Listings \cup Transferring, using : 0..MaxSetups,
                       rest : BOOLEAN, client : BOOLEAN]
HistoryTyped ==
  /\ told \in [setup : 0..made, by : {"", "slave", "master", "port"}, client : BOOLEAN]
  /\ left \subseteq 0..MaxSetups
  /\ conf \in [thru : BOOLEAN, master : BOOLEAN, kick : BOOLEAN]
  /\ kick \in {"no", "close", "forget", "wipe", "done"}
  /\ dead \in BOOLEAN /\ asked \in BOOLEAN
Typed == SessionTyped /\ PortsTyped /\ HandTyped /\ HistoryTyped

\* What is prepared is what was announced last: by a port of the master, by the address
\* of PORT, or by a transfer that waits on a slave.
PreparedIsTold ==
  /\ s.listener # Unset => s.listener = told.setup /\ told.by = "master" /\ s.client = told.client
  /\ s.active # Unset => s.active = told.setup /\ told.by = "port"
  /\ s.slave => s.idx = told.setup /\ told.by = "slave"

\* The transfer that waits has the role that was announced, and waits until it runs.
WaitsAsTold ==
  /\ \A w \in waiting : w.setup = told.setup => w.client = told.client
  /\ s.slave => IF hand.at = "run" THEN \A w \in waiting : w.setup # s.idx
                ELSE \E w \in waiting : w.setup = s.idx

\* What the handler has chosen is what was announced last, although a kick may have
\* cleared the field meanwhile.
UsedIsTold ==
  /\ hand.at \in {"accept", "accepted"} =>
       hand.using = told.setup /\ told.by = "master" /\ s.client = told.client
  /\ hand.at = "upgrade" =>
       /\ hand.using = told.setup /\ s.listener = Unset
       /\ IF s.lastActive THEN told.by = "port" ELSE told.by = "master" /\ s.client = told.client

RestIsAsked == (s.rest => asked) /\ (hand.rest => asked)

SetupInv ==
  /\ Typed /\ PreparedIsTold /\ WaitsAsTold /\ UsedIsTold /\ RestIsAsked
  /\ LastSetupIsUsed /\ NothingForgotten

-----------------------------------------------------------------------------
(* Numbers of set-ups, and steps that the lemmas share.                    *)

USE DataSetupAssumption

\* Membership is a truth value.
LEMMA InOrOut == \A x, S : (x \in S) = TRUE \/ (x \in S) = FALSE
  OBVIOUS

\* The slave runs a transfer in one role or the other.
LEMMA RelayRole ==
  RelayStarts => \E b \in BOOLEAN : hand' = [hand EXCEPT !.at = "run", !.using = s.idx, !.client = b]
<1> SUFFICES ASSUME RelayStarts
             PROVE \E b \in BOOLEAN : hand' = [hand EXCEPT !.at = "run", !.using = s.idx, !.client = b]
  OBVIOUS
<1>0. PICK w : w = [setup |-> s.idx, client |-> TRUE]
  OBVIOUS
<1>1. hand' = [hand EXCEPT !.at = "run", !.using = s.idx, !.client = w \in waiting]
  BY <1>0 DEF RelayStarts
<1>2. (w \in waiting) = TRUE \/ (w \in waiting) = FALSE
  BY InOrOut
<1> QED
  BY <1>1, <1>2

\* No set-up is a number like the others.
LEMMA UnsetFits == Unset \in 0..MaxSetups
  BY DEF Unset

\* A new set-up has a number that no other has.
LEMMA NewSetup ==
  ASSUME SetupInv, made < MaxSetups, made' = made + 1
  PROVE  /\ made' \in 0..MaxSetups /\ made' \in 1..made' /\ made' \in 0..made' /\ made' # Unset
         /\ made' \notin 1..made /\ 1..made \subseteq 1..made' /\ 0..made \subseteq 0..made'
         /\ \A i \in 1..made : i # made'
         /\ \A i \in 0..MaxSetups : i # Unset => i \in 1..MaxSetups
  BY DEF SetupInv, Typed, PortsTyped, Unset

\* A port that listens and a transfer that waits are set-ups: none of them is Unset.
LEMMA SetupsAreSet ==
  SetupInv => /\ \A i \in open : i # Unset
         /\ \A w \in waiting : w.setup # Unset
  BY DEF SetupInv, Typed, PortsTyped, Unset

\* A command takes the offset with it, and uses no set-up yet.
LEMMA TakesFacts ==
  ASSUME SetupInv, NEW c \in Listings \cup Transferring, Takes(c)
  PROVE  /\ hand' \in [at : Places, cmd : {""} \cup Listings \cup Transferring, using : 0..MaxSetups,
                       rest : BOOLEAN, client : BOOLEAN]
         /\ hand'.at = "raw" /\ hand.at = "idle"
         /\ (hand'.rest => asked) /\ (s'.rest => asked) /\ asked' = asked
         /\ s'.slave = s.slave /\ s'.idx = s.idx
         /\ UNCHANGED <<told, waiting>>
<1> USE DEF Takes, Ready, At, SetupInv, Typed, SessionTyped, HandTyped, Session, RestIsAsked, Places
<1>1. hand.at = "idle" /\ asked' = asked /\ UNCHANGED <<told, waiting>>
  OBVIOUS
<1>2. CASE c \in Transferring /\ s.rest
  <2>1. hand' = [Idle EXCEPT !.at = "raw", !.cmd = c, !.rest = TRUE] /\ s' = [s EXCEPT !.rest = FALSE]
    BY <1>2
  <2>2. asked
    BY <1>2
  <2> QED
    BY <1>1, <2>1, <2>2, UnsetFits DEF Idle
<1>3. CASE ~(c \in Transferring /\ s.rest)
  <2>1. hand' = [Idle EXCEPT !.at = "raw", !.cmd = c, !.rest = FALSE]
    BY <1>3
  <2>2. hand' \in [at : Places, cmd : {""} \cup Listings \cup Transferring, using : 0..MaxSetups,
                  rest : BOOLEAN, client : BOOLEAN]
    BY <2>1, UnsetFits DEF Idle
  <2>3. hand'.at = "raw" /\ ~hand'.rest
    BY <2>1 DEF Idle
  <2>4. CASE s' = s
    BY <1>1, <2>2, <2>3, <2>4
  <2>5. CASE s' = [s EXCEPT !.rest = FALSE]
    BY <1>1, <2>2, <2>3, <2>5
  <2> QED
    BY <2>4, <2>5
<1> QED
  BY <1>2, <1>3

\* Commands that prepare come while no transfer is under way.
LEMMA PreparesIdle == Prepares => hand.at = "idle" /\ hand' = hand
<1>1. ASSUME NEW c \in Listings \cup Transferring, Pret(c) PROVE hand.at = "idle" /\ hand' = hand
  BY <1>1 DEF Ready, Passive, Pret, At
<1>2. ASSUME NEW b \in BOOLEAN, Prot(b) PROVE hand.at = "idle" /\ hand' = hand
  BY <1>2 DEF Ready, Passive, Prot, At
<1>3. ASSUME NEW b \in BOOLEAN, Sscn(b) PROVE hand.at = "idle" /\ hand' = hand
  BY <1>3 DEF Ready, Passive, Sscn, At
<1>4. ASSUME NEW b \in BOOLEAN, SlaveListens(b) PROVE hand.at = "idle" /\ hand' = hand
  BY <1>4 DEF Ready, Passive, SlaveListens, At
<1>5. ASSUME NEW b \in BOOLEAN, MasterListens(b) PROVE hand.at = "idle" /\ hand' = hand
  BY <1>5 DEF Ready, Passive, MasterListens, At
<1>6. ASSUME NEW b \in BOOLEAN, BadSlaveAddress(b) PROVE hand.at = "idle" /\ hand' = hand
  BY <1>6 DEF Ready, Passive, BadSlaveAddress, At
<1>7. ASSUME NEW b \in BOOLEAN, BadMasterAddress(b) PROVE hand.at = "idle" /\ hand' = hand
  BY <1>7 DEF Ready, Passive, BadMasterAddress, At
<1>8. CASE Rest
  BY <1>8 DEF Ready, Passive, Rest, At
<1>9. CASE PassiveRefused
  BY <1>9 DEF Ready, Passive, PassiveRefused, At
<1>10. CASE PassiveFails
  BY <1>10 DEF Ready, Passive, PassiveFails, At
<1>11. CASE Port
  BY <1>11 DEF Ready, Passive, Port, At
<1>12. CASE BadPort
  BY <1>12 DEF Ready, Passive, BadPort, At
<1>13. CASE Abor
  BY <1>13 DEF Ready, Passive, Abor, At
<1> QED
  BY <1>1, <1>2, <1>3, <1>4, <1>5, <1>6, <1>7, <1>8, <1>9, <1>10, <1>11, <1>12, <1>13 DEF Prepares

-----------------------------------------------------------------------------
(* Each part of the invariant is kept by every step.                       *)

\* What the Session knows keeps its types, whatever a command or a kick sets or clears.
LEMMA SessionTypedKept == SetupInv /\ [SetupNext]_setupVars => SessionTyped'
<1> SUFFICES ASSUME SetupInv, [SetupNext]_setupVars PROVE SessionTyped'
  OBVIOUS
<1> USE DEF SetupInv, Typed, SessionTyped, PortsTyped, HandTyped, HistoryTyped, Session,
     Places, Listings, Transferring, At
<1> USE UnsetFits
<1>1. CASE ToListener \/ ToSlave \/ Accepts \/ AcceptFails \/ Panics \/ RelayStarts \/
         Gone \/ KickLooks \/ KickCloses
  BY <1>1 DEF ToListener, Steady, ToSlave, HandGoes, Accepts, AcceptFails, Panics,
       RelayStarts, Gone, Replaced, KickLooks, Kicking, KickCloses
<1>2. ASSUME NEW c \in Listings \cup Transferring, Pret(c) PROVE SessionTyped'
  <2>1. Cleared \in Session
    BY DEF Cleared, ClearedPassive
  <2>2. [Cleared EXCEPT !.pret = c] \in Session
    BY <2>1
  <2> QED
    BY <1>2, <2>1, <2>2 DEF Pret
<1>3. ASSUME NEW b \in BOOLEAN, Prot(b) PROVE SessionTyped'
  BY <1>3 DEF Prot, Ready
<1>4. ASSUME NEW b \in BOOLEAN, Sscn(b) PROVE SessionTyped'
  BY <1>4 DEF Sscn, Ready
<1>5. ASSUME NEW b \in BOOLEAN, SlaveListens(b) PROVE SessionTyped'
  BY <1>5, NewSetup DEF SlaveListens, Passive, Ready, Announce
<1>6. ASSUME NEW b \in BOOLEAN, MasterListens(b) PROVE SessionTyped'
  BY <1>6, NewSetup DEF MasterListens, Passive, Ready, Announce, Replaced
<1>7. ASSUME NEW b \in BOOLEAN, BadSlaveAddress(b) PROVE SessionTyped'
  BY <1>7, NewSetup DEF BadSlaveAddress, Passive, Ready, ClearedPassive
<1>8. ASSUME NEW b \in BOOLEAN, BadMasterAddress(b) PROVE SessionTyped'
  BY <1>8, NewSetup DEF BadMasterAddress, Passive, Ready, Replaced
<1>9. CASE Rest
  BY <1>9 DEF Rest, Ready
<1>10. CASE PassiveRefused
  BY <1>10 DEF PassiveRefused, Ready, Cleared, ClearedPassive, Released
<1>11. CASE PassiveFails
  BY <1>11 DEF PassiveFails, Ready
<1>12. CASE Port
  BY <1>12, NewSetup DEF Port, Ready, ClearedPassive, Released, Announce
<1>13. CASE BadPort
  BY <1>13 DEF BadPort, Ready, ClearedPassive, Released
<1>14. CASE Abor
  BY <1>14 DEF Abor, Ready, Forgotten
<1>15. ASSUME NEW c \in Listings \cup Transferring, Takes(c) PROVE SessionTyped'
  BY <1>15 DEF Takes, Ready
<1>16. CASE Refused
  BY <1>16 DEF Refused, Steady, Finishes, Cleared, ClearedPassive, Released, Idle
<1>17. CASE Connects
  BY <1>17 DEF Connects, Steady
<1>18. CASE Dials
  BY <1>18 DEF Dials, Steady
<1>19. CASE NoChannel
  BY <1>19 DEF NoChannel, Steady, Finishes, Cleared, ClearedPassive, Released, Idle
<1>20. CASE Shuts
  BY <1>20 DEF Shuts, Steady, HandGoes
<1>21. CASE UpgradeDataTLS
  BY <1>21 DEF UpgradeDataTLS, Steady
<1>22. CASE RelayRefused
  BY <1>22 DEF RelayRefused, Steady, HandGoes
<1>23. CASE TransferEnds
  BY <1>23 DEF TransferEnds, Steady, HandGoes
<1>24. CASE Clears
  BY <1>24 DEF Clears, Steady, Finishes, Cleared, ClearedPassive, Released, Idle
<1>25. CASE KickForgets
  BY <1>25 DEF KickForgets, Kicking
<1>26. CASE KickWipes
  BY <1>26 DEF KickWipes, Kicking, Forgotten
<1>27. CASE UNCHANGED setupVars
  BY <1>27 DEF setupVars
<1> QED
  BY <1>1, <1>2, <1>3, <1>4, <1>5, <1>6, <1>7, <1>8, <1>9, <1>10, <1>11, <1>12, <1>13,
       <1>14, <1>15, <1>16, <1>17, <1>18, <1>19, <1>20, <1>21, <1>22, <1>23, <1>24,
       <1>25, <1>26, <1>27 DEF SetupNext, Prepares, Uses, Kicks

\* Ports and waiting transfers are set-ups that were made.
LEMMA PortsTypedKept == SetupInv /\ [SetupNext]_setupVars => PortsTyped'
<1> SUFFICES ASSUME SetupInv, [SetupNext]_setupVars PROVE PortsTyped'
  OBVIOUS
<1> USE DEF SetupInv, Typed, SessionTyped, PortsTyped, HandTyped, HistoryTyped, Session,
     Places, Listings, Transferring, At
<1>1. CASE Rest \/ PassiveFails \/ Connects \/ ToListener \/ Dials \/ ToSlave \/ Accepts
         \/ AcceptFails \/ Panics \/ UpgradeDataTLS \/ RelayRefused \/ TransferEnds
         \/ Gone \/ KickLooks \/ KickForgets \/ KickWipes
  BY <1>1 DEF Rest, Ready, PassiveFails, Connects, Steady, ToListener, Dials, ToSlave,
       HandGoes, Accepts, AcceptFails, Panics, UpgradeDataTLS, RelayRefused,
       TransferEnds, Gone, Replaced, KickLooks, Kicking, KickForgets, KickWipes,
       Forgotten
<1>2. ASSUME NEW b \in BOOLEAN, Prot(b) \/ Sscn(b) PROVE PortsTyped'
  BY <1>2 DEF Prot, Ready, Sscn
<1>3. ASSUME NEW c \in Listings \cup Transferring, Takes(c) PROVE PortsTyped'
  BY <1>3 DEF Takes, Ready
<1>4. ASSUME NEW c \in Listings \cup Transferring, Pret(c) PROVE PortsTyped'
  BY <1>4 DEF Pret, Ready, Cleared, ClearedPassive, Released
<1>5. ASSUME NEW b \in BOOLEAN, SlaveListens(b) PROVE PortsTyped'
  <2>1. made < MaxSetups /\ made' = made + 1
    BY <1>5 DEF SlaveListens, Passive
  <2>2. waiting' = waiting \cup {[setup |-> made', client |-> b]} /\ open' = open \ {s.listener}
    BY <1>5 DEF SlaveListens
  <2>3. [setup |-> made', client |-> b] \in [setup : 1..made', client : BOOLEAN]
    BY <2>1, NewSetup
  <2>4. waiting \subseteq [setup : 1..made', client : BOOLEAN]
    BY <2>1, NewSetup
  <2> QED
    BY <2>1, <2>2, <2>3, <2>4, NewSetup
<1>6. ASSUME NEW b \in BOOLEAN, MasterListens(b) PROVE PortsTyped'
  BY <1>6, NewSetup DEF MasterListens, Passive, Ready, Announce, Replaced
<1>7. ASSUME NEW b \in BOOLEAN, BadSlaveAddress(b) PROVE PortsTyped'
  BY <1>7, NewSetup DEF BadSlaveAddress, Passive, Ready, ClearedPassive
<1>8. ASSUME NEW b \in BOOLEAN, BadMasterAddress(b) PROVE PortsTyped'
  BY <1>8, NewSetup DEF BadMasterAddress, Passive, Ready, Replaced
<1>9. CASE PassiveRefused
  BY <1>9 DEF PassiveRefused, Ready, Cleared, ClearedPassive, Released
<1>10. CASE Port
  BY <1>10, NewSetup DEF Port, Ready, ClearedPassive, Released, Announce
<1>11. CASE BadPort
  BY <1>11 DEF BadPort, Ready, ClearedPassive, Released
<1>12. CASE Abor
  BY <1>12 DEF Abor, Ready, Forgotten
<1>13. CASE Refused
  BY <1>13 DEF Refused, Steady, Finishes, Cleared, ClearedPassive, Released, Idle
<1>14. CASE NoChannel
  BY <1>14 DEF NoChannel, Steady, Finishes, Cleared, ClearedPassive, Released, Idle
<1>15. CASE Shuts
  BY <1>15 DEF Shuts, Steady, HandGoes
<1>16. CASE RelayStarts
  BY <1>16 DEF RelayStarts, Steady
<1>17. CASE Clears
  BY <1>17 DEF Clears, Steady, Finishes, Cleared, ClearedPassive, Released, Idle
<1>18. CASE KickCloses
  BY <1>18 DEF KickCloses, Kicking
<1>19. CASE UNCHANGED setupVars
  BY <1>19 DEF setupVars
<1> QED
  BY <1>1, <1>2, <1>3, <1>4, <1>5, <1>6, <1>7, <1>8, <1>9, <1>10, <1>11, <1>12, <1>13,
       <1>14, <1>15, <1>16, <1>17, <1>18, <1>19 DEF SetupNext, Prepares, Uses, Kicks

\* The handler is at one of its places, with a set-up that was made.
LEMMA HandTypedKept == SetupInv /\ [SetupNext]_setupVars => HandTyped'
<1> SUFFICES ASSUME SetupInv, [SetupNext]_setupVars PROVE HandTyped'
  OBVIOUS
<1> USE DEF SetupInv, Typed, SessionTyped, PortsTyped, HandTyped, HistoryTyped, Session,
     Places, Listings, Transferring, At
<1>1. CASE Prepares
  BY <1>1, PreparesIdle DEF Idle
<1>2. CASE KickLooks \/ KickCloses \/ KickForgets \/ KickWipes \/ Panics
  BY <1>2 DEF KickLooks, Kicking, KickCloses, KickForgets, KickWipes, Forgotten,
       Panics, Steady
<1>3. ASSUME NEW c \in Listings \cup Transferring, Takes(c) PROVE HandTyped'
  BY <1>3, TakesFacts
<1>4. CASE Refused
  BY <1>4, UnsetFits DEF Refused, Finishes, Idle
<1>5. CASE Connects
  BY <1>5 DEF Connects, Steady
<1>6. CASE ToListener
  BY <1>6 DEF ToListener, Steady
<1>7. CASE Dials
  BY <1>7 DEF Dials, Steady
<1>8. CASE ToSlave
  BY <1>8 DEF ToSlave, Steady, HandGoes
<1>9. CASE NoChannel
  BY <1>9 DEF NoChannel, Steady, Finishes, Cleared, ClearedPassive, Released, Idle
<1>10. CASE Accepts
  BY <1>10 DEF Accepts, Steady, HandGoes
<1>11. CASE AcceptFails
  BY <1>11 DEF AcceptFails, Steady, HandGoes
<1>12. CASE Shuts
  BY <1>12 DEF Shuts, Steady, HandGoes
<1>13. CASE UpgradeDataTLS
  BY <1>13 DEF UpgradeDataTLS, Steady
<1>14. CASE RelayStarts
  BY <1>14, RelayRole DEF RelayStarts
<1>15. CASE RelayRefused
  BY <1>15 DEF RelayRefused, Steady, HandGoes
<1>16. CASE TransferEnds
  BY <1>16 DEF TransferEnds, Steady, HandGoes
<1>17. CASE Clears
  BY <1>17, UnsetFits DEF Clears, Finishes, Idle
<1>18. CASE Gone
  BY <1>18 DEF Gone, Steady, HandGoes, Replaced
<1>19. CASE UNCHANGED setupVars
  BY <1>19 DEF setupVars
<1> QED
  BY <1>1, <1>2, <1>3, <1>4, <1>5, <1>6, <1>7, <1>8, <1>9, <1>10, <1>11, <1>12, <1>13,
       <1>14, <1>15, <1>16, <1>17, <1>18, <1>19 DEF SetupNext, Uses, Kicks

\* The history names set-ups that were made, and a kick is at one of its places.
LEMMA HistoryTypedKept == SetupInv /\ [SetupNext]_setupVars => HistoryTyped'
<1> SUFFICES ASSUME SetupInv, [SetupNext]_setupVars PROVE HistoryTyped'
  OBVIOUS
<1> USE DEF SetupInv, Typed, SessionTyped, PortsTyped, HandTyped, HistoryTyped, Session,
     Places, Listings, Transferring, At
<1>1. CASE PassiveRefused \/ PassiveFails \/ BadPort \/ Connects \/ ToListener \/ Dials \/
         ToSlave \/ Accepts \/ AcceptFails \/ Shuts \/ UpgradeDataTLS \/ RelayStarts
         \/ TransferEnds
  BY <1>1 DEF PassiveRefused, Ready, Cleared, ClearedPassive, Released, PassiveFails,
       BadPort, Connects, Steady, ToListener, Dials, ToSlave, HandGoes, Accepts,
       AcceptFails, Shuts, UpgradeDataTLS, RelayStarts, TransferEnds
<1>2. ASSUME NEW c \in Listings \cup Transferring, Pret(c) \/ Takes(c) PROVE HistoryTyped'
  BY <1>2 DEF Pret, Ready, Cleared, ClearedPassive, Released, Takes
<1>3. ASSUME NEW b \in BOOLEAN, Prot(b) \/ Sscn(b) PROVE HistoryTyped'
  BY <1>3 DEF Prot, Ready, Sscn
<1>4. ASSUME NEW b \in BOOLEAN, SlaveListens(b) PROVE HistoryTyped'
  BY <1>4, NewSetup DEF SlaveListens, Passive, Ready, Announce
<1>5. ASSUME NEW b \in BOOLEAN, MasterListens(b) PROVE HistoryTyped'
  BY <1>5, NewSetup DEF MasterListens, Passive, Ready, Announce, Replaced
<1>6. ASSUME NEW b \in BOOLEAN, BadSlaveAddress(b) PROVE HistoryTyped'
  BY <1>6, NewSetup DEF BadSlaveAddress, Passive, Ready, ClearedPassive
<1>7. ASSUME NEW b \in BOOLEAN, BadMasterAddress(b) PROVE HistoryTyped'
  BY <1>7, NewSetup DEF BadMasterAddress, Passive, Ready, Replaced
<1>8. CASE Rest
  BY <1>8 DEF Rest, Ready
<1>9. CASE Port
  BY <1>9, NewSetup DEF Port, Ready, ClearedPassive, Released, Announce
<1>10. CASE Abor
  BY <1>10 DEF Abor, Ready, Forgotten
<1>11. CASE Refused
  BY <1>11 DEF Refused, Steady, Finishes, Cleared, ClearedPassive, Released, Idle
<1>12. CASE NoChannel
  BY <1>12 DEF NoChannel, Steady, Finishes, Cleared, ClearedPassive, Released, Idle
<1>13. CASE Panics
  BY <1>13 DEF Panics, Steady
<1>14. CASE RelayRefused
  BY <1>14 DEF RelayRefused, Steady, HandGoes
<1>15. CASE Clears
  BY <1>15 DEF Clears, Steady, Finishes, Cleared, ClearedPassive, Released, Idle
<1>16. CASE Gone
  BY <1>16 DEF Gone, Steady, HandGoes, Replaced
<1>17. CASE KickLooks
  BY <1>17 DEF KickLooks, Kicking
<1>18. CASE KickCloses
  BY <1>18 DEF KickCloses, Kicking
<1>19. CASE KickForgets
  BY <1>19 DEF KickForgets, Kicking
<1>20. CASE KickWipes
  BY <1>20 DEF KickWipes, Kicking, Forgotten
<1>21. CASE UNCHANGED setupVars
  BY <1>21 DEF setupVars
<1> QED
  BY <1>1, <1>2, <1>3, <1>4, <1>5, <1>6, <1>7, <1>8, <1>9, <1>10, <1>11, <1>12, <1>13,
       <1>14, <1>15, <1>16, <1>17, <1>18, <1>19, <1>20, <1>21 DEF SetupNext, Prepares,
       Uses, Kicks

\* Every command that prepares replaces what was prepared before it; a kick only takes away.
LEMMA PreparedIsToldKept == SetupInv /\ [SetupNext]_setupVars => PreparedIsTold'
<1> SUFFICES ASSUME SetupInv, [SetupNext]_setupVars PROVE PreparedIsTold'
  OBVIOUS
<1> USE DEF SetupInv, Typed, SessionTyped, PortsTyped, HandTyped, HistoryTyped, Session,
     Places, Listings, Transferring, At, PreparedIsTold
<1>1. CASE ToListener \/ ToSlave \/ Accepts \/ AcceptFails \/ Panics \/ RelayStarts \/
         Gone \/ KickLooks \/ KickCloses
  BY <1>1 DEF ToListener, Steady, ToSlave, HandGoes, Accepts, AcceptFails, Panics,
       RelayStarts, Gone, Replaced, KickLooks, Kicking, KickCloses, UsedIsTold
<1>2. ASSUME NEW c \in Listings \cup Transferring, Pret(c) PROVE PreparedIsTold'
  BY <1>2 DEF Pret, Ready, Cleared, ClearedPassive, Released, UsedIsTold
<1>3. ASSUME NEW b \in BOOLEAN, Prot(b) PROVE PreparedIsTold'
  BY <1>3 DEF Prot, Ready, UsedIsTold
<1>4. ASSUME NEW b \in BOOLEAN, Sscn(b) PROVE PreparedIsTold'
  BY <1>4 DEF Sscn, Ready, UsedIsTold
<1>5. ASSUME NEW b \in BOOLEAN, SlaveListens(b) PROVE PreparedIsTold'
  BY <1>5 DEF SlaveListens, Passive, Ready, Announce, UsedIsTold
<1>6. ASSUME NEW b \in BOOLEAN, MasterListens(b) PROVE PreparedIsTold'
  BY <1>6 DEF MasterListens, Passive, Ready, Announce, Replaced, UsedIsTold
<1>7. ASSUME NEW b \in BOOLEAN, BadSlaveAddress(b) PROVE PreparedIsTold'
  BY <1>7 DEF BadSlaveAddress, Passive, Ready, ClearedPassive, UsedIsTold
<1>8. ASSUME NEW b \in BOOLEAN, BadMasterAddress(b) PROVE PreparedIsTold'
  BY <1>8 DEF BadMasterAddress, Passive, Ready, Replaced, UsedIsTold
<1>9. CASE Rest
  BY <1>9 DEF Rest, Ready, UsedIsTold
<1>10. CASE PassiveRefused
  BY <1>10 DEF PassiveRefused, Ready, Cleared, ClearedPassive, Released, UsedIsTold
<1>11. CASE PassiveFails
  BY <1>11 DEF PassiveFails, Ready, UsedIsTold
<1>12. CASE Port
  BY <1>12 DEF Port, Ready, ClearedPassive, Released, Announce, UsedIsTold
<1>13. CASE BadPort
  BY <1>13 DEF BadPort, Ready, ClearedPassive, Released, UsedIsTold
<1>14. CASE Abor
  BY <1>14 DEF Abor, Ready, Forgotten, UsedIsTold
<1>15. ASSUME NEW c \in Listings \cup Transferring, Takes(c) PROVE PreparedIsTold'
  BY <1>15 DEF Takes, Ready, UsedIsTold
<1>16. CASE Refused
  BY <1>16 DEF Refused, Steady, Finishes, Cleared, ClearedPassive, Released, Idle,
       UsedIsTold
<1>17. CASE Connects
  BY <1>17 DEF Connects, Steady, UsedIsTold
<1>18. CASE Dials
  BY <1>18 DEF Dials, Steady, UsedIsTold
<1>19. CASE NoChannel
  BY <1>19 DEF NoChannel, Steady, Finishes, Cleared, ClearedPassive, Released, Idle,
       UsedIsTold
<1>20. CASE Shuts
  BY <1>20 DEF Shuts, Steady, HandGoes, UsedIsTold
<1>21. CASE UpgradeDataTLS
  BY <1>21 DEF UpgradeDataTLS, Steady, UsedIsTold
<1>22. CASE RelayRefused
  BY <1>22 DEF RelayRefused, Steady, HandGoes, UsedIsTold
<1>23. CASE TransferEnds
  BY <1>23 DEF TransferEnds, Steady, HandGoes, UsedIsTold
<1>24. CASE Clears
  BY <1>24 DEF Clears, Steady, Finishes, Cleared, ClearedPassive, Released, Idle,
       UsedIsTold
<1>25. CASE KickForgets
  BY <1>25 DEF KickForgets, Kicking, UsedIsTold
<1>26. CASE KickWipes
  BY <1>26 DEF KickWipes, Kicking, Forgotten, UsedIsTold
<1>27. CASE UNCHANGED setupVars
  BY <1>27 DEF setupVars, UsedIsTold
<1> QED
  BY <1>1, <1>2, <1>3, <1>4, <1>5, <1>6, <1>7, <1>8, <1>9, <1>10, <1>11, <1>12, <1>13,
       <1>14, <1>15, <1>16, <1>17, <1>18, <1>19, <1>20, <1>21, <1>22, <1>23, <1>24,
       <1>25, <1>26, <1>27 DEF SetupNext, Prepares, Uses, Kicks

\* The transfer that waits on a slave is there, and in the role that was announced, until
\* a RECEIVE or SEND takes it.
LEMMA WaitsAsToldKept == SetupInv /\ [SetupNext]_setupVars => WaitsAsTold'
<1> SUFFICES ASSUME SetupInv, [SetupNext]_setupVars PROVE WaitsAsTold'
  OBVIOUS
<1> USE DEF SetupInv, Typed, SessionTyped, PortsTyped, HandTyped, HistoryTyped, Session,
     Places, Listings, Transferring, At, WaitsAsTold
<1>1. ASSUME NEW c \in Listings \cup Transferring, Pret(c) PROVE WaitsAsTold'
  BY <1>1 DEF Pret, Ready, Cleared, ClearedPassive, Released, PreparedIsTold
<1>2. ASSUME NEW b \in BOOLEAN, Prot(b) PROVE WaitsAsTold'
  BY <1>2 DEF Prot, Ready, PreparedIsTold
<1>3. ASSUME NEW b \in BOOLEAN, Sscn(b) PROVE WaitsAsTold'
  BY <1>3 DEF Sscn, Ready, PreparedIsTold
<1>4. ASSUME NEW b \in BOOLEAN, SlaveListens(b) PROVE WaitsAsTold'
  <2>1. made < MaxSetups /\ made' = made + 1 /\ hand.at = "idle" /\ hand' = hand
    BY <1>4 DEF SlaveListens, Passive, Ready
  <2>2. waiting' = waiting \cup {[setup |-> made', client |-> b]}
    BY <1>4 DEF SlaveListens
  <2>3. s'.idx = made' /\ told'.setup = made' /\ told'.client = b
    BY <1>4 DEF SlaveListens, Announce
  <2>4. \A w \in waiting : w.setup # made'
    BY <2>1, NewSetup
  <2> DEFINE new == [setup |-> made', client |-> b]
  <2>5. new \in waiting' /\ new.setup = made' /\ new.client = b
    BY <2>2
  <2>6. ASSUME NEW w \in waiting', w.setup = told'.setup PROVE w.client = told'.client
    <3>1. CASE w \in waiting
      BY <2>3, <2>4, <2>6, <3>1
    <3>2. CASE w = new
      BY <2>3, <2>5, <3>2
    <3> QED
      BY <2>2, <3>1, <3>2
  <2>7. \E w \in waiting' : w.setup = s'.idx
    BY <2>3, <2>5
  <2> QED
    BY <2>1, <2>6, <2>7
<1>5. ASSUME NEW b \in BOOLEAN, MasterListens(b) PROVE WaitsAsTold'
  BY <1>5, NewSetup DEF MasterListens, Passive, Ready, Announce, Replaced,
       PreparedIsTold
<1>6. ASSUME NEW b \in BOOLEAN, BadSlaveAddress(b) PROVE WaitsAsTold'
  BY <1>6, NewSetup DEF BadSlaveAddress, Passive, Ready, ClearedPassive,
       PreparedIsTold
<1>7. ASSUME NEW b \in BOOLEAN, BadMasterAddress(b) PROVE WaitsAsTold'
  BY <1>7, NewSetup DEF BadMasterAddress, Passive, Ready, Replaced, PreparedIsTold
<1>8. CASE Rest
  BY <1>8 DEF Rest, Ready, PreparedIsTold
<1>9. CASE PassiveRefused
  BY <1>9 DEF PassiveRefused, Ready, Cleared, ClearedPassive, Released, PreparedIsTold
<1>10. CASE PassiveFails
  BY <1>10 DEF PassiveFails, Ready, PreparedIsTold
<1>11. CASE Port
  BY <1>11, NewSetup DEF Port, Ready, ClearedPassive, Released, Announce,
       PreparedIsTold
<1>12. CASE BadPort
  BY <1>12 DEF BadPort, Ready, ClearedPassive, Released, PreparedIsTold
<1>13. CASE Abor
  BY <1>13 DEF Abor, Ready, Forgotten, PreparedIsTold
<1>14. ASSUME NEW c \in Listings \cup Transferring, Takes(c) PROVE WaitsAsTold'
  BY <1>14, TakesFacts DEF Takes
<1>15. CASE Refused
  BY <1>15 DEF Refused, Steady, Finishes, Cleared, ClearedPassive, Released, Idle,
       PreparedIsTold
<1>16. CASE Connects
  BY <1>16 DEF Connects, Steady, PreparedIsTold
<1>17. CASE ToListener
  BY <1>17 DEF ToListener, Steady, PreparedIsTold
<1>18. CASE Dials
  BY <1>18 DEF Dials, Steady, PreparedIsTold
<1>19. CASE ToSlave
  BY <1>19 DEF ToSlave, Steady, HandGoes, PreparedIsTold
<1>20. CASE NoChannel
  BY <1>20 DEF NoChannel, Steady, Finishes, Cleared, ClearedPassive, Released, Idle,
       PreparedIsTold
<1>21. CASE Accepts
  BY <1>21 DEF Accepts, Steady, HandGoes, PreparedIsTold
<1>22. CASE AcceptFails
  BY <1>22 DEF AcceptFails, Steady, HandGoes, PreparedIsTold
<1>23. CASE Shuts
  BY <1>23 DEF Shuts, Steady, HandGoes, PreparedIsTold
<1>24. CASE Panics
  BY <1>24 DEF Panics, Steady, PreparedIsTold
<1>25. CASE UpgradeDataTLS
  <2>1. s'.slave = s.slave /\ s'.idx = s.idx /\ waiting' = waiting /\ told' = told
    BY <1>25 DEF UpgradeDataTLS
  <2>2. hand.at = "upgrade" /\ (told.by = "port" \/ told.by = "master")
    BY <1>25 DEF UpgradeDataTLS, UsedIsTold
  <2>3. ~s.slave
    BY <2>2 DEF PreparedIsTold
  <2> QED
    BY <2>1, <2>3
<1>26. CASE RelayStarts
  BY <1>26 DEF RelayStarts, Steady, PreparedIsTold
<1>27. CASE RelayRefused
  BY <1>27 DEF RelayRefused, Steady, HandGoes, PreparedIsTold
<1>28. CASE TransferEnds
  BY <1>28 DEF TransferEnds, Steady, HandGoes, PreparedIsTold
<1>29. CASE Clears
  BY <1>29 DEF Clears, Steady, Finishes, Cleared, ClearedPassive, Released, Idle,
       PreparedIsTold
<1>30. CASE Gone
  BY <1>30 DEF Gone, Steady, HandGoes, Replaced, PreparedIsTold
<1>31. CASE KickLooks
  BY <1>31 DEF KickLooks, Kicking, PreparedIsTold
<1>32. CASE KickCloses
  BY <1>32 DEF KickCloses, Kicking, PreparedIsTold
<1>33. CASE KickForgets
  BY <1>33 DEF KickForgets, Kicking, PreparedIsTold
<1>34. CASE KickWipes
  BY <1>34 DEF KickWipes, Kicking, Forgotten, PreparedIsTold
<1>35. CASE UNCHANGED setupVars
  BY <1>35 DEF setupVars, PreparedIsTold
<1> QED
  BY <1>1, <1>2, <1>3, <1>4, <1>5, <1>6, <1>7, <1>8, <1>9, <1>10, <1>11, <1>12, <1>13,
       <1>14, <1>15, <1>16, <1>17, <1>18, <1>19, <1>20, <1>21, <1>22, <1>23, <1>24,
       <1>25, <1>26, <1>27, <1>28, <1>29, <1>30, <1>31, <1>32, <1>33, <1>34, <1>35 DEF
       SetupNext, Prepares, Uses, Kicks

\* Between the choice of a set-up and its use nothing is announced.
LEMMA UsedIsToldKept == SetupInv /\ [SetupNext]_setupVars => UsedIsTold'
<1> SUFFICES ASSUME SetupInv, [SetupNext]_setupVars PROVE UsedIsTold'
  OBVIOUS
<1> USE DEF SetupInv, Typed, SessionTyped, PortsTyped, HandTyped, HistoryTyped, Session,
     Places, Listings, Transferring, At, UsedIsTold
<1>1. CASE Prepares
  BY <1>1, PreparesIdle DEF Idle, PreparedIsTold
<1>2. ASSUME NEW c \in Listings \cup Transferring, Takes(c) PROVE UsedIsTold'
  BY <1>2, TakesFacts
<1>3. CASE Refused
  BY <1>3 DEF Refused, Steady, Finishes, Cleared, ClearedPassive, Released, Idle,
       PreparedIsTold
<1>4. CASE Connects
  BY <1>4 DEF Connects, Steady, PreparedIsTold
<1>5. CASE ToListener
  BY <1>5 DEF ToListener, Steady, PreparedIsTold
<1>6. CASE Dials
  BY <1>6 DEF Dials, Steady, PreparedIsTold
<1>7. CASE ToSlave
  BY <1>7 DEF ToSlave, Steady, HandGoes, PreparedIsTold
<1>8. CASE NoChannel
  BY <1>8 DEF NoChannel, Steady, Finishes, Cleared, ClearedPassive, Released, Idle,
       PreparedIsTold
<1>9. CASE Accepts
  BY <1>9 DEF Accepts, Steady, HandGoes, PreparedIsTold
<1>10. CASE AcceptFails
  BY <1>10 DEF AcceptFails, Steady, HandGoes, PreparedIsTold
<1>11. CASE Shuts
  BY <1>11 DEF Shuts, Steady, HandGoes, PreparedIsTold
<1>12. CASE Panics
  BY <1>12 DEF Panics, Steady, PreparedIsTold
<1>13. CASE UpgradeDataTLS
  BY <1>13 DEF UpgradeDataTLS, Steady, PreparedIsTold
<1>14. CASE RelayStarts
  BY <1>14 DEF RelayStarts, Steady, PreparedIsTold
<1>15. CASE RelayRefused
  BY <1>15 DEF RelayRefused, Steady, HandGoes, PreparedIsTold
<1>16. CASE TransferEnds
  BY <1>16 DEF TransferEnds, Steady, HandGoes, PreparedIsTold
<1>17. CASE Clears
  BY <1>17 DEF Clears, Steady, Finishes, Cleared, ClearedPassive, Released, Idle,
       PreparedIsTold
<1>18. CASE Gone
  BY <1>18 DEF Gone, Steady, HandGoes, Replaced, PreparedIsTold
<1>19. CASE KickLooks
  BY <1>19 DEF KickLooks, Kicking, PreparedIsTold
<1>20. CASE KickCloses
  BY <1>20 DEF KickCloses, Kicking, PreparedIsTold
<1>21. CASE KickForgets
  BY <1>21 DEF KickForgets, Kicking, PreparedIsTold
<1>22. CASE KickWipes
  BY <1>22 DEF KickWipes, Kicking, Forgotten, PreparedIsTold
<1>23. CASE UNCHANGED setupVars
  BY <1>23 DEF setupVars, PreparedIsTold
<1> QED
  BY <1>1, <1>2, <1>3, <1>4, <1>5, <1>6, <1>7, <1>8, <1>9, <1>10, <1>11, <1>12, <1>13,
       <1>14, <1>15, <1>16, <1>17, <1>18, <1>19, <1>20, <1>21, <1>22, <1>23 DEF
       SetupNext, Uses, Kicks

\* The offset of REST is taken by one transfer; the clearing after it ends the request.
LEMMA RestIsAskedKept == SetupInv /\ [SetupNext]_setupVars => RestIsAsked'
<1> SUFFICES ASSUME SetupInv, [SetupNext]_setupVars PROVE RestIsAsked'
  OBVIOUS
<1> USE DEF SetupInv, Typed, SessionTyped, PortsTyped, HandTyped, HistoryTyped, Session,
     Places, Listings, Transferring, At, RestIsAsked
<1>1. CASE ToListener \/ ToSlave \/ Accepts \/ AcceptFails \/ Panics \/ RelayStarts \/
         Gone \/ KickLooks \/ KickCloses \/ KickForgets \/ KickWipes
  BY <1>1 DEF ToListener, Steady, ToSlave, HandGoes, Accepts, AcceptFails, Panics,
       RelayStarts, Gone, Replaced, KickLooks, Kicking, KickCloses, KickForgets,
       KickWipes, Forgotten
<1>2. ASSUME NEW c \in Listings \cup Transferring, Pret(c) PROVE RestIsAsked'
  BY <1>2 DEF Pret, Ready, Cleared, ClearedPassive, Released
<1>3. ASSUME NEW b \in BOOLEAN, Prot(b) PROVE RestIsAsked'
  BY <1>3 DEF Prot, Ready
<1>4. ASSUME NEW b \in BOOLEAN, Sscn(b) PROVE RestIsAsked'
  BY <1>4 DEF Sscn, Ready
<1>5. ASSUME NEW b \in BOOLEAN, SlaveListens(b) PROVE RestIsAsked'
  BY <1>5 DEF SlaveListens, Passive, Ready, Announce
<1>6. ASSUME NEW b \in BOOLEAN, MasterListens(b) PROVE RestIsAsked'
  BY <1>6 DEF MasterListens, Passive, Ready, Announce, Replaced
<1>7. ASSUME NEW b \in BOOLEAN, BadSlaveAddress(b) PROVE RestIsAsked'
  BY <1>7 DEF BadSlaveAddress, Passive, Ready, ClearedPassive
<1>8. ASSUME NEW b \in BOOLEAN, BadMasterAddress(b) PROVE RestIsAsked'
  BY <1>8 DEF BadMasterAddress, Passive, Ready, Replaced
<1>9. CASE Rest
  BY <1>9 DEF Rest, Ready
<1>10. CASE PassiveRefused
  BY <1>10 DEF PassiveRefused, Ready, Cleared, ClearedPassive, Released
<1>11. CASE PassiveFails
  BY <1>11 DEF PassiveFails, Ready
<1>12. CASE Port
  BY <1>12 DEF Port, Ready, ClearedPassive, Released, Announce
<1>13. CASE BadPort
  BY <1>13 DEF BadPort, Ready, ClearedPassive, Released
<1>14. CASE Abor
  BY <1>14 DEF Abor, Ready, Forgotten
<1>15. ASSUME NEW c \in Listings \cup Transferring, Takes(c) PROVE RestIsAsked'
  BY <1>15, TakesFacts
<1>16. CASE Refused
  BY <1>16 DEF Refused, Steady, Finishes, Cleared, ClearedPassive, Released, Idle
<1>17. CASE Connects
  BY <1>17 DEF Connects, Steady
<1>18. CASE Dials
  BY <1>18 DEF Dials, Steady
<1>19. CASE NoChannel
  BY <1>19 DEF NoChannel, Steady, Finishes, Cleared, ClearedPassive, Released, Idle
<1>20. CASE Shuts
  BY <1>20 DEF Shuts, Steady, HandGoes
<1>21. CASE UpgradeDataTLS
  BY <1>21 DEF UpgradeDataTLS, Steady
<1>22. CASE RelayRefused
  BY <1>22 DEF RelayRefused, Steady, HandGoes
<1>23. CASE TransferEnds
  BY <1>23 DEF TransferEnds, Steady, HandGoes
<1>24. CASE Clears
  BY <1>24 DEF Clears, Steady, Finishes, Cleared, ClearedPassive, Released, Idle
<1>25. CASE UNCHANGED setupVars
  BY <1>25 DEF setupVars
<1> QED
  BY <1>1, <1>2, <1>3, <1>4, <1>5, <1>6, <1>7, <1>8, <1>9, <1>10, <1>11, <1>12, <1>13,
       <1>14, <1>15, <1>16, <1>17, <1>18, <1>19, <1>20, <1>21, <1>22, <1>23, <1>24,
       <1>25 DEF SetupNext, Prepares, Uses, Kicks

\* The ways to a running transfer: PORT dialled by the slave or the master, a port of the
\* master, a transfer that waits on a slave.
LEMMA LastSetupIsUsedKept == SetupInv /\ [SetupNext]_setupVars => LastSetupIsUsed'
<1> SUFFICES ASSUME SetupInv, [SetupNext]_setupVars PROVE LastSetupIsUsed'
  OBVIOUS
<1> USE DEF SetupInv, Typed, SessionTyped, PortsTyped, HandTyped, HistoryTyped, Session,
     Places, Listings, Transferring, At, LastSetupIsUsed
<1>1. CASE Prepares
  BY <1>1, PreparesIdle DEF Idle, PreparedIsTold, WaitsAsTold, UsedIsTold
<1>2. ASSUME NEW c \in Listings \cup Transferring, Takes(c) PROVE LastSetupIsUsed'
  BY <1>2, TakesFacts
<1>3. CASE Refused
  BY <1>3 DEF Refused, Steady, Finishes, Cleared, ClearedPassive, Released, Idle,
       PreparedIsTold, WaitsAsTold, UsedIsTold
<1>4. CASE Connects
  <2>1. told.by = "port" /\ s.active = told.setup
    BY <1>4 DEF Connects, PreparedIsTold
  <2>2. s'.priv = s.priv /\ s'.sscn = s.sscn /\ told' = told /\ asked' = asked
    BY <1>4 DEF Connects
  <2>3. hand'.using = s.active /\ hand'.rest = hand.rest /\ hand'.client = (s.priv /\ s.sscn)
    BY <1>4 DEF Connects
  <2>4. hand.rest => asked
    BY DEF RestIsAsked
  <2> QED
    BY <2>1, <2>2, <2>3, <2>4
<1>5. CASE ToListener
  BY <1>5 DEF ToListener, Steady, PreparedIsTold, WaitsAsTold, UsedIsTold
<1>6. CASE Dials
  BY <1>6 DEF Dials, Steady, PreparedIsTold, WaitsAsTold, UsedIsTold
<1>7. CASE ToSlave
  BY <1>7 DEF ToSlave, Steady, HandGoes, PreparedIsTold, WaitsAsTold, UsedIsTold
<1>8. CASE NoChannel
  BY <1>8 DEF NoChannel, Steady, Finishes, Cleared, ClearedPassive, Released, Idle,
       PreparedIsTold, WaitsAsTold, UsedIsTold
<1>9. CASE Accepts
  BY <1>9 DEF Accepts, Steady, HandGoes, PreparedIsTold, WaitsAsTold, UsedIsTold
<1>10. CASE AcceptFails
  BY <1>10 DEF AcceptFails, Steady, HandGoes, PreparedIsTold, WaitsAsTold, UsedIsTold
<1>11. CASE Shuts
  BY <1>11 DEF Shuts, Steady, HandGoes, PreparedIsTold, WaitsAsTold, UsedIsTold
<1>12. CASE Panics
  BY <1>12 DEF Panics, Steady, PreparedIsTold, WaitsAsTold, UsedIsTold
<1>13. CASE UpgradeDataTLS
  <2>1. /\ hand.at = "upgrade" /\ hand.using = told.setup
        /\ IF s.lastActive THEN told.by = "port" ELSE told.by = "master" /\ s.client = told.client
    BY <1>13 DEF UpgradeDataTLS, UsedIsTold
  <2>2. s'.priv = s.priv /\ s'.sscn = s.sscn /\ told' = told /\ asked' = asked
    BY <1>13 DEF UpgradeDataTLS
  <2>3. hand.rest => asked
    BY DEF RestIsAsked
  <2>4. CASE hand' = [hand EXCEPT !.at = "run", !.client = s.priv /\ IF s.lastActive THEN s.sscn ELSE s.client]
    <3>1. hand'.using = hand.using /\ hand'.rest = hand.rest
      BY <2>4
    <3>2. hand'.client = (s.priv /\ IF s.lastActive THEN s.sscn ELSE s.client)
      BY <2>4
    <3> QED
      BY <2>1, <2>2, <2>3, <3>1, <3>2
  <2>5. CASE hand' = [hand EXCEPT !.at = "end"]
    BY <2>5
  <2> QED
    BY <1>13, <2>4, <2>5 DEF UpgradeDataTLS
<1>14. CASE RelayStarts
  <2>1. s.slave /\ hand.at = "relay"
    BY <1>14 DEF RelayStarts
  <2>2. s.idx = told.setup /\ told.by = "slave"
    BY <2>1 DEF PreparedIsTold
  <2>3. PICK w \in waiting : w.setup = s.idx
    BY <2>1 DEF WaitsAsTold
  <2>4. \A v \in waiting : v.setup = s.idx => v.client = told.client
    BY <2>2 DEF WaitsAsTold
  <2>5. ([setup |-> s.idx, client |-> TRUE] \in waiting) <=> told.client
    <3>1. w = [setup |-> s.idx, client |-> told.client]
      BY <2>3, <2>4
    <3>2. [setup |-> s.idx, client |-> TRUE] \in waiting => told.client
      BY <2>4
    <3>3. told.client => told.client = TRUE
      OBVIOUS
    <3> QED
      BY <3>1, <3>2, <3>3
  <2>6. s' = s /\ told' = told /\ asked' = asked
    BY <1>14 DEF RelayStarts
  <2>7. /\ hand'.using = s.idx /\ hand'.rest = hand.rest
        /\ hand'.client = ([setup |-> s.idx, client |-> TRUE] \in waiting)
    BY <1>14 DEF RelayStarts
  <2>8. hand.rest => asked
    BY DEF RestIsAsked
  <2>9. hand'.client <=> told'.client
    BY <2>5, <2>6, <2>7
  <2>10. hand'.using = told'.setup /\ told'.by # "port" /\ (hand'.rest => asked')
    BY <2>2, <2>6, <2>7, <2>8
  <2>11. hand'.client \in BOOLEAN /\ told'.client \in BOOLEAN
    BY <2>6, HandTypedKept
  <2> QED
    BY <2>9, <2>10, <2>11
<1>15. CASE RelayRefused
  BY <1>15 DEF RelayRefused, Steady, HandGoes, PreparedIsTold, WaitsAsTold, UsedIsTold
<1>16. CASE TransferEnds
  BY <1>16 DEF TransferEnds, Steady, HandGoes, PreparedIsTold, WaitsAsTold, UsedIsTold
<1>17. CASE Clears
  BY <1>17 DEF Clears, Steady, Finishes, Cleared, ClearedPassive, Released, Idle,
       PreparedIsTold, WaitsAsTold, UsedIsTold
<1>18. CASE Gone
  BY <1>18 DEF Gone, Steady, HandGoes, Replaced, PreparedIsTold, WaitsAsTold,
       UsedIsTold
<1>19. CASE KickLooks
  BY <1>19 DEF KickLooks, Kicking, PreparedIsTold, WaitsAsTold, UsedIsTold
<1>20. CASE KickCloses
  BY <1>20 DEF KickCloses, Kicking, PreparedIsTold, WaitsAsTold, UsedIsTold
<1>21. CASE KickForgets
  BY <1>21 DEF KickForgets, Kicking, PreparedIsTold, WaitsAsTold, UsedIsTold
<1>22. CASE KickWipes
  BY <1>22 DEF KickWipes, Kicking, Forgotten, PreparedIsTold, WaitsAsTold, UsedIsTold
<1>23. CASE UNCHANGED setupVars
  BY <1>23 DEF setupVars, PreparedIsTold, WaitsAsTold, UsedIsTold
<1> QED
  BY <1>1, <1>2, <1>3, <1>4, <1>5, <1>6, <1>7, <1>8, <1>9, <1>10, <1>11, <1>12, <1>13,
       <1>14, <1>15, <1>16, <1>17, <1>18, <1>19, <1>20, <1>21, <1>22, <1>23 DEF
       SetupNext, Uses, Kicks

\* What is closed and aborted is what the Session knows; what is replaced is let go.
LEMMA NothingForgottenKept == SetupInv /\ [SetupNext]_setupVars => NothingForgotten'
<1> SUFFICES ASSUME SetupInv, [SetupNext]_setupVars PROVE NothingForgotten'
  OBVIOUS
<1> USE DEF SetupInv, Typed, SessionTyped, PortsTyped, HandTyped, HistoryTyped, Session,
     Places, Listings, Transferring, At, NothingForgotten
<1>1. ASSUME NEW c \in Listings \cup Transferring, Pret(c) PROVE NothingForgotten'
  BY <1>1 DEF Pret, Ready, Cleared, ClearedPassive, Released, PreparedIsTold,
       WaitsAsTold
<1>2. ASSUME NEW b \in BOOLEAN, Prot(b) PROVE NothingForgotten'
  BY <1>2 DEF Prot, Ready, PreparedIsTold, WaitsAsTold
<1>3. ASSUME NEW b \in BOOLEAN, Sscn(b) PROVE NothingForgotten'
  BY <1>3 DEF Sscn, Ready, PreparedIsTold, WaitsAsTold
<1>4. ASSUME NEW b \in BOOLEAN, SlaveListens(b) PROVE NothingForgotten'
  <2>1. made < MaxSetups /\ made' = made + 1
    BY <1>4 DEF SlaveListens, Passive
  <2>2. /\ waiting' = waiting \cup {[setup |-> made', client |-> b]} /\ open' = open \ {s.listener}
        /\ left' = left \cup ({s.idx} \ {Unset})
    BY <1>4 DEF SlaveListens
  <2>3. s'.slave /\ s'.idx = made'
    BY <1>4 DEF SlaveListens
  <2>4. \A w \in waiting : w.setup \in left'
    BY <2>2, SetupsAreSet
  <2>5. ASSUME NEW w \in waiting' PROVE w.setup \in left' \/ (s'.slave /\ w.setup = s'.idx)
    <3>1. CASE w \in waiting
      BY <2>4, <3>1
    <3>2. CASE w = [setup |-> made', client |-> b]
      BY <2>3, <3>2
    <3> QED
      BY <2>2, <3>1, <3>2
  <2>6. open' \subseteq {s'.listener} \cup left'
    BY <2>2
  <2> QED
    BY <2>5, <2>6
<1>5. ASSUME NEW b \in BOOLEAN, MasterListens(b) PROVE NothingForgotten'
  <2>1. /\ waiting' = waiting /\ open' = open \cup {made'}
        /\ left' = left \cup Replaced /\ s'.listener = made'
    BY <1>5 DEF MasterListens
  <2>2. (\A w \in waiting : w.setup \in left') /\ open \subseteq left'
    BY <2>1, SetupsAreSet DEF Replaced
  <2> QED
    BY <2>1, <2>2
<1>6. ASSUME NEW b \in BOOLEAN, BadSlaveAddress(b) PROVE NothingForgotten'
  <2>1. waiting' = waiting /\ open' = open \ {s.listener} /\ left' = left \cup ({s.idx} \ {Unset})
    BY <1>6 DEF BadSlaveAddress
  <2>2. \A w \in waiting : w.setup \in left'
    BY <2>1, SetupsAreSet
  <2> QED
    BY <2>1, <2>2
<1>7. ASSUME NEW b \in BOOLEAN, BadMasterAddress(b) PROVE NothingForgotten'
  <2>1. waiting' = waiting /\ open' = open /\ left' = left \cup Replaced
    BY <1>7 DEF BadMasterAddress
  <2>2. (\A w \in waiting : w.setup \in left') /\ open \subseteq left'
    BY <2>1, SetupsAreSet DEF Replaced
  <2> QED
    BY <2>1, <2>2
<1>8. CASE Rest
  BY <1>8 DEF Rest, Ready, PreparedIsTold, WaitsAsTold
<1>9. CASE PassiveRefused
  BY <1>9 DEF PassiveRefused, Ready, Cleared, ClearedPassive, Released,
       PreparedIsTold, WaitsAsTold
<1>10. CASE PassiveFails
  BY <1>10 DEF PassiveFails, Ready, PreparedIsTold, WaitsAsTold
<1>11. CASE Port
  BY <1>11, NewSetup DEF Port, Ready, ClearedPassive, Released, Announce,
       PreparedIsTold, WaitsAsTold
<1>12. CASE BadPort
  BY <1>12 DEF BadPort, Ready, ClearedPassive, Released, PreparedIsTold, WaitsAsTold
<1>13. CASE Abor
  <2>1. waiting' = waiting /\ open' = open \ {s.listener} /\ left' = left \cup ({s.idx} \ {Unset})
    BY <1>13 DEF Abor
  <2>2. \A w \in waiting : w.setup \in left'
    BY <2>1, SetupsAreSet
  <2> QED
    BY <2>1, <2>2
<1>14. ASSUME NEW c \in Listings \cup Transferring, Takes(c) PROVE NothingForgotten'
  BY <1>14 DEF Takes, Ready, PreparedIsTold, WaitsAsTold
<1>15. CASE Refused
  BY <1>15 DEF Refused, Steady, Finishes, Cleared, ClearedPassive, Released, Idle,
       PreparedIsTold, WaitsAsTold
<1>16. CASE Connects
  BY <1>16 DEF Connects, Steady, PreparedIsTold, WaitsAsTold
<1>17. CASE ToListener
  BY <1>17 DEF ToListener, Steady, PreparedIsTold, WaitsAsTold
<1>18. CASE Dials
  BY <1>18 DEF Dials, Steady, PreparedIsTold, WaitsAsTold
<1>19. CASE ToSlave
  BY <1>19 DEF ToSlave, Steady, HandGoes, PreparedIsTold, WaitsAsTold
<1>20. CASE NoChannel
  BY <1>20 DEF NoChannel, Steady, Finishes, Cleared, ClearedPassive, Released, Idle,
       PreparedIsTold, WaitsAsTold
<1>21. CASE Accepts
  BY <1>21 DEF Accepts, Steady, HandGoes, PreparedIsTold, WaitsAsTold
<1>22. CASE AcceptFails
  BY <1>22 DEF AcceptFails, Steady, HandGoes, PreparedIsTold, WaitsAsTold
<1>23. CASE Shuts
  BY <1>23 DEF Shuts, Steady, HandGoes, PreparedIsTold, WaitsAsTold
<1>24. CASE Panics
  BY <1>24 DEF Panics, Steady, PreparedIsTold, WaitsAsTold
<1>25. CASE UpgradeDataTLS
  BY <1>25 DEF UpgradeDataTLS, Steady, PreparedIsTold, WaitsAsTold
<1>26. CASE RelayStarts
  BY <1>26 DEF RelayStarts, Steady, PreparedIsTold, WaitsAsTold
<1>27. CASE RelayRefused
  BY <1>27 DEF RelayRefused, Steady, HandGoes, PreparedIsTold, WaitsAsTold
<1>28. CASE TransferEnds
  BY <1>28 DEF TransferEnds, Steady, HandGoes, PreparedIsTold, WaitsAsTold
<1>29. CASE Clears
  BY <1>29 DEF Clears, Steady, Finishes, Cleared, ClearedPassive, Released, Idle,
       PreparedIsTold, WaitsAsTold
<1>30. CASE Gone
  BY <1>30 DEF Gone, Steady, HandGoes, Replaced, PreparedIsTold, WaitsAsTold
<1>31. CASE KickLooks
  BY <1>31 DEF KickLooks, Kicking, PreparedIsTold, WaitsAsTold
<1>32. CASE KickCloses
  BY <1>32 DEF KickCloses, Kicking, PreparedIsTold, WaitsAsTold
<1>33. CASE KickForgets
  BY <1>33 DEF KickForgets, Kicking, PreparedIsTold, WaitsAsTold
<1>34. CASE KickWipes
  <2>1. waiting' = waiting /\ open' = open /\ left' = left \cup ({s.idx} \ {Unset})
    BY <1>34 DEF KickWipes
  <2>2. \A w \in waiting : w.setup \in left'
    BY <2>1, SetupsAreSet
  <2>3. s'.listener = s.listener
    BY <1>34 DEF KickWipes, Forgotten
  <2> QED
    BY <2>1, <2>2, <2>3
<1>35. CASE UNCHANGED setupVars
  BY <1>35 DEF setupVars, PreparedIsTold, WaitsAsTold
<1> QED
  BY <1>1, <1>2, <1>3, <1>4, <1>5, <1>6, <1>7, <1>8, <1>9, <1>10, <1>11, <1>12, <1>13,
       <1>14, <1>15, <1>16, <1>17, <1>18, <1>19, <1>20, <1>21, <1>22, <1>23, <1>24,
       <1>25, <1>26, <1>27, <1>28, <1>29, <1>30, <1>31, <1>32, <1>33, <1>34, <1>35 DEF
       SetupNext, Prepares, Uses, Kicks

-----------------------------------------------------------------------------
(* The theorems.                                                           *)

\* A new session has nothing prepared.
LEMMA SetupInvInit == SetupInit => SetupInv
<1> SUFFICES ASSUME SetupInit PROVE SetupInv
  OBVIOUS
<1> USE DEF SetupInit, Unset
<1>1. Unset \in 0..MaxSetups /\ 0 \in 0..MaxSetups
  BY UnsetFits
<1>2. Typed
  <2>1. SessionTyped
    BY <1>1 DEF SessionTyped, Session
  <2>2. PortsTyped
    BY <1>1 DEF PortsTyped
  <2>3. HandTyped
    BY <1>1 DEF HandTyped, Idle, Places
  <2>4. HistoryTyped
    <3>1. told \in [setup : 0..made, by : {"", "slave", "master", "port"}, client : BOOLEAN]
      <4>1. told = [setup |-> 0, by |-> "", client |-> FALSE]
        OBVIOUS
      <4>2. made = 0
        OBVIOUS
      <4> HIDE DEF SetupInit
      <4>3. 0 \in 0..made
        BY <4>2
      <4> QED
        BY <4>1, <4>3
    <3>2. conf \in [thru : BOOLEAN, master : BOOLEAN, kick : BOOLEAN]
      OBVIOUS
    <3> QED
      BY <3>1, <3>2 DEF HistoryTyped
  <2> QED
    BY <2>1, <2>2, <2>3, <2>4 DEF Typed
<1>3. PreparedIsTold /\ WaitsAsTold /\ UsedIsTold /\ RestIsAsked
  BY DEF PreparedIsTold, WaitsAsTold, UsedIsTold, RestIsAsked, Idle
<1>4. LastSetupIsUsed /\ NothingForgotten
  BY DEF LastSetupIsUsed, NothingForgotten, Idle
<1> QED
  BY <1>2, <1>3, <1>4 DEF SetupInv

\* Commands, transfers and kicks of one session keep the invariant, in any order.
THEOREM SetupInvariant == SetupSpec => []SetupInv
<1>1. SetupInv /\ [SetupNext]_setupVars => SetupInv'
  BY SessionTypedKept, PortsTypedKept, HandTypedKept, HistoryTypedKept,
     PreparedIsToldKept, WaitsAsToldKept, UsedIsToldKept, RestIsAskedKept,
     LastSetupIsUsedKept, NothingForgottenKept
     DEF SetupInv, Typed
<1> QED
  BY <1>1, SetupInvInit, PTL DEF SetupSpec

\* The state of a session's data channel stays well typed: the fields of Session
\* (session.go) and the place of its handler.
THEOREM SetupTypeCorrect == SetupSpec => []SetupTypeOK
<1>1. SetupInv => SetupTypeOK
  BY DEF SetupInv, Typed, SessionTyped, PortsTyped, HandTyped, HistoryTyped, Places, SetupTypeOK
<1> QED
  BY <1>1, SetupInvariant, PTL

\* Data goes where the client was last told, in the announced TLS role, and from an
\* offset that was asked for: getRawDataConn and upgradeDataTLS.
THEOREM LastSetupAlwaysUsed == SetupSpec => []LastSetupIsUsed
<1>1. SetupInv => LastSetupIsUsed
  BY DEF SetupInv
<1> QED
  BY <1>1, SetupInvariant, PTL

\* clearPreparedTransferState leaves no port and no waiting transfer behind, but those
\* that a replacing command, ABOR, a kick or the end of the session lets go.
THEOREM NothingIsForgotten == SetupSpec => []NothingForgotten
<1>1. SetupInv => NothingForgotten
  BY DEF SetupInv
<1> QED
  BY <1>1, SetupInvariant, PTL

=============================================================================

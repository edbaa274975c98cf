------------------------- MODULE FtpTransferProofs -------------------------
(***************************************************************************)
(* What holds of FtpTransfer for any number of sessions and paths, any     *)
(* limits and any of its settings.                                         *)
(***************************************************************************)
EXTENDS FtpTransfer, FiniteSetTheorems, TLAPS

-----------------------------------------------------------------------------
(***************************************************************************)
(* The inductive invariant, part by part.                                  *)
(***************************************************************************)

Cmds ==
  {NoCmd} \cup [verb : {"STOR"}, path : Paths, rest : BOOLEAN]
          \cup [verb : {"RETR", "DELE"}, path : Paths]
          \cup [verb : {"RNTO"}, path : Paths, to : Paths]

Writing == SUBSET (Sessions \cup Orphans)
FileState == [there : BOOLEAN, by : Writing]

\* The types of the state; those of the counters are with the books.
Typed ==
  /\ set \in Settings
  /\ at \in [Sessions -> Locations] /\ cmd \in [Sessions -> Cmds]
  /\ prepared \in [Sessions -> BOOLEAN]
  /\ dir \in [Sessions -> {"", "upload", "download"}] /\ tied \in [Sessions -> BOOLEAN]
  /\ kick \in [Sessions -> {"no", "looked", "closed"}]
  /\ reserved \subseteq Paths
  /\ job \in [Sessions -> {"none", "run", "abort", "ok", "failed", "lost"}]
  /\ up \in BOOLEAN
  /\ disk \in [Paths -> FileState]
  /\ index \subseteq Paths
  /\ late \subseteq [path : Paths, rest : BOOLEAN] /\ tired \subseteq Paths

Transferring == {"slots", "open", "begin", "attach", "ask", "wait", "settle"}

\* A handler is where its command can be.
Placed(s) ==
  /\ at[s] \in {"out", "admit", "idle"} => cmd[s] = NoCmd
  /\ at[s] \in {"reserve"} \cup Transferring => cmd[s].verb \in {"STOR", "RETR"}
  /\ at[s] = "index" => cmd[s].verb = "STOR"
  /\ at[s] \in {"unlink", "unindex"} => cmd[s].verb \in {"STOR", "DELE"}
  /\ at[s] \in {"move", "reindex"} => cmd[s].verb = "RNTO"
  /\ at[s] = "leave" => cmd[s] # NoCmd
  /\ cmd[s].verb = "DELE" => "delete" \in set.may
  /\ cmd[s].verb = "RNTO" => "rename" \in set.may

\* The transfer fields are set between beginTransfer and endTransfer, unless a kick was there.
Fields(s) ==
  /\ dir[s] # "" =>
       at[s] \in {"attach", "ask", "wait", "index", "settle"} /\ dir[s] = Direction(s)
  /\ tied[s] => at[s] \in {"ask", "wait", "index", "settle"}

\* The slave works on a transfer only while its handler waits, and an aborted one has its
\* handler there or on the way.
Works(s) ==
  /\ job[s] = "run" => at[s] = "wait"
  /\ job[s] = "abort" => at[s] \in {"ask", "wait"}
  /\ at[s] = "wait" => job[s] # "none"
  /\ at[s] = "index" => job[s] = "ok"
  /\ job[s] = "lost" => {"drop", "timeout"} \cap set.may # {}
  /\ at[s] = "settle" => job[s] \in {"ok", "failed", "lost"}

Places == \A s \in Sessions : Placed(s) /\ Fields(s) /\ Works(s)

DownIfDropped == ~up => "drop" \in set.may

\* The books of the paths and of the transfers: who is in them.
Readers(p) == {s \in Holding("RETR") : cmd[s].path = p}
Moving(d) == {s \in Sessions : dir[s] = d}

PathBooks ==
  /\ readers \in [Paths -> Nat]
  /\ reserved = {cmd[s].path : s \in Holding("STOR")}
  /\ \A p \in Paths : readers[p] = Cardinality(Readers(p))

GaugeBooks ==
  /\ gauge \in [{"upload", "download"} -> Nat]
  /\ \A d \in {"upload", "download"} : gauge[d] = Cardinality(Moving(d))

\* An upload has its path to itself.
Apart ==
  \A s \in Holding("STOR"), t \in Holding("STOR") \cup Holding("RETR") :
    s # t => cmd[s].path # cmd[t].path

\* Without renames, whoever writes a file is an upload of that path that waits, or one that
\* nobody waits for any more.
Writer(t, p) ==
  /\ t \in Sessions /\ cmd[t].verb = "STOR" /\ cmd[t].path = p
  /\ at[t] = "wait" /\ job[t] \in {"run", "abort"}

Writers == \A p \in Paths : \A t \in disk[p].by \ Orphans : Writer(t, p)

WritersWait == "rename" \notin set.may => Writers

\* Where the master has stopped waiting for an upload is known.
Abandoned ==
  /\ \A c \in late : c.path \in tired
  /\ set.may \cap {"rename", "drop"} = {} =>
       \A p \in Paths : disk[p].by \cap Orphans # {} => p \in tired

\* The uploads whose path may be on the disk and not in the index, or the other way round.
Between ==
  {s \in Sessions :
     /\ cmd[s].verb = "STOR"
     /\ \/ at[s] = "wait" /\ job[s] \in {"run", "abort", "ok"}
        \/ at[s] \in {"index", "unindex"}}

AtRest(p) == \A s \in Between : cmd[s].path # p

Consistent(p) ==
  /\ p \in index => disk[p].there
  /\ disk[p].there /\ set.mode # "bridged" => p \in index

\* What the file of such an upload is like.
Progress(s) ==
  LET p == cmd[s].path IN
  /\ at[s] = "wait" => disk[p].there
  /\ at[s] = "wait" /\ job[s] \in {"run", "abort"} =>
       IF cmd[s].rest THEN set.mode # "bridged" => p \in index ELSE p \notin index
  /\ at[s] = "index" => disk[p].there
  /\ at[s] = "unindex" => ~disk[p].there

FilesOk ==
  /\ \A s \in Between : cmd[s].path \notin tired => Progress(s)
  /\ \A p \in Paths \ tired : AtRest(p) => Consistent(p)

FilesSound == set.may \subseteq {"kick", "timeout"} => FilesOk

FtpInv ==
  /\ Typed /\ Places /\ DownIfDropped
  /\ PathBooks /\ GaugeBooks /\ Apart
  /\ WritersWait /\ Abandoned /\ FilesSound

-----------------------------------------------------------------------------
(***************************************************************************)
(* The types and the places.                                               *)
(***************************************************************************)

LEMMA FileStored == \A p : [there |-> p \in Stored, by |-> {}] \in FileState
<1> TAKE p
<1>1. (p \in Stored) \in BOOLEAN
  BY SMT
<1> QED
  BY <1>1 DEF FileState, Writing

USE FtpTransferAssumption DEF Setting

LEMMA CmdFacts ==
  ASSUME NEW c \in Cmds
  PROVE  /\ c.verb \in {"none", "STOR", "RETR", "DELE", "RNTO"}
         /\ c = NoCmd <=> c.verb = "none"
         /\ c # NoCmd => c.path \in Paths
         /\ c.verb = "STOR" => c.rest \in BOOLEAN
         /\ c.verb = "RNTO" => c.to \in Paths
  BY DEF Cmds, NoCmd

LEMMA CmdMade ==
  /\ NoCmd \in Cmds /\ NoCmd.verb = "none"
  /\ \A p \in Paths : \A b \in BOOLEAN : [verb |-> "STOR", path |-> p, rest |-> b] \in Cmds
  /\ \A p \in Paths : [verb |-> "RETR", path |-> p] \in Cmds
  /\ \A p \in Paths : [verb |-> "DELE", path |-> p] \in Cmds
  /\ \A p, q \in Paths : [verb |-> "RNTO", path |-> p, to |-> q] \in Cmds
  BY DEF Cmds, NoCmd

LEMMA CmdOf ==
  ASSUME Typed, NEW s \in Sessions
  PROVE  /\ cmd[s].verb \in {"none", "STOR", "RETR", "DELE", "RNTO"}
         /\ cmd[s] = NoCmd <=> cmd[s].verb = "none"
         /\ cmd[s] # NoCmd => cmd[s].path \in Paths
         /\ cmd[s].verb = "STOR" => cmd[s].rest \in BOOLEAN
         /\ cmd[s].verb = "RNTO" => cmd[s].to \in Paths
<1>1. cmd[s] \in Cmds
  BY DEF Typed
<1> QED
  BY <1>1, CmdFacts

LEMMA FileMade ==
  /\ Gone \in FileState
  /\ \A d \in FileState : d.there \in BOOLEAN /\ d.by \in Writing
  /\ \A b \in BOOLEAN, w \in Writing : [there |-> b, by |-> w] \in FileState
  /\ \A d \in FileState, w \in Writing : [d EXCEPT !.by = w] \in FileState
  BY DEF Gone, FileState, Writing

\* A transfer that is not waited for leaves an orphan in its place.
LEMMA OrphanedIs ==
  ASSUME disk \in [Paths -> FileState], NEW gone \in SUBSET Sessions
  PROVE  /\ Orphaned(gone) \in [Paths -> FileState]
         /\ \A p \in Paths :
              LET by == Orphaned(gone)[p].by IN
              /\ Orphaned(gone)[p].there = disk[p].there
              /\ by \ Orphans = (disk[p].by \ gone) \ Orphans
              /\ disk[p].by \cap gone = {} => by = disk[p].by
<1> DEFINE left(by) == {IF cmd[s].rest THEN Resumed ELSE Fresh : s \in by \cap gone}
<1>1. Fresh \in Orphans /\ Resumed \in Orphans
  BY DEF Orphans
<1>2. \A by : left(by) \subseteq Orphans /\ (by \cap gone = {} => left(by) = {})
  BY <1>1
<1>3. ASSUME NEW p \in Paths
      PROVE  /\ Orphaned(gone)[p] \in FileState
             /\ Orphaned(gone)[p].there = disk[p].there
             /\ Orphaned(gone)[p].by = (disk[p].by \ gone) \cup left(disk[p].by)
  <2>1. disk[p] \in FileState /\ disk[p].by \in Writing
    BY FileMade
  <2>2. PICK w : w = (disk[p].by \ gone) \cup left(disk[p].by)
    OBVIOUS
  <2>3. Orphaned(gone)[p] = [disk[p] EXCEPT !.by = w]
    BY <2>2 DEF Orphaned
  <2>4. w \in Writing
    BY <1>2, <2>1, <2>2 DEF Writing
  <2>5. [disk[p] EXCEPT !.by = w].by = w /\ [disk[p] EXCEPT !.by = w].there = disk[p].there
    BY <2>1 DEF FileState
  <2>6. Orphaned(gone)[p] \in FileState
    BY <2>1, <2>3, <2>4, FileMade
  <2> QED
    BY <2>2, <2>3, <2>5, <2>6
<1>4. Orphaned(gone) \in [Paths -> FileState]
  BY <1>3 DEF Orphaned
<1> HIDE DEF left
<1> QED
  BY <1>2, <1>3, <1>4

LEMMA TypedStep ==
  ASSUME Typed, Places, DownIfDropped, [Next]_vars
  PROVE  Typed' /\ DownIfDropped'
<1> USE DEF Typed, Places, DownIfDropped, sessionVars, fieldVars, pathVars, slaveVars
<1> USE CmdMade DEF Go, Refuse, Locations
<1>1. ASSUME NEW s \in Sessions, Handler(s) PROVE Typed'
  <2>0. /\ cmd[s] \in Cmds /\ cmd[s].verb = "none" <=> cmd[s] = NoCmd
        /\ cmd[s] # NoCmd => cmd[s].path \in Paths
        /\ cmd[s].verb = "RNTO" => cmd[s].to \in Paths
    BY CmdOf
  <2> HIDE DEF Places
  <2>1. CASE Admit(s)
    BY <2>1 DEF Admit
  <2>2. CASE ReserveUpload(s)
    <3>1. cmd[s] # NoCmd /\ cmd[s].path \in Paths
      BY <2>0, <2>2 DEF ReserveUpload
    <3>2. reserved' = reserved \/ reserved' = reserved \cup {cmd[s].path}
      BY <2>2 DEF ReserveUpload
    <3>3. cmd' = cmd \/ cmd' = [cmd EXCEPT ![s] = NoCmd]
      BY <2>2 DEF ReserveUpload
    <3>4. cmd' \in [Sessions -> Cmds]
      BY <3>3
    <3>5. at' = [at EXCEPT ![s] = "slots"] \/ at' = [at EXCEPT ![s] = "idle"]
      BY <2>2 DEF ReserveUpload
    <3>6. at' \in [Sessions -> Locations]
      BY <3>5
    <3> QED
      BY <2>2, <3>1, <3>2, <3>4, <3>6 DEF ReserveUpload
  <2>3. CASE ReserveDownload(s)
    BY <2>3 DEF ReserveDownload
  <2>4. CASE CheckSlots(s)
    <3>1. cmd' = cmd \/ cmd' = [cmd EXCEPT ![s] = NoCmd]
      BY <2>4 DEF CheckSlots
    <3>2. cmd' \in [Sessions -> Cmds]
      BY <3>1
    <3>3. \E loc \in Locations : at' = [at EXCEPT ![s] = loc]
      BY <2>4 DEF CheckSlots
    <3>4. at' \in [Sessions -> Locations]
      BY <3>3
    <3> QED
      BY <2>4, <3>2, <3>4 DEF CheckSlots
  <2>5. CASE Leave(s)
    BY <2>5 DEF Leave
  <2>6. CASE Open(s)
    BY <2>6 DEF Open
  <2>7. CASE Begin(s)
    BY <2>7 DEF Begin, Direction
  <2>8. CASE Attach(s)
    BY <2>8 DEF Attach
  <2>9. CASE Settle(s)
    BY <2>9 DEF Settle, EndTransfer
  <2>10. CASE Return(s)
    BY <2>10 DEF Return
  <2>11. CASE Index(s)
    BY <2>0, <2>11 DEF Index, Placed, Places, NoCmd
  <2>12. CASE Unlink(s)
    <3>1. cmd[s].path \in Paths
      BY <2>0, <2>12 DEF Unlink, Placed, Places, NoCmd
    <3> QED
      <4>1. disk' = disk \/ disk' = [disk EXCEPT ![cmd[s].path] = Gone]
        BY <2>12 DEF Unlink
      <4>2. disk' \in [Paths -> FileState]
        BY <3>1, <4>1, FileMade
      <4> QED
        BY <2>12, <4>2 DEF Unlink
  <2>13. CASE Unindex(s)
    BY <2>13 DEF Unindex
  <2>14. CASE Move(s)
    <3>1. cmd[s].path \in Paths /\ cmd[s].to \in Paths
      BY <2>0, <2>14 DEF Move, Placed, Places, NoCmd
    <3>2. disk' = disk \/ disk' = [disk EXCEPT ![cmd[s].path] = Gone,
                                                ![cmd[s].to] = disk[cmd[s].path]]
      BY <2>14 DEF Move
    <3>3. disk' \in [Paths -> FileState]
      BY <3>1, <3>2, FileMade
    <3> QED
      BY <2>14, <3>3 DEF Move
  <2>15. CASE Reindex(s)
    BY <2>0, <2>15 DEF Reindex, Placed, Places, NoCmd
  <2> QED
    BY <1>1, <2>1, <2>2, <2>3, <2>4, <2>5, <2>6, <2>7, <2>8, <2>9, <2>10, <2>11, <2>12,
       <2>13, <2>14, <2>15 DEF Handler
<1>2. ASSUME NEW s \in Sessions, Slave(s) PROVE Typed'
  <2>1. CASE SlaveStart(s)
    <3>1. cmd[s].path \in Paths /\ disk[cmd[s].path] \in FileState
      BY <2>1, CmdOf DEF SlaveStart, Placed, Transferring
    <3>2. disk' \in [Paths -> FileState]
      <4> DEFINE p == cmd[s].path
                 d == [there |-> TRUE,
                       by |-> disk[p].by \cup IF cmd[s].verb = "STOR" THEN {s} ELSE {}]
      <4>1. d \in FileState
        BY <3>1, FileMade DEF Writing
      <4>2. disk' = disk \/ disk' = [disk EXCEPT ![p] = d]
        BY <2>1 DEF SlaveStart
      <4> QED
        BY <3>1, <4>1, <4>2
    <3> QED
      BY <2>1, <3>2 DEF SlaveStart
  <2>2. \A p \in Paths : [disk[p] EXCEPT !.by = @ \ {s}] \in FileState
    <3> TAKE p \in Paths
    <3>1. disk[p] \in FileState
      OBVIOUS
    <3>2. disk[p].by \ {s} \in Writing
      BY <3>1, FileMade DEF Writing
    <3> QED
      BY <3>1, <3>2, FileMade
  <2>3. Written(s) \in [Paths -> FileState]
    BY <2>2 DEF Written
  <2>4. CASE JobEnds(s)
    BY <2>3, <2>4 DEF JobEnds
  <2>5. CASE JobFails(s)
    BY <2>3, <2>5, FileMade DEF JobFails
  <2> QED
    BY <1>2, <2>1, <2>4, <2>5 DEF Slave
<1>3. ASSUME NEW s \in Sessions, Client(s) PROVE Typed'
  <2>1. CASE CheckLogin(s) \/ Disconnect(s)
    BY <2>1 DEF CheckLogin, Disconnect
  <2>2. ASSUME NEW p \in Paths, NEW rest \in BOOLEAN, Stor(s, p, rest) PROVE Typed'
    BY <2>2 DEF Stor, Command
  <2>3. ASSUME NEW p \in Paths, Retr(s, p) PROVE Typed'
    BY <2>3 DEF Retr, Command
  <2>4. ASSUME NEW p \in Paths, Dele(s, p) PROVE Typed'
    BY <2>4 DEF Dele, Command
  <2>5. ASSUME NEW p \in Paths, NEW q \in Paths, Rnto(s, p, q) PROVE Typed'
    BY <2>5 DEF Rnto, Command
  <2> QED
    BY <1>3, <2>1, <2>2, <2>3, <2>4, <2>5 DEF Client
<1>4. ASSUME NEW s \in Sessions, KickLook(s) \/ KickClear(s) PROVE Typed'
  BY <1>4 DEF KickLook, KickClear, EndTransfer
<1>0. \A gone \in SUBSET Sessions : Orphaned(gone) \in [Paths -> FileState]
  BY OrphanedIs
<1>5. CASE LinkDrops
  <2>1. disk' \in [Paths -> FileState]
    BY <1>0, <1>5 DEF LinkDrops
  <2> QED
    BY <1>5, <2>1 DEF LinkDrops
<1>6. CASE LinkReturns
  BY <1>6 DEF LinkReturns
<1>7. ASSUME NEW p \in Paths, NEW o \in Orphans, OrphanEnds(p, o) PROVE Typed'
  <2>1. disk[p] \in FileState /\ disk[p].by \ {o} \in Writing
    BY FileMade DEF Writing
  <2>2. [disk[p] EXCEPT !.by = @ \ {o}] \in FileState
    BY <2>1, FileMade
  <2>3. disk' \in [Paths -> FileState]
    BY <1>7, <2>2, FileMade DEF OrphanEnds
  <2> QED
    BY <1>7, <2>3 DEF OrphanEnds
<1>11. ASSUME NEW c \in late, LateStart(c) PROVE Typed'
  <2>1. c.path \in Paths /\ disk[c.path] \in FileState
    OBVIOUS
  <2>2. disk[c.path].by \cup {IF c.rest THEN Resumed ELSE Fresh} \in Writing
    BY <2>1, FileMade DEF Writing, Orphans
  <2>3. disk' \in [Paths -> FileState]
    BY <1>11, <2>1, <2>2, FileMade DEF LateStart
  <2> QED
    BY <1>11, <2>3 DEF LateStart
<1>12. ASSUME NEW s \in Sessions, GiveUp(s) PROVE Typed'
  <2>1. at[s] \in {"ask", "wait"} /\ (at[s] = "wait" => job[s] # "none")
    BY <1>12 DEF GiveUp
  <2>2. cmd[s].verb \in {"STOR", "RETR"} /\ cmd[s].path \in Paths
    BY <2>1, CmdOf DEF Placed, Transferring
  <2>3. cmd[s].verb = "STOR" => cmd[s].rest \in BOOLEAN
    BY CmdOf
  <2>4. disk' \in [Paths -> FileState]
    BY <1>0, <1>12 DEF GiveUp
  <2>6. cmd[s].verb = "STOR" =>
          [path |-> cmd[s].path, rest |-> cmd[s].rest] \in [path : Paths, rest : BOOLEAN]
    BY <2>2, <2>3
  <2>7. \/ late' = late
        \/ cmd[s].verb = "STOR" /\ late' = late \cup {[path |-> cmd[s].path, rest |-> cmd[s].rest]}
    BY <1>12 DEF GiveUp
  <2>5. late' \subseteq [path : Paths, rest : BOOLEAN] /\ tired' \subseteq Paths
    BY <1>12, <2>2, <2>6, <2>7 DEF GiveUp
  <2> QED
    BY <1>12, <2>4, <2>5 DEF GiveUp
<1>8. CASE UNCHANGED vars
  BY <1>8 DEF vars
<1>9. Typed'
  BY <1>1, <1>2, <1>3, <1>4, <1>5, <1>6, <1>7, <1>8, <1>11, <1>12 DEF Next
<1>10. DownIfDropped'
  <2>1. ASSUME NEW s \in Sessions, Handler(s) PROVE set' = set /\ up' = up
    BY <2>1 DEF Handler, Admit, ReserveUpload, ReserveDownload, CheckSlots, Leave, Open, Begin,
       Attach, Settle, Return, Index, Unlink, Unindex, Move, Reindex
  <2>2. ASSUME NEW s \in Sessions,
               Slave(s) \/ Client(s) \/ KickLook(s) \/ KickClear(s) \/ GiveUp(s)
        PROVE  set' = set /\ up' = up
    BY <2>2 DEF GiveUp, Slave, Client, SlaveStart, JobEnds, JobFails, CheckLogin, Disconnect, Stor, Retr,
       Dele, Rnto, Command, KickLook, KickClear
  <2>3. CASE LinkDrops \/ LinkReturns
    BY <2>3 DEF LinkDrops, LinkReturns
  <2>4. ASSUME NEW p \in Paths, NEW o \in Orphans, OrphanEnds(p, o) PROVE set' = set /\ up' = up
    BY <2>4 DEF OrphanEnds
  <2>5. ASSUME NEW c \in late, LateStart(c) PROVE set' = set /\ up' = up
    BY <2>5 DEF LateStart
  <2>6. CASE UNCHANGED vars
    BY <2>6 DEF vars
  <2> QED
    BY <2>1, <2>2, <2>3, <2>4, <2>5, <2>6 DEF Next
<1> QED
  BY <1>9, <1>10

Actor(s) ==
  Handler(s) \/ Slave(s) \/ Client(s) \/ KickLook(s) \/ KickClear(s) \/ GiveUp(s)

\* A session's step leaves the handlers, fields and transfers of all others alone.
Alone(s) ==
  /\ set' = set /\ up' = up
  /\ \A t \in Sessions \ {s} :
       /\ at'[t] = at[t] /\ cmd'[t] = cmd[t] /\ dir'[t] = dir[t] /\ tied'[t] = tied[t]
       /\ job'[t] = job[t]

LEMMA StepAlone ==
  ASSUME Typed, NEW s \in Sessions, Actor(s)
  PROVE  Alone(s)
<1> USE DEF Typed, Alone, Go, Refuse, sessionVars, fieldVars, pathVars, slaveVars
<1>1. CASE Handler(s)
  <2>1. CASE Admit(s) \/ ReserveUpload(s) \/ ReserveDownload(s) \/ CheckSlots(s) \/ Leave(s)
    BY <2>1 DEF Admit, ReserveUpload, ReserveDownload, CheckSlots, Leave
  <2>2. CASE Open(s) \/ Begin(s) \/ Attach(s) \/ Settle(s) \/ Return(s)
    BY <2>2 DEF Open, Begin, Attach, Settle, Return, EndTransfer
  <2>3. CASE Index(s) \/ Unlink(s) \/ Unindex(s) \/ Move(s) \/ Reindex(s)
    BY <2>3 DEF Index, Unlink, Unindex, Move, Reindex
  <2> QED
    BY <1>1, <2>1, <2>2, <2>3 DEF Handler
<1>2. CASE Slave(s)
  BY <1>2 DEF Slave, SlaveStart, JobEnds, JobFails
<1>3. CASE Client(s)
  BY <1>3 DEF Client, CheckLogin, Disconnect, Stor, Retr, Dele, Rnto, Command
<1>4. CASE KickLook(s) \/ KickClear(s) \/ GiveUp(s)
  BY <1>4 DEF KickLook, KickClear, EndTransfer, GiveUp
<1> QED
  BY <1>1, <1>2, <1>3, <1>4 DEF Actor

LEMMA PlacesStep ==
  ASSUME Typed, Places, DownIfDropped, [Next]_vars
  PROVE  Places'
<1> USE DEF DownIfDropped, Go, Refuse, sessionVars, fieldVars, pathVars, slaveVars, Transferring
<1>0. \A t \in Sessions : Placed(t) /\ Fields(t) /\ Works(t)
  BY DEF Places
<1>1. ASSUME NEW t \in Sessions, set' = set, at'[t] = at[t], cmd'[t] = cmd[t], dir'[t] = dir[t],
             tied'[t] = tied[t], job'[t] = job[t]
      PROVE  Placed(t)' /\ Fields(t)' /\ Works(t)'
  <2>1. Placed(t)'
    BY <1>0, <1>1 DEF Placed
  <2>2. Fields(t)'
    BY <1>0, <1>1 DEF Fields, Direction
  <2>3. Works(t)'
    BY <1>0, <1>1 DEF Works
  <2> QED
    BY <2>1, <2>2, <2>3
<1>2. ASSUME NEW s \in Sessions, Alone(s), Placed(s)', Fields(s)', Works(s)' PROVE Places'
  <2>1. ASSUME NEW t \in Sessions, t # s PROVE Placed(t)' /\ Fields(t)' /\ Works(t)'
    BY <1>1, <1>2, <2>1 DEF Alone
  <2> QED
    BY <1>2, <2>1 DEF Places
<1> USE DEF Typed
<1>3. ASSUME NEW s \in Sessions, Handler(s) PROVE Placed(s)' /\ Fields(s)' /\ Works(s)'
  <2>0. Placed(s) /\ Fields(s) /\ Works(s)
    BY <1>0
  <2> USE <2>0, CmdOf DEF Placed, Fields, Works, Direction
  <2>1. CASE Admit(s) \/ ReserveUpload(s) \/ ReserveDownload(s) \/ CheckSlots(s) \/ Leave(s)
    <3>1. /\ dir' = dir /\ tied' = tied /\ job' = job /\ set' = set
          /\ at[s] \in {"admit", "reserve", "slots", "leave"}
      BY <2>1 DEF Admit, ReserveUpload, ReserveDownload, CheckSlots, Leave
    <3>2. \/ cmd'[s] = NoCmd /\ at'[s] = "idle"
          \/ cmd'[s] = cmd[s] /\ at'[s] \in {"slots", "open", "reserve", "leave"} /\ at[s] # "leave"
             /\ at[s] # "admit"
      <4>1. CASE Admit(s)
        BY <4>1 DEF Admit
      <4>2. CASE ReserveUpload(s) \/ ReserveDownload(s)
        BY <4>2 DEF ReserveUpload, ReserveDownload
      <4>3. CASE CheckSlots(s)
        BY <4>3 DEF CheckSlots
      <4>4. CASE Leave(s)
        BY <4>4 DEF Leave
      <4> QED
        BY <2>1, <4>1, <4>2, <4>3, <4>4
    <3>3. Placed(s)'
      BY <3>1, <3>2, CmdMade
    <3> QED
      BY <3>1, <3>2, <3>3
  <2>2. CASE Open(s)
    BY <2>2 DEF Open
  <2>3. CASE Begin(s)
    BY <2>3 DEF Begin
  <2>4. CASE Attach(s)
    BY <2>4 DEF Attach
  <2>5. CASE Settle(s)
    BY <2>5 DEF Settle, EndTransfer
  <2>6. CASE Return(s)
    BY <2>6 DEF Return
  <2>7. CASE Index(s) \/ Unlink(s) \/ Unindex(s) \/ Move(s) \/ Reindex(s)
    BY <2>7 DEF Index, Unlink, Unindex, Move, Reindex
  <2> QED
    BY <1>3, <2>1, <2>2, <2>3, <2>4, <2>5, <2>6, <2>7 DEF Handler
<1>4. ASSUME NEW s \in Sessions, Slave(s) PROVE Placed(s)' /\ Fields(s)' /\ Works(s)'
  <2>0. Placed(s) /\ Fields(s) /\ Works(s)
    BY <1>0
  <2> USE <2>0 DEF Placed, Fields, Works, Direction
  <2>1. CASE SlaveStart(s)
    <3>1. set' = set /\ cmd' = cmd /\ dir' = dir /\ tied' = tied /\ at[s] = "ask" /\ at'[s] = "wait"
      BY <2>1 DEF SlaveStart
    <3>2. \/ job'[s] \in {"abort", "run", "failed"}
          \/ job'[s] = "lost" /\ ~up
      BY <2>1 DEF SlaveStart
    <3> QED
      BY <3>1, <3>2
  <2>2. CASE JobEnds(s)
    BY <2>2 DEF JobEnds
  <2>3. CASE JobFails(s)
    BY <2>3 DEF JobFails
  <2> QED
    BY <1>4, <2>1, <2>2, <2>3 DEF Slave
<1>5. ASSUME NEW s \in Sessions, Client(s) PROVE Placed(s)' /\ Fields(s)' /\ Works(s)'
  <2>0. Placed(s) /\ Fields(s) /\ Works(s)
    BY <1>0
  <2> USE <2>0 DEF Placed, Fields, Works, Direction
  <2>1. CASE CheckLogin(s)
    BY <2>1 DEF CheckLogin
  <2>2. CASE Disconnect(s)
    <3>1. set' = set /\ at' = [at EXCEPT ![s] = "out"] /\ cmd' = cmd /\ dir' = dir /\ tied' = tied
          /\ job' = job
      BY <2>2 DEF Disconnect
    <3>2. at[s] = "idle" /\ at'[s] = "out"
      BY <2>2, <3>1 DEF Disconnect
    <3> QED
      BY <3>1, <3>2
  <2>3. ASSUME NEW c \in Cmds, NEW loc \in Locations, Command(s, c, loc),
               \/ c.verb \in {"STOR", "RETR"} /\ loc \in {"reserve", "slots"}
               \/ c.verb = "DELE" /\ loc = "unlink" /\ "delete" \in set.may
               \/ c.verb = "RNTO" /\ loc = "move" /\ "rename" \in set.may
        PROVE  Placed(s)' /\ Fields(s)' /\ Works(s)'
    BY <2>3 DEF Command
  <2> QED
    BY <1>5, <2>1, <2>2, <2>3, CmdMade DEF Client, Stor, Retr, Dele, Rnto, Locations
<1>6. ASSUME NEW s \in Sessions, KickLook(s) \/ KickClear(s)
      PROVE  Placed(s)' /\ Fields(s)' /\ Works(s)'
  <2>0. Placed(s) /\ Fields(s) /\ Works(s)
    BY <1>0
  <2> USE <2>0 DEF Placed, Fields, Works, Direction
  <2>1. CASE KickLook(s)
    BY <2>1 DEF KickLook
  <2>2. CASE KickClear(s)
    BY <2>2 DEF KickClear, EndTransfer
  <2> QED
    BY <1>6, <2>1, <2>2
<1>7. CASE LinkDrops
  BY <1>0, <1>7 DEF LinkDrops, Places, Placed, Fields, Works, Direction
<1>8. CASE \/ LinkReturns \/ UNCHANGED vars \/ \E c \in late : LateStart(c)
           \/ \E p \in Paths, o \in Orphans : OrphanEnds(p, o)
  BY <1>1, <1>8 DEF LinkReturns, LateStart, OrphanEnds, vars, Places
<1>9. ASSUME NEW s \in Sessions, GiveUp(s) PROVE Placed(s)' /\ Fields(s)' /\ Works(s)'
  <2>0. Placed(s) /\ Fields(s) /\ Works(s)
    BY <1>0
  <2>1. /\ set' = set /\ cmd' = cmd /\ dir' = dir /\ tied' = tied /\ "timeout" \in set.may
        /\ at[s] \in {"ask", "wait"} /\ at'[s] = "wait" /\ job'[s] = "lost"
    BY <1>9 DEF GiveUp
  <2> QED
    BY <2>0, <2>1, CmdOf DEF Placed, Fields, Works, Direction
<1> QED
  BY <1>2, <1>3, <1>4, <1>5, <1>6, <1>7, <1>8, <1>9, StepAlone DEF Next, Actor

-----------------------------------------------------------------------------
(***************************************************************************)
(* The books.                                                              *)
(***************************************************************************)

LEMMA SessionsFinite ==
  /\ \A p : IsFiniteSet(Readers(p)) /\ Cardinality(Readers(p)) \in Nat
  /\ \A d : IsFiniteSet(Moving(d)) /\ Cardinality(Moving(d)) \in Nat
<1>1. ASSUME NEW p PROVE IsFiniteSet(Readers(p)) /\ Cardinality(Readers(p)) \in Nat
  <2>1. Readers(p) \subseteq Sessions
    BY DEF Readers, Holding
  <2> QED
    BY <2>1, FS_Subset, FS_CardinalityType
<1>2. ASSUME NEW d PROVE IsFiniteSet(Moving(d)) /\ Cardinality(Moving(d)) \in Nat
  <2>1. Moving(d) \subseteq Sessions
    BY DEF Moving
  <2> QED
    BY <2>1, FS_Subset, FS_CardinalityType
<1> QED
  BY <1>1, <1>2

\* A step that neither enters nor leaves what the handlers hold.
Unheld(s) ==
  /\ \A v \in {"STOR", "RETR"} : (s \in Holding(v))' <=> s \in Holding(v)
  /\ cmd'[s] = cmd[s] \/ s \notin Holding("STOR") \cup Holding("RETR")

LEMMA SameHolding ==
  ASSUME NEW s \in Sessions, Alone(s), Unheld(s)
  PROVE  /\ Holding("STOR")' = Holding("STOR") /\ Holding("RETR")' = Holding("RETR")
         /\ \A t \in Holding("STOR") \cup Holding("RETR") : cmd'[t] = cmd[t]
         /\ \A p : Readers(p)' = Readers(p)
<1>1. \A t \in Sessions \ {s} : \A v \in {"STOR", "RETR"} :
         (t \in Holding(v))' <=> t \in Holding(v)
  BY DEF Alone, Holding
<1>2. \A v \in {"STOR", "RETR"} : Holding(v) \subseteq Sessions /\ Holding(v)' \subseteq Sessions
  BY DEF Holding
<1>3. Holding("STOR")' = Holding("STOR")
  BY <1>1, <1>2 DEF Unheld
<1>4. Holding("RETR")' = Holding("RETR")
  BY <1>1, <1>2 DEF Unheld
<1>5. \A t \in Holding("STOR") \cup Holding("RETR") : cmd'[t] = cmd[t]
  BY <1>2 DEF Unheld, Alone
<1>6. \A p : Readers(p)' = Readers(p)
  BY <1>4, <1>5 DEF Readers
<1> QED
  BY <1>3, <1>4, <1>5, <1>6

LEMMA QuietPaths ==
  ASSUME PathBooks, NEW s \in Sessions, Alone(s), Unheld(s),
         reserved' = reserved, readers' = readers
  PROVE  PathBooks'
<1>1. /\ Holding("STOR")' = Holding("STOR")
      /\ \A t \in Holding("STOR") : cmd'[t] = cmd[t]
      /\ \A p : Readers(p)' = Readers(p)
  BY SameHolding
<1>2. {cmd[t].path : t \in Holding("STOR")}' = {cmd[t].path : t \in Holding("STOR")}
  BY <1>1
<1>3. \A p \in Paths : readers'[p] = Cardinality(Readers(p)')
  BY <1>1 DEF PathBooks
<1> QED
  BY <1>2, <1>3 DEF PathBooks

LEMMA EndedOnce ==
  ASSUME Typed, GaugeBooks, NEW s \in Sessions, EndTransfer(s)
  PROVE  GaugeBooks'
<1>1. CASE dir[s] = ""
  <2>1. dir' = dir /\ gauge' = gauge
    BY <1>1 DEF EndTransfer, Typed
  <2> QED
    BY <2>1 DEF GaugeBooks, Moving
<1>2. CASE dir[s] # ""
  <2>0. PICK d \in {"upload", "download"} : dir[s] = d
    BY <1>2 DEF Typed
  <2>1. s \in Moving(d)
    BY <2>0 DEF Moving
  <2>2. gauge' = [gauge EXCEPT ![d] = gauge[d] - 1]
    BY <1>2, <2>0 DEF EndTransfer
  <2>3. Moving(d)' = Moving(d) \ {s}
    BY <1>2, <2>0 DEF EndTransfer, Moving, Typed
  <2>4. \A e \in {"upload", "download"} \ {d} : Moving(e)' = Moving(e)
    BY <1>2, <2>0 DEF EndTransfer, Moving, Typed
  <2>5. /\ Cardinality(Moving(d)') = Cardinality(Moving(d)) - 1
        /\ Cardinality(Moving(d)') \in Nat
    BY <2>1, <2>3, SessionsFinite, FS_RemoveElement, FS_CardinalityType
  <2>6. gauge[d] - 1 \in Nat
    BY <2>1, <2>5 DEF GaugeBooks
  <2>7. gauge' \in [{"upload", "download"} -> Nat]
    BY <2>1, <2>2, <2>6 DEF GaugeBooks
  <2>8. ASSUME NEW e \in {"upload", "download"} PROVE gauge'[e] = Cardinality(Moving(e)')
    BY <2>1, <2>2, <2>4, <2>5 DEF GaugeBooks
  <2> QED
    BY <2>7, <2>8 DEF GaugeBooks
<1> QED
  BY <1>1, <1>2

LEMMA BegunOnce ==
  ASSUME Typed, Places, GaugeBooks, NEW s \in Sessions, Begin(s)
  PROVE  GaugeBooks'
<1>1. PICK d \in {"upload", "download"} : Direction(s) = d
  BY DEF Direction
<1>2. dir[s] = ""
  BY DEF Begin, Places, Fields
<1>3. dir' = [dir EXCEPT ![s] = d] /\ gauge' = [gauge EXCEPT ![d] = gauge[d] + 1]
  BY <1>1 DEF Begin
<1>4. Moving(d)' = Moving(d) \cup {s} /\ s \notin Moving(d)
  <2>1. \A t \in Sessions : dir'[t] = IF t = s THEN d ELSE dir[t]
    BY <1>3 DEF Typed
  <2>2. Moving(d)' = Moving(d) \cup {s}
    BY <2>1 DEF Moving
  <2>3. s \notin Moving(d)
    BY <1>1, <1>2 DEF Moving
  <2> QED
    BY <2>2, <2>3
<1>5. \A e \in {"upload", "download"} \ {d} : Moving(e)' = Moving(e)
  BY <1>1, <1>2, <1>3 DEF Moving, Typed
<1>6. /\ Cardinality(Moving(d)') = Cardinality(Moving(d)) + 1
      /\ Cardinality(Moving(d)') \in Nat
  BY <1>4, SessionsFinite, FS_AddElement, FS_CardinalityType
<1>7. gauge' \in [{"upload", "download"} -> Nat]
  BY <1>1, <1>3 DEF GaugeBooks
<1>8. ASSUME NEW e \in {"upload", "download"} PROVE gauge'[e] = Cardinality(Moving(e)')
  BY <1>1, <1>3, <1>5, <1>6 DEF GaugeBooks
<1> QED
  BY <1>7, <1>8 DEF GaugeBooks

\* The three steps that change what the handlers hold.
TakesUpload(s) ==
  LET p == cmd[s].path IN
  /\ at[s] = "reserve" /\ at'[s] = "slots" /\ cmd[s].verb = "STOR" /\ cmd' = cmd
  /\ p \notin reserved /\ readers[p] = 0
  /\ reserved' = reserved \cup {p} /\ readers' = readers

TakesDownload(s) ==
  LET p == cmd[s].path IN
  /\ at[s] = "reserve" /\ at'[s] = "open" /\ cmd[s].verb = "RETR" /\ cmd' = cmd
  /\ p \notin reserved
  /\ reserved' = reserved /\ readers' = [readers EXCEPT ![p] = @ + 1]

Releases(s) ==
  LET p == cmd[s].path IN
  /\ at[s] = "leave" /\ at'[s] = "idle" /\ cmd[s].verb \in {"STOR", "RETR"}
  /\ cmd'[s] = NoCmd
  /\ reserved' = IF cmd[s].verb = "STOR" THEN reserved \ {p} ELSE reserved
  /\ readers' = IF cmd[s].verb = "RETR" THEN [readers EXCEPT ![p] = @ - 1] ELSE readers

Quiet(s) == Unheld(s) /\ reserved' = reserved /\ readers' = readers

LEMMA HoldingStep ==
  ASSUME Typed, Places, NEW s \in Sessions, Actor(s)
  PROVE  Quiet(s) \/ TakesUpload(s) \/ TakesDownload(s) \/ Releases(s)
<1> USE DEF Typed, Go, Refuse, sessionVars, fieldVars, pathVars, slaveVars
<1>0. Placed(s) /\ Fields(s) /\ Works(s)
  BY DEF Places
<1>1. ASSUME cmd' = cmd, reserved' = reserved, readers' = readers,
             \/ at'[s] = at[s]
             \/ at[s] \notin {"out", "admit", "idle", "reserve", "slots"}
                /\ at'[s] \notin {"out", "admit", "idle", "reserve", "slots"}
             \/ at[s] \in {"out", "admit", "idle", "reserve"}
                /\ at'[s] \in {"out", "admit", "idle", "reserve"}
             \/ at[s] = "slots" /\ at'[s] # "reserve" /\ cmd[s].verb = "STOR"
                /\ at'[s] \notin {"out", "admit", "idle"}
             \/ at[s] = "slots" /\ at'[s] = "reserve" /\ cmd[s].verb = "RETR"
      PROVE  Quiet(s)
  BY <1>1 DEF Quiet, Unheld, Holding
<1>2. ASSUME reserved' = reserved, readers' = readers, cmd'[s] = NoCmd, at'[s] = "idle",
             s \notin Holding("STOR") \cup Holding("RETR")
      PROVE  Quiet(s)
  BY <1>2 DEF Quiet, Unheld, Holding
<1>3. CASE Handler(s)
  <2>1. CASE Admit(s)
    BY <1>1, <2>1 DEF Admit
  <2>2. CASE ReserveUpload(s)
    <3>1. CASE cmd[s].path \notin reserved /\ readers[cmd[s].path] = 0
      BY <2>2, <3>1 DEF ReserveUpload, TakesUpload
    <3>2. CASE ~(cmd[s].path \notin reserved /\ readers[cmd[s].path] = 0)
      BY <1>2, <2>2, <3>2 DEF ReserveUpload, Holding
    <3> QED
      BY <3>1, <3>2
  <2>3. CASE ReserveDownload(s)
    <3>1. CASE cmd[s].path \notin reserved
      BY <2>3, <3>1 DEF ReserveDownload, TakesDownload
    <3>2. CASE cmd[s].path \in reserved
      BY <1>2, <2>3, <3>2 DEF ReserveDownload, Holding
    <3> QED
      BY <3>1, <3>2
  <2>4. CASE CheckSlots(s)
    <3>1. at[s] = "slots" /\ cmd[s].verb \in {"STOR", "RETR"}
      BY <1>0, <2>4 DEF CheckSlots, Placed, Transferring
    <3>2. reserved' = reserved /\ readers' = readers
      BY <2>4 DEF CheckSlots
    <3>3. CASE cmd[s].verb = "STOR"
      <4>1. cmd' = cmd /\ at'[s] \in {"open", "leave"}
        BY <2>4, <3>1, <3>3 DEF CheckSlots
      <4> QED
        BY <1>1, <3>1, <3>2, <3>3, <4>1
    <3>4. CASE cmd[s].verb = "RETR"
      <4>1. \/ cmd' = cmd /\ at'[s] = "reserve"
            \/ cmd'[s] = NoCmd /\ at'[s] = "idle"
        BY <2>4, <3>1, <3>4 DEF CheckSlots
      <4>2. s \notin Holding("STOR") \cup Holding("RETR")
        BY <3>1, <3>4 DEF Holding
      <4> QED
        BY <1>1, <1>2, <3>1, <3>2, <3>4, <4>1, <4>2
    <3> QED
      BY <3>1, <3>3, <3>4
  <2>5. CASE Leave(s)
    <3>1. CASE cmd[s].verb \in {"STOR", "RETR"}
      BY <2>5, <3>1 DEF Leave, Releases
    <3>2. CASE cmd[s].verb \notin {"STOR", "RETR"}
      BY <1>2, <2>5, <3>2 DEF Leave, Holding
    <3> QED
      BY <3>1, <3>2
  <2>6. CASE Open(s) \/ Begin(s) \/ Attach(s) \/ Settle(s) \/ Return(s)
    BY <1>1, <2>6 DEF Open, Begin, Attach, Settle, Return
  <2>7. CASE Index(s) \/ Unlink(s) \/ Unindex(s) \/ Move(s) \/ Reindex(s)
    BY <1>1, <2>7 DEF Index, Unlink, Unindex, Move, Reindex
  <2> QED
    BY <1>3, <2>1, <2>2, <2>3, <2>4, <2>5, <2>6, <2>7 DEF Handler
<1>4. CASE Slave(s)
  BY <1>1, <1>4 DEF Slave, SlaveStart, JobEnds, JobFails
<1>5. CASE Client(s)
  <2>1. CASE CheckLogin(s) \/ Disconnect(s)
    BY <1>1, <2>1 DEF CheckLogin, Disconnect
  <2>2. ASSUME NEW c, NEW loc \in Locations, Command(s, c, loc),
               \/ c.verb \notin {"STOR", "RETR"}
               \/ c.verb = "STOR" /\ loc = "reserve"
               \/ c.verb = "RETR" /\ loc = "slots"
        PROVE  Quiet(s)
    <3>1. s \notin Holding("STOR") \cup Holding("RETR")
      BY <2>2 DEF Command, Holding
    <3>2. cmd'[s] = c /\ at'[s] = loc
      BY <2>2 DEF Command
    <3>3. (s \notin Holding("STOR"))' /\ (s \notin Holding("RETR"))'
      BY <2>2, <3>2 DEF Holding
    <3> QED
      BY <2>2, <3>1, <3>3 DEF Quiet, Unheld, Command
  <2> QED
    BY <1>5, <2>1, <2>2 DEF Client, Stor, Retr, Dele, Rnto, Locations
<1>6. CASE KickLook(s) \/ KickClear(s) \/ GiveUp(s)
  BY <1>1, <1>6 DEF KickLook, KickClear, GiveUp
<1> QED
  BY <1>3, <1>4, <1>5, <1>6 DEF Actor

LEMMA ApartStep ==
  ASSUME Typed, PathBooks, Apart, NEW s \in Sessions, Alone(s),
         Quiet(s) \/ TakesUpload(s) \/ TakesDownload(s) \/ Releases(s)
  PROVE  Apart'
<1>1. CASE Quiet(s)
  BY <1>1, SameHolding DEF Quiet, Apart
<1>2. CASE TakesUpload(s)
  <2> DEFINE p == cmd[s].path
  <2>1. \A t \in Holding("STOR") : cmd[t].path # p
    BY <1>2 DEF TakesUpload, PathBooks
  <2>2. p \in Paths
    BY <1>2, CmdOf DEF TakesUpload
  <2>3. \A t \in Holding("RETR") : cmd[t].path # p
    <3>1. Readers(p) = {}
      BY <1>2, <2>2, SessionsFinite, FS_EmptySet DEF TakesUpload, PathBooks
    <3> QED
      BY <3>1 DEF Readers
  <2>4. \A t \in Sessions \ {s} : \A v \in {"STOR", "RETR"} :
          (t \in Holding(v))' <=> t \in Holding(v)
    BY DEF Alone, Holding
  <2>5. (s \notin Holding("RETR"))'
    BY <1>2 DEF TakesUpload, Holding
  <2>6. \A v \in {"STOR", "RETR"} : Holding(v)' \subseteq Sessions
    BY DEF Holding
  <2> QED
    BY <1>2, <2>1, <2>3, <2>4, <2>5, <2>6 DEF TakesUpload, Apart
<1>3. CASE TakesDownload(s)
  <2> DEFINE p == cmd[s].path
  <2>1. \A t \in Holding("STOR") : cmd[t].path # p
    BY <1>3 DEF TakesDownload, PathBooks
  <2>2. \A t \in Sessions \ {s} : \A v \in {"STOR", "RETR"} :
          (t \in Holding(v))' <=> t \in Holding(v)
    BY DEF Alone, Holding
  <2>3. (s \notin Holding("STOR"))'
    BY <1>3 DEF TakesDownload, Holding
  <2>4. \A v \in {"STOR", "RETR"} : Holding(v)' \subseteq Sessions
    BY DEF Holding
  <2> QED
    BY <1>3, <2>1, <2>2, <2>3, <2>4 DEF TakesDownload, Apart
<1>4. CASE Releases(s)
  <2>1. \A t \in Sessions \ {s} : \A v \in {"STOR", "RETR"} :
          (t \in Holding(v))' <=> t \in Holding(v)
    BY DEF Alone, Holding
  <2>2. (s \notin Holding("STOR"))' /\ (s \notin Holding("RETR"))'
    BY <1>4 DEF Releases, Holding
  <2>3. \A v \in {"STOR", "RETR"} : Holding(v)' \subseteq Sessions
    BY DEF Holding
  <2> QED
    BY <2>1, <2>2, <2>3 DEF Apart, Alone
<1> QED
  BY <1>1, <1>2, <1>3, <1>4

LEMMA PathBooksStep ==
  ASSUME Typed, PathBooks, Apart, NEW s \in Sessions, Alone(s),
         Quiet(s) \/ TakesUpload(s) \/ TakesDownload(s) \/ Releases(s)
  PROVE  PathBooks'
<1>0. PICK p : p = cmd[s].path
  OBVIOUS
<1>1. \A t \in Sessions \ {s} :
        /\ cmd'[t] = cmd[t]
        /\ \A v \in {"STOR", "RETR"} : (t \in Holding(v))' <=> t \in Holding(v)
  BY DEF Alone, Holding
<1>2. \A v \in {"STOR", "RETR"} : Holding(v) \subseteq Sessions /\ Holding(v)' \subseteq Sessions
  BY DEF Holding
<1>3. CASE Quiet(s)
  BY <1>3, QuietPaths DEF Quiet
<1>4. CASE TakesUpload(s)
  <2>1. (s \in Holding("STOR"))' /\ (s \notin Holding("RETR"))'
    BY <1>4 DEF TakesUpload, Holding
  <2>2. s \notin Holding("STOR") /\ s \notin Holding("RETR")
    BY <1>4 DEF TakesUpload, Holding
  <2>3. Holding("STOR")' = Holding("STOR") \cup {s} /\ cmd' = cmd
    BY <1>1, <1>2, <1>4, <2>1 DEF TakesUpload
  <2>4. {cmd[t].path : t \in Holding("STOR")}' = {cmd[t].path : t \in Holding("STOR")} \cup {p}
    BY <1>0, <2>3
  <2>5. Holding("RETR")' = Holding("RETR")
    BY <1>1, <1>2, <2>1, <2>2
  <2>6. \A q : Readers(q)' = Readers(q)
    BY <2>3, <2>5 DEF Readers
  <2>7. reserved' = reserved \cup {p} /\ readers' = readers
    BY <1>0, <1>4 DEF TakesUpload
  <2> QED
    BY <2>4, <2>6, <2>7 DEF PathBooks
<1>5. CASE TakesDownload(s)
  <2>0. p \in Paths /\ cmd[s].path = p
    BY <1>0, <1>5, CmdOf DEF TakesDownload
  <2>1. (s \notin Holding("STOR"))' /\ (s \in Holding("RETR"))'
    BY <1>5 DEF TakesDownload, Holding
  <2>2. s \notin Holding("STOR") /\ s \notin Holding("RETR")
    BY <1>5 DEF TakesDownload, Holding
  <2>3. Holding("STOR")' = Holding("STOR") /\ cmd' = cmd
    <3>1. Holding("STOR")' = Holding("STOR")
      BY <1>1, <1>2, <2>1, <2>2
    <3> QED
      BY <1>5, <3>1 DEF TakesDownload
  <2>4. Holding("RETR")' = Holding("RETR") \cup {s}
    BY <1>1, <1>2, <2>1
  <2>5. Readers(p)' = Readers(p) \cup {s} /\ s \notin Readers(p)
    BY <2>0, <2>2, <2>3, <2>4 DEF Readers
  <2>6. \A q \in Paths \ {p} : Readers(q)' = Readers(q)
    BY <2>0, <2>3, <2>4 DEF Readers
  <2>7. readers' = [readers EXCEPT ![p] = readers[p] + 1] /\ reserved' = reserved
    BY <2>0, <1>5 DEF TakesDownload
  <2>8. Cardinality(Readers(p)') = Cardinality(Readers(p)) + 1 /\ Cardinality(Readers(p)) \in Nat
    BY <2>5, SessionsFinite, FS_AddElement
  <2>9. readers' \in [Paths -> Nat]
    BY <2>0, <2>7 DEF PathBooks
  <2>10. ASSUME NEW q \in Paths PROVE readers'[q] = Cardinality(Readers(q)')
    BY <2>0, <2>6, <2>7, <2>8 DEF PathBooks
  <2> QED
    BY <2>3, <2>7, <2>9, <2>10 DEF PathBooks
<1>6. CASE Releases(s)
  <2>0. p \in Paths /\ cmd[s].path = p
    BY <1>0, <1>6, CmdOf DEF Releases
  <2>1. (s \notin Holding("STOR"))' /\ (s \notin Holding("RETR"))'
    BY <1>6 DEF Releases, Holding
  <2>2. /\ Holding("STOR")' = Holding("STOR") \ {s}
        /\ Holding("RETR")' = Holding("RETR") \ {s}
    BY <1>1, <1>2, <2>1
  <2>3. CASE cmd[s].verb = "STOR"
    <3>1. s \in Holding("STOR") /\ s \notin Holding("RETR")
      BY <1>6, <2>3 DEF Releases, Holding
    <3>2. {cmd[t].path : t \in Holding("STOR")}' = {cmd[t].path : t \in Holding("STOR")} \ {p}
      <4>1. \A t \in Holding("STOR") \ {s} : cmd'[t] = cmd[t] /\ cmd[t].path # p
        BY <1>1, <1>2, <2>0, <3>1 DEF Apart
      <4>2. {cmd[t].path : t \in Holding("STOR")}' = {cmd[t].path : t \in Holding("STOR") \ {s}}
        BY <2>2, <4>1
      <4> QED
        BY <2>0, <3>1, <4>1, <4>2
    <3>3. \A q : Readers(q)' = Readers(q)
      BY <1>1, <1>2, <2>2, <3>1 DEF Readers
    <3>4. reserved' = reserved \ {p} /\ readers' = readers
      BY <1>6, <2>0, <2>3 DEF Releases
    <3> QED
      BY <3>2, <3>3, <3>4 DEF PathBooks
  <2>4. CASE cmd[s].verb = "RETR"
    <3>1. s \in Holding("RETR") /\ s \notin Holding("STOR")
      BY <1>6, <2>4 DEF Releases, Holding
    <3>2. Readers(p)' = Readers(p) \ {s} /\ s \in Readers(p)
      BY <1>1, <1>2, <2>0, <2>2, <3>1 DEF Readers
    <3>3. \A q \in Paths \ {p} : Readers(q)' = Readers(q)
      BY <1>1, <1>2, <2>0, <2>2 DEF Readers
    <3>4. readers' = [readers EXCEPT ![p] = readers[p] - 1] /\ reserved' = reserved
      BY <1>6, <2>0, <2>4 DEF Releases
    <3>5. /\ Cardinality(Readers(p)') = Cardinality(Readers(p)) - 1
          /\ Cardinality(Readers(p)') \in Nat
      BY <3>2, SessionsFinite, FS_RemoveElement, FS_CardinalityType
    <3>6. readers[p] = Cardinality(Readers(p))
      BY <2>0 DEF PathBooks
    <3>7. readers' \in [Paths -> Nat]
      BY <2>0, <3>4, <3>5, <3>6 DEF PathBooks
    <3>8. ASSUME NEW q \in Paths PROVE readers'[q] = Cardinality(Readers(q)')
      BY <2>0, <3>3, <3>4, <3>5, <3>6 DEF PathBooks
    <3>9. {cmd[t].path : t \in Holding("STOR")}' = {cmd[t].path : t \in Holding("STOR")}
      BY <1>1, <1>2, <2>2, <3>1
    <3> QED
      BY <3>4, <3>7, <3>8, <3>9 DEF PathBooks
  <2> QED
    BY <1>6, <2>3, <2>4 DEF Releases
<1> QED
  BY <1>3, <1>4, <1>5, <1>6

LEMMA GaugeBooksStep ==
  ASSUME Typed, Places, GaugeBooks, NEW s \in Sessions, Actor(s)
  PROVE  GaugeBooks'
<1> USE DEF sessionVars, fieldVars, pathVars, slaveVars
<1>1. ASSUME dir' = dir, gauge' = gauge PROVE GaugeBooks'
  BY <1>1 DEF GaugeBooks, Moving
<1>2. CASE Handler(s)
  <2>1. CASE Begin(s)
    BY <2>1, BegunOnce
  <2>2. CASE Settle(s)
    BY <2>2, EndedOnce DEF Settle
  <2>3. CASE Admit(s) \/ ReserveUpload(s) \/ ReserveDownload(s) \/ CheckSlots(s) \/ Leave(s)
    BY <1>1, <2>3 DEF Admit, ReserveUpload, ReserveDownload, CheckSlots, Leave
  <2>4. CASE Open(s) \/ Attach(s) \/ Return(s) \/ Index(s)
    BY <1>1, <2>4 DEF Open, Attach, Return, Index
  <2>5. CASE Unlink(s) \/ Unindex(s) \/ Move(s) \/ Reindex(s)
    BY <1>1, <2>5 DEF Unlink, Unindex, Move, Reindex
  <2> QED
    BY <1>2, <2>1, <2>2, <2>3, <2>4, <2>5 DEF Handler
<1>3. CASE Slave(s)
  BY <1>1, <1>3 DEF Slave, SlaveStart, JobEnds, JobFails
<1>4. CASE Client(s)
  BY <1>1, <1>4 DEF Client, CheckLogin, Disconnect, Stor, Retr, Dele, Rnto, Command
<1>5. CASE KickLook(s) \/ GiveUp(s)
  BY <1>1, <1>5 DEF KickLook, GiveUp
<1>6. CASE KickClear(s)
  BY <1>6, EndedOnce DEF KickClear
<1> QED
  BY <1>2, <1>3, <1>4, <1>5, <1>6 DEF Actor

LEMMA BooksStep ==
  ASSUME Typed, Places, PathBooks, GaugeBooks, Apart, [Next]_vars
  PROVE  PathBooks' /\ GaugeBooks' /\ Apart'
<1>1. ASSUME NEW s \in Sessions, Actor(s) PROVE PathBooks' /\ GaugeBooks' /\ Apart'
  BY <1>1, StepAlone, HoldingStep, ApartStep, PathBooksStep, GaugeBooksStep
<1>2. ASSUME UNCHANGED <<sessionVars, fieldVars, pathVars>> PROVE PathBooks' /\ GaugeBooks' /\ Apart'
  <2> USE <1>2 DEF sessionVars, fieldVars, pathVars
  <2>1. PathBooks'
    BY DEF PathBooks, Readers, Holding
  <2>2. GaugeBooks'
    BY DEF GaugeBooks, Moving
  <2>3. Apart'
    BY DEF Apart, Holding
  <2> QED
    BY <2>1, <2>2, <2>3
<1>3. CASE \/ LinkDrops \/ LinkReturns \/ UNCHANGED vars \/ \E c \in late : LateStart(c)
           \/ \E p \in Paths, o \in Orphans : OrphanEnds(p, o)
  BY <1>2, <1>3 DEF LinkDrops, LinkReturns, LateStart, OrphanEnds, vars, sessionVars, fieldVars,
     pathVars
<1> QED
  BY <1>1, <1>3 DEF Next, Actor

-----------------------------------------------------------------------------
(***************************************************************************)
(* The files.                                                              *)
(***************************************************************************)

\* What a step of s leaves of the writers: its own transfer may have begun, or has ended.
LEMMA WritersKept ==
  ASSUME Typed, Writers, NEW s \in Sessions, Alone(s),
         \A p \in Paths : \A t \in disk'[p].by \ Orphans :
           (t \in disk[p].by /\ t # s) \/ Writer(t, p)'
  PROVE  Writers'
<1>1. ASSUME NEW p \in Paths, NEW t \in disk[p].by \ Orphans, t # s PROVE Writer(t, p)'
  <2>1. Writer(t, p) /\ t \in Sessions \ {s}
    BY <1>1 DEF Writers, Writer
  <2> QED
    BY <2>1 DEF Alone, Writer
<1> QED
  BY <1>1 DEF Writers

LEMMA WritersStep ==
  ASSUME Typed, Places, Writers, "rename" \notin set.may, NEW s \in Sessions, Actor(s)
  PROVE  Writers'
<1> USE DEF Go, Refuse, sessionVars, fieldVars, pathVars, slaveVars
<1>0. Alone(s) /\ Placed(s)
  BY StepAlone DEF Places
<1>1. ASSUME disk' = disk, ~(at[s] = "wait" /\ job[s] \in {"run", "abort"}) PROVE Writers'
  <2>1. ASSUME NEW p \in Paths, NEW t \in disk[p].by \ Orphans PROVE t # s
    BY <1>1 DEF Writers, Writer
  <2> QED
    BY <1>0, <1>1, <2>1, WritersKept
<1>2. ASSUME disk' = disk, at' = at, cmd' = cmd, job'[s] \in {job[s], "abort"} PROVE Writers'
  <2>1. ASSUME NEW p \in Paths, NEW t \in disk[p].by \ Orphans, t = s PROVE Writer(t, p)'
    BY <1>2, <2>1 DEF Writers, Writer
  <2> QED
    BY <1>0, <1>2, <2>1, WritersKept
<1>3. CASE Handler(s)
  <2>1. CASE Unlink(s)
    <3>1. \A p \in Paths : \A t \in disk'[p].by : t \in disk[p].by
      <4>1. disk' = disk \/ disk' = [disk EXCEPT ![cmd[s].path] = Gone]
        BY <2>1 DEF Unlink
      <4>2. \A p \in Paths : disk'[p] = disk[p] \/ disk'[p] = Gone
        BY <4>1 DEF Typed
      <4> QED
        BY <4>2 DEF Gone
    <3>2. at[s] = "unlink"
      BY <2>1 DEF Unlink
    <3>3. \A p \in Paths : \A t \in disk[p].by \ Orphans : t # s
      BY <3>2 DEF Writers, Writer
    <3> QED
      BY <1>0, <3>1, <3>3, WritersKept
  <2>2. CASE Move(s)
    BY <1>0, <2>2 DEF Move, Placed
  <2>3. CASE Admit(s) \/ ReserveUpload(s) \/ ReserveDownload(s) \/ CheckSlots(s) \/ Leave(s)
    BY <1>1, <2>3 DEF Admit, ReserveUpload, ReserveDownload, CheckSlots, Leave
  <2>4. CASE Open(s) \/ Begin(s) \/ Attach(s) \/ Settle(s) \/ Return(s)
    BY <1>1, <2>4 DEF Open, Begin, Attach, Settle, Return
  <2>5. CASE Index(s) \/ Unindex(s) \/ Reindex(s)
    BY <1>1, <2>5 DEF Index, Unindex, Reindex
  <2> QED
    BY <1>3, <2>1, <2>2, <2>3, <2>4, <2>5 DEF Handler
<1>4. CASE Slave(s)
  <2>0. \A p \in Paths : disk[p] \in FileState
    BY DEF Typed
  <2>1. CASE SlaveStart(s)
    <3>0. at[s] = "ask" /\ cmd' = cmd
      BY <2>1 DEF SlaveStart
    <3>1. CASE disk' = disk
      BY <1>1, <3>0, <3>1
    <3>2. CASE disk' # disk
      <4> DEFINE p == cmd[s].path
                 w == IF cmd[s].verb = "STOR" THEN {s} ELSE {}
      <4>1. /\ disk' = [disk EXCEPT ![p] = [there |-> TRUE, by |-> disk[p].by \cup w]]
            /\ job'[s] \in {"run", "abort"}
        BY <2>1, <3>2 DEF SlaveStart, Typed
      <4>2. at'[s] = "wait"
        BY <2>1 DEF SlaveStart, Typed
      <4>3. ASSUME NEW q \in Paths, NEW t \in disk'[q].by \ Orphans
            PROVE  (t \in disk[q].by /\ t # s) \/ Writer(t, q)'
        <5>1. CASE t \in disk[q].by
          BY <3>0, <5>1 DEF Writers, Writer
        <5>2. CASE t \notin disk[q].by
          <6>1. q = p /\ t = s /\ cmd[s].verb = "STOR"
            BY <4>1, <5>2 DEF Typed
          <6> QED
            BY <3>0, <4>1, <4>2, <6>1 DEF Writer
        <5> QED
          BY <5>1, <5>2
      <4> QED
        BY <1>0, <4>3, WritersKept
    <3> QED
      BY <3>1, <3>2
  <2>2. \A p \in Paths : Written(s)[p].by = disk[p].by \ {s}
    BY <2>0, FileMade DEF Written, FileState
  <2>3. CASE JobEnds(s)
    <3>1. \A p \in Paths : disk'[p].by = disk[p].by \ {s}
      BY <2>2, <2>3 DEF JobEnds
    <3> QED
      BY <1>0, <3>1, WritersKept
  <2>4. CASE JobFails(s)
    <3>1. disk' = Written(s) \/ disk' = [Written(s) EXCEPT ![cmd[s].path] = Gone]
      BY <2>4 DEF JobFails
    <3>2. \A p \in Paths : disk'[p] = Written(s)[p] \/ disk'[p] = Gone
      BY <3>1 DEF Written
    <3>3. \A p \in Paths : disk'[p].by \subseteq disk[p].by \ {s}
      BY <2>2, <3>2 DEF Gone
    <3> QED
      BY <1>0, <3>3, WritersKept
  <2> QED
    BY <1>4, <2>1, <2>3, <2>4 DEF Slave
<1>5. CASE Client(s)
  BY <1>1, <1>5 DEF Client, CheckLogin, Disconnect, Stor, Retr, Dele, Rnto, Command
<1>6. CASE KickLook(s)
  <2>1. disk' = disk /\ at' = at /\ cmd' = cmd /\ job'[s] \in {job[s], "abort"}
    BY <1>6 DEF KickLook, Typed
  <2> QED
    BY <1>2, <2>1
<1>7. CASE KickClear(s)
  BY <1>2, <1>7 DEF KickClear
<1>8. CASE GiveUp(s)
  <2>1. CASE at[s] = "ask"
    BY <1>1, <1>8, <2>1 DEF GiveUp
  <2>2. CASE at[s] # "ask"
    <3>1. disk' = Orphaned({s}) /\ {s} \in SUBSET Sessions
      BY <1>8, <2>2 DEF GiveUp
    <3>2. \A p \in Paths : disk'[p].by \ Orphans = (disk[p].by \ {s}) \ Orphans
      BY <3>1, OrphanedIs DEF Typed
    <3> QED
      BY <1>0, <3>2, WritersKept
  <2> QED
    BY <2>1, <2>2
<1> QED
  BY <1>3, <1>4, <1>5, <1>6, <1>7, <1>8 DEF Actor

LEMMA WritersWaitStep ==
  ASSUME Typed, Places, WritersWait, [Next]_vars
  PROVE  WritersWait'
<1> USE DEF sessionVars, fieldVars, pathVars, slaveVars
<1>1. SUFFICES ASSUME "rename" \notin set'.may PROVE Writers'
  BY DEF WritersWait
<1>2. set' = set => Writers
  BY <1>1 DEF WritersWait
<1>3. ASSUME NEW s \in Sessions, Actor(s) PROVE Writers'
  <2>1. set' = set
    BY <1>3, StepAlone DEF Alone
  <2> QED
    BY <1>1, <1>2, <1>3, <2>1, WritersStep
<1>4. ASSUME set' = set, at' = at, cmd' = cmd, job' = job,
             \A p \in Paths : disk'[p].by \ Orphans \subseteq disk[p].by \ Orphans
      PROVE  Writers'
  BY <1>2, <1>4 DEF Writers, Writer
<1>0. \A p \in Paths : disk[p] \in FileState /\ disk[p].by \in Writing
  BY FileMade DEF Typed
<1>5. CASE LinkDrops
  <2> DEFINE waiting == {s \in Sessions : at[s] = "wait" /\ job[s] \in {"run", "abort"}}
  <2>1. /\ disk' = Orphaned(waiting)
        /\ \A t \in Sessions : t \in waiting \/ job'[t] = job[t]
        /\ set' = set /\ at' = at /\ cmd' = cmd
    BY <1>5 DEF LinkDrops
  <2>2. \A p \in Paths : disk'[p].by \ Orphans = (disk[p].by \ waiting) \ Orphans
    <3>1. waiting \in SUBSET Sessions
      OBVIOUS
    <3> HIDE DEF waiting
    <3> QED
      BY <2>1, <3>1, OrphanedIs DEF Typed
  <2>3. ASSUME NEW p \in Paths, NEW t \in disk'[p].by \ Orphans PROVE FALSE
    <3>1. t \in disk[p].by \ Orphans /\ t \notin waiting
      BY <2>2, <2>3
    <3> QED
      BY <1>2, <2>1, <3>1 DEF Writers, Writer
  <2> QED
    BY <2>3 DEF Writers
<1>6. CASE LinkReturns
  BY <1>4, <1>6 DEF LinkReturns
<1>7. ASSUME NEW p \in Paths, NEW o \in Orphans, OrphanEnds(p, o) PROVE Writers'
  <2>1. \A q \in Paths : disk'[q] \in {disk[q], [disk[q] EXCEPT !.by = @ \ {o}], Gone}
    BY <1>7 DEF OrphanEnds, Typed
  <2>2. \A q \in Paths : disk'[q].by \subseteq disk[q].by
    BY <1>0, <2>1 DEF Gone, FileState
  <2> QED
    BY <1>4, <1>7, <2>2 DEF OrphanEnds
<1>8. ASSUME NEW c \in late, LateStart(c) PROVE Writers'
  <2> DEFINE o == IF c.rest THEN Resumed ELSE Fresh
  <2>1. o \in Orphans
    BY DEF Orphans
  <2>2. \A q \in Paths : disk'[q] \in {disk[q], [there |-> TRUE, by |-> disk[q].by \cup {o}]}
    BY <1>8 DEF LateStart, Typed
  <2>3. \A q \in Paths : disk'[q].by \ Orphans \subseteq disk[q].by \ Orphans
    BY <2>1, <2>2
  <2> QED
    BY <1>4, <1>8, <2>3 DEF LateStart
<1>9. CASE UNCHANGED vars
  BY <1>4, <1>9 DEF vars
<1> QED
  BY <1>3, <1>5, <1>6, <1>7, <1>8, <1>9 DEF Next, Actor

\* Orphans come only with a lost link, a rename or where the master has stopped waiting.
LEMMA AbandonedStep ==
  ASSUME Typed, Places, DownIfDropped, WritersWait, Abandoned, [Next]_vars
  PROVE  Abandoned'
<1> USE DEF DownIfDropped, sessionVars, fieldVars, pathVars, slaveVars
<1>0. \A p \in Paths : disk[p] \in FileState /\ disk[p].by \in Writing
  BY FileMade DEF Typed
<1>1. ASSUME set' = set, late' \subseteq late, tired' = tired,
             set.may \cap {"rename", "drop"} = {} =>
               \A p \in Paths : p \notin tired => disk'[p].by \cap Orphans \subseteq disk[p].by
      PROVE  Abandoned'
  BY <1>1 DEF Abandoned
<1>2. ASSUME NEW s \in Sessions, Handler(s) PROVE Abandoned'
  <2>0. set' = set /\ late' = late /\ tired' = tired
    BY <1>2 DEF Handler, Admit, ReserveUpload, ReserveDownload, CheckSlots, Leave, Open, Begin,
       Attach, Settle, Return, Index, Unlink, Unindex, Move, Reindex
  <2>1. CASE disk' = disk
    BY <1>1, <2>0, <2>1
  <2>2. CASE Unlink(s)
    <3>1. \A p \in Paths : disk'[p] \in {disk[p], Gone}
      BY <2>2 DEF Unlink, Typed
    <3> QED
      BY <1>1, <2>0, <3>1 DEF Gone
  <2>3. CASE Move(s)
    BY <1>1, <2>0, <2>3 DEF Move, Places, Placed
  <2> QED
    BY <1>2, <2>1, <2>2, <2>3 DEF Handler, Admit, ReserveUpload, ReserveDownload, CheckSlots,
       Leave, Open, Begin, Attach, Settle, Return, Index, Unindex, Reindex
<1>3. ASSUME NEW s \in Sessions, Slave(s) PROVE Abandoned'
  <2>0. set' = set /\ late' = late /\ tired' = tired /\ s \notin Orphans
    BY <1>3 DEF Slave, SlaveStart, JobEnds, JobFails
  <2>1. CASE SlaveStart(s)
    <3> DEFINE w == IF cmd[s].verb = "STOR" THEN {s} ELSE {}
               d == [there |-> TRUE, by |-> disk[cmd[s].path].by \cup w]
    <3>0. disk' = disk \/ disk' = [disk EXCEPT ![cmd[s].path] = d]
      BY <2>1 DEF SlaveStart
    <3>3. d.by \subseteq disk[cmd[s].path].by \cup {s}
      OBVIOUS
    <3>1. ASSUME NEW p \in Paths PROVE disk'[p].by \subseteq disk[p].by \cup {s}
      <4> HIDE DEF d
      <4> QED
        BY <3>0, <3>3 DEF Typed
    <3>2. \A p \in Paths : disk'[p].by \cap Orphans \subseteq disk[p].by
      BY <2>0, <3>1
    <3> QED
      BY <1>1, <2>0, <3>2
  <2>2. \A p \in Paths : Written(s)[p].by = disk[p].by \ {s}
    BY <1>0, FileMade DEF Written, FileState
  <2>3. CASE JobEnds(s)
    BY <1>1, <2>0, <2>2, <2>3 DEF JobEnds
  <2>4. CASE JobFails(s)
    <3>1. \A p \in Paths : disk'[p] \in {Written(s)[p], Gone}
      BY <2>4 DEF JobFails, Written
    <3> QED
      BY <1>1, <2>0, <2>2, <3>1 DEF Gone
  <2> QED
    BY <1>3, <2>1, <2>3, <2>4 DEF Slave
<1>4. ASSUME NEW s \in Sessions, Client(s) \/ KickLook(s) \/ KickClear(s) PROVE Abandoned'
  <2>1. set' = set /\ late' = late /\ tired' = tired /\ disk' = disk
    BY <1>4 DEF Client, CheckLogin, Disconnect, Stor, Retr, Dele, Rnto, Command, KickLook, KickClear
  <2> QED
    BY <1>1, <2>1
<1>5. ASSUME NEW s \in Sessions, GiveUp(s) PROVE Abandoned'
  <2>0. set' = set /\ tired \subseteq tired' /\ (cmd[s].verb = "STOR" => cmd[s].path \in tired')
    BY <1>5 DEF GiveUp
  <2>1. \A c \in late' : c.path \in tired'
    BY <1>5, <2>0 DEF GiveUp, Abandoned
  <2>2. ASSUME set.may \cap {"rename", "drop"} = {}, NEW p \in Paths, p \notin tired'
        PROVE  disk'[p].by \cap Orphans \subseteq disk[p].by
    <3>1. s \notin disk[p].by
      BY <2>0, <2>2 DEF WritersWait, Writers, Writer
    <3>2. {s} \in SUBSET Sessions /\ disk[p].by \cap {s} = {}
      BY <3>1
    <3>3. Orphaned({s})[p].by = disk[p].by
      BY <3>2, OrphanedIs DEF Typed
    <3>4. disk' = disk \/ disk' = Orphaned({s})
      BY <1>5 DEF GiveUp
    <3> QED
      BY <3>3, <3>4
  <2> QED
    BY <2>0, <2>1, <2>2 DEF Abandoned
<1>6. CASE LinkDrops \/ LinkReturns
  <2>1. set' = set /\ "drop" \in set.may /\ late' = late /\ tired' = tired
    BY <1>6 DEF LinkDrops, LinkReturns
  <2> QED
    BY <1>1, <2>1
<1>7. ASSUME NEW p \in Paths, NEW o \in Orphans, OrphanEnds(p, o) PROVE Abandoned'
  <2>1. \A q \in Paths : disk'[q] \in {disk[q], [disk[q] EXCEPT !.by = @ \ {o}], Gone}
    BY <1>7 DEF OrphanEnds, Typed
  <2>2. \A q \in Paths : disk'[q].by \subseteq disk[q].by
    BY <1>0, <2>1 DEF Gone, FileState
  <2> QED
    BY <1>1, <1>7, <2>2 DEF OrphanEnds
<1>8. ASSUME NEW c \in late, LateStart(c) PROVE Abandoned'
  <2>1. c.path \in tired /\ \A q \in Paths : q # c.path => disk'[q] = disk[q]
    BY <1>8 DEF LateStart, Abandoned, Typed
  <2>2. \A q \in Paths : q \notin tired => disk'[q].by \cap Orphans \subseteq disk[q].by
    BY <2>1
  <2>3. set' = set /\ late' \subseteq late /\ tired' = tired
    BY <1>8 DEF LateStart
  <2> QED
    BY <1>1, <2>2, <2>3
<1>9. CASE UNCHANGED vars
  BY <1>1, <1>9 DEF vars
<1> QED
  BY <1>2, <1>3, <1>4, <1>5, <1>6, <1>7, <1>8, <1>9 DEF Next

\* A step of s changes the files of nobody but the upload that s is.
Elsewhere(s) ==
  \A q \in Paths : (s \in Holding("STOR") => q # cmd[s].path) =>
    (disk'[q].there <=> disk[q].there) /\ (q \in index' <=> q \in index)

\* What s makes of its own file, unless the master has stopped waiting for an upload there.
Own(s) ==
  /\ (s \in Between)' =>
       /\ cmd'[s] = cmd[s] /\ s \in Holding("STOR")
       /\ cmd[s].path \notin tired' => Progress(s)'
  /\ s \in Holding("STOR") /\ (s \notin Between)' /\ cmd[s].path \notin tired' =>
       LET p == cmd[s].path IN
       /\ p \in index' => disk'[p].there
       /\ disk'[p].there /\ set.mode # "bridged" => p \in index'

LEMMA BetweenHolds == Between \subseteq Holding("STOR")
  BY DEF Between, Holding

LEMMA FilesKept ==
  ASSUME Typed, Apart, FilesOk, NEW s \in Sessions, Alone(s), Elsewhere(s), Own(s),
         tired \subseteq tired'
  PROVE  FilesOk'
<1>1. \A t \in Sessions \ {s} : (t \in Between)' <=> t \in Between
  BY DEF Alone, Between
<1>2. Between \subseteq Sessions /\ Between' \subseteq Sessions
  BY DEF Between
<1>3. ASSUME NEW t \in Between, t # s
      PROVE  /\ cmd[t].path \in Paths /\ cmd'[t] = cmd[t] /\ at'[t] = at[t] /\ job'[t] = job[t]
             /\ disk'[cmd[t].path].there <=> disk[cmd[t].path].there
             /\ cmd[t].path \in index' <=> cmd[t].path \in index
  <2>1. cmd[t].path \in Paths
    BY <1>2, CmdOf DEF Between
  <2>2. s \in Holding("STOR") => cmd[t].path # cmd[s].path
    BY <1>3, BetweenHolds DEF Apart
  <2>3. t \in Sessions \ {s}
    BY <1>2, <1>3
  <2> QED
    BY <2>1, <2>2, <2>3 DEF Elsewhere, Alone
<1>4. ASSUME NEW t \in Between', cmd'[t].path \notin tired' PROVE Progress(t)'
  <2>1. CASE t = s
    BY <1>4, <2>1 DEF Own
  <2>2. CASE t # s
    <3>0. t \in Between /\ cmd'[t] = cmd[t]
      BY <1>1, <1>2, <1>3, <2>2
    <3>1. t \in Between /\ Progress(t) /\ set' = set
      BY <1>4, <3>0 DEF FilesOk, Alone
    <3> QED
      BY <1>3, <2>2, <3>1 DEF Progress
  <2> QED
    BY <2>1, <2>2
<1>5. ASSUME NEW p \in Paths \ tired', AtRest(p)' PROVE Consistent(p)'
  <2>0. set' = set
    BY DEF Alone
  <2>1. \A t \in Between \ {s} : cmd[t].path # p
    BY <1>1, <1>2, <1>3, <1>5 DEF AtRest
  <2>2. CASE s \in Holding("STOR") /\ cmd[s].path = p
    <3>1. (s \notin Between)'
      BY <1>5, <2>2 DEF AtRest, Own
    <3> QED
      BY <2>0, <2>2, <3>1 DEF Own, Consistent
  <2>3. CASE ~(s \in Holding("STOR") /\ cmd[s].path = p)
    <3>1. AtRest(p)
      BY <2>1, <2>3, BetweenHolds DEF AtRest
    <3>2. (disk'[p].there <=> disk[p].there) /\ (p \in index' <=> p \in index)
      BY <2>3 DEF Elsewhere
    <3> QED
      BY <2>0, <3>1, <3>2 DEF FilesOk, Consistent
  <2> QED
    BY <2>2, <2>3
<1> QED
  BY <1>4, <1>5 DEF FilesOk

\* What is known of the file of an upload that has its path.
LEMMA OwnFile ==
  ASSUME Typed, Apart, FilesOk, NEW s \in Holding("STOR")
  PROVE  /\ s \in Sessions /\ cmd[s].path \in Paths /\ cmd[s].verb = "STOR"
         /\ s \in Between /\ cmd[s].path \notin tired => Progress(s)
         /\ s \notin Between /\ cmd[s].path \notin tired => Consistent(cmd[s].path)
<1>1. s \in Sessions /\ cmd[s].verb = "STOR"
  BY DEF Holding
<1>2. cmd[s].path \in Paths
  BY <1>1, CmdOf
<1>3. s \notin Between => AtRest(cmd[s].path)
  BY BetweenHolds DEF Apart, AtRest
<1> QED
  BY <1>1, <1>2, <1>3 DEF FilesOk

LEMMA FilesStep ==
  ASSUME Typed, Places, Apart, FilesOk, set.may \subseteq {"kick", "timeout"}, up,
         NEW s \in Sessions, Actor(s)
  PROVE  FilesOk'
<1> USE DEF Go, Refuse, sessionVars, fieldVars, pathVars, slaveVars
<1>0. /\ Alone(s) /\ Placed(s) /\ Works(s)
      /\ tired \subseteq tired' /\ (GiveUp(s) \/ tired' = tired)
  <2>1. CASE Handler(s)
    BY <2>1, StepAlone DEF Places, Handler, Admit, ReserveUpload, ReserveDownload, CheckSlots,
       Leave, Open, Begin, Attach, Settle, Return, Index, Unlink, Unindex, Move, Reindex
  <2>2. CASE Slave(s) \/ KickLook(s) \/ KickClear(s) \/ GiveUp(s)
    BY <2>2, StepAlone DEF Places, Slave, SlaveStart, JobEnds, JobFails, KickLook, KickClear, GiveUp
  <2>3. CASE Client(s)
    BY <2>3, StepAlone DEF Places, Client, CheckLogin, Disconnect, Stor, Retr, Dele, Rnto, Command
  <2> QED
    BY <2>1, <2>2, <2>3 DEF Actor
<1>1. ASSUME disk' = disk, index' = index,
             (s \in Between)' => s \in Between /\ cmd'[s] = cmd[s] /\ at'[s] = at[s]
                                 /\ (at[s] = "wait" => job'[s] = job[s] \/ job[s] = "run"),
             s \in Between => (s \in Between)'
      PROVE  FilesOk'
  <2>1. Elsewhere(s)
    BY <1>1 DEF Elsewhere
  <2>2. Own(s)
    <3>1. ASSUME s \in Holding("STOR"), (s \notin Between)', cmd[s].path \notin tired
          PROVE  Consistent(cmd[s].path)
      BY <1>1, <3>1, OwnFile
    <3>2. ASSUME (s \in Between)'
          PROVE  s \in Holding("STOR") /\ (cmd[s].path \notin tired => Progress(s)')
      <4>1. s \in Holding("STOR") /\ (cmd[s].path \notin tired => Progress(s))
        BY <1>1, <3>2, BetweenHolds, OwnFile
      <4> QED
        BY <1>0, <1>1, <3>2, <4>1 DEF Progress, Alone, Between
    <3> QED
      BY <1>0, <1>1, <3>1, <3>2 DEF Own, Consistent
  <2> QED
    BY <1>0, <2>1, <2>2, FilesKept
<1>2. ASSUME s \in Holding("STOR"),
             \A q \in Paths : q # cmd[s].path =>
               (disk'[q].there <=> disk[q].there) /\ (q \in index' <=> q \in index),
             (s \in Between)' => cmd'[s] = cmd[s] /\ (cmd[s].path \notin tired => Progress(s)'),
             (s \notin Between)' /\ cmd[s].path \notin tired =>
               LET p == cmd[s].path IN
               /\ p \in index' => disk'[p].there
               /\ disk'[p].there /\ set.mode # "bridged" => p \in index'
      PROVE  FilesOk'
  <2>1. Elsewhere(s)
    BY <1>2 DEF Elsewhere
  <2>2. Own(s)
    BY <1>0, <1>2 DEF Own
  <2> QED
    BY <1>0, <2>1, <2>2, FilesKept
<1>3. CASE Handler(s)
  <2>1. CASE Return(s)
    <3>1. CASE job[s] = "ok" /\ cmd[s].verb = "STOR"
      <4>1. s \in Between /\ s \in Holding("STOR") /\ at[s] = "wait" /\ at'[s] = "index"
        BY <2>1, <3>1 DEF Return, Between, Holding, Typed
      <4>2. cmd[s].path \notin tired => Progress(s)'
        BY <2>1, <4>1, OwnFile DEF Return, Progress
      <4>3. (s \in Between)'
        BY <2>1, <3>1, <4>1 DEF Return, Between
      <4> QED
        BY <1>2, <2>1, <4>1, <4>2, <4>3 DEF Return
    <3>2. CASE ~(job[s] = "ok" /\ cmd[s].verb = "STOR")
      BY <1>1, <2>1, <3>2 DEF Return, Between, Typed
    <3> QED
      BY <3>1, <3>2
  <2>2. CASE Index(s)
    <3>1. /\ at[s] = "index" /\ cmd[s].verb = "STOR" /\ at'[s] = "settle" /\ disk' = disk
          /\ index' = index \cup {cmd[s].path}
      BY <1>0, <2>2 DEF Index, Placed, Typed
    <3>2. s \in Between /\ s \in Holding("STOR") /\ (s \notin Between)'
      BY <3>1 DEF Between, Holding
    <3>3. cmd[s].path \notin tired => disk[cmd[s].path].there
      BY <3>1, <3>2, OwnFile DEF Progress
    <3> QED
      BY <1>2, <3>1, <3>2, <3>3
  <2>3. CASE Unlink(s)
    <3>1. at[s] = "unlink" /\ cmd[s].verb = "STOR" /\ cmd' = cmd /\ index' = index
      BY <1>0, <2>3 DEF Unlink, Placed
    <3>2. s \notin Between /\ s \in Holding("STOR") /\ cmd[s].path \in Paths
      BY <3>1, CmdOf DEF Between, Holding
    <3>3. CASE at'[s] = "leave" /\ disk' = disk
      BY <1>1, <3>1, <3>2, <3>3 DEF Between
    <3>4. CASE at'[s] = "unindex" /\ disk' = [disk EXCEPT ![cmd[s].path] = Gone]
      <4>1. (s \in Between)' /\ Progress(s)'
        BY <3>1, <3>2, <3>4 DEF Between, Progress, Typed, Gone
      <4> QED
        BY <1>2, <3>1, <3>2, <3>4, <4>1 DEF Typed
    <3> QED
      BY <2>3, <3>3, <3>4 DEF Unlink, Typed
  <2>4. CASE Unindex(s)
    <3>1. /\ at[s] = "unindex" /\ cmd[s].verb = "STOR" /\ at'[s] = "leave" /\ disk' = disk
          /\ index' = index \ {cmd[s].path}
      BY <1>0, <2>4 DEF Unindex, Placed, Typed
    <3>2. s \in Between /\ s \in Holding("STOR") /\ (s \notin Between)'
      BY <3>1 DEF Between, Holding
    <3>3. cmd[s].path \notin tired => ~disk[cmd[s].path].there
      BY <3>1, <3>2, OwnFile DEF Progress
    <3> QED
      BY <1>2, <3>1, <3>2, <3>3
  <2>5. CASE Move(s) \/ Reindex(s)
    BY <1>0, <2>5 DEF Move, Reindex, Placed
  <2>6. CASE Admit(s) \/ ReserveUpload(s) \/ ReserveDownload(s) \/ CheckSlots(s) \/ Leave(s)
    BY <1>1, <2>6 DEF Admit, ReserveUpload, ReserveDownload, CheckSlots, Leave, Between, Typed
  <2>7. CASE Open(s) \/ Begin(s) \/ Attach(s) \/ Settle(s)
    BY <1>1, <2>7 DEF Open, Begin, Attach, Settle, Between, Typed
  <2> QED
    BY <1>3, <2>1, <2>2, <2>3, <2>4, <2>5, <2>6, <2>7 DEF Handler
<1>4. CASE Client(s)
  BY <1>1, <1>4 DEF Client, CheckLogin, Disconnect, Stor, Retr, Dele, Rnto, Command, Between, Typed
<1>5. CASE KickLook(s) \/ KickClear(s)
  <2>1. /\ disk' = disk /\ index' = index /\ cmd' = cmd /\ at' = at
        /\ job'[s] = job[s] \/ (job[s] \in {"none", "run"} /\ job'[s] = "abort")
    <3>1. CASE KickLook(s)
      BY <3>1 DEF KickLook, Typed
    <3>2. CASE KickClear(s)
      BY <3>2 DEF KickClear
    <3> QED
      BY <1>5, <3>1, <3>2
  <2>2. at[s] = "wait" => job[s] # "none"
    BY <1>0 DEF Works
  <2> QED
    BY <1>1, <2>1, <2>2 DEF Between
<1>6. CASE SlaveStart(s)
  <2> DEFINE p == cmd[s].path
             writer == IF cmd[s].verb = "STOR" THEN {s} ELSE {}
  <2>1. at[s] = "ask" /\ at'[s] = "wait" /\ cmd' = cmd /\ index' = index /\ s \notin Between
    BY <1>6 DEF SlaveStart, Typed, Between
  <2>2. CASE disk' = disk /\ job'[s] = "failed"
    BY <1>1, <2>1, <2>2 DEF Between
  <2>3. CASE /\ disk[p].there = (cmd[s].verb = "RETR" \/ cmd[s].rest)
             /\ job'[s] \in {"abort", "run"}
             /\ disk' = [disk EXCEPT ![p] = [there |-> TRUE, by |-> disk[p].by \cup writer]]
    <3>1. cmd[s].verb \in {"STOR", "RETR"} /\ p \in Paths
      BY <1>0, <2>1, CmdOf DEF Placed, Transferring
    <3>2. disk'[p].there /\ \A q \in Paths \ {p} : disk'[q] = disk[q]
      BY <2>3, <3>1 DEF Typed
    <3>3. CASE cmd[s].verb = "RETR"
      <4>1. disk[p].there /\ s \notin Holding("STOR") /\ (s \notin Between)'
        BY <2>1, <2>3, <3>3 DEF Holding, Between
      <4>2. \A q \in Paths : disk'[q].there <=> disk[q].there
        BY <3>2, <4>1
      <4>3. Elsewhere(s) /\ Own(s)
        BY <2>1, <4>1, <4>2 DEF Elsewhere, Own
      <4> QED
        BY <1>0, <4>3, FilesKept
    <3>4. CASE cmd[s].verb = "STOR"
      <4>1. s \in Holding("STOR") /\ (s \in Between)'
        BY <2>1, <2>3, <3>4 DEF Holding, Between
      <4>2. disk[p].there = cmd[s].rest
        BY <2>3, <3>4, CmdOf
      <4>3. p \notin tired => Consistent(p)
        BY <2>1, <4>1, OwnFile
      <4>4. p \notin tired => Progress(s)'
        BY <1>0, <2>1, <3>2, <4>2, <4>3 DEF Progress, Consistent, Alone
      <4> QED
        BY <1>2, <2>1, <3>2, <4>1, <4>4
    <3> QED
      BY <3>1, <3>3, <3>4
  <2> QED
    BY <1>6, <2>2, <2>3 DEF SlaveStart, Typed
<1>7. \A q \in Paths : Written(s)[q].there = disk[q].there
  <2>1. \A q \in Paths : disk[q] \in FileState
    BY DEF Typed
  <2> QED
    BY <2>1 DEF Written, FileState
<1>8. CASE JobEnds(s)
  <2>1. /\ at[s] = "wait" /\ at' = at /\ cmd' = cmd /\ index' = index
        /\ \A q \in Paths : disk'[q].there = disk[q].there
    BY <1>7, <1>8 DEF JobEnds
  <2>2. CASE cmd[s].verb # "STOR"
    <3>1. Elsewhere(s) /\ Own(s)
      BY <2>1, <2>2 DEF Elsewhere, Own, Between, Holding
    <3> QED
      BY <1>0, <3>1, FilesKept
  <2>3. CASE cmd[s].verb = "STOR"
    <3>1. \/ job[s] = "run" /\ job'[s] = "ok"
          \/ job[s] = "abort" /\ job'[s] = "failed" /\ set.mode = "bridged"
      BY <1>8 DEF JobEnds, Typed
    <3>2. s \in Between /\ s \in Holding("STOR")
      BY <2>1, <2>3, <3>1 DEF Between, Holding
    <3>3. cmd[s].path \in Paths /\ (cmd[s].path \notin tired => disk[cmd[s].path].there)
      BY <2>1, <3>2, OwnFile DEF Progress
    <3>4. CASE job'[s] = "ok"
      <4>1. (s \in Between)' /\ (cmd[s].path \notin tired => Progress(s)')
        BY <2>1, <2>3, <3>3, <3>4 DEF Between, Progress
      <4> QED
        BY <1>2, <2>1, <3>2, <4>1
    <3>5. CASE job'[s] = "failed" /\ set.mode = "bridged"
      <4>1. (s \notin Between)'
        BY <2>1, <3>5 DEF Between
      <4> QED
        BY <1>2, <2>1, <3>2, <3>3, <3>5, <4>1
    <3> QED
      BY <3>1, <3>4, <3>5
  <2> QED
    BY <2>2, <2>3
<1>9. CASE JobFails(s)
  <2> DEFINE p == cmd[s].path
             fresh == cmd[s].verb = "STOR" /\ ~cmd[s].rest
  <2>1. /\ at[s] = "wait" /\ at' = at /\ cmd' = cmd /\ index' = index
        /\ job[s] \in {"run", "abort"} /\ job'[s] = "failed"
        /\ disk' = IF fresh THEN [Written(s) EXCEPT ![p] = Gone] ELSE Written(s)
    BY <1>9 DEF JobFails, Typed
  <2>2. (s \notin Between)'
    BY <2>1 DEF Between
  <2>3. CASE cmd[s].verb # "STOR"
    <3>1. Elsewhere(s) /\ Own(s)
      BY <1>7, <2>1, <2>2, <2>3 DEF Elsewhere, Own, Holding
    <3> QED
      BY <1>0, <3>1, FilesKept
  <2>4. CASE cmd[s].verb = "STOR"
    <3>1. s \in Between /\ s \in Holding("STOR")
      BY <2>1, <2>4 DEF Between, Holding
    <3>2. /\ p \in Paths
          /\ p \notin tired =>
               /\ disk[p].there
               /\ IF cmd[s].rest THEN set.mode # "bridged" => p \in index ELSE p \notin index
      BY <2>1, <3>1, OwnFile DEF Progress
    <3>3. \A q \in Paths \ {p} : disk'[q].there = disk[q].there
      BY <1>7, <2>1 DEF Written
    <3>4. p \notin tired => disk'[p].there = ~fresh
      BY <1>7, <2>1, <3>2, CmdOf DEF Written, Gone
    <3> QED
      BY <1>2, <2>1, <2>2, <2>4, <3>1, <3>2, <3>3, <3>4
  <2> QED
    BY <2>3, <2>4
<1>10. CASE GiveUp(s)
  <2>1. \A q \in Paths : disk'[q].there = disk[q].there
    <3>1. disk' = disk \/ disk' = Orphaned({s})
      BY <1>10 DEF GiveUp
    <3>2. {s} \in SUBSET Sessions
      OBVIOUS
    <3>3. \A q \in Paths : Orphaned({s})[q].there = disk[q].there
      BY <3>2, OrphanedIs DEF Typed
    <3> QED
      BY <3>1, <3>3
  <2>2. /\ index' = index /\ cmd' = cmd /\ at'[s] = "wait" /\ job'[s] = "lost"
        /\ at[s] \in {"ask", "wait"} /\ (cmd[s].verb = "STOR" => cmd[s].path \in tired')
    BY <1>10 DEF GiveUp, Typed
  <2>3. (s \notin Between)'
    BY <2>2 DEF Between
  <2>4. Elsewhere(s) /\ Own(s)
    BY <2>1, <2>2, <2>3 DEF Elsewhere, Own, Holding
  <2> QED
    BY <1>0, <2>4, FilesKept
<1> QED
  BY <1>3, <1>4, <1>5, <1>6, <1>8, <1>9, <1>10 DEF Actor, Slave

LEMMA FilesSoundStep ==
  ASSUME Typed, Places, DownIfDropped, Apart, Abandoned, FilesSound, [Next]_vars
  PROVE  FilesSound'
<1> USE DEF DownIfDropped, sessionVars, fieldVars, pathVars, slaveVars
<1>1. SUFFICES ASSUME set'.may \subseteq {"kick", "timeout"} PROVE FilesOk'
  BY DEF FilesSound
<1>2. set' = set => FilesOk /\ set.may \subseteq {"kick", "timeout"} /\ up
  BY <1>1 DEF FilesSound
<1>3. ASSUME NEW s \in Sessions, Actor(s) PROVE FilesOk'
  BY <1>2, <1>3, StepAlone, FilesStep DEF Alone
<1>4. CASE LinkDrops \/ LinkReturns
  BY <1>1, <1>2, <1>4 DEF LinkDrops, LinkReturns
<1>5. ASSUME set' = set, at' = at, cmd' = cmd, job' = job, index' = index, tired' = tired,
             \A q \in Paths \ tired : disk'[q] = disk[q]
      PROVE  FilesOk'
  <2>1. FilesOk /\ Between' = Between
    BY <1>2, <1>5 DEF Between
  <2>2. ASSUME NEW s \in Between, cmd[s].path \notin tired PROVE Progress(s)'
    <3>1. cmd[s].path \in Paths /\ Progress(s)
      BY <2>1, <2>2, CmdOf DEF Between, FilesOk
    <3> QED
      BY <1>5, <2>2, <3>1 DEF Progress
  <2>3. ASSUME NEW p \in Paths \ tired, AtRest(p)' PROVE Consistent(p)'
    <3>1. Consistent(p)
      BY <1>5, <2>1, <2>3 DEF AtRest, FilesOk
    <3> QED
      BY <1>5, <3>1 DEF Consistent
  <2> QED
    BY <1>5, <2>1, <2>2, <2>3 DEF FilesOk
<1>6. ASSUME NEW p \in Paths, NEW o \in Orphans, OrphanEnds(p, o) PROVE FilesOk'
  <2>1. set' = set /\ p \in tired
    BY <1>1, <1>6 DEF OrphanEnds, Abandoned
  <2>2. \A q \in Paths : q # p => disk'[q] = disk[q]
    BY <1>6 DEF OrphanEnds, Typed
  <2> QED
    BY <1>5, <1>6, <2>1, <2>2 DEF OrphanEnds
<1>7. ASSUME NEW c \in late, LateStart(c) PROVE FilesOk'
  <2>1. c.path \in tired /\ \A q \in Paths : q # c.path => disk'[q] = disk[q]
    BY <1>7 DEF LateStart, Abandoned, Typed
  <2> QED
    BY <1>5, <1>7, <2>1 DEF LateStart
<1>8. CASE UNCHANGED vars
  BY <1>5, <1>8 DEF vars
<1> QED
  BY <1>3, <1>4, <1>6, <1>7, <1>8 DEF Next, Actor

-----------------------------------------------------------------------------
(***************************************************************************)
(* The theorems.                                                           *)
(***************************************************************************)

LEMMA FtpInit == Init => FtpInv
<1> SUFFICES ASSUME Init PROVE FtpInv
  OBVIOUS
<1> USE DEF Init
<1>1. Typed
  <2>1. \A p \in Paths : [there |-> p \in Stored, by |-> {}] \in FileState
    BY FileStored
  <2>2. disk \in [Paths -> FileState]
    BY <2>1
  <2>3. at \in [Sessions -> Locations] /\ cmd \in [Sessions -> Cmds]
    BY CmdMade DEF Locations
  <2> QED
    BY <2>2, <2>3 DEF Typed
<1>2. Places /\ DownIfDropped
  BY CmdMade DEF Places, Placed, Fields, Works, Transferring, DownIfDropped
<1>3. Holding("STOR") = {} /\ Holding("RETR") = {} /\ Between = {}
  BY DEF Holding, Between
<1>4. PathBooks /\ Apart
  BY <1>3, FS_EmptySet DEF PathBooks, Readers, Apart
<1>5. GaugeBooks
  <2>1. \A d \in {"upload", "download"} : Moving(d) = {}
    BY DEF Moving
  <2> QED
    BY <2>1, FS_EmptySet DEF GaugeBooks
<1>6. WritersWait /\ Abandoned
  BY DEF WritersWait, Writers, Abandoned
<1>7. FilesSound
  BY <1>3 DEF FilesSound, FilesOk, Consistent
<1> QED
  BY <1>1, <1>2, <1>4, <1>5, <1>6, <1>7 DEF FtpInv

LEMMA FtpStep == FtpInv /\ [Next]_vars => FtpInv'
  BY TypedStep, PlacesStep, BooksStep, WritersWaitStep, AbandonedStep, FilesSoundStep
  DEF FtpInv

\* The parts of the invariant hold together in every reachable state.
THEOREM FtpInvariant == Spec => []FtpInv
  BY FtpInit, FtpStep, PTL DEF Spec

\* The fields of a session have their types whatever handlers, kicks and the slave's link do
\* to them, in any interleaving; the counters never go below zero.
THEOREM TypeCorrect == Spec => []TypeOK
<1>1. FtpInv => TypeOK
  <2> SUFFICES ASSUME FtpInv PROVE TypeOK
    OBVIOUS
  <2>1. \A s \in Sessions : cmd[s] = NoCmd \/ cmd[s].verb \in {"STOR", "RETR", "DELE", "RNTO"}
    BY CmdOf DEF FtpInv
  <2> QED
    BY <2>1 DEF FtpInv, Typed, PathBooks, GaugeBooks, FileState, Writing, TypeOK
<1> QED
  BY <1>1, FtpInvariant, PTL

\* activeUploadReservations, activeDownloadPaths and the transfer gauge count exactly the
\* handlers at work: each release, by the handler or by DisconnectActiveSession, is done once.
THEOREM BooksAlwaysBalance == Spec => []BooksBalance
<1>1. FtpInv => BooksBalance
  BY DEF FtpInv, PathBooks, GaugeBooks, Readers, Moving, BooksBalance
<1> QED
  BY <1>1, FtpInvariant, PTL

\* Between reserveUploadPath and its deferred release no other STOR or RETR has the path, however
\* often links drop and the master's timers run out, and without renames what a RETR sends is
\* written to by no upload but one whose handler has stopped waiting for the slave.
THEOREM UploadsStayApart == Spec => []UploadsApart
<1>1. FtpInv => UploadsApart
  <2> SUFFICES ASSUME FtpInv PROVE UploadsApart
    OBVIOUS
  <2>1. ASSUME "rename" \notin set.may, NEW s \in Sessions,
               cmd[s].verb = "RETR", job[s] = "run", NEW t \in disk[cmd[s].path].by \ Orphans
        PROVE  FALSE
    <3>1. at[s] = "wait" /\ cmd[s].path \in Paths
      BY <2>1, CmdOf DEF FtpInv, Places, Works
    <3>2. Writer(t, cmd[s].path)
      BY <2>1, <3>1 DEF FtpInv, WritersWait, Writers
    <3>3. s \in Holding("RETR") /\ t \in Holding("STOR") /\ s # t
      BY <2>1, <3>1, <3>2 DEF Holding, Writer
    <3> QED
      BY <3>2, <3>3 DEF FtpInv, Apart, Writer
  <2> QED
    BY <2>1 DEF FtpInv, Apart, UploadsApart
<1> QED
  BY <1>1, FtpInvariant, PTL

\* With kicks and the master's own time-outs as the only disturbances, AddFile, DeleteFile and
\* cleanupFailedReceive keep the index and the slave's disk in step, but for the paths that are
\* reserved at the moment and those where the master has stopped waiting for an upload.
THEOREM IndexStaysComplete == Spec => []IndexedIsComplete
<1>1. FtpInv => IndexedIsComplete
  <2> SUFFICES ASSUME FtpInv, set.may \subseteq {"kick", "timeout"}
               PROVE  \A p \in Paths \ (reserved \cup tired) : Consistent(p) /\ disk[p].by = {}
    BY DEF FtpInv, Typed, IndexedIsComplete, Consistent
  <2> TAKE p \in Paths \ (reserved \cup tired)
  <2>1. \A s \in Holding("STOR") : cmd[s].path # p
    BY DEF FtpInv, PathBooks
  <2>2. Consistent(p)
    BY <2>1, BetweenHolds DEF FtpInv, FilesSound, FilesOk, AtRest
  <2>3. \A t \in disk[p].by \ Orphans : Writer(t, p)
    BY DEF FtpInv, WritersWait, Writers
  <2>4. \A t \in disk[p].by \ Orphans : t \in Holding("STOR") /\ cmd[t].path = p
    BY <2>3 DEF Writer, Holding
  <2>5. disk[p].by \cap Orphans = {}
    BY DEF FtpInv, Abandoned
  <2> QED
    BY <2>1, <2>2, <2>4, <2>5
<1> QED
  BY <1>1, FtpInvariant, PTL
=============================================================================

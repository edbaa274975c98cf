----------------------------- MODULE SitePlugins ----------------------------
(***************************************************************************)
(* The spacekeeper, request and pre plugins and uploads, all on one tree   *)
(* of directories: what one moves the other reads.                         *)
(***************************************************************************)
EXTENDS Spacekeeper, Requests, Pre

vars == <<treeVars, keeperVars, requestVars, preVars>>

Init == TreeInit /\ KeeperInit /\ RequestInit /\ PreInit
Next ==
  \/ (\/ \E c \in Caller : OpStep(c)
      \/ \E p \in Path \ DirPath : UploadBegins(p)
      \/ \E u \in uploads : UploadEnds(u)) /\ UNCHANGED <<keeperVars, requestVars, preVars>>
  \/ KeeperNext /\ UNCHANGED <<requestVars, preVars>>
  \/ RequestNext /\ UNCHANGED <<keeperVars, preVars>>
  \/ PreNext /\ UNCHANGED <<keeperVars, requestVars>>
Spec == Init /\ [][Next]_vars

TypeOK == TreeTypeOK /\ KeeperTypeOK /\ RequestTypeOK /\ PreTypeOK

\* Whatever is moved, renamed or copied, and whichever command fails on the way: a file
\* that was stored and that nobody deletes is always on some disk, and once the bridge
\* is done, the index knows it where it is (README.md:817; bridge.go:1390).  The code
\* gives this up for files that a command took away though it was answered by an error
\* (relocateAcrossSlaves then deletes the copies, bridge.go:1402-1404), and for releases
\* that a second job has taken after pruneInflight: those are `astray'.
Stored(f) == \E s \in Slave, p \in Path : Last(p) = f /\ disk[s][p] = "full"
Reachable(f) == \E p \in Path \ DirPath : Last(p) = f /\ index[p] # None /\ disk[index[p]][p] = "full"
StoredIsReachable ==
  /\ \A f \in owed \ astray : Stored(f)
  /\ (\A c \in Caller : op[c].at \in {"free", "ok", "failed"}) => \A f \in owed \ astray : Reachable(f)
=============================================================================

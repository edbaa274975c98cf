---------------------------- MODULE MCDataChannel ----------------------------
(***************************************************************************)
(* A data channel as TLC checks it: its set-up in the session, the         *)
(* transfers on the slave, and the files of a slave with several roots.    *)
(* They meet through messages and paths that are taken for granted here,   *)
(* so one of them moves while the others stand still.                      *)
(***************************************************************************)
EXTENDS SlaveTransfer, DataSetup, SlaveDisk

-----------------------------------------------------------------------------
(* SlaveTransfer as TLC checks it here: uploads and a download that        *)
(* follows them, with aborts; uploads that are aborted and reaped; and     *)
(* uploads whose link is lost or whose callers give up while it is there.  *)

Symmetric == Permutations(Uploads)

Followed == [who |-> AllTransfers, may |-> {"abort"}, chunks |-> 2]
Aborted == [who |-> Uploads, may |-> {"abort", "reap"}, chunks |-> 2]
Orphaned == [who |-> Uploads, may |-> {"drop", "reap"}, chunks |-> 2]
Tired == [who |-> Uploads, may |-> {"timeout"}, chunks |-> 2]
SafetySettings == {Followed, Aborted, Orphaned, Tired}

-----------------------------------------------------------------------------
(* DataSetup as TLC checks it: with passthrough, through the master, and   *)
(* on a local site, where no PRET is asked for.                            *)

Kicked(thru) == [thru |-> thru, master |-> TRUE, kick |-> TRUE]
Local == [thru |-> FALSE, master |-> FALSE, kick |-> FALSE]
Setups == {Kicked(TRUE), Kicked(FALSE), Local}

-----------------------------------------------------------------------------
(* SlaveDisk as TLC checks it: two roots, two sections with a release each *)
(* and two files.                                                          *)

Roots == {1, 2}
Files == {<<d, "r", f>> : d \in {"s", "t"}, f \in {"f", "g"}}
Virtual == {<<d>> : d \in {"s", "t"}} \cup {<<d, "r">> : d \in {"s", "t"}} \cup Files

Site == (1 :> <<>>) @@ (2 :> <<>>)
Archive == (1 :> <<>>) @@ (2 :> <<"s">>)
Rooms == (1 :> 1) @@ (2 :> 2)
Sections == {<<"s">>, <<"t">>}
Written == {p \in Files : Last(p) = "f"}

\* Sections are made on all roots (bootstrap directories).
DiskPlan(mount, ops, faults) ==
  [mount |-> mount, room |-> Rooms, ops |-> ops, faults |-> faults,
   made |-> [r \in Roots |-> {d \in Sections : mount[r] # d}]]
Plain == DiskPlan(Site, {"mkdir", "write", "rename", "relocate"}, {})
DiskPlans ==
  {Plain,
   DiskPlan(Site, {"mkdir", "write", "relocate"}, {"unlink"}),
   DiskPlan(Site, {"mkdir", "upload", "delete", "relocate"}, {}),
   DiskPlan(Archive, {"mkdir", "sparse", "relocate", "delete"}, {}),
   DiskPlan(Archive, {"mkdir", "upload", "rename"}, {}),
   DiskPlan(Site, {"mkroots", "upload", "delete"}, {"room"})}

-----------------------------------------------------------------------------
VARIABLE side       \* the one this behaviour is about

channelVars == <<side, transferVars, setupVars, fileVars>>

ChannelInit ==
  /\ side \in {"slave", "session", "disk"}
  /\ TransferInit /\ SetupInit /\ DiskInit
  /\ side # "session" => conf = Local
  /\ side # "slave" => set = Followed
  /\ side # "disk" => plan = Plain

SlaveMoves == side = "slave" /\ TransferNext /\ UNCHANGED <<side, setupVars, fileVars>>
SessionMoves == side = "session" /\ SetupNext /\ UNCHANGED <<side, transferVars, fileVars>>
DiskMoves == side = "disk" /\ DiskNext /\ UNCHANGED <<side, transferVars, setupVars>>

ChannelSpec == ChannelInit /\ [][SlaveMoves \/ SessionMoves \/ DiskMoves]_channelVars
=============================================================================

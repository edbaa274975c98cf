----------------------------- MODULE SlaveDisk -----------------------------
(***************************************************************************)
(* The files of one slave, which lie in several roots: directories of the  *)
(* machine that are mounted at `/' or at a path below it.  A virtual path  *)
(* may be on any root whose mount is above it, and each command looks for  *)
(* it there by itself (internal/slave/slave.go, transfer.go).  Commands    *)
(* run in goroutines of their own; a job is one that changes something.    *)
(*                                                                         *)
(* `expected' is what a disk of one root would hold after the commands     *)
(* that have ended: the abstract disk the master believes in.  How the     *)
(* transfer itself goes is in SlaveTransfer, and how the master keeps      *)
(* commands on one path apart in FtpTransfer and SiteTree.                 *)
(***************************************************************************)
EXTENDS Naturals, FiniteSets, SequencesExt

CONSTANTS
  Root,             \* numbers, in the order of the configuration
  Tree, FilePath,   \* virtual paths, sequences of names; those of files
  Small,            \* files the master writes; the others are uploaded
  Job,              \* goroutines
  MaxJobs,          \* bound: commands
  DiskSettings      \* mounts and room, which commands come, what may go wrong

ASSUME SlaveDiskAssumption == Root \subseteq Nat /\ FilePath \subseteq Tree /\ MaxJobs \in Nat

VARIABLES
  disk,       \* what lies on each root: nothing, a directory, a file's version
  room,       \* the free space of each root: 0 is less than free_space_mb
  job,        \* the command of each goroutine
  begun,      \* commands so far, and the version the last one writes
  expected,   \* history: the abstract disk, Unsure where commands have met
  plan        \* the setting, fixed from the start
fileVars == <<disk, room, job, begun, expected, plan>>

None == 0                   \* what lies somewhere is nothing, a version, a directory
Dir == MaxJobs + 1
Unsure == MaxJobs + 2
Free == [op |-> "free", at |-> "free", path |-> <<>>, to |-> <<>>, root |-> 0, dst |-> 0,
         ver |-> 0, alone |-> TRUE]
Ops == {"mkdir", "mkroots", "write", "sparse", "upload", "delete", "rename", "relocate"}
Below(d) == {p \in Tree : IsPrefix(d, p)}
Above(p) == {d \in Tree : IsStrictPrefix(d, p)}
Image(p, from, to) == to \o SubSeq(p, Len(from) + 1, Len(p))
Parent(p) == Front(p)

\* rootsForVirtualPath: the longer mount comes first.
Mounted(p) == {r \in Root : IsPrefix(plan.mount[r], p)}
\* Mutant: the order of the configuration.
BeforeAsListed(r, q) == r < q
Before(r, q) ==
  \/ Len(plan.mount[r]) > Len(plan.mount[q])
  \/ Len(plan.mount[r]) = Len(plan.mount[q]) /\ r < q
First(roots) == CHOOSE r \in roots : \A q \in roots \ {r} : Before(r, q)

\* Directories down to the mount are those of the machine.
IsDirOn(r, d) == IsPrefix(d, plan.mount[r]) \/ (d \in Tree /\ disk[r][d] = Dir)
Holding(p) == {r \in Mounted(p) : disk[r][p] # None}    \* os.Stat, root by root
\* What handleReadFile, handleChecksum, handleSFVFile and SendFile find.
Visible(p) == IF Holding(p) = {} THEN None ELSE disk[First(Holding(p))][p]
VisibleDir(d) == d = <<>> \/ \E r \in Mounted(d) : IsDirOn(r, d)

DiskTypeOK ==
  /\ disk \in [Root -> [Tree -> None..Dir]]
  /\ room \in [Root -> 0..2]
  /\ \A j \in Job : job[j].op \in Ops \cup {"free"} /\ job[j].path \in Tree \cup {<<>>}
  /\ begun \in 0..MaxJobs

DiskInit ==
  /\ plan \in DiskSettings
  /\ disk = [r \in Root |-> [p \in Tree |-> IF p \in plan.made[r] THEN Dir ELSE None]]
  /\ room = plan.room
  /\ job = [j \in Job |-> Free] /\ begun = 0
  /\ expected = [p \in FilePath |-> None]

-----------------------------------------------------------------------------
(* The commands of the master.                                             *)

Touches(j, p) == \E q \in {job[j].path, job[j].to} : job[j].op # "free" /\ (IsPrefix(p, q) \/ IsPrefix(q, p))
Begins(j, op, p, to) ==
  LET met == {k \in Job \ {j} : Touches(k, p) \/ (to # <<>> /\ Touches(k, to))} IN
  /\ op \in plan.ops /\ job[j].op = "free" /\ begun < MaxJobs
  /\ begun' = begun + 1
  /\ job' = [k \in Job |->
       IF k = j THEN [Free EXCEPT !.op = op, !.at = "begin", !.path = p, !.to = to, !.ver = begun + 1,
                                  !.alone = met = {}]
       ELSE IF k \in met THEN [job[k] EXCEPT !.alone = FALSE] ELSE job[k]]
  /\ UNCHANGED <<disk, room, expected, plan>>

\* What its index lets the master ask for: a new directory in one that is there, a
\* file in a directory, a move of what is there to where nothing is.
Asks(j) ==
  \/ \E d \in Tree \ FilePath :
       /\ VisibleDir(Parent(d)) /\ ~VisibleDir(d)
       /\ \E op \in {"mkdir", "mkroots"} : Begins(j, op, d, <<>>)
  \/ \E p \in FilePath : VisibleDir(Parent(p)) /\
       \/ p \in Small /\ \E op \in {"write", "sparse"} : Begins(j, op, p, <<>>)
       \/ p \notin Small /\ Visible(p) = None /\ Begins(j, "upload", p, <<>>)
  \/ \E p \in Tree : Len(p) > 1 /\ Visible(p) # None /\ Begins(j, "delete", p, <<>>)
  \/ \E p, q \in Tree : p # q /\ Len(p) = Len(q) /\ Len(p) > 1 /\ Last(p) = Last(q) /\
       /\ Visible(p) # None /\ Visible(q) = None
       /\ \E op \in {"rename", "relocate"} : Begins(j, op, p, q)

-----------------------------------------------------------------------------
(* The end of a command, and what it has meant for the abstract disk.      *)

\* Where commands have met nothing is expected any more, of files beside either.
Near(j) == {p \in FilePath : \E q \in {job[j].path, job[j].to} : q # <<>> /\
              (IsPrefix(q, p) \/ (q \in FilePath /\ Parent(q) = Parent(p)))}
Flat(j) ==      \* done as on a disk of one root
  LET b == job[j] IN
  [p \in FilePath |->
     IF ~b.alone \/ (b.to # <<>> /\ \E q \in Near(j) : expected[q] = Unsure)
     THEN IF p \in Near(j) THEN Unsure ELSE expected[p]
     ELSE IF expected[p] = Unsure THEN Unsure
     ELSE IF b.op \in {"delete", "rename", "relocate"} /\ IsPrefix(b.path, p) THEN None
     ELSE IF b.to # <<>> /\ IsPrefix(b.to, p) THEN expected[Image(p, b.to, b.path)]
     ELSE IF b.op \in {"write", "sparse", "upload"} /\ p = b.path THEN b.ver
     ELSE expected[p]]
JobEnds(j, ok) ==
  /\ job' = [job EXCEPT ![j] = Free]
  /\ expected' = IF ok \/ ~job[j].alone THEN Flat(j) ELSE expected
RestStays == UNCHANGED <<room, begun, plan>>
Fails(j) == JobEnds(j, FALSE) /\ UNCHANGED disk
JobGoes(j, at, r) == job' = [job EXCEPT ![j].at = at, ![j].root = r] /\ UNCHANGED expected

MkdirAll(f, r, d) ==    \* os.MkdirAll on root r
  [q \in Tree |-> IF IsPrefix(q, d) /\ ~IsPrefix(q, plan.mount[r]) /\ f[q] = None THEN Dir ELSE f[q]]
\* os.RemoveAll, and cleanEmptyParents up to the root.
RemoveAll(f, d) == [q \in Tree |-> IF IsPrefix(d, q) THEN None ELSE f[q]]
Cleaned(f, d) ==
  [q \in Tree |-> IF IsStrictPrefix(q, d) /\ (\A p \in Below(q) \ {q} : IsPrefix(p, d) \/ f[p] = None)
                  THEN None ELSE f[q]]

-----------------------------------------------------------------------------
(* handleMakeDir, handleWriteFile, handleCreateSparseFile, ReceiveFile.    *)

MakeDir(j) ==
  LET p == job[j].path
      roots == IF job[j].op = "mkroots" THEN Mounted(p) ELSE {First(Mounted(p))} IN
  /\ job[j].op \in {"mkdir", "mkroots"}
  /\ disk' = [r \in Root |-> IF r \in roots THEN MkdirAll(disk[r], r, p) ELSE disk[r]]
  /\ JobEnds(j, TRUE) /\ RestStays

\* getDirForUpload: the first root with room that has the directory, or else the
\* one with most room, where the directory is made.
Fit(p) == {r \in Mounted(p) : room[r] > 0}
Roomiest(roots) == {r \in roots : \A q \in roots : room[q] <= room[r]}
\* Mutant: where the directory lies is not looked at.
RootForByRoom(p) == First(Roomiest(Fit(p)))
RootFor(p) ==
  LET there == {r \in Fit(p) : IsDirOn(r, Parent(p))} IN
  IF there # {} THEN First(there) ELSE First(Roomiest(Fit(p)))

ChooseRoot(j) ==
  LET p == job[j].path IN
  /\ job[j].op \in {"write", "sparse", "upload"} /\ job[j].at = "begin"
  /\ IF Fit(p) = {} THEN Fails(j)        \* no root available, or disk full
     ELSE LET r == RootFor(p) IN
          disk' = [disk EXCEPT ![r] = MkdirAll(@, r, Parent(p))] /\ JobGoes(j, "store", r)
  /\ RestStays

\* A write makes the directory again, an upload does not, and it takes no file that
\* is there (Stat, O_EXCL).
Store(j) ==
  LET b == job[j]
      f == IF b.op = "upload" THEN disk[b.root] ELSE MkdirAll(disk[b.root], b.root, Parent(b.path)) IN
  /\ b.op \in {"write", "sparse", "upload"} /\ b.at = "store"
  /\ IF b.op = "upload" /\ (~IsDirOn(b.root, Parent(b.path)) \/ f[b.path] # None) THEN Fails(j)
     ELSE /\ disk' = [disk EXCEPT ![b.root] = [f EXCEPT ![b.path] = b.ver]]
          /\ IF b.op = "upload" THEN JobGoes(j, "receive", b.root) ELSE JobEnds(j, TRUE)
  /\ RestStays

UploadDone(j) == job[j].at = "receive" /\ JobEnds(j, TRUE) /\ UNCHANGED disk /\ RestStays
UploadFails(j) ==      \* cleanupFailedReceive
  LET b == job[j] IN
  /\ b.at = "receive"
  /\ disk' = [disk EXCEPT ![b.root][b.path] = None]
  /\ JobEnds(j, FALSE) /\ RestStays

-----------------------------------------------------------------------------
(* handleDelete, handleRename.                                             *)

\* On every root that has it.
Delete(j) ==
  LET p == job[j].path IN
  /\ job[j].op = "delete"
  /\ IF Holding(p) = {} THEN Fails(j)
     ELSE /\ disk' = [r \in Root |-> IF r \in Holding(p) THEN Cleaned(RemoveAll(disk[r], p), p) ELSE disk[r]]
          /\ JobEnds(j, TRUE)
  /\ RestStays

\* The source is where it is found first; the directory it goes to must be on the
\* first root of that, which must be the same.
RenameLooks(j) ==
  LET b == job[j] IN
  /\ b.op = "rename" /\ b.at = "begin"
  /\ IF \/ Holding(b.path) = {}
        \/ First(Holding(b.path)) # First(Mounted(Parent(b.to)))
        \/ ~IsDirOn(First(Holding(b.path)), Parent(b.to))
     THEN Fails(j) ELSE JobGoes(j, "rename", First(Holding(b.path))) /\ UNCHANGED disk
  /\ RestStays

MovedOn(r, p, to) ==
  [q \in Tree |-> IF IsPrefix(to, q) THEN disk[r][Image(q, to, p)]
                  ELSE IF IsPrefix(p, q) THEN None ELSE disk[r][q]]
Movable(r, p, to) ==    \* os.Rename takes an empty directory's place, or a file's
  /\ disk[r][p] # None /\ IsDirOn(r, Parent(to))
  /\ \A q \in Below(to) \ {to} : disk[r][q] = None
Rename(j) ==
  LET b == job[j] IN
  /\ b.at = "rename"
  /\ IF Movable(b.root, b.path, b.to)
     THEN disk' = [disk EXCEPT ![b.root] = MovedOn(b.root, b.path, b.to)] /\ JobEnds(j, TRUE)
     ELSE Fails(j)
  /\ RestStays

-----------------------------------------------------------------------------
(* handleRelocate.                                                         *)

\* hasActiveTransferUnder
BusyUnder(p) == \E k \in Job : job[k].op = "upload" /\ (IsPrefix(p, job[k].path) \/ IsPrefix(job[k].path, p))
\* selectRootForRelocate: another root than that of the source, the one with most
\* room, however little that is.
RelocateRoot(src, dir) ==
  LET others == Mounted(dir) \ {src} IN IF others = {} THEN src ELSE First(Roomiest(others))

RelocateLooks(j) ==     \* the checks, and the directory it goes to
  LET b == job[j] IN
  /\ b.op = "relocate" /\ b.at = "begin"
  /\ IF Holding(b.path) = {} \/ BusyUnder(b.path) \/ BusyUnder(b.to) THEN Fails(j)
     ELSE LET src == First(Holding(b.path))
              dst == RelocateRoot(src, Parent(b.to)) IN
          /\ disk' = [disk EXCEPT ![dst] = MkdirAll(@, dst, Parent(b.to))]
          /\ IF disk[dst][b.to] # None THEN JobEnds(j, FALSE)
             ELSE /\ job' = [job EXCEPT ![j].at = "move", ![j].root = src, ![j].dst = dst]
                  /\ UNCHANGED expected
  /\ RestStays

MoveOnRoot(j) ==        \* on one root it is a rename
  LET b == job[j] IN
  /\ b.at = "move" /\ b.root = b.dst
  /\ IF Movable(b.root, b.path, b.to)
     THEN /\ disk' = [disk EXCEPT ![b.root] = Cleaned(MovedOn(b.root, b.path, b.to), b.path)]
          /\ JobEnds(j, TRUE)
     ELSE Fails(j)
  /\ RestStays

Copies(r, src, p, to) ==
  [q \in Tree |-> IF IsPrefix(to, q) /\ disk[src][Image(q, to, p)] # None
                  THEN disk[src][Image(q, to, p)] ELSE disk[r][q]]
CopyToRoot(j) ==        \* copyPath
  LET b == job[j] IN
  /\ b.at = "move" /\ b.root # b.dst
  /\ \/ /\ disk[b.root][b.path] # None
        /\ \A q \in Below(b.to) : disk[b.dst][q] \in {None, Dir}    \* O_EXCL
        /\ disk' = [disk EXCEPT ![b.dst] = Copies(b.dst, b.root, b.path, b.to)]
        /\ job' = [job EXCEPT ![j].at = "unlink"] /\ UNCHANGED expected
     \/ /\ disk' = [disk EXCEPT ![b.dst] = RemoveAll(@, b.to)]        \* an error, and its undo
        /\ JobEnds(j, FALSE)
  /\ RestStays

\* Mutant: the source stays.
UnlinkSourceNot(j) ==
  /\ job[j].at = "unlink"
  /\ JobEnds(j, TRUE) /\ UNCHANGED disk /\ RestStays

UnlinkSource(j) ==
  LET b == job[j] IN
  /\ b.at = "unlink"
  /\ disk' = [disk EXCEPT ![b.root] = Cleaned(RemoveAll(@, b.path), b.path)]
  /\ JobEnds(j, TRUE) /\ RestStays

\* RemoveAll stops half way, and the copy is removed: what was gone by then is lost.
UnlinkFails(j) ==
  LET b == job[j] IN
  /\ b.at = "unlink" /\ "unlink" \in plan.faults
  /\ \E gone \in SUBSET (Below(b.path) \cap FilePath) :
       /\ disk' = [disk EXCEPT ![b.dst] = RemoveAll(@, b.to),
                               ![b.root] = [q \in Tree |-> IF q \in gone THEN None ELSE @[q]]]
       /\ expected' = [p \in FilePath |-> IF p \in gone /\ expected[p] # Unsure THEN None ELSE
                                          IF b.alone THEN expected[p] ELSE Flat(j)[p]]
  /\ job' = [job EXCEPT ![j] = Free] /\ RestStays

-----------------------------------------------------------------------------
RoomChanges ==          \* disks fill up and are emptied
  /\ "room" \in plan.faults
  /\ \E r \in Root : room' = [room EXCEPT ![r] = IF @ = 0 THEN plan.room[r] ELSE 0]
  /\ UNCHANGED <<disk, job, begun, expected, plan>>

DiskNext ==
  \/ \E j \in Job :
       \/ Asks(j) \/ MakeDir(j) \/ ChooseRoot(j) \/ Store(j) \/ UploadDone(j) \/ UploadFails(j)
       \/ Delete(j) \/ RenameLooks(j) \/ Rename(j)
       \/ RelocateLooks(j) \/ MoveOnRoot(j) \/ CopyToRoot(j) \/ UnlinkSource(j) \/ UnlinkFails(j)
  \/ RoomChanges

DiskSpec == DiskInit /\ [][DiskNext]_fileVars

-----------------------------------------------------------------------------
(* Properties.                                                             *)

\* scanTargetsForBase("/", "all"): a root at `/' is not scanned below the mounts of
\* the others, which scan it (isSkippedRemergeSubtree).
Scanned(r, p) == plan.mount[r] # <<>> \/ \A q \in Root : plan.mount[q] = <<>> \/ ~IsPrefix(plan.mount[q], p)

Still(p) == \A j \in Job : ~Touches(j, p)
\* The roots together are one disk (getFileFromRoots, getDirForUpload, handleRename,
\* handleRelocate): where no command is at work, a file is found as the last command
\* that was alone has left it - under its name and nowhere else - and a scan of the
\* slave finds it too, so that a remerge keeps it.  The code keeps this as long as no
\* file is written over or moved while the roots fill up, and no directory is made
\* twice: README, Known departures.
RootsAreOneDisk ==
  \A p \in FilePath : Still(p) /\ expected[p] # Unsure =>
    /\ Visible(p) = expected[p]
    /\ Holding(p) # {} => Scanned(First(Holding(p)), p)
=============================================================================

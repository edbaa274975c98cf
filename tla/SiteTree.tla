------------------------------ MODULE SiteTree -----------------------------
(***************************************************************************)
(* Directories on several slaves, and the operations of the bridge that    *)
(* change them in more than one step (internal/master/bridge.go,           *)
(* ftp_handlers.go): an operation asks the slave or the slaves, one        *)
(* command after the other, and then changes the index, while operations   *)
(* of other callers do the same.  A caller begins one with one of the      *)
(* Begin operators and finds its `op' at "ok" or "failed".                 *)
(*                                                                         *)
(* A command of a slave is one step, copying a file is two.  One that is   *)
(* answered by an error, or by nothing before its caller gives up, may     *)
(* have had no effect ("fail"), all of it, or that of a RemoveAll that did *)
(* not get through ("lost").  A path is a sequence of names; the           *)
(* directories of the sections are always there and not among them.  A     *)
(* file is known by its name, wherever it lies.  The race database and the *)
(* release state follow the index and are not kept here.                   *)
(***************************************************************************)
EXTENDS Naturals, FiniteSets, SequencesExt

CONSTANTS Slave, None,
          Path, DirPath,  \* releases, and what may lie below them
          Caller,         \* goroutines that use the bridge
          Settings        \* who takes part, what may go wrong, and the tree to begin with

VARIABLES disk,       \* of each slave: what lies at each path
          index,      \* vfs.files: the slave of each entry
          op,         \* the bridge operation of each caller
          uploads,    \* STOR commands at work
          owed,       \* history: names of files that were stored and not deleted
          astray,     \* history: those that a command which failed has taken from where they were
          may
treeVars == <<disk, index, op, uploads, owed, astray, may>>

Under == [p \in Path |-> {q \in Path : IsPrefix(p, q)}]
Above == [p \in Path |-> {q \in Path : IsStrictPrefix(q, p)}]
Image(p, from, to) == to \o SubSeq(p, Len(from) + 1, Len(p))
Indexed(d) == {p \in Under[d] : index[p] # None}
Files(s, d) == {p \in Under[d] : disk[s][p] \in {"part", "full"}}
Named(paths) == {Last(p) : p \in paths}

Content == {None, "dir", "part", "full"}
At == {"free", "relocate", "copy", "copying", "undo", "unlink", "move", "rename", "delete",
       "index", "reindex", "unindex", "mkdir", "ok", "failed"}
Free == [at |-> "free", from |-> <<>>, to |-> <<>>, src |-> None, dst |-> None, todo |-> {}, item |-> <<>>]
TreeInit ==
  /\ may \in Settings
  /\ disk = may.disk /\ index = may.index
  /\ op = [c \in Caller |-> Free] /\ uploads = {}
  /\ astray = {}
  /\ owed = Named({p \in Path : \E s \in Slave : disk[s][p] = "full"})

\* The directories above d that are empty without it go with it.
Removed(f, d) ==
  [q \in Path |-> IF q \in Under[d] \/ (q \in Above[d] /\ \A p \in Under[q] \ Under[d] : p \in Above[d] \/ f[p] = None)
                  THEN None ELSE f[q]]
\* What is below `from' is now below `to', where it takes the place of what was there.
Moved(f, from, to) ==
  [q \in Path |-> IF q \in Under[to] /\ f[Image(q, to, from)] # None THEN f[Image(q, to, from)]
                  ELSE IF q \in Under[from] THEN None ELSE f[q]]
Put(f, p, x, dir) ==
  [q \in Path |-> IF q = p THEN x ELSE IF q \in Above[p] /\ f[q] = None THEN dir ELSE f[q]]

-----------------------------------------------------------------------------
(* What callers begin.                                                     *)

Begin(c, at, from, to, dst) ==
  /\ op[c].at = "free"
  /\ op' = [op EXCEPT ![c] = [Free EXCEPT !.at = at, !.from = from, !.to = to, !.dst = dst]]
BeginRelocate(c, from, to, dst) == Begin(c, "relocate", from, to, dst)
BeginRename(c, from, to) == Begin(c, "rename", from, to, None)
BeginDelete(c, d) == Begin(c, "delete", d, d, None)
BeginMkDir(c, d, s) == Begin(c, "mkdir", d, d, s)
Done(c) == op[c].at \in {"ok", "failed"}
Collect(c) == Done(c) /\ op' = [op EXCEPT ![c] = Free]

To(c, at) == op' = [op EXCEPT ![c].at = at]
Fail(c) == To(c, "failed") /\ UNCHANGED <<disk, index, uploads, owed, astray, may>>
\* Any command may be answered by an error, or its slave may be gone.
MayFail(c, ats, then) ==
  /\ "fail" \in may.faults /\ op[c].at \in ats
  /\ To(c, then) /\ UNCHANGED <<disk, index, uploads, owed, astray, may>>

\* Its answer is lost, and its effect is not; `strays' are the files it was about.
MayBeLost(c, at, then, strays) ==
  /\ "lost" \in may.faults /\ op[c].at = at
  /\ To(c, then) /\ astray' = astray \cup Named(strays)
\* What a delete leaves of f that did not get through, or did and was not answered.
Leftovers(f, d) ==
  {Removed(f, d)} \cup
  {[q \in Path |-> IF q \in gone THEN None ELSE f[q]] : gone \in SUBSET {q \in Under[d] \ DirPath : f[q] # None}}

\* What somebody moves, copies or deletes while it is uploaded is owed to nobody.
Disturbed(d) == {IF u.path \in Under[d] THEN [u EXCEPT !.calm = FALSE] ELSE u : u \in uploads}
\* hasActiveTransferUnder, of slave s.
Busy(s, d) ==
  \/ \E u \in uploads : u.slave = s /\ (IsPrefix(d, u.path) \/ IsPrefix(u.path, d))
  \/ \E c \in Caller : op[c].at = "copying" /\
       \/ op[c].src = s /\ IsPrefix(d, op[c].item)
       \/ op[c].dst = s /\ IsPrefix(d, Image(op[c].item, op[c].from, op[c].to))

-----------------------------------------------------------------------------
(* RelocatePathToSlave.                                                    *)

\* The checks; for another slave, its directories are made and the files are collected.
Prepare(c) ==
  LET o == op[c]
      files == Indexed(o.from) \ DirPath
      images == {Image(p, o.from, o.to) : p \in Indexed(o.from) \cap DirPath}
  IN /\ o.at = "relocate"
     /\ IF index[o.from] = None THEN Fail(c)
        ELSE IF index[o.from] = o.dst
        THEN To(c, "move") /\ UNCHANGED <<disk, index, uploads, owed, astray, may>>
        ELSE /\ disk' = [disk EXCEPT ![o.dst] =
                           [q \in Path |-> IF q \in images /\ @[q] = None THEN "dir" ELSE @[q]]]
             /\ op' = [op EXCEPT ![c].src = index[o.from], ![c].todo = files,
                                 ![c].at = IF files = {} THEN "unlink" ELSE "copy"]
             /\ uploads' = Disturbed(o.from)
             /\ UNCHANGED <<index, owed, astray, may>>

\* Some of the directories are made.
PrepareFails(c) ==
  LET o == op[c] IN
  /\ MayBeLost(c, "relocate", "failed", {}) /\ index[o.from] \notin {None, o.dst}
  /\ \E made \in SUBSET {Image(p, o.from, o.to) : p \in Indexed(o.from) \cap DirPath} :
       disk' = [disk EXCEPT ![o.dst] = [q \in Path |-> IF q \in made /\ @[q] = None THEN "dir" ELSE @[q]]]
  /\ UNCHANGED <<index, uploads, owed, may>>

\* copyFileBetweenSlaves: the source sends what is there, the destination does not
\* take a file that is there already.
CopyBegins(c) ==
  LET o == op[c] IN
  /\ o.at = "copy"
  /\ \E p \in o.todo :
       LET q == Image(p, o.from, o.to) IN
       IF disk[o.src][p] \in {"part", "full"} /\ disk[o.dst][q] = None
       THEN /\ disk' = [disk EXCEPT ![o.dst] = Put(@, q, "part", "dir")]
            /\ op' = [op EXCEPT ![c].at = "copying", ![c].item = p]
       ELSE To(c, "undo") /\ UNCHANGED disk
  /\ UNCHANGED <<index, uploads, owed, astray, may>>

\* Who writes an open file does not notice that it has been removed.
Copied(c, x) ==
  LET o == op[c] IN [disk EXCEPT ![o.dst][Image(o.item, o.from, o.to)] = IF @ = "part" THEN x ELSE @]
NextCopy(c) ==
  op' = [op EXCEPT ![c].todo = @ \ {op[c].item},
                   ![c].at = IF op[c].todo = {op[c].item} THEN "unlink" ELSE "copy"]
CopyEnds(c) ==
  /\ op[c].at = "copying"
  /\ disk' = Copied(c, "full") /\ NextCopy(c)
  /\ UNCHANGED <<index, uploads, owed, astray, may>>

\* Mutant: a copy that failed is passed over.
CopyFailsOver(c) ==
  /\ op[c].at = "copying" /\ "fail" \in may.faults
  /\ disk' = Copied(c, None) /\ NextCopy(c)
  /\ UNCHANGED <<index, uploads, owed, astray, may>>

\* A copy that fails is cleaned up by its slave, if that is still there; it may also be
\* complete, and only its status lost.
CopyFails(c) ==
  /\ op[c].at = "copying" /\ "fail" \in may.faults
  /\ \E x \in {"part", "full", None} : disk' = Copied(c, x)
  /\ To(c, "undo")
  /\ UNCHANGED <<index, uploads, owed, astray, may>>

\* deletePathOnSlave(destSlave, toPath); its error is not looked at.
Undo(c) ==
  LET o == op[c] IN
  /\ o.at = "undo"
  /\ disk' = [disk EXCEPT ![o.dst] = Removed(@, o.to)]
  /\ To(c, "failed")
  /\ UNCHANGED <<index, uploads, owed, astray, may>>

\* deletePathOnSlave(sourceSlave, from); that nothing is there is an error.
Unlink(c) ==
  LET o == op[c] IN
  /\ o.at = "unlink"
  /\ IF disk[o.src][o.from] = None
     THEN To(c, "undo") /\ UNCHANGED <<disk, uploads>>
     ELSE /\ disk' = [disk EXCEPT ![o.src] = Removed(@, o.from)]
          /\ uploads' = Disturbed(o.from)
          /\ To(c, "reindex")
  /\ UNCHANGED <<index, owed, astray, may>>

\* The source may have been deleted, or a part of it, when its answer is an error.
UnlinkFails(c) ==
  LET o == op[c] IN
  /\ o.at = "unlink"
  /\ \E left \in Leftovers(disk[o.src], o.from) :
       /\ disk' = [disk EXCEPT ![o.src] = left]
       /\ MayBeLost(c, "unlink", "undo", {p \in Files(o.src, o.from) : left[p] = None})
  /\ uploads' = Disturbed(o.from)
  /\ UNCHANGED <<index, owed, may>>
UndoFails(c) ==
  LET o == op[c] IN
  /\ MayBeLost(c, "undo", "failed", {})
  /\ \E left \in Leftovers(disk[o.dst], o.to) : disk' = [disk EXCEPT ![o.dst] = left]
  /\ UNCHANGED <<index, uploads, owed, may>>

\* handleRelocate, on the slave that has it already.
MoveFits(o) ==
  /\ disk[o.dst][o.from] # None /\ disk[o.dst][o.to] = None
  /\ ~Busy(o.dst, o.from) /\ ~Busy(o.dst, o.to)
Move(c) ==
  LET o == op[c] IN
  /\ o.at = "move"
  /\ IF ~MoveFits(o) THEN Fail(c)
     ELSE /\ disk' = [disk EXCEPT ![o.dst] = Moved(@, o.from, o.to)]
          /\ To(c, "index")
          /\ UNCHANGED <<index, uploads, owed, astray, may>>
\* A move that is not answered leaves the index as it is.
MoveLost(c) ==
  LET o == op[c] IN
  /\ MayBeLost(c, "move", "failed", Files(o.dst, o.from)) /\ MoveFits(o)
  /\ disk' = [disk EXCEPT ![o.dst] = Moved(@, o.from, o.to)]
  /\ UNCHANGED <<index, uploads, owed, may>>

-----------------------------------------------------------------------------
(* RenameFile, DeleteFile, MakeDir, and the changes of the index.          *)

\* A directory takes the place of an empty one only (handleRename, os.Rename).
RenameFits(o, s) ==
  IF s = None THEN FALSE
  ELSE disk[s][o.from] # None /\ \A q \in Under[o.to] \ {o.to} : disk[s][q] = None
Rename(c) ==
  LET o == op[c]
      s == index[o.from]
  IN /\ o.at = "rename"
     /\ IF ~RenameFits(o, s) THEN Fail(c)
        ELSE /\ disk' = [disk EXCEPT ![s] = Moved(@, o.from, o.to)]
             /\ uploads' = Disturbed(o.from)
             /\ To(c, "index")
             /\ UNCHANGED <<index, owed, astray, may>>

\* What lay there is not owed any more.  That nothing lies there is no error here.
Delete(c) ==
  LET o == op[c]
      s == index[o.from]
  IN /\ o.at = "delete"
     /\ IF s = None THEN Fail(c)
        ELSE /\ disk' = [disk EXCEPT ![s] = Removed(@, o.from)]
             /\ owed' = owed \ Named(Files(s, o.from) \cup Indexed(o.from))
             /\ uploads' = Disturbed(o.from)
             /\ To(c, "unindex")
             /\ UNCHANGED <<index, astray, may>>

RenameLost(c) ==
  LET o == op[c]
      s == index[o.from]
  IN /\ op[c].at = "rename" /\ RenameFits(o, s)
     /\ MayBeLost(c, "rename", "failed", Files(s, o.from))
     /\ disk' = [disk EXCEPT ![s] = Moved(@, o.from, o.to)]
     /\ uploads' = Disturbed(o.from)
     /\ UNCHANGED <<index, owed, may>>
DeleteFails(c) ==
  LET o == op[c]
      s == index[o.from]
  IN /\ MayBeLost(c, "delete", "failed", {}) /\ s # None
     /\ \E left \in Leftovers(disk[s], o.from) : disk' = [disk EXCEPT ![s] = left]
     /\ owed' = owed \ Named(Files(s, o.from) \cup Indexed(o.from))
     /\ uploads' = Disturbed(o.from)
     /\ UNCHANGED <<index, may>>

MkDir(c) ==
  LET o == op[c] IN
  /\ o.at = "mkdir"
  /\ disk' = [disk EXCEPT ![o.dst] = Put(@, o.from, "dir", "dir")]
  /\ index' = Put(index, o.from, o.dst, o.dst)
  /\ To(c, "ok")
  /\ UNCHANGED <<uploads, owed, astray, may>>
MkDirLost(c) ==
  /\ MayBeLost(c, "mkdir", "failed", {})
  /\ disk' = [disk EXCEPT ![op[c].dst] = Put(@, op[c].from, "dir", "dir")]
  /\ UNCHANGED <<index, uploads, owed, may>>

\* VFS.RenameFile keeps the slaves of the entries, RelocateFile has a new one for all.
Reindex(c, given) ==
  LET o == op[c] IN
  /\ index' = IF index[o.from] = None THEN index ELSE Moved(given, o.from, o.to)
  /\ To(c, "ok")
  /\ UNCHANGED <<disk, uploads, owed, astray, may>>
IndexRenamed(c) == op[c].at = "index" /\ Reindex(c, index)
IndexRelocated(c) ==
  /\ op[c].at = "reindex"
  /\ Reindex(c, [p \in Path |-> IF p \in Indexed(op[c].from) THEN op[c].dst ELSE index[p]])
IndexDeleted(c) ==
  /\ op[c].at = "unindex"
  /\ index' = [p \in Path |-> IF p \in Under[op[c].from] THEN None ELSE index[p]]
  /\ To(c, "ok")
  /\ UNCHANGED <<disk, uploads, owed, astray, may>>

OpStep(c) ==
  \/ Prepare(c) \/ CopyBegins(c) \/ CopyEnds(c) \/ CopyFails(c) \/ Undo(c) \/ Unlink(c) \/ Move(c)
  \/ Rename(c) \/ Delete(c) \/ MkDir(c) \/ IndexRenamed(c) \/ IndexRelocated(c) \/ IndexDeleted(c)
  \/ MayFail(c, {"relocate", "move", "rename", "delete", "mkdir", "undo"}, "failed")
  \/ MayFail(c, {"copy", "unlink"}, "undo")
  \/ PrepareFails(c) \/ UnlinkFails(c) \/ UndoFails(c) \/ MoveLost(c) \/ RenameLost(c) \/ DeleteFails(c) \/ MkDirLost(c)

-----------------------------------------------------------------------------
(* Uploads into a directory, as far as the operations meet them.           *)

UploadBegins(p) ==
  LET s == index[Front(p)] IN
  /\ p \in may.stor /\ s # None /\ Last(p) \notin owed \cup {Last(u.path) : u \in uploads}
  /\ disk[s][p] = None
  /\ disk' = [disk EXCEPT ![s] = Put(@, p, "part", "dir")]
  /\ uploads' = uploads \cup
       {[slave |-> s, path |-> p,
         calm |-> \A c \in Caller : op[c].at # "free" /\ p \in Under[op[c].from] =>
                    op[c].at \in {"ok", "failed", "relocate", "move", "rename", "delete"}]}
  /\ UNCHANGED <<index, op, owed, astray, may>>

\* Its file may have been moved or removed; it is added to the index in any case.
UploadEnds(u) ==
  /\ u \in uploads /\ uploads' = uploads \ {u}
  /\ disk' = [disk EXCEPT ![u.slave] =
                [q \in Path |-> IF @[q] = "part" /\ Last(q) = Last(u.path) THEN "full" ELSE @[q]]]
  /\ index' = Put(index, u.path, u.slave, u.slave)
  /\ owed' = IF u.calm THEN owed \cup {Last(u.path)} ELSE owed
  /\ UNCHANGED <<op, astray, may>>

TreeTypeOK ==
  /\ disk \in [Slave -> [Path -> Content]] /\ index \in [Path -> Slave \cup {None}]
  /\ \A c \in Caller :
       /\ op[c].at \in At /\ {op[c].from, op[c].to, op[c].item} \subseteq Path \cup {<<>>}
       /\ {op[c].src, op[c].dst} \subseteq Slave \cup {None} /\ op[c].todo \subseteq Path
  /\ uploads \subseteq [slave : Slave, path : Path, calm : BOOLEAN]
  /\ owed \subseteq Named(Path) /\ astray \subseteq Named(Path)
=============================================================================

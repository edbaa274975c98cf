------------------------------ MODULE VfsTree ------------------------------
(***************************************************************************)
(* The data structure of the master's index (internal/master/vfs.go): the  *)
(* entries, the index of children that every walk uses, the index of paths *)
(* by slave that remerges and SetOffline use, the SFV and zip metadata of  *)
(* directories with their cached race statistics, and its file on disk.    *)
(* `vfs' has the fields of the Go struct; hiddenPaths behave as            *)
(* excludePaths do and are not kept apart.  Operations hold vfs.mu and are *)
(* functions from one such record to the next, or to the set of records    *)
(* that may follow where Go ranges over a map.                             *)
(* A path is a sequence of names.  Which paths are directories is the same *)
(* on every slave.  An entry's LastModified is `fresh' for the two minutes *)
(* that purges respect, a checksum of 0 is unknown.                        *)
(***************************************************************************)
EXTENDS Integers, FiniteSets, SequencesExt

CONSTANTS Slave, None,
          Path,          \* every path there is, with its parents
          DirPath,       \* those that are directories
          Sfv, Diz,      \* names of the .sfv and of file_id.diz
          Zips,          \* names of .zip files
          Payload,       \* names that the SFV lists
          Sum, MaxSize, MaxParts,
          Saver,         \* goroutines that call SaveToDisk
          Settings       \* operations that take part, how many (a bound), and the first disk

VARIABLES vfs, disk, saving, reader, ops, may,
          drift          \* history: why the file may differ from the index that counts as saved
vars == <<vfs, disk, saving, reader, ops, may, drift>>

Root == <<>>
Parent == [p \in Path |-> IF p = Root THEN Root ELSE Front(p)]
Above == [p \in Path |-> {q \in Path : IsStrictPrefix(q, p)}]
Below == [p \in Path |-> {q \in Path : IsPrefix(p, q)}]
Is(p, name) == p # Root /\ Last(p) = name
IsZip(p) == p # Root /\ Last(p) \in Zips

\* The owner is weak when it is the slave's user, not an FTP user (isWeakMetadataValue).
Entry == [kind : {"dir", "file", "link"}, slave : Slave \cup {None}, seen : BOOLEAN, fresh : BOOLEAN,
          strong : BOOLEAN, size : 0..MaxSize, xfer : BOOLEAN, sum : Sum]
DirOf(s) == [kind |-> "dir", slave |-> s, seen |-> TRUE, fresh |-> FALSE,
             strong |-> FALSE, size |-> 0, xfer |-> FALSE, sum |-> 0]

\* What a slave's scan and a finished upload say of a path.
Scanned(s, p, n) == IF p \in DirPath THEN DirOf(s)
                    ELSE [DirOf(s) EXCEPT !.kind = "file", !.size = n]
Uploaded(s, n, c) == [DirOf(s) EXCEPT !.kind = "file", !.size = n, !.sum = c,
                                      !.strong = TRUE, !.xfer = TRUE, !.fresh = TRUE]

Cache == [present : SUBSET (Payload \cup Zips), total : 0..(Cardinality(Payload \cup Zips) + MaxParts)]
Meta == [entries : SUBSET Payload, sfvSum : Sum, zip : 0..MaxParts, dizSum : Sum, requests : 0..1,
         race : Cache \cup {None}, zipRace : Cache \cup {None}]
NoMeta == [entries |-> {}, sfvSum |-> 0, zip |-> 0, dizSum |-> 0, requests |-> 0, race |-> None, zipRace |-> None]

Has(v, p) == v.files[p] # None
SlaveOf(v, p) == IF Has(v, p) THEN v.files[p].slave ELSE None
IsFile(v, p) == p \in Path /\ Has(v, p) /\ v.files[p].kind = "file"
Mismatch(expected, actual) == expected # 0 /\ actual # 0 /\ expected # actual

-----------------------------------------------------------------------------
(* The indexes.                                                            *)

AddSlavePath(v, s, p) == IF s = None THEN v ELSE [v EXCEPT !.slavePaths[s] = @ \cup {p}]
RemoveSlavePath(v, s, p) == IF s = None THEN v ELSE [v EXCEPT !.slavePaths[s] = @ \ {p}]
Reindex(v, p, old, new) == AddSlavePath(RemoveSlavePath(v, old, p), new, p)
DeleteEntry(v, p) == [RemoveSlavePath(v, SlaveOf(v, p), p) EXCEPT !.files[p] = None]
Link(v, p) == [v EXCEPT !.children[Parent[p]] = @ \cup {p}]
Dirty(v) == [v EXCEPT !.persistVersion = @ + 1]

\* A walk sees what the links of every directory on the way lead to.
Walk(v, p) == {q \in Below[p] : \A r \in (Above[q] \cup {q}) \ (Above[p] \cup {p}) : r \in v.children[Parent[r]]}

Invalidate(v, dirs) ==
  [v EXCEPT !.dirMeta = [d \in Path |-> IF d \in dirs /\ @[d] # None
                                        THEN [@[d] EXCEPT !.race = None, !.zipRace = None] ELSE @[d]]]
InvalidatePath(v, p) == Invalidate(v, {Parent[p], p})

\* The parents of the paths ps: missing ones are created, d in the name of by[d]; all
\* of them are linked and seen.
EnsureFor(v, ps, by) ==
  LET above == UNION {Above[p] : p \in ps}
      made == {q \in above : ~Has(v, q)}
  IN [v EXCEPT
       !.files = [q \in Path |-> IF q \in made THEN DirOf(by[q])
                                 ELSE IF q \in above
                                 THEN [@[q] EXCEPT !.seen = TRUE, !.kind = IF @ = "file" THEN "dir" ELSE @]
                                 ELSE @[q]],
       !.children = [d \in Path |-> @[d] \cup {q \in above \ {Root} : Parent[q] = d}],
       !.slavePaths = [s \in Slave |-> @[s] \cup {q \in made : by[q] = s}]]
EnsureParents(v, p, s) == EnsureFor(v, {p}, [q \in Path |-> s])

\* A missing parent of several paths is made by the first that comes to it: of those
\* of least depth, as rebuildChildrenLocked sorts, in the order of names or of a map.
EnsureAny(v, ps) ==
  LET made == {q \in UNION {Above[p] : p \in ps} : ~Has(v, q)}
      first(d) == {p \in ps \cap Below[d] : \A q \in ps \cap Below[d] : Len(p) <= Len(q)}
      makers == {by \in [made -> Slave \cup {None}] :
                   \A d \in made : by[d] \in {SlaveOf(v, p) : p \in first(d)}}
  IN {EnsureFor(v, ps, by) : by \in makers}

Touch(v, p, fresh) ==
  [v EXCEPT !.files = [q \in Path |-> IF /\ fresh
                                         /\ q \in Above[p] \cup {p}
                                         /\ IF @[q] = None THEN FALSE ELSE @[q].kind # "file"
                                      THEN [@[q] EXCEPT !.fresh = TRUE] ELSE @[q]]]

\* All indexes anew, from the entries (rebuildChildrenLocked).
Rebuild(v) ==
  LET there(w) == {p \in Path : Has(w, p)}
      again(w) == [w EXCEPT !.children = [d \in Path |-> {p \in there(w) \ {Root} : Parent[p] = d}],
                            !.slavePaths = [s \in Slave |-> {p \in there(w) : SlaveOf(w, p) = s}]]
  IN {Invalidate(again(w), Path) : w \in EnsureAny(v, there(v))}

-----------------------------------------------------------------------------
(* SFV and zip metadata, and what is computed from them.                   *)

SfvMetaValid(v, d) ==
  LET m == v.dirMeta[d] IN
  IF m = None THEN FALSE
  ELSE /\ m.entries # {}
       /\ IsFile(v, Append(d, Sfv))
       /\ ~Mismatch(m.sfvSum, v.files[Append(d, Sfv)].sum)

\* The expected checksum of a listed file is 1.  Race statistics count what is
\* verified (isChecksumVerified), the release status what is not known to differ.
Verified(v, d) == {n \in v.dirMeta[d].entries : IF IsFile(v, Append(d, n)) THEN v.files[Append(d, n)].sum = 1 ELSE FALSE}
MissingFiles(v, d) == {n \in v.dirMeta[d].entries : IF IsFile(v, Append(d, n)) THEN Mismatch(1, v.files[Append(d, n)].sum) ELSE TRUE}
RaceStats(v, d) == IF SfvMetaValid(v, d)
                   THEN [present |-> Verified(v, d), total |-> Cardinality(v.dirMeta[d].entries)]
                   ELSE None

HasZip(v, d) == \E p \in v.children[d] : IsZip(p) /\ IsFile(v, p) /\ IF IsFile(v, p) THEN v.files[p].size > 0 ELSE FALSE
\* Mutant: every file counts, not only archives.
ZipPresentAny(v, d) == {Last(p) : p \in {q \in v.children[d] : IsFile(v, q)}}
ZipPresent(v, d) == {Last(p) : p \in {q \in v.children[d] : IsZip(q) /\ IsFile(v, q)}}
ZipExpected(v, d) ==
  LET m == v.dirMeta[d] IN
  IF m = None THEN 0
  ELSE IF ~IsFile(v, Append(d, Diz)) THEN 0
  ELSE IF Mismatch(m.dizSum, v.files[Append(d, Diz)].sum) \/ ~HasZip(v, d) THEN 0
  ELSE m.zip
ZipStats(v, d) ==
  LET n == Cardinality(ZipPresent(v, d))
  IN IF n = 0 /\ ZipExpected(v, d) = 0 THEN None
     ELSE [present |-> ZipPresent(v, d), total |-> IF ZipExpected(v, d) < n THEN n ELSE ZipExpected(v, d)]

\* clearZipMetaLocked: metadata without SFV entries and requests goes altogether.
ClearZip(v, d) ==
  IF v.dirMeta[d] = None THEN v
  ELSE [v EXCEPT !.dirMeta[d] = IF @.entries = {} /\ @.requests = 0 THEN None
                                ELSE [@ EXCEPT !.zip = 0, !.dizSum = 0, !.race = None, !.zipRace = None]]

-----------------------------------------------------------------------------
(* Operations on the tree.                                                 *)

Excluded(v, p) == (Above[p] \cup {p}) \cap v.excludePaths # {}

\* What AddFile keeps of the entry that is there: a known owner, the size, checksum
\* and transfer time of a completed upload that a scan reads short or without them.
Merged(old, e) ==
  LET kept == [e EXCEPT !.strong = @ \/ old.strong]
      short == ~e.xfer /\ e.sum = 0 /\ old.xfer /\ old.sum # 0 /\ old.size > e.size
      sized == IF short THEN [kept EXCEPT !.size = old.size] ELSE kept
  IN IF e.kind # "file" \/ old.kind # "file" THEN kept
     ELSE IF sized.size # old.size THEN sized
     ELSE [sized EXCEPT !.sum = IF @ = 0 THEN old.sum ELSE @, !.xfer = @ \/ old.xfer]

AddFile(v, p, e) ==
  IF Excluded(v, p) THEN InvalidatePath(DeleteEntry(v, p), p)
  ELSE LET asked == IF p \in v.protectedDirs THEN [e EXCEPT !.kind = "dir", !.seen = TRUE, !.slave = None] ELSE e
           entry == IF Has(v, p) THEN Merged(v.files[p], asked) ELSE asked
           put == Reindex([v EXCEPT !.files[p] = entry], p, SlaveOf(v, p), entry.slave)
       IN Dirty(Touch(InvalidatePath(Link(EnsureParents(put, p, entry.slave), p), p), p, entry.fresh))

AddSymlink(v, p) ==
  IF IF Has(v, p) THEN v.files[p].kind = "link" ELSE FALSE THEN [v EXCEPT !.files[p].seen = TRUE]
  ELSE LET put == [v EXCEPT !.files[p] = [DirOf(None) EXCEPT !.kind = "link", !.fresh = TRUE]]
       IN Dirty(Touch(InvalidatePath(Link(EnsureParents(put, p, None), p), p), p, TRUE))

\* deletePathLocked: an entry with all that a walk finds below it, and the metadata
\* that the .sfv, the last .zip or file_id.diz stood for.
DeletePath(v, p) ==
  IF ~Has(v, p) THEN v
  ELSE LET gone == Walk(v, p)
           noSfv == IF Is(p, Sfv) THEN [v EXCEPT !.dirMeta[Parent[p]] = None] ELSE v
           w == [Invalidate(noSfv, {Parent[q] : q \in gone} \cup gone) EXCEPT
                  !.files = [q \in Path |-> IF q \in gone THEN None ELSE @[q]],
                  !.children = [d \in Path |-> IF d \in gone THEN {} ELSE @[d] \ gone],
                  !.slavePaths = [s \in Slave |-> @[s] \ {q \in gone : SlaveOf(v, q) = s}],
                  !.dirMeta = [d \in Path |-> IF d \in gone THEN None ELSE @[d]]]
       IN IF Is(p, Diz) \/ (IsZip(p) /\ ~HasZip(w, Parent[p])) THEN ClearZip(w, Parent[p]) ELSE w

DeleteFile(v, p) == IF Has(v, p) THEN Dirty(Touch(DeletePath(v, p), Parent[p], TRUE)) ELSE v
DeleteAll(v, ps) ==
  LET w == FoldSet(LAMBDA p, acc : DeletePath(acc, p), v, ps)
  IN IF w.files = v.files THEN w ELSE Dirty(w)

\* Entries that a purge spares: seen, of other slaves, or changed in the last minutes.
Stale(v, s, p) == IF Has(v, p) THEN v.files[p].slave = s /\ ~v.files[p].fresh ELSE FALSE
Unseen(v, s, p) == Stale(v, s, p) /\ IF Has(v, p) THEN ~v.files[p].seen ELSE FALSE

\* A directory entry that is protected belongs to no slave and is always seen.
Unowned(v, ps) ==
  LET owned == {p \in ps : Has(v, p)}
  IN [v EXCEPT !.files = [p \in Path |-> IF p \in owned THEN [@[p] EXCEPT !.seen = TRUE, !.slave = None] ELSE @[p]],
               !.slavePaths = [s \in Slave |-> @[s] \ {p \in owned : SlaveOf(v, p) = s}]]

MarkUnseen(v, s, ps) ==
  [v EXCEPT !.files = [p \in Path |-> IF p \in ps /\ SlaveOf(v, p) = s THEN [@[p] EXCEPT !.seen = FALSE] ELSE @[p]]]
KnownPaths(v, s) == [v EXCEPT !.slavePaths[s] = {p \in @ : Has(v, p)}]
MarkAllUnseen(v, s) ==
  LET w == Unowned(KnownPaths(v, s), v.slavePaths[s] \cap v.protectedDirs)
  IN MarkUnseen(w, s, v.slavePaths[s])
PurgeUnseen(v, s) ==
  LET w == Unowned(KnownPaths(v, s), v.slavePaths[s] \cap v.protectedDirs)
  IN DeleteAll(w, {p \in v.slavePaths[s] : Unseen(w, s, p)})
MarkSubtreeUnseen(v, s, root) ==
  LET w == Unowned(v, v.protectedDirs) IN MarkUnseen(w, s, Walk(w, root) \ w.protectedDirs)
PurgeUnseenSubtree(v, s, root) ==
  LET w == Unowned(v, v.protectedDirs)
  IN DeleteAll(w, {p \in Walk(w, root) \ w.protectedDirs : Unseen(w, s, p)})
PurgeMissingChildren(v, s, d, present) ==
  DeleteAll(v, {p \in v.children[d] \ present : Stale(v, s, p)})

\* SetOffline: the slave's entries go, and the directories of others' files come back
\* in the name of those.
ClearSlave(v, s) ==
  LET gone == {p \in v.slavePaths[s] : SlaveOf(v, p) = s}
      w == [Invalidate(v, {Parent[p] : p \in gone} \cup gone) EXCEPT
             !.files = [p \in Path |-> IF p \in gone THEN None ELSE @[p]],
             !.dirMeta = [p \in Path |-> IF p \in gone THEN None ELSE @[p]],
             !.children = [d \in Path |-> @[d] \ gone],
             !.slavePaths[s] = {}]
      bucket(d) == {p \in w.children[d] : Has(w, p)}
      left == [w EXCEPT !.children = [d \in Path |-> IF d \in gone THEN bucket(d) ELSE @[d]]]
  IN IF gone = {} THEN {w} ELSE {Dirty(x) : x \in EnsureAny(left, UNION {bucket(d) : d \in gone})}

\* A subtree is taken out and put elsewhere, over what is there; `s' is its new slave.
Moved(v, from, to, s) ==
  LET old == {q \in Walk(v, from) : Has(v, q)}
      new(q) == to \o SubSeq(q, Len(from) + 1, Len(q))
      back == [q \in {new(p) : p \in old} |-> CHOOSE p \in old : new(p) = q]
      entry(q) == IF s = None THEN v.files[back[q]] ELSE [v.files[back[q]] EXCEPT !.slave = s]
      out == [v EXCEPT !.files = [q \in Path |-> IF q \in old THEN None ELSE @[q]],
                       !.slavePaths = [t \in Slave |-> @[t] \ {q \in old : SlaveOf(v, q) = t}],
                       !.dirMeta = [q \in Path |-> IF q \in old THEN None ELSE @[q]],
                       !.children = [d \in Path |-> IF d \in old THEN {} ELSE @[d] \ {from}]]
      ready == EnsureParents(out, to, IF s = None THEN SlaveOf(v, from) ELSE s)
      put == [ready EXCEPT
               !.files = [q \in Path |-> IF q \in DOMAIN back THEN entry(q) ELSE @[q]],
               !.slavePaths = [t \in Slave |-> @[t] \cup {q \in DOMAIN back : entry(q).slave = t}],
               !.children = [d \in Path |-> @[d] \cup {q \in DOMAIN back : Parent[q] = d}],
               !.dirMeta = [q \in Path |-> IF IF q \in DOMAIN back THEN v.dirMeta[back[q]] # None ELSE FALSE
                                           THEN v.dirMeta[back[q]] ELSE @[q]]]
  IN Invalidate(put, UNION {{q, Parent[q]} : q \in old \cup DOMAIN back})

\* Metadata stays behind only with the file that it is of.
Renamed(v, from, to) ==
  LET w == Moved(v, from, to, None)
      leaves == Parent[from] # Parent[to]
      noSfv == IF Is(from, Sfv) /\ (leaves \/ ~Is(to, Sfv)) THEN [w EXCEPT !.dirMeta[Parent[from]] = None] ELSE w
      noZip == \/ Is(from, Diz) /\ (leaves \/ ~Is(to, Diz))
               \/ IsZip(from) /\ (leaves \/ ~IsZip(to)) /\ ~HasZip(noSfv, Parent[from])
  IN IF noZip THEN ClearZip(noSfv, Parent[from]) ELSE noSfv
TouchBoth(v, from, to) == Dirty(Touch(Touch(v, Parent[from], TRUE), Parent[to], TRUE))

-----------------------------------------------------------------------------
(* Configuration, saving and loading.                                      *)

\* The root is not excluded; what is goes with its metadata.
Prune(v) ==
  LET gone == {p \in Path \ {Root} : Has(v, p) /\ Excluded(v, p)}
      w == [v EXCEPT !.files = [p \in Path |-> IF p \in gone THEN None ELSE @[p]],
                     !.dirMeta = [p \in Path |-> IF p \in gone THEN None ELSE @[p]]]
  IN IF gone = {} THEN {v} ELSE {Dirty(x) : x \in Rebuild(w)}

\* Top-level directories that belong to no slave were protected before; links to
\* directories go with them.
Protect(v, dirs) ==
  LET w == Unowned([v EXCEPT !.protectedDirs = dirs \cup {Root}], dirs)
      gone == {p \in Path : Len(p) = 1 /\ p \notin dirs /\ IF Has(w, p) THEN w.files[p].kind # "file" /\ w.files[p].slave = None ELSE FALSE}
  IN {Dirty(x) : x \in Rebuild([w EXCEPT !.files = [p \in Path |-> IF p \in gone THEN None ELSE @[p]]])}

Snapshot(v) == [files |-> v.files, dirMeta |-> Invalidate(v, Path).dirMeta]
NewVfs == [files |-> [p \in Path |-> IF p = Root THEN DirOf(None) ELSE None],
           children |-> [p \in Path |-> {}], slavePaths |-> [s \in Slave |-> {}],
           dirMeta |-> [p \in Path |-> None], protectedDirs |-> {Root}, excludePaths |-> {},
           persistVersion |-> 0, savedVersion |-> 0]

\* LoadFromDisk, under the configuration (the protected and the excluded paths) of v.
ReadFile(v, file) ==
  LET w == [NewVfs EXCEPT !.protectedDirs = v.protectedDirs, !.excludePaths = v.excludePaths]
  IN IF file = None THEN w ELSE [w EXCEPT !.files = file.files, !.dirMeta = file.dirMeta]
Loaded(v, file) ==
  LET read == ReadFile(v, file)
      fresh(x) == [x EXCEPT !.persistVersion = 0]
  IN {fresh(x) : x \in UNION {Rebuild(y) : y \in Prune(read)}}

-----------------------------------------------------------------------------
(* The goroutines of the master: each operation is one step under vfs.mu.  *)

Does(op) == op \in may.ops /\ ops < may.bound /\ ops' = ops + 1 /\ UNCHANGED <<disk, saving, reader, may, drift>>

\* ProcessRemerge: an entry of a listing, and what the listing does not have.
Scan(s, p, n) == Does("scan") /\ vfs' = AddFile(vfs, p, Scanned(s, p, n))
Prune1(s, d, present) == Does("scan") /\ vfs' = PurgeMissingChildren(vfs, s, d, present)
Mark(s) == Does("mark") /\ vfs' = MarkAllUnseen(vfs, s)
Purge(s) == Does("mark") /\ vfs' = PurgeUnseen(vfs, s)
MarkBelow(s, d) == Does("scoped") /\ vfs' = MarkSubtreeUnseen(vfs, s, d)
PurgeBelow(s, d) == Does("scoped") /\ vfs' = PurgeUnseenSubtree(vfs, s, d)
Age == Does("age") /\ vfs' = [vfs EXCEPT !.files = [p \in Path |-> IF @[p] = None THEN None ELSE [@[p] EXCEPT !.fresh = FALSE]]]
Offline(s) == Does("clear") /\ vfs' \in ClearSlave(vfs, s)

Upload(s, p, n, c) == p \notin DirPath /\ Does("upload") /\ vfs' = AddFile(vfs, p, Uploaded(s, n, c))
MakeDir(s, p) == p \in DirPath /\ Does("upload") /\ vfs' = AddFile(vfs, p, [DirOf(s) EXCEPT !.fresh = TRUE])
LinkTo(p) == Does("link") /\ vfs' = AddSymlink(vfs, p)
Delete(p) == Does("delete") /\ vfs' = DeleteFile(vfs, p)

\* The tree below `from' fits below `to', and stays of its kind.
Fits(from, to) ==
  /\ from # Root /\ to # Root /\ from # to /\ from \in DirPath <=> to \in DirPath
  /\ \A q \in Below[from] : to \o SubSeq(q, Len(from) + 1, Len(q)) \in Path
Rename(from, to) ==
  /\ Fits(from, to) /\ Has(vfs, from) /\ Does("move")
  /\ vfs' = TouchBoth(Renamed(vfs, from, to), from, to)
Relocate(from, to, s) ==
  /\ Fits(from, to) /\ Has(vfs, from) /\ Does("move")
  /\ vfs' = TouchBoth(Moved(vfs, from, to, s), from, to)

\* SITE CHMOD changes the time of an entry, and nothing else that is kept here.
Chmod(p) == Has(vfs, p) /\ Does("age") /\ vfs' = Dirty([vfs EXCEPT !.files[p].fresh = TRUE])

\* Changes of one entry of a file.
SetFile(op, p, e) ==
  /\ IsFile(vfs, p) /\ e # vfs.files[p] /\ Does(op)
  /\ vfs' = Dirty(InvalidatePath([vfs EXCEPT !.files[p] = e], p))
Verify(p, c) == IsFile(vfs, p) /\ SetFile("verify", p, [vfs.files[p] EXCEPT !.sum = c])
Grow(p, n) ==
  /\ IsFile(vfs, p)
  /\ vfs.files[p].xfer => vfs.files[p].sum = 0
  /\ n > vfs.files[p].size
  /\ SetFile("grow", p, [vfs.files[p] EXCEPT !.size = n])

\* HydrateRaceFile: what the race database knows and the entry does not.  The cached
\* statistics are left as they are.
Hydrated(e, n, c) ==
  [e EXCEPT !.strong = TRUE, !.xfer = TRUE, !.sum = IF @ = 0 THEN c ELSE @,
            !.size = IF n > @ /\ (@ = 0 \/ (~e.xfer /\ e.sum = 0)) THEN n ELSE @]
Hydrate(p, n, c) ==
  /\ IsFile(vfs, p) /\ Does("hydrate")
  /\ Hydrated(vfs.files[p], n, c) # vfs.files[p]
  /\ vfs' = Dirty([vfs EXCEPT !.files[p] = Hydrated(@, n, c)])

\* The pre of a release: no transfer times, another owner.
Scrub(root) ==
  LET below == {p \in Below[root] : Has(vfs, p)}
      scrubbed == [vfs EXCEPT !.files = [p \in Path |-> IF p \in below THEN [@[p] EXCEPT !.strong = TRUE, !.xfer = FALSE] ELSE @[p]]]
      changed == {p \in below : scrubbed.files[p] # vfs.files[p]}
  IN /\ changed # {} /\ Does("scrub")
     /\ vfs' = Dirty(Invalidate(scrubbed, {Parent[p] : p \in changed}))

SetSfv(d, entries, c) ==
  /\ Does("sfv")
  /\ vfs' = Dirty([vfs EXCEPT !.dirMeta[d] = [(IF @ = None THEN NoMeta ELSE @) EXCEPT
                     !.entries = entries, !.sfvSum = c, !.race = None, !.zipRace = None]])
CacheZip(d, n, c) ==
  /\ Does("zip") /\ (n = 0 => vfs.dirMeta[d] # None)
  /\ vfs' = IF n = 0 THEN Dirty(ClearZip(vfs, d))
            ELSE Dirty([vfs EXCEPT !.dirMeta[d] = [(IF @ = None THEN NoMeta ELSE @) EXCEPT
                     !.zip = n, !.dizSum = c, !.race = None, !.zipRace = None]])

\* The request plugin's records of a directory.
SetRequests(d, n) ==
  /\ Does("request")
  /\ vfs' = Dirty([vfs EXCEPT !.dirMeta[d] = [(IF @ = None THEN NoMeta ELSE @) EXCEPT !.requests = n]])

\* SITE REHASH.
SetProtected(dirs) == Does("protect") /\ vfs' \in Protect(vfs, dirs)
SetExclude(dirs) == Does("exclude") /\ vfs' \in Prune([vfs EXCEPT !.excludePaths = dirs])

\* GetRaceStats and GetZipRaceStats compute under the read lock and publish under the
\* write lock, unless the index has changed in between.
StatsCompute(d) ==
  /\ "stats" \in may.ops /\ reader = None /\ vfs.dirMeta[d] # None
  /\ reader' = [dir |-> d, version |-> vfs.persistVersion, race |-> RaceStats(vfs, d), zipRace |-> ZipStats(vfs, d)]
  /\ UNCHANGED <<vfs, disk, saving, ops, may, drift>>
\* Mutant: the version is not looked at again.
PublishedLate(m) ==
  IF m = None THEN m
  ELSE [m EXCEPT !.race = IF @ = None /\ SfvMetaValid(vfs, reader.dir) THEN reader.race ELSE @,
                 !.zipRace = IF @ = None THEN reader.zipRace ELSE @]
Published(m) ==
  IF m = None \/ vfs.persistVersion # reader.version THEN m
  ELSE [m EXCEPT !.race = IF @ = None /\ SfvMetaValid(vfs, reader.dir) THEN reader.race ELSE @,
                 !.zipRace = IF @ = None THEN reader.zipRace ELSE @]
StatsPublish ==
  /\ reader # None /\ reader' = None
  /\ vfs' = [vfs EXCEPT !.dirMeta[reader.dir] = Published(@)]
  /\ UNCHANGED <<disk, saving, ops, may, drift>>

\* SaveToDisk: a snapshot, a rename, and the note that it is saved.  Writing may fail.
\* Several goroutines save at once: an older snapshot may be renamed over a newer one.
SaveStart(g) ==
  /\ "save" \in may.ops /\ saving[g] = None /\ vfs.persistVersion # vfs.savedVersion
  /\ saving' = [saving EXCEPT ![g] = [version |-> vfs.persistVersion, file |-> Snapshot(vfs), renamed |-> FALSE]]
  /\ UNCHANGED <<vfs, disk, reader, ops, may, drift>>
SaveRename(g) ==
  /\ saving[g] # None /\ ~saving[g].renamed
  /\ disk' = saving[g].file
  /\ saving' = [saving EXCEPT ![g].renamed = TRUE]
  /\ drift' = [overtaken |-> \/ saving[g].version < vfs.savedVersion
                            \/ \E h \in Saver : IF saving[h] = None THEN FALSE
                                 ELSE saving[h].renamed /\ saving[g].version < saving[h].version,
                dropped |-> {}]
  /\ UNCHANGED <<vfs, reader, ops, may>>
SaveFails(g) ==
  /\ saving[g] # None /\ ~saving[g].renamed
  /\ saving' = [saving EXCEPT ![g] = None]
  /\ UNCHANGED <<vfs, disk, reader, ops, may, drift>>
\* Mutant: the version of now, not that of the snapshot.
SaveEndsNow(g) ==
  /\ saving[g] # None /\ saving[g].renamed
  /\ vfs' = [vfs EXCEPT !.savedVersion = vfs.persistVersion]
  /\ saving' = [saving EXCEPT ![g] = None]
  /\ UNCHANGED <<disk, reader, ops, may, drift>>
SaveEnds(g) ==
  /\ saving[g] # None /\ saving[g].renamed
  /\ vfs' = [vfs EXCEPT !.savedVersion = IF saving[g].version > @ THEN saving[g].version ELSE @]
  /\ saving' = [saving EXCEPT ![g] = None]
  /\ UNCHANGED <<disk, reader, ops, may, drift>>
Restart ==
  /\ "save" \in may.ops /\ ops < may.bound /\ ops' = ops + 1
  /\ vfs' \in Loaded(vfs, disk)
  /\ saving' = [g \in Saver |-> None] /\ reader' = None
  /\ drift' = [overtaken |-> FALSE,
               dropped |-> LET v == ReadFile(vfs, disk) IN {p \in Path \ {Root} : Has(v, p) /\ Excluded(v, p)}]
  /\ UNCHANGED <<disk, may>>

Init ==
  /\ may \in Settings
  /\ disk = may.disk
  /\ vfs \in Loaded(NewVfs, disk)
  /\ saving = [g \in Saver |-> None] /\ reader = None /\ ops = 0
  /\ drift = [overtaken |-> FALSE, dropped |-> {}]

Files == Path \ DirPath
Next ==
  \/ \E s \in Slave :
       \/ Mark(s) \/ Purge(s) \/ Offline(s)
       \/ \E p \in Path \ {Root}, n \in 0..1 : Scan(s, p, n)
       \/ \E d \in DirPath : MarkBelow(s, d) \/ PurgeBelow(s, d) \/ \E present \in SUBSET vfs.children[d] : Prune1(s, d, present)
       \/ \E p \in Files, c \in Sum \ {0} : Upload(s, p, MaxSize, c)
       \/ \E p \in DirPath \ {Root} : MakeDir(s, p)
       \/ \E from, to \in Path : Relocate(from, to, s)
  \/ Age
  \/ \E p \in Path \ {Root} : Delete(p) \/ Chmod(p) \/ (Len(p) = 1 /\ LinkTo(p)) \/ Scrub(p)
  \/ \E p \in Files : Grow(p, MaxSize) \/ \E c \in Sum \ {0} : Verify(p, c) \/ Hydrate(p, MaxSize, c)
  \/ \E from, to \in Path : Rename(from, to)
  \/ \E d \in DirPath \ {Root}, c \in Sum : \/ \E entries \in SUBSET Payload \ {{}} : SetSfv(d, entries, c)
                                            \/ \E n \in 0..MaxParts : CacheZip(d, n, c)
                                            \/ StatsCompute(d)
  \/ \E d \in DirPath \ {Root}, n \in 0..1 : SetRequests(d, n)
  \/ \E dirs \in SUBSET {p \in DirPath : Len(p) = 1} : SetProtected(dirs) \/ SetExclude(dirs)
  \/ StatsPublish
  \/ \E g \in Saver : SaveStart(g) \/ SaveRename(g) \/ SaveFails(g) \/ SaveEnds(g)
  \/ Restart

Spec == Init /\ [][Next]_vars

-----------------------------------------------------------------------------
TypeOK ==
  /\ vfs.files \in [Path -> Entry \cup {None}]
  /\ vfs.children \in [Path -> SUBSET Path]
  /\ vfs.slavePaths \in [Slave -> SUBSET Path]
  /\ \A d \in Path : vfs.dirMeta[d] = None \/ vfs.dirMeta[d] \in Meta
  /\ vfs.savedVersion \in 0..vfs.persistVersion

\* The indexes that walks, listings, purges and ClearSlave go by (vfs.go:488, 1142,
\* 1860-1961) are those of the entries: an entry is linked below an entry that is a
\* directory, nothing else is linked, and no entry escapes its slave.
IndexesMatch ==
  \A p \in Path :
    /\ Has(vfs, p) /\ p # Root => /\ p \in vfs.children[Parent[p]]
                                  /\ Has(vfs, Parent[p]) /\ ~IsFile(vfs, Parent[p])
    /\ \A q \in vfs.children[p] : Parent[q] = p /\ (Has(vfs, q) \/ Excluded(vfs, q))
    /\ Has(vfs, p) /\ SlaveOf(vfs, p) # None => p \in vfs.slavePaths[SlaveOf(vfs, p)]

\* Race statistics are cached and read for the COMPLETE announce (vfs.go:1704-1760):
\* those of a valid SFV never count a file that is not verified now, and a release that
\* they show complete has no missing file in its status (849-946), by which autonuke
\* goes.  The cached zip statistics name the archives that are there.
CacheIsTrue ==
  \A d \in Path :
    LET m == vfs.dirMeta[d] IN
    m # None =>
      /\ m.race # None /\ SfvMetaValid(vfs, d) =>
           /\ m.race.present \subseteq Verified(vfs, d) /\ m.race.total = Cardinality(m.entries)
           /\ Cardinality(m.race.present) = m.race.total => MissingFiles(vfs, d) = {}
      /\ m.zipRace # None => m.zipRace.present = ZipPresent(vfs, d)

\* Both maps and the cache: what readers of the index are told, in any order of operations.
IndexHolds == IndexesMatch /\ CacheIsTrue

\* SaveToDisk writes nothing while persistVersion is savedVersion (vfs.go:1336): then
\* what would be loaded after a crash is the index as it is, but for what a remerge or
\* the clock restores.  With saves that overlap, of the persist loop, of a remerge's end
\* and of Stop, this is so unless the last rename was that of the older snapshot; and
\* of what LoadFromDisk has dropped as excluded, unless it is excluded no more.
Essence(v) ==
  LET w == Unowned(v, v.protectedDirs)
  IN [p \in Path |-> IF Has(w, p) THEN [w.files[p] EXCEPT !.seen = TRUE, !.fresh = TRUE] ELSE None]
SavedIsCurrent ==
  /\ \A g \in Saver : saving[g] = None
  /\ vfs.persistVersion = vfs.savedVersion
  /\ ~drift.overtaken
  /\ \A p \in drift.dropped : Excluded(vfs, p)
  => \E w \in Loaded(vfs, disk) : Essence(w) = Essence(vfs) /\ Snapshot(w).dirMeta = Snapshot(vfs).dirMeta
=============================================================================

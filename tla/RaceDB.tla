------------------------------- MODULE RaceDB --------------------------------
(***************************************************************************)
(* The race database (src/internal/master/race_db.go): a table of releases *)
(* by path, a table of the files of each release, and the cache of release *)
(* ids in front of them.  One connection is shared, so a statement or a    *)
(* transaction is one step; what a method does between two of them is not. *)
(***************************************************************************)
EXTENDS Naturals, FiniteSets

CONSTANTS Paths,     \* paths of release directories
          Payloads,  \* names of payload files
          Users,     \* racers
          Nil,
          Weak,     \* an owner that stands for nobody: "", "0", "ftp", "root"
          Listed,   \* the files every SFV lists
          MaxId     \* bound on the ids the releases table gives out

ASSUME RaceDBAssumption == /\ Nil \notin Users \cup {Weak}
                           /\ Weak \notin Users
                           /\ Listed \subseteq Payloads
                           /\ MaxId \in Nat \ {0}

VARIABLES db,       \* rel: the id of a path's release; last: the last id given out;
                    \* rows: what release_files holds for an id and a file
          idOf      \* releaseIDCache, emptied by a restart

Ids == 1..MaxId

\* A row: the SFV lists the file, it is present, its uploader, its checksum against
\* the SFV's (zero, good or bad), and whether the time it took is known.
Blank == [exp |-> FALSE, here |-> FALSE, by |-> Weak, sum |-> "zero", timed |-> FALSE]
NoRows == [f \in Payloads |-> Nil]

Live(b, i) == \E d \in Paths : b.rel[d] = i
Rows(b, d) == IF b.rel[d] = Nil THEN NoRows ELSE b.rows[b.rel[d]]

\* INSERT ... ON CONFLICT(path): the path has a release, a new id if it had none.
WithRelease(b, d) ==
  IF b.rel[d] # Nil THEN b
  ELSE [b EXCEPT !.rel[d] = b.last + 1, !.last = b.last + 1]

\* The row RecordUpload leaves: it is taken when the file was absent or nobody's.
Recorded(row, u, sum) ==
  LET old == IF row = Nil THEN Blank ELSE row
  IN  IF old.here /\ old.by # Weak THEN old
      ELSE [old EXCEPT !.here = TRUE, !.by = u, !.sum = sum, !.timed = TRUE]

\* With a dead id the foreign key refuses the row: the record is logged and lost.
RecordUpload(b, i, f, u, sum) ==
  IF Live(b, i) THEN [b EXCEPT !.rows[i][f] = Recorded(@, u, sum)] ELSE b

SaveSFV(b, i) ==
  IF ~Live(b, i) THEN b
  ELSE [b EXCEPT !.rows[i] =
          [f \in Payloads |-> IF f \notin Listed THEN @[f]
                              ELSE [(IF @[f] = Nil THEN Blank ELSE @[f]) EXCEPT !.exp = TRUE]]]

\* mergeRaceFileRecord: what is known of a file is not replaced by what is not.
Merged(new, old) ==
  IF old = Nil \/ ~old.here THEN new
  ELSE [new EXCEPT !.by = IF @ = Weak THEN old.by ELSE @,
                   !.timed = @ \/ old.timed,
                   !.sum = IF @ = "zero" THEN old.sum ELSE @]

\* ReplaceReleaseFiles: the rows of the release become those of its SFV, present
\* when the verified set that was read before has them.  The id cache is not used.
ReplaceReleaseFiles(b, d, found) ==
  LET c == WithRelease(b, d)
      i == c.rel[d]
  IN  [c EXCEPT !.rows[i] =
         [f \in Payloads |->
            IF f \notin Listed THEN Nil
            ELSE IF found[f] = Nil THEN [Blank EXCEPT !.exp = TRUE]
            ELSE [Merged(found[f], @[f]) EXCEPT !.exp = TRUE, !.here = TRUE]]]

\* DeletePath of a file: the row stays, absent; its uploader stays in it.
ClearRow(b, d, f) ==
  IF Rows(b, d)[f] = Nil THEN b
  ELSE [b EXCEPT !.rows[b.rel[d]][f].here = FALSE, !.rows[b.rel[d]][f].sum = "zero",
                 !.rows[b.rel[d]][f].timed = FALSE]

\* DeletePath of a directory: the release goes and takes its rows with it.
DropRelease(b, d) ==
  IF b.rel[d] = Nil THEN b
  ELSE [b EXCEPT !.rel[d] = Nil, !.rows[b.rel[d]] = NoRows]

\* RenamePath of a directory; a release at the new path makes it fail as a whole.
RenameFails(b, from, to) == b.rel[from] # Nil /\ b.rel[to] # Nil
RenameRelease(b, from, to) ==
  IF b.rel[from] = Nil \/ b.rel[to] # Nil THEN b
  ELSE [b EXCEPT !.rel[to] = b.rel[from], !.rel[from] = Nil]

\* ScrubReleaseRaceMetadata: the files become the new owner's and lose their times.
ScrubRows(b, d, u) ==
  IF b.rel[d] = Nil THEN b
  ELSE [b EXCEPT !.rows[b.rel[d]] =
          [f \in Payloads |-> IF @[f] = Nil THEN Nil
                              ELSE [@[f] EXCEPT !.by = u, !.timed = FALSE]]]

\* Reconcile: releases whose directory the index does not have are deleted.
Reconciled(b, dirs) ==
  LET dead == {d \in Paths \ dirs : b.rel[d] # Nil}
  IN  [b EXCEPT !.rel = [d \in Paths |-> IF d \in dead THEN Nil ELSE @[d]],
                !.rows = [i \in Ids |-> IF \E d \in dead : b.rel[d] = i THEN NoRows ELSE @[i]]]

\* The rows HydrateVFS reads: present, timed, and of the expected checksum if one is.
Hydrates(row) == row # Nil /\ row.here /\ row.timed /\ (row.exp => row.sum = "good")

DBInit == /\ db = [rel |-> [d \in Paths |-> Nil], last |-> 0,
                   rows |-> [i \in Ids |-> NoRows]]
          /\ idOf = [d \in Paths |-> Nil]

=============================================================================

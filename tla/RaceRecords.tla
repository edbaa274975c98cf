----------------------------- MODULE RaceRecords -----------------------------
(***************************************************************************)
(* Who raced what.  An upload leaves a file in the index, hands a record   *)
(* of it to the goroutine that writes the race database, and its hook      *)
(* notes the transfer in the release's race window and, when the release   *)
(* is complete, replaces the release's rows by what the index has.         *)
(* Deletions, renames, SITE RESCAN and the pre plugin's scrub change the   *)
(* index first and the database and the window after it, each in a step of *)
(* its own (src/internal/master/bridge.go, slave_manager.go and            *)
(* src/internal/core/site_rescan.go).                                      *)
(*                                                                         *)
(* A thread is the sequence of steps it still has to take.  The slave is   *)
(* online; its links are the business of SlaveLink and Remerge.            *)
(***************************************************************************)
EXTENDS RaceDB, Integers, Sequences, SequencesExt

CONSTANTS RaceSettings,  \* what may happen: files uploaded, their checksums, the units of
                         \* time a transfer takes, the operators' acts, bounds on stores and acts
          Depth,         \* room in uploadRecords
          MaxBusy        \* bound on the sessions that are at work at once

ASSUME RaceRecordsAssumption ==
  /\ \A r \in RaceSettings : r.home \in Paths /\ r.files \subseteq Payloads /\ r.lengths \subseteq Nat
  /\ IsFiniteSet(Listed)
  /\ Nil \notin [start : Int, end : Nat, payload : BOOLEAN]

VARIABLES dirs,          \* the directories of the index
          sfvs,          \* those with a cached SFV
          entries,       \* a file's entry in the index, or Nil
          onSlave,       \* its content on the slave: Nil, good or bad
          window,        \* a path's race window, or Nil
          records,       \* uploadRecords
          todo,          \* the steps a thread still has to take
          stores, ops, races,
          loose          \* history: directories whose books the code lets drift

recordVars == <<db, idOf, dirs, sfvs, entries, onSlave, window, records, todo, stores, ops, races, loose>>

\* A racer's thread runs the upload and its hook; Writer drains uploadRecords;
\* Oper is the session of an operator.
Writer == "writer"
Oper == "oper"
Threads == Users \cup {Writer, Oper}

Empty == [f \in Payloads |-> Nil]
Step(do, d, f) == [do |-> do, d |-> d, f |-> f]

\* Steps that follow a change of the index and reach the database or the window.
Trailing == {"clear", "miss", "drop", "uncache", "forget", "dbmove", "winmove", "dbscrub", "reset"}

RaceInit ==
  /\ DBInit
  /\ races \in RaceSettings
  /\ dirs = {races.home} /\ sfvs = {}
  /\ entries = [d \in Paths |-> Empty] /\ onSlave = [d \in Paths |-> Empty]
  /\ window = [d \in Paths |-> Nil]
  /\ records = <<>>
  /\ todo = [t \in Threads |-> <<>>]
  /\ stores = 0 /\ ops = 0 /\ loose = {}

Does(t, do) == todo[t] # <<>> /\ Head(todo[t]).do = do
Done(t) == todo' = [todo EXCEPT ![t] = Tail(@)]
ThenDo(t, steps) == todo' = [todo EXCEPT ![t] = steps \o Tail(@)]

\* A session starts something only while few are at work.
Free(t) == todo[t] = <<>> /\ Cardinality({o \in Users \cup {Oper} : todo[o] # <<>>}) < MaxBusy

\* History: a record, a replacement or an operator's follow-up of the directory is
\* in other hands.  The follow-up of a rename is in both of its directories' way.
About(s, d) == s.d = d \/ (s.do \in {"dbmove", "winmove"} /\ s.to = d)
InOtherHands(t, d) ==
  \/ \E i \in DOMAIN records : records[i].d = d
  \/ \E o \in Threads \ {t} : \E i \in DOMAIN todo[o] : About(todo[o][i], d)
Loosens(t, ds) == loose' = loose \cup {d \in ds : InOtherHands(t, d)}

\* History: work on a directory begins before an operator's change of it has reached
\* the database and the window.
Overtakes(d) ==
  loose' = loose \cup (IF \E o \in Threads : \E i \in DOMAIN todo[o] :
                            About(todo[o][i], d) /\ todo[o][i].do \in Trailing
                      THEN {d} ELSE {})

-----------------------------------------------------------------------------
\* The race window (releaseStateMu is held throughout each of these).

\* StartReleaseRaceWindowAt: MKD seeds the window unless there is one.
Seeded(w, t) == IF w = Nil THEN [start |-> t, end |-> t, payload |-> FALSE] ELSE w

\* Mutant: the start is that of the payload whose hook came first.
NotedFirst(w, s, e) ==
  IF w = Nil THEN [start |-> s, end |-> e, payload |-> TRUE]
  ELSE [start |-> IF ~w.payload THEN s ELSE w.start,
        end |-> IF e > w.end THEN e ELSE w.end,
        payload |-> TRUE]

\* NoteRacePayloadTransferAt: the first payload replaces the seed's start; after
\* that the earliest start and the latest end are kept.
Noted(w, s, e) ==
  IF w = Nil THEN [start |-> s, end |-> e, payload |-> TRUE]
  ELSE [start |-> IF ~w.payload \/ s < w.start THEN s ELSE w.start,
        end |-> IF e > w.end THEN e ELSE w.end,
        payload |-> TRUE]

-----------------------------------------------------------------------------
\* Uploads.

\* MKD.  A directory nobody has in hand and the database does not know is sound.
Mkdir(d) ==
  /\ d \notin dirs /\ Free(Oper)
  /\ dirs' = dirs \cup {d}
  /\ window' = [window EXCEPT ![d] = Seeded(@, stores)]
  /\ loose' = IF InOtherHands(Nil, d) THEN loose \cup {d}
              ELSE IF db.rel[d] = Nil /\ idOf[d] = Nil /\ window[d] = Nil THEN loose \ {d}
              ELSE loose
  /\ UNCHANGED <<db, idOf, sfvs, entries, onSlave, records, todo, stores, ops, races>>

\* The slave has the file and AddFile is done; recordUploadMetadata queues its
\* record, or leaves it to this thread when the queue is full; the hook comes next.
\* A unit of time is one store.
StoreFile(u, d, f, sum, length) ==
  /\ Free(u) /\ d \in dirs /\ entries[d][f] = Nil /\ stores < races.stores
  /\ LET start == stores + 1 - length
         rec == [do |-> "find", d |-> d, f |-> f, by |-> u, sum |-> sum]
         hook == [do |-> "hook", d |-> d, f |-> f, sum |-> sum, start |-> start, end |-> stores + 1]
     IN  /\ entries' = [entries EXCEPT ![d][f] =
                        [by |-> u, sum |-> sum, timed |-> TRUE,
                         noted |-> FALSE, start |-> start, end |-> stores + 1]]
         /\ IF Len(records) < Depth
            THEN records' = Append(records, rec) /\ todo' = [todo EXCEPT ![u] = <<hook>>]
            ELSE todo' = [todo EXCEPT ![u] = <<rec, hook>>] /\ UNCHANGED records
  /\ stores' = stores + 1
  /\ onSlave' = [onSlave EXCEPT ![d][f] = sum]
  /\ Overtakes(d)
  /\ UNCHANGED <<db, idOf, dirs, sfvs, window, ops, races>>

\* The SFV is uploaded: its hook caches it, saves it, and deletes the listed files
\* that fail it (verifyExistingPayloadsAfterSFVUpload).
StoreSfv(u, d) ==
  /\ Free(u) /\ d \in dirs \ sfvs
  /\ sfvs' = sfvs \cup {d}
  /\ todo' = [todo EXCEPT ![u] = <<Step("find", d, Nil)>>
                                  \o SetToSeq({Step("verify", d, f) : f \in Listed})]
  /\ Overtakes(d)
  /\ UNCHANGED <<db, idOf, dirs, entries, onSlave, window, records, stores, ops, races>>

\* getOrCreateReleaseID: the cached id, or the committed one, which is cached in a
\* step of its own.  What is left is to write with that id.
Find(t, s, rest) ==
  LET b == WithRelease(db, s.d)
      cached == idOf[s.d] # Nil
  IN  /\ cached \/ db.rel[s.d] # Nil \/ db.last < MaxId
      /\ db' = IF cached THEN db ELSE b
      /\ todo' = [todo EXCEPT ![t] =
                    <<[do |-> IF cached THEN "write" ELSE "keep", d |-> s.d, f |-> s.f, s |-> s,
                       id |-> IF cached THEN idOf[s.d] ELSE b.rel[s.d]]>> \o rest]

FindId(t) ==
  /\ Does(t, "find")
  /\ Find(t, Head(todo[t]), Tail(todo[t]))
  /\ UNCHANGED <<idOf, dirs, sfvs, entries, onSlave, window, records, stores, ops, races, loose>>

\* uploadRecordWriter.
WriterTakes ==
  /\ records # <<>> /\ todo[Writer] = <<>>
  /\ Find(Writer, Head(records), <<>>)
  /\ records' = Tail(records)
  /\ UNCHANGED <<idOf, dirs, sfvs, entries, onSlave, window, stores, ops, races, loose>>

KeepId(t) ==
  /\ Does(t, "keep")
  /\ LET s == Head(todo[t])
     IN  idOf' = [idOf EXCEPT ![s.d] = s.id] /\ ThenDo(t, <<[s EXCEPT !.do = "write"]>>)
  /\ UNCHANGED <<db, dirs, sfvs, entries, onSlave, window, records, stores, ops, races, loose>>

\* The statement of RecordUpload, or the transaction of SaveSFV.
WriteRows(t) ==
  /\ Does(t, "write")
  /\ LET s == Head(todo[t])
     IN  db' = IF s.f = Nil THEN SaveSFV(db, s.id) ELSE RecordUpload(db, s.id, s.f, s.s.by, s.s.sum)
  /\ Done(t)
  /\ UNCHANGED <<idOf, dirs, sfvs, entries, onSlave, window, records, stores, ops, races, loose>>

\* DeleteFile and then MarkFileMissing, as every caller that finds a file bad does.
Discard(d, f) == <<Step("delete", d, f), Step("clear", d, f), Step("miss", d, f), Step("clear", d, f)>>

VerifyOld(u) ==
  /\ Does(u, "verify")
  /\ LET s == Head(todo[u])
         e == entries[s.d][s.f]
     IN  ThenDo(u, IF s.d \in sfvs /\ e # Nil /\ e.sum = "bad" THEN Discard(s.d, s.f) ELSE <<>>)
  /\ UNCHANGED <<db, idOf, dirs, sfvs, entries, onSlave, window, records, stores, ops, races, loose>>

Verified(d, f) == entries[d][f] # Nil /\ entries[d][f].sum = "good"
AllVerified(d) == d \in sfvs /\ \A f \in Listed : Verified(d, f)
IfComplete(d) == IF AllVerified(d) THEN <<Step("read", d, Nil)>> ELSE <<>>

\* The hook: a payload that fails its SFV goes and the hook ends; for another the
\* window is told of the transfer, and a complete release is synchronised.
\* "noted" is history: the window has been told of this very file.
Hook(u) ==
  /\ Does(u, "hook")
  /\ LET s == Head(todo[u])
         e == entries[s.d][s.f]
     IN  IF s.d \in sfvs /\ s.f \in Listed /\ s.sum = "bad"
         THEN ThenDo(u, Discard(s.d, s.f)) /\ UNCHANGED <<window, entries>>
         ELSE /\ window' = [window EXCEPT ![s.d] = Noted(@, s.start, s.end)]
              /\ entries' = IF e # Nil /\ e.end = s.end
                          THEN [entries EXCEPT ![s.d][s.f].noted = TRUE] ELSE entries
              /\ ThenDo(u, IfComplete(s.d))
  /\ UNCHANGED <<db, idOf, dirs, sfvs, onSlave, records, stores, ops, races, loose>>

\* SyncReleaseRaceStats: the verified files of the index, read first ...
ReadVerified(t) ==
  /\ Does(t, "read")
  /\ LET s == Head(todo[t])
         found == [f \in Payloads |->
                     IF f \in Listed /\ Verified(s.d, f)
                     THEN [exp |-> TRUE, here |-> TRUE, by |-> entries[s.d][f].by,
                           sum |-> entries[s.d][f].sum, timed |-> entries[s.d][f].timed]
                     ELSE Nil]
     IN  ThenDo(t, IF s.d \in sfvs /\ (\E f \in Payloads : found[f] # Nil)
                   THEN <<[do |-> "replace", d |-> s.d, f |-> Nil, found |-> found]>> ELSE <<>>)
  /\ UNCHANGED <<db, idOf, dirs, sfvs, entries, onSlave, window, records, stores, ops, races, loose>>

\* ... and written after.
Replace(t) ==
  /\ Does(t, "replace")
  /\ LET s == Head(todo[t])
     IN  /\ db.last < MaxId \/ db.rel[s.d] # Nil
         /\ db' = ReplaceReleaseFiles(db, s.d, s.found)
  /\ Done(t)
  /\ UNCHANGED <<idOf, dirs, sfvs, entries, onSlave, window, records, stores, ops, races, loose>>

-----------------------------------------------------------------------------
\* Operators: each change of the index, the database and the window is a step.

\* Bridge.DeleteFile: the slave and the index; a file the index lacks ends it there,
\* before the database is told.
DeleteEntry(t) ==
  /\ Does(t, "delete")
  /\ LET s == Head(todo[t])
         gone == entries[s.d][s.f] = Nil
     IN  /\ entries' = [entries EXCEPT ![s.d][s.f] = Nil]
         /\ onSlave' = IF gone THEN onSlave ELSE [onSlave EXCEPT ![s.d][s.f] = Nil]
         /\ todo' = [todo EXCEPT ![t] = IF gone THEN SubSeq(@, 3, Len(@)) ELSE Tail(@)]
         /\ Loosens(t, {s.d})
  /\ UNCHANGED <<db, idOf, dirs, sfvs, window, records, stores, ops, races>>

\* Bridge.MarkFileMissing: the index alone.
MissEntry(t) ==
  /\ Does(t, "miss")
  /\ LET s == Head(todo[t])
     IN  entries' = [entries EXCEPT ![s.d][s.f] = Nil] /\ Loosens(t, {s.d})
  /\ Done(t)
  /\ UNCHANGED <<db, idOf, dirs, sfvs, onSlave, window, records, stores, ops, races>>

ClearPath(t) ==
  /\ Does(t, "clear")
  /\ db' = ClearRow(db, Head(todo[t]).d, Head(todo[t]).f)
  /\ Done(t)
  /\ UNCHANGED <<idOf, dirs, sfvs, entries, onSlave, window, records, stores, ops, races, loose>>

\* An operator begins: what it changes at once, and what it does after.
Begin(steps) ==
  /\ Free(Oper) /\ ops < races.ops
  /\ ops' = ops + 1 /\ todo' = [todo EXCEPT ![Oper] = steps]
  /\ UNCHANGED <<db, idOf, records, stores, races>>

DeleteFile(d, f) ==
  /\ d \in dirs /\ entries[d][f] # Nil
  /\ Begin(<<Step("delete", d, f), Step("clear", d, f)>>)
  /\ UNCHANGED <<dirs, sfvs, entries, onSlave, window, loose>>

DeleteDir(d) ==
  /\ d \in dirs
  /\ Begin(<<Step("drop", d, Nil), Step("uncache", d, Nil), Step("forget", d, Nil)>>)
  /\ dirs' = dirs \ {d} /\ sfvs' = sfvs \ {d}
  /\ entries' = [entries EXCEPT ![d] = Empty] /\ onSlave' = [onSlave EXCEPT ![d] = Empty]
  /\ Loosens(Oper, {d})
  /\ UNCHANGED window

DropPath(t) ==
  /\ Does(t, "drop")
  /\ db' = DropRelease(db, Head(todo[t]).d)
  /\ Done(t)
  /\ UNCHANGED <<idOf, dirs, sfvs, entries, onSlave, window, records, stores, ops, races, loose>>

\* Mutant: the id stays cached under the path that the release no longer has.
UncacheNothing(t) ==
  /\ Does(t, "uncache")
  /\ Done(t)
  /\ UNCHANGED <<db, idOf, dirs, sfvs, entries, onSlave, window, records, stores, ops, races, loose>>

Uncache(t) ==
  /\ Does(t, "uncache")
  /\ idOf' = [idOf EXCEPT ![Head(todo[t]).d] = Nil]
  /\ Done(t)
  /\ UNCHANGED <<db, dirs, sfvs, entries, onSlave, window, records, stores, ops, races, loose>>

\* InvalidateReleaseStateForPath of the directory.
Forget(t) ==
  /\ Does(t, "forget")
  /\ window' = [window EXCEPT ![Head(todo[t]).d] = Nil]
  /\ Done(t)
  /\ UNCHANGED <<db, idOf, dirs, sfvs, entries, onSlave, records, stores, ops, races, loose>>

\* Bridge.RenameFile of a directory (a nuke, SITE UNNUKE, RNFR and RNTO, a move).
RenameDir(d, to) ==
  /\ d \in dirs /\ to \in Paths \ dirs
  /\ LET mv == [do |-> "dbmove", d |-> d, f |-> Nil, to |-> to]
     IN  Begin(<<mv, [mv EXCEPT !.do = "winmove"]>>)
  /\ dirs' = (dirs \ {d}) \cup {to}
  /\ sfvs' = IF d \in sfvs THEN (sfvs \ {d}) \cup {to} ELSE sfvs
  /\ entries' = [entries EXCEPT ![to] = entries[d], ![d] = Empty]
  /\ onSlave' = [onSlave EXCEPT ![to] = onSlave[d], ![d] = Empty]
  /\ loose' = LET inHands == InOtherHands(Oper, d) \/ InOtherHands(Oper, to)
                             \/ d \in loose \/ to \in loose \/ RenameFails(db, d, to)
              IN  IF inHands THEN loose \cup {d, to} ELSE loose
  /\ UNCHANGED window

\* RaceDB.RenamePath: a failed transaction leaves the cache alone.
MoveRelease(t) ==
  /\ Does(t, "dbmove")
  /\ LET s == Head(todo[t])
     IN  /\ db' = RenameRelease(db, s.d, s.to)
         /\ ThenDo(t, IF RenameFails(db, s.d, s.to) THEN <<>> ELSE <<[s EXCEPT !.do = "uncache"]>>)
  /\ UNCHANGED <<idOf, dirs, sfvs, entries, onSlave, window, records, stores, ops, races, loose>>

\* RenameReleaseState.
MoveWindow(t) ==
  /\ Does(t, "winmove")
  /\ LET s == Head(todo[t])
     IN  window' = IF window[s.d] = Nil THEN window
                   ELSE [window EXCEPT ![s.to] = window[s.d], ![s.d] = Nil]
  /\ Done(t)
  /\ UNCHANGED <<db, idOf, dirs, sfvs, entries, onSlave, records, stores, ops, races, loose>>

\* Bridge.ScrubReleaseRaceMetadata, which the pre plugin calls on what it released.
Scrub(d, u) ==
  /\ d \in dirs
  /\ Begin(<<Step("reset", d, Nil), [do |-> "dbscrub", d |-> d, f |-> Nil, by |-> u]>>)
  /\ entries' = [entries EXCEPT ![d] =
                 [f \in Payloads |-> IF @[f] = Nil THEN Nil
                                  ELSE [@[f] EXCEPT !.by = u, !.timed = FALSE, !.noted = FALSE]]]
  /\ Loosens(Oper, {d})
  /\ UNCHANGED <<dirs, sfvs, onSlave, window>>

ResetWindow(t) ==
  /\ Does(t, "reset")
  /\ window' = [window EXCEPT ![Head(todo[t]).d] = Nil]
  /\ Done(t)
  /\ UNCHANGED <<db, idOf, dirs, sfvs, entries, onSlave, records, stores, ops, races, loose>>

ScrubRelease(t) ==
  /\ Does(t, "dbscrub")
  /\ db' = ScrubRows(db, Head(todo[t]).d, Head(todo[t]).by)
  /\ Done(t)
  /\ UNCHANGED <<idOf, dirs, sfvs, entries, onSlave, window, records, stores, ops, races, loose>>

\* SITE RESCAN: the SFV is cached again, then each file it lists is looked at.
Rescan(d, del) ==
  /\ d \in sfvs
  /\ Begin(<<Step("find", d, Nil)>>
             \o SetToSeq({[do |-> "scan", d |-> d, f |-> f, del |-> del] : f \in Listed}))
  /\ Overtakes(d)
  /\ UNCHANGED <<dirs, sfvs, entries, onSlave, window>>

\* GetFileSize: what the index lacks is marked missing, the rest is summed.
Scan(t) ==
  /\ Does(t, "scan")
  /\ LET s == Head(todo[t])
     IN  ThenDo(t, IF entries[s.d][s.f] = Nil THEN <<Step("miss", s.d, s.f), Step("clear", s.d, s.f)>>
                   ELSE <<[s EXCEPT !.do = "sum"]>>)
  /\ UNCHANGED <<db, idOf, dirs, sfvs, entries, onSlave, window, records, stores, ops, races, loose>>

\* ChecksumFile: missing, bad or good on the slave, or no answer.
Sum(t) ==
  /\ Does(t, "sum")
  /\ LET s == Head(todo[t])
     IN  \/ ThenDo(t, CASE onSlave[s.d][s.f] = Nil -> <<Step("miss", s.d, s.f), Step("clear", s.d, s.f)>>
                       [] onSlave[s.d][s.f] = "bad" -> IF s.del THEN Discard(s.d, s.f) ELSE <<>>
                       [] OTHER -> <<Step("present", s.d, s.f)>>)
        \/ Done(t)
  /\ UNCHANGED <<db, idOf, dirs, sfvs, entries, onSlave, window, records, stores, ops, races, loose>>

\* SyncPresentFile.
Present(t) ==
  /\ Does(t, "present")
  /\ LET s == Head(todo[t])
         seen == [entries EXCEPT ![s.d][s.f].sum = "good"]
     IN  IF entries[s.d][s.f] = Nil THEN Done(t) /\ UNCHANGED entries
         ELSE /\ entries' = seen
              /\ ThenDo(t, IF \A f \in Listed : seen[s.d][f] # Nil /\ seen[s.d][f].sum = "good"
                           THEN <<Step("read", s.d, Nil)>> ELSE <<>>)
  /\ UNCHANGED <<db, idOf, dirs, sfvs, onSlave, window, records, stores, ops, races, loose>>

\* The file changes on the slave behind the master's back.
Spoil(d, f) ==
  /\ onSlave[d][f] # Nil
  /\ Begin(<<>>)
  /\ \E c \in {Nil, "bad"} : onSlave' = [onSlave EXCEPT ![d][f] = c]
  /\ UNCHANGED <<dirs, sfvs, entries, window, loose>>

-----------------------------------------------------------------------------
\* The daemon dies and starts again: it loads a snapshot of the index that may lack
\* the directories in "late" and know nothing of the owners in "weak"; NewBridge
\* reconciles and hydrates; the remerge brings back what the slave has.
Restart(late, weak) ==
  LET base == Reconciled(db, dirs \ late)
      Nobodys == [by |-> Weak, sum |-> "zero", timed |-> FALSE,
                  noted |-> FALSE, start |-> 0, end |-> 0]
      Again(d, f) ==
        LET e == entries[d][f]
            row == Rows(base, d)[f]
        IN  IF onSlave[d][f] = Nil \/ e = Nil THEN Nil
            ELSE CASE d \notin late /\ <<d, f>> \notin weak ->
                        [e EXCEPT !.noted = FALSE, !.start = 0, !.end = 0]
                   [] d \notin late /\ <<d, f>> \in weak /\ Hydrates(row) ->
                        [Nobodys EXCEPT !.by = row.by, !.sum = row.sum, !.timed = TRUE]
                   [] OTHER -> Nobodys
  IN  /\ ops < races.ops /\ ops' = ops + 1
      /\ db' = base
      /\ idOf' = [d \in Paths |-> Nil] /\ window' = [d \in Paths |-> Nil]
      /\ records' = <<>> /\ todo' = [t \in Threads |-> <<>>]
      /\ entries' = [d \in Paths |-> [f \in Payloads |-> Again(d, f)]]
      /\ sfvs' = sfvs \ late
      /\ loose' = (loose \cup late) \cup {d \in Paths : InOtherHands(Nil, d)}
      /\ UNCHANGED <<dirs, onSlave, stores, races>>

-----------------------------------------------------------------------------
May(act) == act \in races.acts

RaceNext ==
  \/ \E d \in Paths : May("mkdir") /\ Mkdir(d)
  \/ \E u \in Users, d \in Paths, f \in races.files, c \in races.sums, n \in races.lengths :
       StoreFile(u, d, f, c, n)
  \/ \E u \in Users, d \in Paths : May("sfv") /\ StoreSfv(u, d)
  \/ WriterTakes
  \/ \E u \in Users : Hook(u) \/ VerifyOld(u)
  \/ \E t \in Threads : FindId(t) \/ KeepId(t) \/ WriteRows(t) \/ ReadVerified(t) \/ Replace(t)
                         \/ DeleteEntry(t) \/ MissEntry(t) \/ ClearPath(t)
  \/ Scan(Oper) \/ Sum(Oper) \/ Present(Oper)
  \/ DropPath(Oper) \/ Uncache(Oper) \/ Forget(Oper) \/ MoveRelease(Oper) \/ MoveWindow(Oper)
  \/ ResetWindow(Oper) \/ ScrubRelease(Oper)
  \/ \E d \in Paths, f \in races.files : (May("dele") /\ DeleteFile(d, f)) \/ (May("spoil") /\ Spoil(d, f))
  \/ \E d \in Paths, del \in BOOLEAN : May("rescan") /\ Rescan(d, del)
  \/ \E d \in Paths : May("rmd") /\ DeleteDir(d)
  \/ \E d, to \in Paths : May("rename") /\ RenameDir(d, to)
  \/ \E d \in Paths, u \in Users : May("scrub") /\ Scrub(d, u)
  \/ \E late \in SUBSET dirs, weak \in SUBSET {x \in Paths \X races.files : entries[x[1]][x[2]] # Nil} :
       May("restart") /\ Restart(late, weak)

RaceSpec == RaceInit /\ [][RaceNext]_recordVars

AtRest == records = <<>> /\ \A t \in Threads : todo[t] = <<>>

\* Racers keep their credit.  At rest, and leaving out the directories whose books
\* the code itself lets drift, the race database and the index name the same racer:
\* a listed file of a racer is present under that racer's name, and no file the
\* index lacks is counted present; through deletions, re-uploads, renames,
\* replacements by a complete release, rescans, scrubs and restarts.
CreditKept ==
  AtRest => \A d \in dirs \ loose, f \in Payloads :
    LET e == entries[d][f]
        row == Rows(db, d)[f]
    IN  /\ (e # Nil /\ e.by # Weak /\ f \in Listed)
             => (row # Nil /\ row.here /\ row.by = e.by)
        /\ (row # Nil /\ row.here)
             => (e # Nil /\ (e.by = Weak \/ row.by = Weak \/ row.by = e.by))

\* The announced duration covers every file of the release that the window was told
\* of, whatever the order of the hooks and wherever the release was moved to.
WindowCovers ==
  AtRest => \A d \in dirs \ loose, f \in Payloads :
    LET e == entries[d][f]
        w == window[d]
    IN  (e # Nil /\ e.noted) => (w # Nil /\ w.payload /\ w.start <= e.start /\ w.end >= e.end)
=============================================================================

------------------------------ MODULE Requests -----------------------------
(***************************************************************************)
(* The request plugin (plugins/request/handler.go): SITE REQUEST, REQFILL, *)
(* REQDEL and REQWIPE of several sessions.  A command reads the list of    *)
(* requests, works on the request's directory, and saves the list it has   *)
(* read with its change: into the meta data of the index, which is saved,  *)
(* and then into a state file.  Nothing locks the list.                    *)
(*                                                                         *)
(* Who asked for a request, and when, is left out; fills are counted       *)
(* nowhere.  A crash loses the meta data the index has not saved; the      *)
(* directories come back with the index.                                   *)
(***************************************************************************)
EXTENDS SiteTree

CONSTANTS Session, Request,
          ReqDir,     \* of each request: REQ-<request>
          FilledDir,  \* FILLED-<request>, FILLED-<request>.1 ...
          MaxRequests
ASSUME Session \subseteq Caller

VARIABLES list,       \* the requests in the meta data of the directory
          file,       \* the requests in the state file
          savedList,  \* the requests in the saved index
          session,    \* the SITE commands at work
          accepted,   \* history: requests that were accepted, until somebody begins to fill or delete them
          left        \* commands each session may still begin
requestVars == <<list, file, savedList, session, accepted, left>>

Quiet == [at |-> "quiet", verb |-> "none", q |-> None, entries |-> {}, todo |-> {}, slave |-> None]
RequestInit ==
  /\ list = may.list /\ file = may.list /\ savedList = may.list /\ accepted = may.list
  /\ session = [c \in Session |-> Quiet] /\ left = may.commands

HasDir(d) == index[d] # None
\* Mutant: directories that are not in the list are not looked for.
ListedOnly == list
\* loadRequests: directories that nobody listed are requests too.
Listed == list \cup {q \in Request : HasDir(ReqDir[q])}
Is(c, at) == session[c].at = at
Go(c, at) == session' = [session EXCEPT ![c].at = at]
Reply(c) == session' = [session EXCEPT ![c] = Quiet]
Same(vars) == UNCHANGED <<vars, treeVars>>

-----------------------------------------------------------------------------
(* How the commands begin.                                                 *)

Command(c, verb, q) ==
  /\ Is(c, "quiet") /\ verb \in may.verbs[c]
  /\ left[c] > 0 /\ left' = [left EXCEPT ![c] = @ - 1]
  /\ session' = [session EXCEPT ![c] =
                   [Quiet EXCEPT !.at = verb, !.verb = verb, !.q = q, !.entries = Listed]]
  /\ Same(<<list, file, savedList, accepted>>)

\* handleRequest.  A request that is there already is saved once more.
MkReqDir(c) == \E s \in may.storage : BeginMkDir(c, ReqDir[session[c].q], s)
RequestChecked(c) ==
  LET q == session[c].q IN
  /\ Is(c, "request")
  /\ IF q \notin session[c].entries /\ (HasDir(ReqDir[q]) \/ HasDir(FilledDir[q][1]) \/ Cardinality(session[c].entries) >= MaxRequests)
     THEN Reply(c) /\ UNCHANGED op
     ELSE IF may.dirs THEN MkReqDir(c) /\ Go(c, "made") ELSE Go(c, "add") /\ UNCHANGED op
  /\ UNCHANGED <<list, file, savedList, accepted, left, disk, index, uploads, owed, astray, may>>
DirMade(c, at, then) ==
  /\ Is(c, at) /\ Collect(c)
  /\ IF op[c].at = "ok" THEN Go(c, then) ELSE Reply(c)
  /\ UNCHANGED <<list, file, savedList, accepted, left, disk, index, uploads, owed, astray, may>>
Added(c) ==
  /\ Is(c, "add")
  /\ session' = [session EXCEPT ![c].entries = @ \cup {session[c].q}, ![c].at = "set"]
  /\ Same(<<list, file, savedList, accepted, left>>)

\* handleReqDel, handleReqWipe: an error of the delete is not looked at.
DeleteChecked(c) ==
  LET q == session[c].q IN
  /\ Is(c, "delete")
  /\ IF q \notin session[c].entries THEN Reply(c) /\ UNCHANGED <<op, accepted>>
     ELSE /\ accepted' = accepted \ {q}
          /\ IF HasDir(ReqDir[q]) THEN BeginDelete(c, ReqDir[q]) /\ Go(c, "gone") ELSE Go(c, "drop") /\ UNCHANGED op
  /\ UNCHANGED <<list, file, savedList, left, disk, index, uploads, owed, astray, may>>
DirDeleted(c) ==
  /\ Is(c, "gone") /\ Collect(c) /\ Go(c, "drop")
  /\ UNCHANGED <<list, file, savedList, accepted, left, disk, index, uploads, owed, astray, may>>
Dropped(c) ==
  /\ Is(c, "drop")
  /\ session' = [session EXCEPT ![c].entries = @ \ {session[c].q}, ![c].at = "set"]
  /\ Same(<<list, file, savedList, accepted, left>>)

-----------------------------------------------------------------------------
(* handleReqFill: what lies on other slaves than the directory is brought  *)
(* together, and the directory renamed.                                    *)

FillChecked(c) ==
  /\ Is(c, "fill")
  /\ IF session[c].q \notin session[c].entries THEN Reply(c) /\ UNCHANGED op
     ELSE IF may.dirs THEN MkReqDir(c) /\ Go(c, "repaired") ELSE Go(c, "gather") /\ UNCHANGED op
  /\ UNCHANGED <<list, file, savedList, accepted, left, disk, index, uploads, owed, astray, may>>
\* The entries of the tree are collected once.
Gather(c) ==
  LET d == ReqDir[session[c].q] IN
  /\ Is(c, "gather")
  /\ session' = [session EXCEPT ![c].at = "normalise", ![c].slave = index[d],
                   ![c].todo = IF HasDir(d) THEN {p \in Indexed(d) \ {d} : index[p] # index[d]} ELSE {}]
  /\ Same(<<list, file, savedList, accepted, left>>)
Normalise(c) ==
  /\ Is(c, "normalise") /\ session[c].todo # {}
  /\ \E p \in session[c].todo :
       /\ BeginRelocate(c, p, p, session[c].slave)
       /\ session' = [session EXCEPT ![c].at = "normalised", ![c].todo = @ \ {p}]
  /\ UNCHANGED <<list, file, savedList, accepted, left, disk, index, uploads, owed, astray, may>>
\* The directory is looked for again, under a name that is free.
Fill(c) ==
  LET q == session[c].q
      free == SelectSeq(FilledDir[q], LAMBDA d : ~HasDir(d))
  IN /\ Is(c, "normalise") /\ session[c].todo = {}
     /\ IF HasDir(ReqDir[q])
        THEN IF Indexed(ReqDir[q]) = {ReqDir[q]} THEN Reply(c) /\ UNCHANGED <<op, accepted>>
             ELSE /\ free # <<>> /\ BeginRename(c, ReqDir[q], free[1]) /\ Go(c, "filled")
                  /\ accepted' = accepted \ {q}
        ELSE IF may.dirs THEN Go(c, "drop") /\ accepted' = accepted \ {q} /\ UNCHANGED op
        ELSE /\ \E s \in may.storage : BeginMkDir(c, FilledDir[q][1], s)
             /\ Go(c, "filled") /\ accepted' = accepted \ {q}
     /\ UNCHANGED <<list, file, savedList, left, disk, index, uploads, owed, astray, may>>
\* Without the rename an error matters only if there is no such directory.
Filled(c) ==
  /\ Is(c, "filled") /\ Collect(c)
  /\ IF op[c].at = "ok" \/ (~HasDir(ReqDir[session[c].q]) /\ ~may.dirs /\ HasDir(FilledDir[session[c].q][1]))
     THEN Go(c, "drop") ELSE Reply(c)
  /\ UNCHANGED <<list, file, savedList, accepted, left, disk, index, uploads, owed, astray, may>>

-----------------------------------------------------------------------------
(* setRequestData, and restarts of the daemon.                             *)

SetList(c) ==
  /\ Is(c, "set") /\ list' = session[c].entries /\ Go(c, "store")
  /\ Same(<<file, savedList, accepted, left>>)
\* The bridge saves the index; an error is not looked at.
StoreList(c) ==
  /\ Is(c, "store") /\ Go(c, "file")
  /\ savedList' \in {list} \cup (IF "fail" \in may.faults THEN {savedList} ELSE {})
  /\ Same(<<list, file, accepted, left>>)
\* What is being filled or deleted at that time is not promised to anyone.
Lasting(q) ==
  /\ may.dirs => HasDir(ReqDir[q])
  /\ \A c \in Session : session[c].verb \in {"fill", "delete"} => session[c].q # q
SaveFile(c) ==
  LET s == session[c] IN
  /\ Is(c, "file") /\ file' = s.entries
  /\ IF s.verb = "fill" THEN Go(c, "record") ELSE Reply(c)
  /\ accepted' = IF s.verb = "request" /\ Lasting(s.q) THEN accepted \cup {s.q} ELSE accepted
  /\ Same(<<list, savedList, left>>)
SaveFails(c) ==
  /\ Is(c, "file") /\ "fail" \in may.faults /\ Reply(c)
  /\ Same(<<list, file, savedList, accepted, left>>)
\* recordFill, saveFillStats: the requests are saved again with the new fill.
RecordFill(c) ==
  /\ Is(c, "record")
  /\ session' = [session EXCEPT ![c].entries = list, ![c].verb = "record", ![c].at = "set"]
  /\ Same(<<list, file, savedList, accepted, left>>)

SaveIndex == savedList # list /\ savedList' = list /\ Same(<<list, file, session, accepted, left>>)
\* hydrateRequestState merges the state file and the index, and saves what it has.
Restart ==
  /\ "restart" \in may.faults /\ uploads = {} /\ \A c \in Caller : op[c].at = "free"
  /\ list' = file \cup savedList
  /\ file' = list' /\ savedList' = savedList
  /\ session' = [c \in Session |-> Quiet]
  /\ UNCHANGED <<accepted, left, treeVars>>

RequestNext ==
  \/ \E c \in Session, q \in Request : \E verb \in {"request", "fill", "delete"} : Command(c, verb, q)
  \/ \E c \in Session :
       \/ RequestChecked(c) \/ DirMade(c, "made", "add") \/ Added(c)
       \/ DeleteChecked(c) \/ DirDeleted(c) \/ Dropped(c)
       \/ FillChecked(c) \/ DirMade(c, "repaired", "gather") \/ Gather(c) \/ Normalise(c)
       \/ DirMade(c, "normalised", "normalise") \/ Fill(c) \/ Filled(c)
       \/ SetList(c) \/ StoreList(c) \/ SaveFile(c) \/ SaveFails(c) \/ RecordFill(c)
  \/ SaveIndex \/ Restart

RequestTypeOK ==
  /\ {list, file, savedList, accepted} \subseteq SUBSET Request
  /\ \A c \in Session : session[c].q \in Request \cup {None} /\ session[c].entries \subseteq Request

\* A request that was accepted is listed until somebody begins to fill or to delete it,
\* whatever other sessions save meanwhile, and after a crash (README.md, request plugin;
\* loadRequests, mergeRequestDirs, hydrateRequestState).
AcceptedIsListed == accepted \subseteq Listed
=============================================================================

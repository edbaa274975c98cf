------------------------------ MODULE Routing ------------------------------
(***************************************************************************)
(* Which slave gets what: the policies of the slaves, the choice of one    *)
(* for a directory, an upload, a file of the daemon, a resume or a delete, *)
(* and the index entry that remembers it (internal/master/bridge.go,       *)
(* slave_manager.go; MKD, STOR, DELE and RMD of internal/core/commands.go).*)
(*                                                                         *)
(* A session looks at the index, chooses a slave, asks it and enters the   *)
(* result, while others do the same, slaves go and come back and SITE      *)
(* REHASH replaces the policies.  Which eligible slave is the least busy   *)
(* is left open: transfers of others decide it.                            *)
(*                                                                         *)
(* A path is a sequence of names, the first of them its section.  Sections *)
(* are protected directories: their entries belong to no slave.            *)
(***************************************************************************)
EXTENDS Naturals, SequencesExt

CONSTANTS
  Slave, None, Nobody,
  Tree, DirPath,      \* all paths, and those of directories
  Client,
  MaxTasks,           \* bound: operations begun
  RouteSettings       \* policies before and after SITE REHASH, what lies where at first

\* A path is not empty, what begins it is a directory, and a file is in one.
PathsAreATree ==
  /\ DirPath \subseteq Tree /\ Tree \subseteq Seq(UNION {Range(p) : p \in Tree})
  /\ \A p \in Tree : Len(p) > 0 /\ \A n \in 1..Len(p) - 1 : SubSeq(p, 1, n) \in DirPath
  /\ \A p \in Tree \ DirPath : Len(p) > 1

\* What lies on a slave at first lies in its directories.
SettingsTyped ==
  \A x \in RouteSettings :
    /\ x.lies \in [Slave -> SUBSET Tree] /\ x.ops \subseteq {"mkd", "stor", "resume", "write", "delete"}
    /\ \A s \in Slave : \A p \in x.lies[s] : {d \in DirPath : IsStrictPrefix(d, p)} \subseteq x.lies[s]

ASSUME RoutingAssumption ==
  /\ PathsAreATree /\ SettingsTyped
  /\ None \notin Slave /\ Nobody \notin Slave /\ None # Nobody
  /\ MaxTasks \in Nat

VARIABLES
  site,       \* the setting, fixed from the start
  policy,     \* sm.policies: of each slave its mount, its sections and whether it is read-only
  available,  \* slaves that are online and merged
  lies,       \* what lies on each slave
  entry,      \* the owner of each entry of the index: None without one, Nobody of a section
  task,       \* what is done for each client
  begun,      \* operations so far
  shaken      \* history: releases whose owner went or changed, or that two sessions made
routeVars == <<site, policy, available, lies, entry, task, begun, shaken>>

Section == {p \in DirPath : Len(p) = 1}
Release == {p \in DirPath : Len(p) = 2}
Above == [p \in Tree |-> {d \in DirPath : IsStrictPrefix(d, p)}]
Below == [d \in Tree |-> {p \in Tree : IsPrefix(d, p)}]
ReleaseOf(p) == SubSeq(p, 1, 2)
Waiting == [at |-> "free", op |-> "mkd", goal |-> <<>>, path |-> <<>>, on |-> None, was |-> None]

RouteTypeOK ==
  /\ site \in RouteSettings /\ available \subseteq Slave
  /\ lies \in [Slave -> SUBSET Tree]
  /\ entry \in [Tree -> Slave \cup {None, Nobody}]
  /\ \A c \in Client :
       /\ task[c].at \in {"free", "look", "choose", "ask", "enter"}
       /\ task[c].op \in {"mkd", "stor", "resume", "write", "delete"}
       /\ task[c].on \in Slave \cup {None, Nobody}
  /\ begun \in 0..MaxTasks /\ shaken \subseteq Tree

RouteInit ==
  /\ site \in RouteSettings
  /\ policy = site.before
  /\ available = Slave
  /\ lies = [s \in Slave |-> site.lies[s] \cup IF site.before[s].readOnly THEN {} ELSE Section]
  /\ entry = [p \in Tree |-> IF p \in Section THEN Nobody
                             ELSE IF \E s \in Slave : p \in site.lies[s]
                             THEN CHOOSE s \in Slave : p \in site.lies[s] ELSE None]
  /\ task = [c \in Client |-> Waiting] /\ begun = 0 /\ shaken = {}

-----------------------------------------------------------------------------
(* The policies.                                                           *)

ReadOnly(s) == policy[s].readOnly
CanStore(s, p) == IsPrefix(policy[s].mount, p)
Accepts(s, p) == policy[s].sections = {} \/ p[1] \in policy[s].sections
Owner(p) == entry[p] \in Slave
Writable(s, p) == s \in available /\ ~ReadOnly(s) /\ CanStore(s, p)

\* The owner of the nearest directory above that may be written to.
Ancestors(p) == {d \in Above[p] : IF Owner(d) THEN Writable(entry[d], p) ELSE FALSE}
OwnedAncestor(p) ==
  {entry[d] : d \in {a \in Ancestors(p) : \A b \in Ancestors(p) : Len(b) <= Len(a)}}

\* Mutant: when no policy accepts it, any slave that is there.
EligibleAnywhere(p) ==
  LET writable == {s \in Slave : Writable(s, p)}
      accepting == {s \in writable : Accepts(s, p)}
  IN IF accepting = {} THEN {s \in available : CanStore(s, p)} ELSE accepting

Eligible(p) ==
  LET writable == {s \in Slave : Writable(s, p)}
      accepting == {s \in writable : Accepts(s, p)}
  IN IF accepting = {} THEN writable ELSE accepting

\* Mutant: the least busy slave, wherever the release lies.
LeastBusy(p) == Eligible(p)
SelectSlaveForUpload(p) == IF OwnedAncestor(p) # {} THEN OwnedAncestor(p) ELSE Eligible(p)

\* MakeDir: the parent's owner.
SlaveForDir(p) ==
  LET d == Front(p) IN
  IF IF d \in Tree THEN Owner(d) /\ entry[d] \in available /\ ~ReadOnly(entry[d]) ELSE FALSE
  THEN {entry[d]} ELSE SelectSlaveForUpload(p)

\* SelectSlaveForDownload, also of a resumed upload.
OwnerThatIsThere(p) == {entry[p]} \cap available

\* resolveOwningSlave: the owner of an entry, unless it is read-only or away.
Owning(p) == {s \in OwnerThatIsThere(p) : ~ReadOnly(s)}
\* selectWritableSlaveForCreate: the owner of the entry or of its directory, who has to
\* be there.  Mutant: an owner that is away is passed over.
SlaveForFile(p) ==
  LET d == Front(p)
      Fits(q) == {s \in Owning(q) : CanStore(s, p)}
      asked == IF Owner(p) THEN p ELSE IF Owner(d) THEN d ELSE <<>>
  IN IF asked = <<>> THEN SelectSlaveForUpload(p)
     ELSE IF Owning(asked) = {} THEN {}
     ELSE IF Fits(asked) # {} THEN Fits(asked)
     ELSE IF asked = p /\ Fits(d) # {} THEN Fits(d) ELSE SelectSlaveForUpload(p)

-----------------------------------------------------------------------------
(* The operations of the sessions.                                         *)

To(c, at) == task' = [task EXCEPT ![c].at = at]
Ends(c) == task' = [task EXCEPT ![c] = Waiting]
\* reserveUploadPath, activeUploadForPath.
IsUploaded(p) ==
  \E c \in Client : task[c].at \notin {"free", "look"} /\ task[c].op \in {"stor", "resume"} /\ task[c].path = p

\* MKD wants no entry, a resume and a delete want one; files of the daemon are written
\* over what is there.
Wanted(op) ==
  CASE op = "mkd" -> {p \in DirPath : entry[p] = None}
    [] op = "stor" -> Tree \ DirPath
    [] op = "resume" -> {p \in Tree \ DirPath : Owner(p)}
    [] op = "write" -> Tree \ DirPath
    [] op = "delete" -> {p \in Tree : Owner(p)}

Begin(c, op, p) ==
  /\ task[c].at = "free" /\ begun < MaxTasks
  /\ op \in site.ops /\ p \in Wanted(op) /\ ~IsUploaded(p)
  /\ task' = [task EXCEPT ![c] = [at |-> IF op = "stor" THEN "look" ELSE "choose", op |-> op,
                                  goal |-> p, path |-> p, on |-> None, was |-> None]]
  /\ begun' = begun + 1
  /\ UNCHANGED <<site, policy, available, lies, entry, shaken>>

\* ensureUploadDirsForEvent makes the directories above an upload, one after the other;
\* then STOR wants no entry either.
Looks(c) ==
  LET t == task[c]
      absent == {d \in Above[t.goal] : entry[d] = None}
      first == {d \in absent : \A e \in absent : Len(d) <= Len(e)}
  IN /\ t.at = "look"
     /\ \E next \in IF absent = {} THEN {t.goal} ELSE first :
          IF next = t.goal /\ (entry[t.goal] # None \/ IsUploaded(t.goal)) THEN Ends(c)
          ELSE task' = [task EXCEPT ![c].at = "choose", ![c].path = next]
     /\ UNCHANGED <<site, policy, available, lies, entry, begun, shaken>>

SlavesFor(t) ==
  IF t.path \in DirPath /\ t.op # "delete" THEN SlaveForDir(t.path)
  ELSE CASE t.op = "stor" -> SelectSlaveForUpload(t.path)
         [] t.op = "resume" -> OwnerThatIsThere(t.path)
         [] t.op = "write" -> SlaveForFile(t.path)
         [] t.op = "delete" -> Owning(t.path)

Chooses(c) ==
  LET t == task[c] IN
  /\ t.at = "choose"
  /\ IF SlavesFor(t) = {} THEN Ends(c)
     ELSE \E s \in SlavesFor(t) : task' = [task EXCEPT ![c].at = "ask", ![c].on = s,
                                                 ![c].was = entry[ReleaseOf(t.path)]]
  /\ UNCHANGED <<site, policy, available, lies, entry, begun, shaken>>

\* The slave makes the directories above what it makes; it removes those that become
\* empty, which is of no account here.
Asks(c) ==
  LET t == task[c] IN
  /\ t.at = "ask" /\ t.on \in available
  /\ lies' = [lies EXCEPT ![t.on] = IF t.op = "delete" THEN @ \ Below[t.path]
                                    ELSE @ \cup {t.path} \cup Above[t.path]]
  /\ To(c, "enter")
  /\ UNCHANGED <<site, policy, available, entry, begun, shaken>>

\* The slave is gone or refuses; what failed of an upload is its directories.
IsRefused(c) ==
  LET t == task[c] IN
  /\ t.at = "ask"
  /\ IF t.op = "stor" /\ t.path = t.goal /\ t.on \in available
     THEN lies' = [lies EXCEPT ![t.on] = @ \cup Above[t.path]] ELSE UNCHANGED lies
  /\ Ends(c)
  /\ UNCHANGED <<site, policy, available, entry, begun, shaken>>

\* Bridge.MakeDir, UploadFile, WriteFile and DeleteFile end in the index, where
\* directories that are missing above an entry get its slave.
Enters(c) ==
  LET t == task[c]
      r == ReleaseOf(t.path)
      new == {t.path} \cup {d \in Above[t.path] : entry[d] = None}
  IN /\ t.at = "enter"
     /\ entry' = [p \in Tree |-> IF t.op = "delete" THEN IF p \in Below[t.path] THEN None ELSE entry[p]
                                 ELSE IF p \in new THEN t.on ELSE entry[p]]
     /\ shaken' = IF /\ t.op # "delete"
                     /\ \/ entry[r] # t.was
                        \/ t.on \notin available
                        \/ t.path = r /\ entry[r] # None
                  THEN shaken \cup {r} ELSE shaken
     /\ IF t.op = "stor" /\ t.path # t.goal THEN To(c, "look") ELSE Ends(c)
     /\ UNCHANGED <<site, policy, available, lies, begun>>

-----------------------------------------------------------------------------
(* Slaves and policies.                                                    *)

\* SetOffline, ClearSlave: its entries go; directories above entries of others come
\* back in the name of one of those.
Goes(s) ==
  /\ s \in site.goes \cap available
  /\ available' = available \ {s}
  /\ LET gone == {p \in Tree : entry[p] = s}
         heirs == [d \in gone |-> {entry[p] : p \in Below[d]} \ {s, None}]
         heir(e, d) == IF heirs[d] = {} THEN e = None ELSE e \in heirs[d]
     IN /\ \E new \in [gone -> Slave \cup {None}] :
             /\ \A d \in gone : heir(new[d], d)
             /\ entry' = [p \in Tree |-> IF p \in gone THEN new[p] ELSE entry[p]]
        /\ shaken' = shaken \cup (gone \cap Release)
  /\ UNCHANGED <<site, policy, lies, task, begun>>

\* Its remerge enters what it has; the sections are made on it, but on no archive.
Returns(s) ==
  /\ s \notin available
  /\ available' = available \cup {s}
  /\ entry' = [p \in Tree |-> IF p \in lies[s] \ Section THEN s ELSE entry[p]]
  /\ lies' = [lies EXCEPT ![s] = IF ReadOnly(s) THEN @ ELSE @ \cup Section]
  /\ shaken' = shaken \cup {r \in Release \cap lies[s] : entry[r] \notin {None, s}}
  /\ UNCHANGED <<site, policy, task, begun>>

\* SITE REHASH: SetSlavePolicies.
Rehash ==
  /\ policy = site.before /\ site.after # site.before
  /\ policy' = site.after
  /\ shaken' = shaken \cup {r \in Release : Owner(r) /\ (ReadOnly(entry[r]) \/ site.after[entry[r]].readOnly)}
  /\ UNCHANGED <<site, available, lies, entry, task, begun>>

RouteNext ==
  \/ \E c \in Client :
       \/ \E op \in site.ops, p \in Tree : Begin(c, op, p)
       \/ Looks(c) \/ Chooses(c) \/ Asks(c) \/ IsRefused(c) \/ Enters(c)
  \/ \E s \in Slave : Goes(s) \/ Returns(s)
  \/ Rehash

RouteSpec == RouteInit /\ [][RouteNext]_routeVars

-----------------------------------------------------------------------------
(* Properties.                                                             *)

\* A release is renamed, moved, deleted and checked where its directory is said to be
\* (RenameFile, slave_manager.go:2490): what is uploaded and written to one stays on the
\* slave of its directory, whatever policies, load and other sessions say, unless that
\* slave went or became an archive, or the directory changed under a session at work.
StaysTogether ==
  \A p \in Tree :
    LET r == ReleaseOf(p) IN
    Len(p) > 2 /\ Owner(p) /\ r \notin shaken
      => Owner(r) /\ (entry[p] = entry[r] \/ ReadOnly(entry[r]))

\* slave_manager.go:2446 "Read-only archive slaves must never receive uploads": nothing
\* is made on one, nor deleted, by whichever way a slave is chosen.
ArchiveStays ==
  \A s \in Slave : site.before[s].readOnly /\ site.after[s].readOnly => lies[s] = site.lies[s]

\* Every choice of a slave keeps to both, in whatever order sessions make and use it.
WellPlaced == StaysTogether /\ ArchiveStays
=============================================================================

------------------------------ MODULE SiteUser ------------------------------
(***************************************************************************)
(* Accounts: the user files, the passwd file, the store of deleted users    *)
(* and the two group tables, under the SITE commands that change them and   *)
(* under sessions whose transfers count on the same user files.             *)
(*                                                                          *)
(* Every file is written by a temporary file and a rename, the user files   *)
(* under the lock of their name and the passwd and group files under one    *)
(* lock, so each write is one step; but a command is several of them, and   *)
(* undoes the earlier ones when a later one fails.  Any write of the passwd *)
(* or group file may fail.                                                  *)
(***************************************************************************)
EXTENDS UserFile

CONSTANTS Session,      \* FTP sessions that transfer
          Admin,        \* FTP sessions of siteops that run SITE commands
          NewUser,      \* what createUserFromArgs makes of the template of new users
          MaxCommands, MaxFaults, MaxTransfers      \* bounds of a run

ASSUME SiteUserAssumption == /\ NewUser \in User
                             /\ MaxCommands \in Nat /\ MaxFaults \in Nat /\ MaxTransfers \in Nat

VARIABLES passwd,       \* [Name -> a hash or None]: etc/passwd
          stash,        \* [Name -> User or None]: etc/users/.deleted/<name>
          saved,        \* [Name -> a hash or None]: etc/users/.deleted/<name>.passwd
          etcGroup,     \* the names of etc/group
          groupCfg,     \* the names of etc/groups
          groupMap,     \* [Admin -> names]: what the admin's session read of etc/group
          sess,         \* [Session -> None or what the session holds]
          cmd,          \* [Admin -> None or the running command]
          left          \* how many commands, faults and transfers are left

accountVars == <<file, passwd, stash, saved, etcGroup, groupCfg, groupMap, sess, cmd, left>>

Hash == {"old", "new"}

Command == [op : {"adduser", "deluser", "readd", "renuser", "chpass", "edit", "ips", "grpadd", "grpdel"},
            at : {"hash", "save", "rename", "passwd", "remove", "unsave", "group"},
            n : Name, m : Name \cup Group, u : User \cup {None}, h : Hash]

SiteTypeOK ==
  /\ FileTypeOK
  /\ passwd \in [Name -> Hash \cup {None}]
  /\ saved \in [Name -> Hash \cup {None}]
  /\ stash \in [Name -> User \cup {None}]
  /\ etcGroup \subseteq Group /\ groupCfg \subseteq Group
  /\ groupMap \in [Admin -> SUBSET Group]
  /\ sess \in [Session -> [name : Name, u : User, in : BOOLEAN] \cup {None}]
  /\ cmd \in [Admin -> Command \cup {None}]
  /\ left \in [cmds : 0 .. MaxCommands, faults : 0 .. MaxFaults, xfers : 0 .. MaxTransfers]

-----------------------------------------------------------------------------
(* Sessions *)

LoggedIn(s) == sess[s] # None /\ sess[s].in

\* USER loads the session's own copy of the user file.
UserCmd(s, n) ==
  /\ ~LoggedIn(s)
  /\ file[n] # None
  /\ sess' = [sess EXCEPT ![s] = [name |-> n, u |-> file[n], in |-> FALSE]]
  /\ UNCHANGED <<file, passwd, stash, saved, etcGroup, groupCfg, groupMap, cmd, left>>

\* PASS accepts a name that has a passwd entry.
PassCmd(s) ==
  /\ sess[s] # None /\ ~LoggedIn(s)
  /\ passwd[sess[s].name] # None
  /\ sess' = [sess EXCEPT ![s].in = TRUE]
  /\ UNCHANGED <<file, passwd, stash, saved, etcGroup, groupCfg, groupMap, cmd, left>>

\* A transfer ends and is counted: on the file as it is now, or on the copy
\* the session holds.  A download began with enough credits in that copy.
CountTransfer(s, bytes, upload) ==
  LET n == sess[s].name
      u == Counted(n, sess[s].u, bytes, upload) IN
  /\ file' = Written(n, u)
  /\ sess' = [sess EXCEPT ![s].u = Refreshed(@, u)]

Transfer(s) ==
  /\ LoggedIn(s)
  /\ left.xfers > 0
  /\ \/ CountTransfer(s, 1, TRUE)
     \/ HasEnoughCredits(sess[s].u, 1) /\ CountTransfer(s, 1, FALSE)
  /\ left' = [left EXCEPT !.xfers = @ - 1]
  /\ UNCHANGED <<passwd, stash, saved, etcGroup, groupCfg, groupMap, cmd>>

-----------------------------------------------------------------------------
(* Commands: how one begins, goes on and ends *)

Begin(a, op, at, n, m, u, h) ==
  /\ cmd[a] = None
  /\ left.cmds > 0
  /\ cmd' = [cmd EXCEPT ![a] = [op |-> op, at |-> at, n |-> n, m |-> m, u |-> u, h |-> h]]
  /\ left' = [left EXCEPT !.cmds = @ - 1]

Runs(a, op, at) == cmd[a] # None /\ cmd[a].op = op /\ cmd[a].at = at
GoesTo(a, at) == cmd' = [cmd EXCEPT ![a].at = at]
Ends(a) == cmd' = [cmd EXCEPT ![a] = None]

\* A write of the passwd or the group file fails.
Fault == left.faults > 0 /\ left' = [left EXCEPT !.faults = @ - 1]

-----------------------------------------------------------------------------
(* ADDUSER and GADDUSER *)

\* LoadUser failed: the name is free.
AddUser(a, n) ==
  /\ file[n] = None
  /\ Begin(a, "adduser", "save", n, n, NewUser, "new")
  /\ UNCHANGED <<file, passwd, stash, saved, etcGroup, groupCfg, groupMap, sess>>

\* The group must exist: a group the session has not read is looked up again.
GAddUser(a, n, g) ==
  /\ g \in groupMap[a] \cup etcGroup
  /\ groupMap' = [groupMap EXCEPT ![a] = @ \cup {g}]
  /\ file[n] = None
  /\ Begin(a, "adduser", "save", n, n,
           [NewUser EXCEPT !.primary = g, !.groups = {g}], "new")
  /\ UNCHANGED <<file, passwd, stash, saved, etcGroup, groupCfg, sess>>

AddUserSaves(a) ==
  LET n == cmd[a].n IN
  /\ Runs(a, "adduser", "save")
  /\ file' = Written(n, cmd[a].u)
  /\ IF Saves(n, cmd[a].u) THEN GoesTo(a, "passwd") ELSE Ends(a)
  /\ UNCHANGED <<passwd, stash, saved, etcGroup, groupCfg, groupMap, sess, left>>

\* Mutant: the user file stays when the passwd entry could not be written.
AddUserKeepsFile(a) ==
  /\ Runs(a, "adduser", "passwd")
  /\ \/ passwd' = [passwd EXCEPT ![cmd[a].n] = "new"] /\ UNCHANGED left
     \/ Fault /\ UNCHANGED passwd
  /\ Ends(a)
  /\ UNCHANGED <<file, stash, saved, etcGroup, groupCfg, groupMap, sess>>

AddUserWritesPasswd(a) ==
  LET n == cmd[a].n IN
  /\ Runs(a, "adduser", "passwd")
  /\ \/ passwd' = [passwd EXCEPT ![n] = "new"] /\ UNCHANGED <<file, left>>
     \/ Fault /\ file' = [file EXCEPT ![n] = None] /\ UNCHANGED passwd
  /\ Ends(a)
  /\ UNCHANGED <<stash, saved, etcGroup, groupCfg, groupMap, sess>>

-----------------------------------------------------------------------------
(* DELUSER and READD *)

DelUser(a, n) ==
  /\ file[n] # None
  /\ Begin(a, "deluser", "hash", n, n, None, "old")
  /\ UNCHANGED <<file, passwd, stash, saved, etcGroup, groupCfg, groupMap, sess>>

DelUserKeepsHash(a) ==
  LET n == cmd[a].n IN
  /\ Runs(a, "deluser", "hash")
  /\ saved' = [saved EXCEPT ![n] = IF passwd[n] # None THEN passwd[n] ELSE @]
  /\ GoesTo(a, "rename")
  /\ UNCHANGED <<file, passwd, stash, etcGroup, groupCfg, groupMap, sess, left>>

DelUserRenames(a) ==
  LET n == cmd[a].n IN
  /\ Runs(a, "deluser", "rename")
  /\ IF file[n] # None
     THEN /\ stash' = [stash EXCEPT ![n] = file[n]]
          /\ file' = [file EXCEPT ![n] = None]
          /\ GoesTo(a, "passwd")
     ELSE Ends(a) /\ UNCHANGED <<stash, file>>
  /\ UNCHANGED <<passwd, saved, etcGroup, groupCfg, groupMap, sess, left>>

\* os.Rename replaces the file it finds.
StashReturns(n) ==
  IF stash[n] = None THEN UNCHANGED <<file, stash>>
  ELSE file' = [file EXCEPT ![n] = stash[n]] /\ stash' = [stash EXCEPT ![n] = None]

DelUserRemovesPasswd(a) ==
  LET n == cmd[a].n IN
  /\ Runs(a, "deluser", "passwd")
  /\ \/ passwd' = [passwd EXCEPT ![n] = None] /\ UNCHANGED <<file, stash, left>>
     \/ Fault /\ StashReturns(n) /\ UNCHANGED passwd
  /\ Ends(a)
  /\ UNCHANGED <<saved, etcGroup, groupCfg, groupMap, sess>>

\* With no kept hash, READD needs a new password as its argument.
ReAdd(a, n) ==
  /\ file[n] = None /\ stash[n] # None
  /\ \E h \in Hash :
       /\ h = IF saved[n] # None THEN saved[n] ELSE "new"
       /\ Begin(a, "readd", "rename", n, n, None, h)
  /\ UNCHANGED <<file, passwd, stash, saved, etcGroup, groupCfg, groupMap, sess>>

ReAddRenames(a) ==
  LET n == cmd[a].n IN
  /\ Runs(a, "readd", "rename")
  /\ StashReturns(n)
  /\ IF stash[n] # None THEN GoesTo(a, "passwd") ELSE Ends(a)
  /\ UNCHANGED <<passwd, saved, etcGroup, groupCfg, groupMap, sess, left>>

ReAddWritesPasswd(a) ==
  LET n == cmd[a].n IN
  /\ Runs(a, "readd", "passwd")
  /\ \/ /\ passwd' = [passwd EXCEPT ![n] = cmd[a].h]
        /\ GoesTo(a, "unsave")
        /\ UNCHANGED <<file, stash, left>>
     \/ /\ Fault
        /\ IF file[n] = None THEN UNCHANGED <<file, stash>>
           ELSE file' = [file EXCEPT ![n] = None] /\ stash' = [stash EXCEPT ![n] = file[n]]
        /\ Ends(a) /\ UNCHANGED passwd
  /\ UNCHANGED <<saved, etcGroup, groupCfg, groupMap, sess>>

ReAddForgetsHash(a) ==
  /\ Runs(a, "readd", "unsave")
  /\ saved' = [saved EXCEPT ![cmd[a].n] = None]
  /\ Ends(a)
  /\ UNCHANGED <<file, passwd, stash, etcGroup, groupCfg, groupMap, sess, left>>

-----------------------------------------------------------------------------
(* RENUSER *)

RenUser(a, n, m) ==
  /\ file[n] # None /\ file[m] = None
  /\ Begin(a, "renuser", "save", n, m, file[n], "old")
  /\ UNCHANGED <<file, passwd, stash, saved, etcGroup, groupCfg, groupMap, sess>>

RenUserSaves(a) ==
  LET m == cmd[a].m IN
  /\ Runs(a, "renuser", "save")
  /\ file' = Written(m, cmd[a].u)
  /\ IF Saves(m, cmd[a].u) THEN GoesTo(a, "passwd") ELSE Ends(a)
  /\ UNCHANGED <<passwd, stash, saved, etcGroup, groupCfg, groupMap, sess, left>>

\* RenameUserInPasswd: the old entry must be there, the new one must not.
PasswdRenames(n, m) == passwd[n] # None /\ passwd[m] = None
PasswdRenamed(n, m) == [passwd EXCEPT ![m] = passwd[n], ![n] = None]

RenUserRenamesPasswd(a) ==
  LET n == cmd[a].n
      m == cmd[a].m IN
  /\ Runs(a, "renuser", "passwd")
  /\ \/ /\ PasswdRenames(n, m)
        /\ passwd' = PasswdRenamed(n, m)
        /\ GoesTo(a, "remove")
        /\ UNCHANGED <<file, left>>
     \/ /\ IF PasswdRenames(n, m) THEN Fault ELSE UNCHANGED left
        /\ file' = [file EXCEPT ![m] = None]
        /\ Ends(a) /\ UNCHANGED passwd
  /\ UNCHANGED <<stash, saved, etcGroup, groupCfg, groupMap, sess>>

\* When the old file is already gone, the renaming is undone.
RenUserRemoves(a) ==
  LET n == cmd[a].n
      m == cmd[a].m IN
  /\ Runs(a, "renuser", "remove")
  /\ IF file[n] # None
     THEN file' = [file EXCEPT ![n] = None] /\ UNCHANGED passwd
     ELSE /\ passwd' = IF PasswdRenames(m, n) THEN PasswdRenamed(m, n) ELSE passwd
          /\ file' = [file EXCEPT ![m] = None]
  /\ Ends(a)
  /\ UNCHANGED <<stash, saved, etcGroup, groupCfg, groupMap, sess, left>>

-----------------------------------------------------------------------------
(* CHPASS, and the commands that load a user, change it and save it *)

ChPass(a, n) ==
  /\ file[n] # None
  /\ Begin(a, "chpass", "passwd", n, n, None, "new")
  /\ UNCHANGED <<file, passwd, stash, saved, etcGroup, groupCfg, groupMap, sess>>

ChPassWrites(a) ==
  /\ Runs(a, "chpass", "passwd")
  /\ \/ passwd' = [passwd EXCEPT ![cmd[a].n] = "new"] /\ UNCHANGED left
     \/ Fault /\ UNCHANGED passwd
  /\ Ends(a)
  /\ UNCHANGED <<file, stash, saved, etcGroup, groupCfg, groupMap, sess>>

ChRatio(u) == {[u EXCEPT !.ratio = r] : r \in 0 .. 1}

\* FLAGS, TAGLINE, CHNUMLOGINS, CHMAXSIM, CHWKLYALLOTMENT, CHUPLOADSLOTS,
\* CHDOWNLOADSLOTS, GROUPSLOTS.
ChPlain(u) == {[u EXCEPT !.tag = 1 - @]}

\* CHGRP toggles memberships, and promotes another group when the primary one
\* goes: an added one if there is one.
ChGrp(u, known) ==
  UNION {LET added == toggled \ u.groups
             next == (u.groups \ toggled) \cup added
             primaries == IF u.primary = "" \/ u.primary \in next THEN {u.primary}
                          ELSE IF added # {} THEN added ELSE next IN
         IF added \subseteq known
         THEN {[u EXCEPT !.groups = next, !.gadmin = @ \ toggled, !.primary = p] : p \in primaries}
         ELSE {} : toggled \in SUBSET Group \ {{}}}

ChPGrp(u, known) ==
  {LET drop == IF g = "NoGroup" THEN {} ELSE {"NoGroup"} IN
   [u EXCEPT !.primary = g, !.groups = (@ \cup {g}) \ drop, !.gadmin = @ \ (drop \cup {g})] : g \in known}

\* GADMIN toggles the admin mark of a group the user is in.
GAdmin(u, known) ==
  {[u EXCEPT !.groups = @ \cup {g},
             !.gadmin = IF g \in @ THEN @ \ {g} ELSE @ \cup {g}]
     : g \in known \cap (u.groups \cup {u.primary})}

Edits(u, known) == ChRatio(u) \cup ChPlain(u) \cup ChGrp(u, known) \cup ChPGrp(u, known) \cup GAdmin(u, known)

Edit(a, n) ==
  /\ file[n] # None
  /\ \E u \in Edits(file[n], groupMap[a]) : Begin(a, "edit", "save", n, n, u, "old")
  /\ UNCHANGED <<file, passwd, stash, saved, etcGroup, groupCfg, groupMap, sess>>

EditSaves(a) ==
  /\ Runs(a, "edit", "save")
  /\ file' = Written(cmd[a].n, cmd[a].u)
  /\ Ends(a)
  /\ UNCHANGED <<passwd, stash, saved, etcGroup, groupCfg, groupMap, sess, left>>

\* ADDIP, DELIP and SELFIP write the masks of their copy into the file as it
\* is when they hold its lock, whatever masks it had.
ChIps(a, n) ==
  /\ file[n] # None
  /\ \E ips \in SUBSET Ip :
       Begin(a, "ips", "save", n, n, [file[n] EXCEPT !.ips = ips], "old")
  /\ UNCHANGED <<file, passwd, stash, saved, etcGroup, groupCfg, groupMap, sess>>

SaveIpsOnly(a) ==
  LET n == cmd[a].n IN
  /\ Runs(a, "ips", "save")
  /\ file' = IF file[n] = None THEN file ELSE [file EXCEPT ![n].ips = cmd[a].u.ips]
  /\ Ends(a)
  /\ UNCHANGED <<passwd, stash, saved, etcGroup, groupCfg, groupMap, sess, left>>

-----------------------------------------------------------------------------
(* GRPADD and GRPDEL *)

GrpAdd(a, g) ==
  /\ g \notin groupMap[a] \cup etcGroup \cup groupCfg
  /\ Begin(a, "grpadd", "save", CHOOSE n \in Name : TRUE, g, None, "old")
  /\ UNCHANGED <<file, passwd, stash, saved, etcGroup, groupCfg, groupMap, sess>>

GrpAddSaves(a) ==
  /\ Runs(a, "grpadd", "save")
  /\ groupCfg' = groupCfg \cup {cmd[a].m}
  /\ GoesTo(a, "group")
  /\ UNCHANGED <<file, passwd, stash, saved, etcGroup, groupMap, sess, left>>

GrpAddWritesGroup(a) ==
  LET g == cmd[a].m IN
  /\ Runs(a, "grpadd", "group")
  /\ \/ /\ etcGroup' = etcGroup \cup {g}
        /\ groupMap' = [groupMap EXCEPT ![a] = @ \cup {g}]
        /\ UNCHANGED <<groupCfg, left>>
     \/ Fault /\ groupCfg' = groupCfg \ {g} /\ UNCHANGED <<etcGroup, groupMap>>
  /\ Ends(a)
  /\ UNCHANGED <<file, passwd, stash, saved, sess>>

Members(g) == {n \in Name : file[n] # None /\ (file[n].primary = g \/ g \in file[n].groups)}

GrpDel(a, g) ==
  /\ g \in groupMap[a] \cup etcGroup \cup groupCfg
  /\ Members(g) = {}
  /\ Begin(a, "grpdel", "remove", CHOOSE n \in Name : TRUE, g, None, IF g \in groupCfg THEN "old" ELSE "new")
  /\ UNCHANGED <<file, passwd, stash, saved, etcGroup, groupCfg, groupMap, sess>>

GrpDelRemoves(a) ==
  /\ Runs(a, "grpdel", "remove")
  /\ groupCfg' = groupCfg \ {cmd[a].m}
  /\ GoesTo(a, "group")
  /\ UNCHANGED <<file, passwd, stash, saved, etcGroup, groupMap, sess, left>>

\* The group's file is put back when etc/group cannot be written.
GrpDelWritesGroup(a) ==
  LET g == cmd[a].m IN
  /\ Runs(a, "grpdel", "group")
  /\ \/ /\ etcGroup' = etcGroup \ {g}
        /\ groupMap' = [groupMap EXCEPT ![a] = @ \ {g}]
        /\ UNCHANGED <<groupCfg, left>>
     \/ /\ Fault
        /\ groupCfg' = IF cmd[a].h = "old" THEN groupCfg \cup {g} ELSE groupCfg
        /\ UNCHANGED <<etcGroup, groupMap>>
  /\ Ends(a)
  /\ UNCHANGED <<file, passwd, stash, saved, sess>>

-----------------------------------------------------------------------------

SiteInit(users) ==
  /\ file = users
  /\ passwd = [n \in Name |-> IF users[n] = None THEN None ELSE "old"]
  /\ stash = [n \in Name |-> None]
  /\ saved = [n \in Name |-> None]
  /\ etcGroup = UNION {users[n].groups : n \in {n \in Name : users[n] # None}}
  /\ groupCfg = etcGroup
  /\ groupMap = [a \in Admin |-> etcGroup]
  /\ sess = [s \in Session |-> None]
  /\ cmd = [a \in Admin |-> None]
  /\ left = [cmds |-> MaxCommands, faults |-> MaxFaults, xfers |-> MaxTransfers]

SessionStep == \E s \in Session : (\E n \in Name : UserCmd(s, n)) \/ PassCmd(s) \/ Transfer(s)

BeginStep ==
  \E a \in Admin :
    \/ \E n \in Name : AddUser(a, n) \/ DelUser(a, n) \/ ReAdd(a, n) \/ ChPass(a, n) \/ Edit(a, n) \/ ChIps(a, n)
    \/ \E n, m \in Name : RenUser(a, n, m)
    \/ \E g \in Group : GrpAdd(a, g) \/ GrpDel(a, g) \/ \E n \in Name : GAddUser(a, n, g)

CommandStep ==
  \E a \in Admin :
    \/ AddUserSaves(a) \/ AddUserWritesPasswd(a)
    \/ DelUserKeepsHash(a) \/ DelUserRenames(a) \/ DelUserRemovesPasswd(a)
    \/ ReAddRenames(a) \/ ReAddWritesPasswd(a) \/ ReAddForgetsHash(a)
    \/ RenUserSaves(a) \/ RenUserRenamesPasswd(a) \/ RenUserRemoves(a)
    \/ ChPassWrites(a) \/ EditSaves(a) \/ SaveIpsOnly(a)
    \/ GrpAddSaves(a) \/ GrpAddWritesGroup(a) \/ GrpDelRemoves(a) \/ GrpDelWritesGroup(a)

SiteStep == SessionStep \/ BeginStep \/ CommandStep

=============================================================================

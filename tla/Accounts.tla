------------------------------ MODULE Accounts ------------------------------
(***************************************************************************)
(* Accounts and nukes over the same user files: siteops' account commands,  *)
(* sessions whose transfers are counted, and nuke commands, interleaved.    *)
(* A setting says which of them there are and which users there are first.  *)
(***************************************************************************)
EXTENDS SiteUser, Nukes, FiniteSetsExt

CONSTANT Settings       \* a set of [users, site, sessions, nukes, auto, most]: nukes in {"no", "master",
                        \* "local"}, and at most as many of them; whether the autonuke plugin runs

ASSUME AccountsAssumption ==
  \A x \in Settings : x.users \in [Name -> User \cup {None}] /\ x.most \in 0 .. MaxNukes

VARIABLE set

vars == <<accountVars, nukeVars, set>>

Init ==
  /\ set \in Settings
  /\ SiteInit(set.users)
  /\ NukeInit(set.most)

Next ==
  \/ set.sessions /\ SessionStep /\ UNCHANGED <<nukeVars, set>>
  \/ set.site /\ (BeginStep \/ CommandStep) /\ UNCHANGED <<nukeVars, set>>
  \/ /\ \/ set.nukes # "no" /\ NukeStep
        \/ set.nukes = "master" /\ MasterNukeStep
        \/ set.auto /\ AutoStep
        \/ set.nukes = "local" /\ LocalNukeStep
     /\ UNCHANGED <<passwd, stash, saved, etcGroup, groupCfg, groupMap, sess, cmd, left, set>>

Spec == Init /\ [][Next]_vars

-----------------------------------------------------------------------------

TypeOK == SiteTypeOK /\ NukeTypeOK /\ set \in Settings

NoCommand == \A a \in Admin : cmd[a] = None
NoNuke == \A k \in Staff : nuke[k] = None

\* When no account command runs, undone or not, a passwd entry has its user
\* file and the two group tables list the same groups (the undo branches of
\* HandleSiteAddUser, DelUser, ReAdd, RenUser, GrpAdd and GrpDel); and unless a
\* transfer was counted in between, a user file has its passwd entry, so that a
\* name is an account or free.
AccountsAgree ==
  NoCommand => /\ \A n \in Name : passwd[n] # None => file[n] # None
               /\ etcGroup = groupCfg
               /\ left.xfers = MaxTransfers => \A n \in Name : file[n] # None => passwd[n] # None

\* Nothing the daemon saves over a user file takes traffic away from it
\* (validateUserfileRewrite against the stale copies that SITE commands save).
\* Only a rename of the stashed file does: DELUSER's undo, and READD after its
\* look for one, put it over what a transfer has saved in between.
PutsBack(n) == stash[n] # None /\ stash'[n] = None /\ file'[n] = stash[n]
TrafficKept ==
  [][\A n \in Name : (file[n] # None /\ file'[n] # None /\ ~PutsBack(n))
       => (file'[n].up >= file[n].up /\ file'[n].dn >= file[n].dn)]_vars

\* What the history says was taken from a user and not given back is what the
\* user lacks, whatever transfers and nukes came in between, refused and clamped
\* penalties among them; but for releases whose record was lost or lists nobody,
\* and those of which an unnuke gave back what another record says.
Lacks(n) == MapThenSumSet(LAMBDA i : history[i].taken[n],
              {i \in DOMAIN history : history[i].status # "unnuked" /\ n \in DOMAIN history[i].taken})
Earned(n) == IF file[n].ratio = 0 THEN 0 ELSE file[n].up * file[n].ratio - file[n].dn
Known(n) == \A r \in lost.sum : n \notin Uploaders(r)

NukesBalance ==
  set.nukes # "no" /\ ~set.site /\ NoNuke =>
    \A n \in Name : file[n] # None /\ Known(n) =>
      file[n].credits + Lacks(n) = set.users[n].credits + Earned(n)

\* A nuked release has its record, and one that is back has none, so that autonuke
\* neither skips it for ever nor loses what an unnuke has to restore: whatever staff
\* does to it at the same time, unless the database failed, an unnuke was through
\* before the nuke it undid was recorded, or SITE NUKES forgot a record in between.
HistoryAgrees ==
  \A r \in Release \ lost.record : Recording(r) \cup Restoring(r) = {} =>
    /\ rel[r] = "nuked" => HasActive(history, r)
    /\ rel[r] = "there" => ~HasActive(history, r)

=============================================================================

------------------------------- MODULE Affils -------------------------------
(***************************************************************************)
(* Affil groups (plugins/pre/handler.go) and the rules of the sessions.    *)
(* SITE ADDAFFIL and DELAFFIL change the list of affils, and write rules   *)
(* for their pre-directories among those of permissions.yml; SITE REHASH   *)
(* loads the rules and hands them to the sessions, one after the other.    *)
(* None of it holds a lock.                                                *)
(*                                                                         *)
(* The list is read, and written, in one step; permissions.yml is cut to   *)
(* nothing before it is written, and may be read so, and a write into what *)
(* another has written since may leave it torn.  Its versions are counted. *)
(* Sections, credit ratios and the directories are left out.               *)
(***************************************************************************)
EXTENDS Acl, Integers, FiniteSets

CONSTANTS SiteAdmin,    \* sessions that give SITE commands, logged in throughout
          Reader,       \* sessions that come and go
          Access,       \* what the user of each session has
          PredirsOf,    \* of each affil group, the pre-directories ADDAFFIL is given
          Sorted,       \* all pairs of a pre-directory and its group, as buildAffilPermissionNodes sorts them
          SiteOp,       \* the requirement that lets siteops in
          AffilSettings \* of each setting: what people have written into permissions.yml, the affils
                        \* to begin with, who comes and goes; bounds: commands, rehashes, trouble
Sessions == SiteAdmin \cup Reader
AffilGroup == DOMAIN PredirsOf

VARIABLES affils,    \* the list of affils
          perms,     \* permissions.yml: rules, roles, its version, and whether it is no YAML
          groups,    \* the groups of etc/group
          engine,    \* the daemon's rules
          session,   \* of each session: its rules, and whether it is accepted or registered
          admin,     \* the SITE commands at work
          site,      \* the setting
          synced,    \* history: the affils that the rules of permissions.yml were made from
          budget
affilVars == <<affils, perms, groups, engine, session, admin, site, synced, budget>>

Resting == [at |-> "idle", g |-> "none", list |-> {}, file |-> [version |-> 0], todo |-> {}, were |-> {}]
Gone == [at |-> "off", rules |-> NoRules, version |-> 0]

Takes(what) == budget[what] > 0 /\ budget' = [budget EXCEPT ![what] = @ - 1]
Turns(a, at) == admin' = [admin EXCEPT ![a].at = at]
Rests(a) == admin' = [admin EXCEPT ![a] = Resting]

-----------------------------------------------------------------------------
(* The rules of an affil.                                                  *)

\* affilACLPaths: a path that is written down stands for all of them.
AclPaths(affil) == IF affil.acl # <<>> THEN {affil.acl[1]} ELSE ToSet(affil.predirs)

\* buildAffilRequiredNode: its members, siteops, and whoever has the flag.
AffilReq(affil) == AnyOf({Req({affil.group}, {}, {}), SiteOp, Req({"1"}, {}, {})})

Ruled == {"privpath", "list", "dirlog"}
\* buildAffilPermissionNodes.
RuleFor(affil, path) == [path |-> path, slash |-> FALSE, role |-> "", req |-> AffilReq(affil), pre |-> TRUE]
Generated(type, list) ==
  LET of == SelectSeq(Sorted, LAMBDA x : \E a \in list : a.group = x.group /\ x.path \in AclPaths(a) /\ type \in a.types)
  IN [i \in DOMAIN of |-> RuleFor(CHOOSE a \in list : a.group = of[i].group, of[i].path)]

\* findPreCatchallInsertIndex: before the first rule for everything.
Catchall == {<<"PRE", "*">>, <<"*">>}
Place(type, rules) ==
  LET all == {i \in DOMAIN rules : rules[i].path \in Catchall}
  IN IF type = "privpath" \/ all = {} THEN Len(rules) + 1 ELSE CHOOSE i \in all : \A j \in all : i <= j

\* Mutant: rules of a list that nobody is on any more stay.
SyncedKeeps(rules, list) ==
  [t \in Types |->
    IF t \notin Ruled THEN rules[t]
    ELSE LET at == Place(t, rules[t])
         IN SubSeq(rules[t], 1, at - 1) \o Generated(t, list) \o SubSeq(rules[t], at, Len(rules[t]))]

\* syncAffilPermissions: the rules of before are taken out, and new ones put in.
Synced(rules, list) ==
  [t \in Types |->
    IF t \notin Ruled THEN rules[t]
    ELSE LET kept == SelectSeq(rules[t], LAMBDA r : ~r.pre)
             at == Place(t, kept)
         IN SubSeq(kept, 1, at - 1) \o Generated(t, list) \o SubSeq(kept, at, Len(kept))]

-----------------------------------------------------------------------------
AffilInit ==
  \E b \in AffilSettings :
    LET list == b.affils
        file == [rules |-> Synced(b.base.rules, list), roles |-> b.base.roles, version |-> 1, torn |-> FALSE]
        on == [at |-> "on", rules |-> Loaded(file), version |-> 1]
    IN /\ site = b /\ affils = list /\ synced = list /\ perms = file /\ groups = {}
       /\ engine = [rules |-> Loaded(file), version |-> 1]
       /\ session = [s \in Sessions |-> IF s \in SiteAdmin THEN on ELSE Gone]
       /\ admin = [a \in SiteAdmin |-> Resting]
       /\ budget = [commands |-> b.commands, rehashes |-> b.rehashes, trouble |-> b.trouble]

Readable == ~perms.torn /\ Loads(perms)

May(a, command) == CanUseSiteCommand(session[a].rules, Access[a], command) /\ "1" \in Access[a]

\* What ADDAFFIL writes down of a group: the path of its first directory.
NewAffil(g) ==
  [group |-> g, predirs |-> PredirsOf[g], acl |-> <<PredirsOf[g][1]>>, types |-> Ruled]

Has(list, g) == \E a \in list : a.group = g

\* handleAddAffil: a group that is there already has its rules written again.
AddAffil(a, g) ==
  /\ admin[a].at = "idle" /\ May(a, "ADDAFFIL") /\ Takes("commands")
  /\ admin' = [admin EXCEPT ![a] =
       IF Has(affils, g) THEN [Resting EXCEPT !.at = "group", !.g = g, !.list = affils]
       ELSE [Resting EXCEPT !.at = "save", !.g = g, !.list = affils \cup {NewAffil(g)}]]
  /\ UNCHANGED <<affils, perms, groups, engine, session, site, synced>>

\* handleDelAffil.
DelAffil(a, g) ==
  /\ admin[a].at = "idle" /\ May(a, "DELAFFIL") /\ Has(affils, g) /\ Takes("commands")
  /\ admin' = [admin EXCEPT ![a] = [Resting EXCEPT !.at = "save", !.list = {x \in affils : x.group # g}]]
  /\ UNCHANGED <<affils, perms, groups, engine, session, site, synced>>

\* A list that cannot be saved ends the command.
SaveAffils(a) ==
  /\ admin[a].at = "save"
  /\ affils' = admin[a].list
  /\ Turns(a, IF admin[a].g = "none" THEN "read" ELSE "group")
  /\ UNCHANGED <<perms, groups, engine, session, site, synced, budget>>
SaveAffilsFails(a) ==
  /\ admin[a].at = "save" /\ Takes("trouble") /\ Rests(a)
  /\ UNCHANGED <<affils, perms, groups, engine, session, site, synced>>

\* ensureGroupFile.
EnsureGroup(a) ==
  /\ admin[a].at = "group"
  /\ groups' = groups \cup {admin[a].g} /\ Turns(a, "read")
  /\ UNCHANGED <<affils, perms, engine, session, site, synced, budget>>

\* syncAffilPermissions reads permissions.yml; an empty or torn one is an error, and one
\* that would not change is not written.
ReadPerms(a) ==
  LET rules == Synced(perms.rules, admin[a].list) IN
  /\ admin[a].at = "read"
  /\ IF perms.torn \/ perms.rules = NoRules \/ rules = perms.rules THEN Rests(a)
     ELSE admin' = [admin EXCEPT ![a].at = "cut", ![a].file = [perms EXCEPT !.rules = rules]]
  /\ UNCHANGED <<affils, perms, groups, engine, session, site, synced, budget>>
CutPerms(a) ==
  /\ admin[a].at = "cut" /\ Turns(a, "write")
  /\ perms' = [rules |-> NoRules, roles |-> <<>>, version |-> perms.version + 1, torn |-> FALSE]
  /\ UNCHANGED <<affils, groups, engine, session, site, synced, budget>>
\* Where another has written since, the tail of what he wrote may be left behind it.
WritePerms(a) ==
  /\ admin[a].at = "write" /\ Rests(a)
  /\ \E torn \in {perms.torn \/ perms.rules \notin {NoRules, admin[a].file.rules}, FALSE} :
       perms' = [admin[a].file EXCEPT !.version = perms.version + 1, !.torn = torn]
  /\ synced' = admin[a].list
  /\ UNCHANGED <<affils, groups, engine, session, site, budget>>

-----------------------------------------------------------------------------
(* SITE REHASH.                                                            *)

\* A file that cannot be loaded leaves everybody with the rules he has.
Rehash(a) ==
  /\ admin[a].at = "idle" /\ May(a, "REHASH") /\ Takes("rehashes")
  /\ IF Readable THEN admin' = [admin EXCEPT ![a] =
       [Resting EXCEPT !.at = "engine", !.file = [rules |-> Loaded(perms), version |-> perms.version]]]
     ELSE UNCHANGED admin
  /\ UNCHANGED <<affils, perms, groups, engine, session, site, synced>>

\* "were": history, the sessions it has to reach if it is alone.
SetEngine(a) ==
  LET others == {b \in SiteAdmin \ {a} : admin[b].at = "hand"} IN
  /\ admin[a].at = "engine"
  /\ engine' = admin[a].file
  /\ admin' = [b \in SiteAdmin |->
       IF b = a THEN [admin[a] EXCEPT !.at = "hand", !.todo = Sessions,
                        !.were = IF others = {} THEN {s \in Sessions : session[s].at = "on"} ELSE {}]
       ELSE [admin[b] EXCEPT !.were = {}]]
  /\ UNCHANGED <<affils, perms, groups, session, site, synced, budget>>

\* UpdateActiveSessionACL goes over those that are registered when it comes to them.
Hand(a, s) ==
  /\ admin[a].at = "hand" /\ s \in admin[a].todo
  /\ session' = IF session[s].at = "on"
                THEN [session EXCEPT ![s].rules = admin[a].file.rules, ![s].version = admin[a].file.version]
                ELSE session
  /\ admin' = [admin EXCEPT ![a].todo = @ \ {s}]
  /\ UNCHANGED <<affils, perms, groups, engine, site, synced, budget>>
RehashEnds(a) ==
  /\ admin[a].at = "hand" /\ admin[a].todo = {} /\ Rests(a)
  /\ UNCHANGED <<affils, perms, groups, engine, session, site, synced, budget>>

\* A new connection takes the daemon's rules with it, and is registered later.
Accept(s) ==
  /\ session[s].at = "off"
  /\ session' = [session EXCEPT ![s] = [at |-> "accepted", rules |-> engine.rules, version |-> engine.version]]
  /\ UNCHANGED <<affils, perms, groups, engine, admin, site, synced, budget>>
RegisterSession(s) ==
  /\ session[s].at = "accepted"
  /\ session' = [session EXCEPT ![s].at = "on"]
  /\ UNCHANGED <<affils, perms, groups, engine, admin, site, synced, budget>>
LeaveSite(s) ==
  /\ session[s].at = "on" /\ session' = [session EXCEPT ![s] = Gone]
  /\ admin' = [a \in SiteAdmin |-> [admin[a] EXCEPT !.were = @ \ {s}]]
  /\ UNCHANGED <<affils, perms, groups, engine, site, synced, budget>>

-----------------------------------------------------------------------------
\* Somebody takes a role away that rules name, and puts it back.
EditRoles ==
  /\ perms.rules # NoRules /\ ~perms.torn /\ Takes("trouble")
  /\ perms' = [perms EXCEPT !.roles = IF DOMAIN @ = {} THEN site.base.roles ELSE <<>>, !.version = @ + 1]
  /\ UNCHANGED <<affils, groups, engine, session, admin, site, synced>>

\* The daemon starts again.  It does not come up with rules that do not load; the
\* plugin then writes its rules, and the daemon loads them.
Restart ==
  LET rules == IF perms.rules = NoRules THEN NoRules ELSE Synced(perms.rules, affils)
      file == IF rules = perms.rules THEN perms ELSE [perms EXCEPT !.rules = rules, !.version = @ + 1]
      on == [at |-> "on", rules |-> Loaded(file), version |-> file.version]
  IN /\ Readable /\ Takes("trouble")
     /\ perms' = file
     /\ synced' = IF rules = NoRules THEN synced ELSE affils
     /\ engine' = [rules |-> Loaded(file), version |-> file.version]
     /\ session' = [s \in Sessions |-> IF s \in SiteAdmin THEN on ELSE Gone]
     /\ admin' = [a \in SiteAdmin |-> Resting]
     /\ UNCHANGED <<affils, groups, site>>

AffilStep(a) ==
  \/ SaveAffils(a) \/ SaveAffilsFails(a) \/ EnsureGroup(a) \/ ReadPerms(a) \/ CutPerms(a) \/ WritePerms(a)
RehashStep(a) == Rehash(a) \/ SetEngine(a) \/ RehashEnds(a) \/ \E s \in Sessions : Hand(a, s)
ReaderStep(s) == Accept(s) \/ RegisterSession(s) \/ LeaveSite(s)

AffilNext ==
  \/ \E a \in SiteAdmin : AffilStep(a) \/ RehashStep(a) \/ \E g \in AffilGroup : AddAffil(a, g) \/ DelAffil(a, g)
  \/ \E s \in site.readers : ReaderStep(s)
  \/ EditRoles \/ Restart

AffilSpec == AffilInit /\ [][AffilNext]_affilVars

-----------------------------------------------------------------------------
(* Properties.                                                             *)

Whole == perms.rules # NoRules /\ Readable
Listed == {"list", "dirlog"}
Private == {a \in synced : Ruled \subseteq a.types}
Users == {Access[s] : s \in Sessions}
Below1(p) == p \o <<"x">>
Somewhere ==
  {r.path : r \in UNION {ToSet(site.base.rules[t]) : t \in Types \ {"sitecmd"}}}
  \cup {x.path : x \in ToSet(Sorted)} \cup {<<"x">>}
Elsewhere ==
  {p \in Somewhere : \A a \in synced : \A q \in ToSet(a.predirs) : ~IsPrefix(q, p) /\ ~IsPrefix(p, q)}

\* The order that README.md:634-637 and etc/permissions.yml:9-12 describe.
DocumentedPerform(rules, u, type, p) ==
  IF Decides(rules, type, p) THEN Allows(rules, type, u, p)
  ELSE IF Decides(rules, "privpath", p) THEN Allows(rules, "privpath", u, p)
  ELSE "1" \in u

\* For the affils that permissions.yml was made for: members and siteops, and nobody else, list
\* the directories that have rules, and any release there, whether private paths are asked
\* first, as the code does, or last, as the documents say; outside all pre-directories the
\* rules people wrote decide as before.
Decided ==
  Whole =>
    LET now == Loaded(perms)
        then == Loaded([perms EXCEPT !.rules = site.base.rules])
    IN \A u \in Users :
         /\ \A a \in Private, t \in Listed : \A p \in AclPaths(a) : \A q \in {p, Below1(p)} :
              /\ CanPerform(now, u, t, q) <=> Meets(AffilReq(a), u)
              /\ DocumentedPerform(now, u, t, q) <=> Meets(AffilReq(a), u)
         /\ \A t \in Listed \cup {"upload"}, p \in Elsewhere :
              CanPerform(now, u, t, p) = CanPerform(then, u, t, p)

\* A rehash at a time: when it is over, every session that was on when it set the rules has
\* these or newer ones, whoever else came and went.
Reached ==
  \A a \in SiteAdmin : admin[a].at = "hand" /\ admin[a].todo = {} =>
    \A s \in admin[a].were : session[s].version >= admin[a].file.version

\* Whatever affils were added, removed or written again, by whom and at the same time,
\* permissions.yml lets in whom it should (syncAffilPermissions), and a rehash reaches the
\* sessions (UpdateActiveSessionACL, main.go:296).
AclHolds == Decided /\ [][perms' # perms => Decided']_affilVars /\ []Reached
=============================================================================

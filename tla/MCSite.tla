---------------------------- MODULE MCSite ----------------------------
(***************************************************************************)
(* SitePlugins and Sitebot as TLC checks them: two slaves and small        *)
(* releases, with some of the plugins at work; or events of two emitters   *)
(* on one or two releases.                                                 *)
(***************************************************************************)
EXTENDS SitePlugins, Sitebot, TLC

-----------------------------------------------------------------------------
(* The tree with the plugins that work on it, and the way of events to     *)
(* IRC.  A setting has one of the two at work.                             *)

siteVars == <<vars, botVars>>
Silent == (\A e \in Emitter : botMay.script[e] = <<>>) /\ botMay.inbox = <<>> /\ botMay.faults = {}
Untouched == may.who = {} /\ may.stor = {} /\ \A c \in Session : may.commands[c] = 0
SiteInit == Init /\ BotInit /\ (Silent \/ Untouched)
SiteSpec ==
  /\ SiteInit
  /\ [][(Next /\ UNCHANGED botVars) \/ (BotNext /\ UNCHANGED vars)]_siteVars
  /\ BotFairness

-----------------------------------------------------------------------------
CONSTANTS s1, s2, a, b

MCDirPath == {<<d>> : d \in {"r", "t", "archived r", "archived t", "pre r", "req a", "req b", "filled a", "filled b"}}
MCPath == MCDirPath \cup {d \o <<f>> : <<d, f>> \in MCDirPath \X {"x", "y"}}
MCReqDir == a :> <<"req a">> @@ b :> <<"req b">>
MCFilledDir == a :> << <<"filled a">> >> @@ b :> << <<"filled b">> >>
MCPreDir == {<<"pre r">>}
MCPreTo == <<"pre r">> :> <<"r">>

\* A tree whose entries lie where the index says.
MCIndex(f) == [p \in MCPath |-> IF p \in DOMAIN f THEN f[p] ELSE None]
MCDisk(f) == [s \in Slave |-> [p \in MCPath |->
                IF \E q \in DOMAIN f : f[q] = s /\ p = q /\ p \in MCDirPath
                THEN "dir" ELSE IF \E q \in DOMAIN f : f[q] = s /\ p = SubSeq(q, 1, 1) THEN "dir"
                ELSE IF p \in DOMAIN f /\ MCIndex(f)[p] = s THEN "full" ELSE None]]
MCSetting(who, faults, tree, more) ==
  more @@ [who |-> who, faults |-> faults, disk |-> MCDisk(tree), index |-> MCIndex(tree), stor |-> {},
           rules |-> <<>>, list |-> {}, dirs |-> TRUE, storage |-> {s2},
           commands |-> [c \in Session |-> 0], verbs |-> [c \in Session |-> {}]]
MCRule(action, max, targets) ==
  [action |-> action, slave |-> s1, dirs |-> {<<"r">>, <<"t">>}, max |-> max, targets |-> targets,
   to |-> <<"r">> :> <<"archived r">> @@ <<"t">> :> <<"archived t">>]

MCTwo == <<"r">> :> s1 @@ <<"r", "x">> :> s1 @@ <<"t">> :> s1 @@ <<"t", "y">> :> s1
MCOne == <<"r">> :> s1 @@ <<"r", "x">> :> s1
MCMixed == <<"req a">> :> s2 @@ <<"req a", "x">> :> s1 @@ <<"req a", "y">> :> s2
MCPre == <<"pre r">> :> s1 @@ <<"pre r", "x">> :> s1
Both(m, n) == "first" :> m @@ "second" :> n

MCSettings ==
  { \* nothing but events
    MCSetting({}, {}, <<>>, <<>>),
    \* two releases, deleted or moved to the other slave
    MCSetting({"keeper"}, {"fail"}, MCTwo,
              [rules |-> <<MCRule("delete", 1, {}), MCRule("archive", 2, {s2})>>]),
    \* a job that outlives its mark
    MCSetting({"keeper"}, {"fail", "long"}, MCOne,
              [rules |-> <<MCRule("archive", 2, {s2}), MCRule("delete", 1, {})>>]),
    \* an upload into a release that is moved on its slave, or to another
    MCSetting({"keeper"}, {"fail"}, MCOne,
              [rules |-> <<MCRule("archive", 1, {s1, s2})>>, stor |-> {<<"r", "y">>}]),
    \* archived releases make room
    MCSetting({"keeper"}, {}, MCOne @@ <<"archived t">> :> s2 @@ <<"archived t", "y">> :> s2,
              [rules |-> <<MCRule("archive", 1, {s2}), MCRule("delete", 1, {})>>]),
    \* a release is given out by two sessions, and archived
    MCSetting({"keeper", "pre"}, {"fail"}, MCPre, [rules |-> <<MCRule("archive", 1, {s2})>>]),
    MCSetting({"pre"}, {"fail", "lost"}, MCPre, [stor |-> {<<"pre r", "y">>}]),
    \* answers that are lost, of a release of two files that is archived or moved on its slave
    MCSetting({"keeper"}, {"fail", "lost"}, MCOne @@ <<"r", "y">> :> s1,
              [rules |-> <<MCRule("archive", 1, {s1, s2})>>]),
    \* a request lies on two slaves, and is filled while another one is asked for
    MCSetting({}, {"fail"}, MCMixed,
              [list |-> {a}, commands |-> Both(1, 1), verbs |-> Both({"fill"}, {"request", "delete"})]),
    MCSetting({}, {"lost"}, MCMixed,
              [list |-> {a}, commands |-> Both(2, 0), verbs |-> Both({"request", "fill", "delete"}, {})]),
    MCSetting({}, {}, MCOne,
              [commands |-> Both(2, 2), verbs |-> Both({"request", "delete"}, {"request"})]),
    \* requests without directories, and restarts
    MCSetting({}, {"restart", "fail"}, MCOne,
              [dirs |-> FALSE, commands |-> Both(4, 0), verbs |-> Both({"request", "fill", "delete"}, {})]) }

-----------------------------------------------------------------------------
Evt(type, r) == [type |-> type, rel |-> r, race |-> Nobody, who |-> Nobody, lead |-> Nobody, ready |-> FALSE, half |-> FALSE]
Race(r, x) == [Evt("complete", r) EXCEPT !.race = x]
Payload(r, u, lead, half) == [Evt("rar", r) EXCEPT !.who = u, !.lead = lead, !.half = half]
MCBot(one, two, asks, inline, room, faults) ==
  [script |-> "hook" :> one @@ "rescan" :> two, inbox |-> asks, inline |-> inline, room |-> room,
   pretime |-> TRUE, exchange |-> TRUE, faults |-> faults]
MCBotSettings ==
  { MCBot(<<>>, <<>>, <<>>, FALSE, 8, {}),
    \* two races of one release, one after the other
    MCBot(<<Race("r", "x"), Race("r", "y")>>, <<>>, <<>>, FALSE, 8, {}),
    \* one race that is found complete twice, and a late SFV
    MCBot(<<Race("r", "x")>>, <<Race("r", "x"), Evt("sfv", "r")>>, <<>>, FALSE, 8, {}),
    \* a whole release
    MCBot(<<Evt("sfv", "r"), Payload("r", "u", "u", FALSE), Race("r", "x")>>,
          <<Payload("r", "v", "v", TRUE)>>, <<>>, FALSE, 8, {}),
    \* a NEW line that waits for its pretime, and plugins made anew
    MCBot(<<Evt("mkdir", "r")>>, <<Evt("info", "r"), Evt("end", "r")>>, <<"ping", "refresh">>, TRUE, 8, {}),
    \* private lines, a full queue, a lost connection; a bot that dies
    MCBot(<<Evt("nuke", "r"), Evt("nuke", "r")>>, <<Evt("nuke", "r")>>, <<"help", "ping", "init", "help">>, FALSE, 1, {"disconnect"}),
    MCBot(<<Evt("mkdir", "r"), Evt("nuke", "r")>>, <<Evt("nuke", "r")>>, <<"help">>, TRUE, 1, {"restart"}) }
=============================================================================

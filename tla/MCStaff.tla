---------------------------- MODULE MCStaff ----------------------------
(***************************************************************************)
(* What the staff changes, as TLC checks it: accounts and nukes, and the   *)
(* rules.  They share nothing, so one of them moves while the other stands *)
(* still.                                                                  *)
(***************************************************************************)
EXTENDS Accounts, Affils

-----------------------------------------------------------------------------
CONSTANTS a1, k1, k2, s1, r1

MCUser(c) == [credits |-> c, ratio |-> 1, up |-> 0, dn |-> 0, nukes |-> 0,
              groups |-> {"NoGroup"}, gadmin |-> {}, primary |-> "NoGroup", ips |-> Ip, tag |-> 0]
MCNewUser == MCUser(0)

MCBytes == [r \in Release |-> [n \in Name |-> 1]]

\* One siteop's account commands with transfers in between; and nukes of a release of
\* two uploaders: with enough credits, with as many as the penalty, with fewer, with none.
MCNukes(ann, bob, mode, most) ==
  [users |-> [n \in Name |-> MCUser(IF n = "ann" THEN ann ELSE bob)], site |-> FALSE,
   sessions |-> FALSE, nukes |-> mode, auto |-> FALSE, most |-> most]
MCSettings ==
  { [users |-> [n \in Name |-> IF n = "ann" THEN MCUser(2) ELSE None], site |-> TRUE,
     sessions |-> TRUE, nukes |-> "no", auto |-> FALSE, most |-> 0],
    [MCNukes(9, 9, "master", 3) EXCEPT !.sessions = TRUE], MCNukes(9, 9, "master", 5),
    [MCNukes(2, 0, "master", 3) EXCEPT !.auto = TRUE],
    [MCNukes(1, 1, "master", 3) EXCEPT !.sessions = TRUE],
    [MCNukes(2, 1, "local", 3) EXCEPT !.sessions = TRUE], MCNukes(9, 9, "local", 4) }
Staffs == Permutations(Staff)

-----------------------------------------------------------------------------
(* Affils as TLC checks it: two siteops, a member of an affil and another  *)
(* user.                                                                   *)

CONSTANTS o1, o2, member, other

Who == [s \in {o1, o2} |-> {"1", "SiteOP"}] @@ (member :> {"A"}) @@ (other :> {"B"})
Predirs == [A |-> <<<<"PRE", "A">>>>, B |-> <<<<"PRE", "B">>, <<"X", "B">>>>]
Order == <<[path |-> <<"PRE", "A">>, group |-> "A"], [path |-> <<"PRE", "B">>, group |-> "B"],
           [path |-> <<"X", "B">>, group |-> "B"]>>
SiteOps == Req({"SiteOP"}, {}, {})

Rule(path, role, req) == [path |-> path, slash |-> FALSE, role |-> role, req |-> req, pre |-> FALSE]
Slashed(path, role, req) == [Rule(path, role, req) EXCEPT !.slash = TRUE]
\* A private directory of the staff, a directory listed on one level, a rule
\* for PRE and one for all; and one without rules for commands.
Roles == [siteop |-> AnyOf({SiteOps, Req({"1"}, {}, {})}), anyone |-> Anyone]
Usual ==
  [roles |-> Roles,
   rules |-> [sitecmd |-> <<Rule(<<"ADDAFFIL">>, "siteop", Anyone),
                            Rule(<<"DELAFFIL">>, "siteop", Anyone),
                            Rule(<<"REHASH">>, "siteop", Anyone)>>,
              privpath |-> <<Rule(<<"STAFF">>, "siteop", Anyone)>>,
              list |-> <<Slashed(<<"TV", "*">>, "", Req({}, {{"A"}}, {})),
                         Rule(<<"PRE", "*">>, "siteop", Anyone),
                         Rule(<<"*">>, "anyone", Anyone)>>,
              dirlog |-> <<Rule(<<"PRE", "*">>, "", Nobody), Rule(<<"*">>, "", Req({}, {}, {"B"}))>>,
              upload |-> <<Rule(<<"*">>, "anyone", Anyone)>>]]
Bare == [Usual EXCEPT !.rules = [Usual.rules EXCEPT !.sitecmd = <<>>, !.privpath = <<>>]]

\* An affil by hand, with all its directories and listings left to other rules.
ByHand == [group |-> "B", predirs |-> Predirs["B"], acl |-> <<>>, types |-> {"privpath"}]

\* Commands at the same time; commands beside a rehash, or two; sessions
\* that come and go.
Case(bases, affs, rs, commands, rehashes, trouble) ==
  [base : bases, affils : {affs}, readers : {rs}, commands : {commands},
   rehashes : {rehashes}, trouble : {trouble}]
Lists == UNION {Case({Usual}, a, {}, 2, 0, 1) : a \in {{}, {ByHand}}}
Rules == Case({Usual, Bare}, {}, {member}, 1, 1, 1)
Twice == Case({Usual}, {}, {}, 1, 2, 0)
AffilCases == Lists \cup Rules \cup Twice

-----------------------------------------------------------------------------
VARIABLE side       \* the one this behaviour is about

staffVars == <<side, vars, affilVars>>

StaffInit ==
  /\ side \in {"accounts", "rules"}
  /\ Init /\ AffilInit
  /\ IF side = "accounts" THEN site = CHOOSE c \in AffilCases : TRUE
     ELSE set = CHOOSE s \in MCSettings : TRUE

AccountsMove == side = "accounts" /\ Next /\ UNCHANGED <<side, affilVars>>
RulesMove == side = "rules" /\ AffilNext /\ UNCHANGED <<side, vars>>
StaffSpec == StaffInit /\ [][AccountsMove \/ RulesMove]_staffVars
=============================================================================

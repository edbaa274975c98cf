-------------------------------- MODULE Acl ---------------------------------
(***************************************************************************)
(* The rules of permissions.yml and what they let a user do                *)
(* (internal/acl/acl.go).                                                  *)
(*                                                                         *)
(* A user is the set of what a requirement can ask for: his name, groups   *)
(* and flags.  A path is the sequence of its elements; in the path of a    *)
(* rule "*" stands for an element.  A rule's brace patterns are rules of   *)
(* their own here, and letter case is left out.                            *)
(***************************************************************************)
EXTENDS SequencesExt

Types == {"sitecmd", "privpath", "list", "dirlog", "upload"}

Req(all, some, none) == [nobody |-> FALSE, all |-> all, some |-> some, none |-> none, anyOf |-> {}]
Anyone == Req({}, {}, {})
Nobody == [Anyone EXCEPT !.nobody = TRUE]
\* One of the requirements rs.
AnyOf(rs) == [Anyone EXCEPT !.anyOf = rs]

\* "some": of each of these sets the user has something.
MeetsOwn(r, u) ==
  /\ ~r.nobody
  /\ r.all \subseteq u /\ r.none \cap u = {}
  /\ \A s \in r.some : s \cap u # {}
\* checkRequirement.  Alternatives have none of their own.
Meets(r, u) ==
  /\ MeetsOwn(r, u)
  /\ r.anyOf # {} => \E a \in r.anyOf : MeetsOwn(a, u)

-----------------------------------------------------------------------------
(* Paths.                                                                  *)

Stars(pat) == {i \in DOMAIN pat : pat[i] = "*"}
Fits(pat, p) ==
  Len(pat) = Len(p) /\ \A i \in DOMAIN p : pat[i] \in {"*", p[i]}

\* One star stands for any number of elements, if something is left of it or right.
Spans(pat, p) ==
  \E i \in Stars(pat) :
    /\ Stars(pat) = {i}
    /\ Len(p) >= i /\ IsPrefix(SubSeq(pat, 1, i - 1), p)
    /\ IsSuffix(SubSeq(pat, i + 1, Len(pat)), p)

\* pathIsBelow: a path without a star covers what lies below it.
Below(p, parent) == Stars(parent) = {} /\ IsPrefix(parent, p)

\* pathMatchesCompiled, ruleMatchesPath: with a slash at its end a pattern keeps
\* to its level.
Covers(rule, p) ==
  \/ Fits(rule.path, p)
  \/ ~rule.slash /\ Spans(rule.path, p)
  \/ Below(p, rule.path)

-----------------------------------------------------------------------------
(* Decisions.                                                              *)

\* The first rule of the type that covers the path.
Deciding(rules, type, p) == SelectSeq(rules[type], LAMBDA r : Covers(r, p))
Decides(rules, type, p) == Deciding(rules, type, p) # <<>>
Allows(rules, type, u, p) == Meets(Deciding(rules, type, p)[1].req, u)

\* CanPerform: a private path is decided by its rule, whatever is to be done there.
CanPerform(rules, u, type, p) ==
  IF Decides(rules, "privpath", p) THEN Allows(rules, "privpath", u, p)
  ELSE IF Decides(rules, type, p) THEN Allows(rules, type, u, p)
  ELSE "1" \in u

\* CanPerformRuleOnly.
CanPerformRuleOnly(rules, u, type, p) == Decides(rules, type, p) /\ Allows(rules, type, u, p)

\* canUseSiteCommand; without rules a table asks for a flag.
CanUseSiteCommand(rules, u, command) ==
  IF rules["sitecmd"] # <<>> THEN CanPerformRuleOnly(rules, u, "sitecmd", <<command>>)
  ELSE "1" \in u

\* What LoadEngine makes of a file: one with a role that is not there is refused,
\* and one in which there is nothing yet has no rules.
NoRules == [t \in Types |-> <<>>]
Resolved(file, rule) == IF rule.role = "" THEN rule ELSE [rule EXCEPT !.req = file.roles[rule.role]]
Loads(file) ==
  \A t \in Types : \A i \in DOMAIN file.rules[t] :
    LET role == file.rules[t][i].role IN role = "" \/ role \in DOMAIN file.roles
Loaded(file) ==
  [t \in Types |-> [i \in DOMAIN file.rules[t] |-> Resolved(file, file.rules[t][i])]]
=============================================================================

---------------------------- MODULE MCSlaves ----------------------------
(***************************************************************************)
(* What the master has slaves for, as TLC checks it: the index of what a   *)
(* slave stores, through remerges, and the choice of the slave that is to  *)
(* store something.  They meet in the index, at different grains, so one   *)
(* moves while the other stands still.                                     *)
(***************************************************************************)
EXTENDS Remerge, Routing, TLC

-----------------------------------------------------------------------------
(* Remerge as TLC checks it: a slave with one directory, `here' on its     *)
(* disk to begin with and `other' not.                                     *)

CONSTANTS here, other

OneDir == [f \in Files |-> CHOOSE d \in Dirs : TRUE]

SingleRoot ==   \* one root, whose snapshots prune
  [cached |-> {here}, single |-> TRUE, instant |-> TRUE, aging |-> {}]

ManyRoots ==    \* only the purge removes, and the scan may take for ever
  [cached |-> {here, other}, single |-> FALSE, instant |-> TRUE, aging |-> {here, other}]

Deployments == {SingleRoot, ManyRoots}

-----------------------------------------------------------------------------
(* Routing as TLC checks it: two slaves and an archive, a release with a   *)
(* subdirectory and a file in each, two sessions.                          *)

CONSTANTS s1, s2, archive
Alike == Permutations(Client)

RouteDirs == {<<"a">>, <<"a", "r">>, <<"a", "r", "cd">>}
RoutePaths == RouteDirs \cup {<<"a", "r", "f">>, <<"a", "r", "cd", "g">>}

Policy(mount, sections, readOnly) == [mount |-> mount, sections |-> sections, readOnly |-> readOnly]
Any3(x, y, z) == (s1 :> x) @@ (s2 :> y) @@ (archive :> z)
Open == Policy(<<>>, {}, FALSE)
Archive == Policy(<<>>, {"a"}, TRUE)
Nothing == Any3({}, {}, {})
Stored == Any3({}, {}, RoutePaths \ {<<"a", "r", "cd", "g">>})
RouteSetting(before, after, lay, goes, ops) ==
  [before |-> before, after |-> after, lies |-> lay, goes |-> goes, ops |-> ops]
Fixed(policies, lay, goes, ops) == RouteSetting(policies, policies, lay, goes, ops)
Quiet == Fixed(Any3(Open, Open, Archive), Nothing, {}, {})
Routes ==
  {Quiet,
   Fixed(Any3(Open, Open, Archive), Nothing, {s1}, {"mkd", "stor"}),
   Fixed(Any3(Open, Policy(<<"a">>, {"b"}, FALSE), Archive), Nothing, {s1}, {"write", "delete"}),
   Fixed(Any3(Policy(<<"b">>, {}, FALSE), Policy(<<>>, {"b"}, FALSE), Archive), Stored, {},
         {"mkd", "stor", "resume", "write", "delete"}),
   RouteSetting(Any3(Open, Open, Archive), Any3(Open, Policy(<<>>, {"a"}, TRUE), Archive), Nothing, {},
           {"mkd", "stor", "write", "delete"})}

-----------------------------------------------------------------------------
VARIABLE side       \* the one this behaviour is about

slavesVars == <<side, vars, routeVars>>

SlavesInit ==
  /\ side \in {"remerge", "routing"}
  /\ Init /\ RouteInit
  /\ IF side = "remerge" THEN site = Quiet ELSE set = SingleRoot

RemergeMoves == side = "remerge" /\ Next /\ UNCHANGED <<side, routeVars>>
RoutingMoves == side = "routing" /\ RouteNext /\ UNCHANGED <<side, vars>>

SlavesSpec == SlavesInit /\ [][RemergeMoves \/ RoutingMoves]_slavesVars
=============================================================================

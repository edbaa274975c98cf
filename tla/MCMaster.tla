---------------------------- MODULE MCMaster ----------------------------
(***************************************************************************)
(* Remerge and RaceRecords as TLC checks them: a slave that waits for its  *)
(* remerge; two racers and two paths of a release, one of which is there   *)
(* to begin with.                                                          *)
(***************************************************************************)
EXTENDS Remerge, RaceRecords

-----------------------------------------------------------------------------
(* What the master knows of its slaves' files and of who brought them: the *)
(* remerge of the index (Remerge) and the books of the races               *)
(* (RaceRecords).  They share no variable, so what holds of each alone     *)
(* holds of both together: one moves while the other stands still.         *)

VARIABLE side

masterVars == <<vars, recordVars, side>>

MasterInit ==
  /\ Init /\ RaceInit
  /\ \/ side = "remerge" /\ races = CHOOSE r \in RaceSettings : TRUE
     \/ side = "records" /\ set = CHOOSE m \in Settings : TRUE

MasterNext ==
  \/ side = "remerge" /\ Next /\ UNCHANGED <<recordVars, side>>
  \/ side = "records" /\ RaceNext /\ UNCHANGED <<vars, side>>

\* The fairness of Remerge; the books have none.
MasterSpec ==
  /\ MasterInit /\ [][MasterNext]_masterVars
  /\ WF_vars(ScanStep)
  /\ \A s \in Session : WF_vars(JobStep(s)) /\ WF_vars(MasterStep(s))

-----------------------------------------------------------------------------
CONSTANTS here, other

OneDir == [f \in Files |-> CHOOSE d \in Dirs : TRUE]

Uncached ==     \* remerge_mode off, no index to begin with
  [cached |-> {}, single |-> TRUE, instant |-> FALSE, aging |-> {}]
OnlyUncached == {Uncached}

Race == [home |-> "a", files |-> {"f"}, sums |-> {"good"}, lengths |-> {1}, acts |-> {},
         stores |-> 2, ops |-> 1]

\* Two files and a deletion, to a complete release; bad ones and a rescan; files that
\* change on the slave; transfers of two lengths and a rename; directories that come,
\* go and move; scrubs and restarts.
TwoFiles == [Race EXCEPT !.acts = {"sfv", "dele"}, !.files = {"f", "g"}, !.stores = 3]
BadFiles == [Race EXCEPT !.acts = {"sfv", "dele", "rescan"}, !.sums = {"good", "bad"}]
Spoiled == [Race EXCEPT !.acts = {"sfv", "spoil", "rescan"}, !.ops = 2]
Lengths == [Race EXCEPT !.files = {"f", "g"}, !.lengths = {1, 2}, !.acts = {"rename"}]
Moves == [Race EXCEPT !.acts = {"mkdir", "rmd", "rename"}, !.ops = 2]
Restarts == [Race EXCEPT !.acts = {"sfv", "scrub", "restart", "rename"}, !.ops = 2]
Races == {TwoFiles, BadFiles, Spoiled, Lengths, Moves, Restarts}
=============================================================================

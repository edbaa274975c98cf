-------------------------------- MODULE Pre --------------------------------
(***************************************************************************)
(* SITE PRE (plugins/pre/handler.go): a release is moved from the group's  *)
(* pre-directory into a section, and who uploaded it is given credits.     *)
(* The checks, the statistics and the move are steps of their own.         *)
(* Sections, groups and announcements are left out.                        *)
(***************************************************************************)
EXTENDS SiteTree

CONSTANTS Presser,   \* sessions that use SITE PRE
          PreDir,    \* releases in pre-directories
          PreTo      \* where each of them goes
ASSUME Presser \subseteq Caller

VARIABLES pre,       \* the commands at work
          rewarded   \* how often each file has earned its uploader credits
preVars == <<pre, rewarded>>

NoPre == [at |-> "none", d |-> <<>>, files |-> {}]
PreInit == pre = [c \in Presser |-> NoPre] /\ rewarded = [f \in Named(Path) |-> 0]

\* Mutant: an error of the move is not looked at.
EarnedAnyway(c) == Done(c)

\* The release is there and the destination is not; else the command is refused.
PreBegins(c, d) ==
  /\ "pre" \in may.who /\ pre[c].at = "none"
  /\ index[d] # None /\ index[PreTo[d]] = None
  /\ pre' = [pre EXCEPT ![c] = [NoPre EXCEPT !.at = "checked", !.d = d]]
  /\ UNCHANGED <<rewarded, treeVars>>
\* PluginGetVFSReleaseStats: the files the index has at that time.
PreStats(c) ==
  LET d == pre[c].d IN
  /\ pre[c].at = "checked" /\ BeginRename(c, d, PreTo[d])
  /\ pre' = [pre EXCEPT ![c].at = "moving", ![c].files = Named(Indexed(d) \ DirPath)]
  /\ UNCHANGED <<rewarded, disk, index, uploads, owed, astray, may>>
\* The move is done, and there is something to give credits for.
Earned(c) == op[c].at = "ok"
PreEnds(c) ==
  /\ pre[c].at = "moving" /\ Collect(c)
  /\ rewarded' = [f \in DOMAIN rewarded |-> IF Earned(c) /\ f \in pre[c].files THEN rewarded[f] + 1 ELSE rewarded[f]]
  /\ pre' = [pre EXCEPT ![c] = NoPre]
  /\ UNCHANGED <<disk, index, uploads, owed, astray, may>>

PreNext == \E c \in Presser : (\E d \in PreDir : PreBegins(c, d)) \/ PreStats(c) \/ PreEnds(c)

PreTypeOK == \A c \in Presser : pre[c].at \in {"none", "checked", "moving"}

\* No file earns credits twice, however many sessions give the same PRE at the same time
\* (handler.go:239, applyPreCredits): the second move has to fail.
RewardedOnce == \A f \in DOMAIN rewarded : rewarded[f] < 2
=============================================================================

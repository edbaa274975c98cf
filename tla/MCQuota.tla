------------------------------ MODULE MCQuota -------------------------------
(***************************************************************************)
(* What comes to an end, as TLC checks it: the commands of the sessions,   *)
(* and the trials of the quota plugin.  They share nothing, so one of them *)
(* moves while the other stands still.                                     *)
(***************************************************************************)
EXTENDS MCFtpTransfer, Quota

VARIABLE side       \* the one this behaviour is about

liveVars == <<side, vars, quotaVars>>

\* The loop and a staff command; or the loop and the scan of a status command.
QuotaCases ==
  [scans : {{"loop"}}, fallback : {FALSE}, staff : {1}]
  \cup [scans : {{"loop", "status"}}, fallback : {TRUE}, staff : {0}]
Quiet == [scans |-> {"loop"}, fallback |-> FALSE, staff |-> 1]

LiveInit ==
  /\ side \in {"sessions", "quota"}
  /\ QuotaInit /\ (side = "sessions" => may = Quiet)
  /\ Init /\ (side = "quota" => set = CHOOSE s \in Settings : TRUE)

SessionsMove == side = "sessions" /\ Next /\ UNCHANGED <<side, quotaVars>>
QuotaMoves == side = "quota" /\ QuotaNext /\ UNCHANGED <<side, vars>>

\* With the fairness of FtpTransfer and of Quota.
InSessions(A) == side = "sessions" /\ A
InQuota(A) == side = "quota" /\ A

LiveSpec ==
  /\ LiveInit /\ [][SessionsMove \/ QuotaMoves]_liveVars
  /\ \A s \in Sessions :
       /\ WF_vars(InSessions(Handler(s))) /\ WF_vars(InSessions(Slave(s)))
  /\ WF_quotaVars(InQuota(Load("loop"))) /\ SF_quotaVars(InQuota(Judge("loop")))
  /\ \A w \in Worker : WF_quotaVars(InQuota(FileStep(w)))
=============================================================================

--------------------------- MODULE MCTransferEnd ----------------------------
(***************************************************************************)
(* The end of transfers as TLC checks it: on the slave, and on the master  *)
(* where callers wait for the final status.  What lies between is taken    *)
(* for granted here, so one of them moves while the other stands still.    *)
(***************************************************************************)
EXTENDS SlaveTransfer, TransferWait

\* Transfers of a file of one chunk, aborted, reaped, or whose link is lost.
LiveSettings == [who : {AllTransfers}, may : {{"abort", "reap"}, {"drop", "reap"}}, chunks : {1}]

VARIABLE side       \* the one this behaviour is about

endVars == <<side, transferVars, vars>>

EndInit ==
  /\ side \in {"slave", "master"}
  /\ TransferInit /\ Init
  /\ name = (IF "abort" \in set.may THEN Old ELSE Nil)    \* an old file is for resumes
  /\ IF side = "slave" THEN remote = [t \in Transfers |-> "none"]
                       ELSE set.may = {"abort", "reap"}

SlaveMoves == side = "slave" /\ TransferNext /\ UNCHANGED <<side, vars>>
MasterMoves == side = "master" /\ Next /\ UNCHANGED <<side, transferVars>>

\* With the fairness of SlaveTransfer and of TransferWait.
Slave(A) == side = "slave" /\ A
Master(A) == side = "master" /\ A

EndSpec ==
  /\ EndInit /\ [][SlaveMoves \/ MasterMoves]_endVars
  /\ \A t \in AllTransfers :
       /\ WF_transferVars(Slave(CallStep(t))) /\ WF_transferVars(Slave(SlaveStep(t)))
       /\ WF_transferVars(Slave(AbortFlags(t) \/ AbortTidies(t)))
       /\ WF_transferVars(Slave(ReapLooks(t) \/ Reap(t)))
  /\ WF_vars(Master(ReadStep))
  /\ \A t \in Transfers :
       /\ WF_vars(Master(CallerStep(t))) /\ WF_vars(Master(~online /\ Tick(t)))
       /\ SF_vars(Master(Expire(t)))
=============================================================================

---------------------------- MODULE TransferWait ---------------------------
(***************************************************************************)
(* How the final status of a transfer comes from the slave's goroutine     *)
(* through the read loop of its RemoteSlave to the caller that sleeps in   *)
(* WaitTransferStatus: two maps, a channel per transfer that is closed,    *)
(* and a ticker that is to be needed only when the slave goes offline.     *)
(***************************************************************************)
EXTENDS Naturals

CONSTANTS Transfers, None     \* no transfer

ASSUME TransferWaitAssumption == None \notin Transfers

VARIABLES
  online,     \* RemoteSlave.online
  sent, wire, \* final statuses the slave has sent, and those still under way
  remote,     \* its RemoteTransfer in transfers: none, running, finished
  completed,  \* completedTransfers
  bell,       \* its channel in transferDone: none, open, closed
  reader,     \* the transfer whose status the read loop holds, what it does next
  expired,    \* transfers whose caller's two hours are over
  caller      \* where WaitTransferStatus is, or what it has returned

slaveVars == <<online, sent, wire>>
mapVars == <<remote, completed, bell>>
callVars == <<expired, caller>>
vars == <<online, sent, wire, remote, completed, bell, reader, expired, caller>>

Looking == {"completed", "finished", "online"}

TypeOK ==
  /\ online \in BOOLEAN
  /\ sent \subseteq Transfers /\ wire \subseteq sent
  /\ remote \in [Transfers -> {"none", "running", "finished"}]
  /\ completed \subseteq sent
  /\ bell \in [Transfers -> {"none", "open", "closed"}]
  /\ reader \in [of : sent, next : {"update", "store", "delete", "ring"}]
               \cup {[of |-> None, next |-> "read"]}
  /\ expired \subseteq Transfers
  /\ caller \in [Transfers -> Looking \cup {"no", "sleep", "got", "failed"}]

Init ==
  /\ online = TRUE /\ sent = {} /\ wire = {}
  /\ remote \in [Transfers -> {"none", "running"}]     \* "none": set up on an earlier link
  /\ completed = {}
  /\ bell = [t \in Transfers |-> "none"]
  /\ reader = [of |-> None, next |-> "read"]
  /\ expired = {}
  /\ caller = [t \in Transfers |-> "no"]

(***************************************************************************)
(* The slave and its link.                                                 *)
(***************************************************************************)

SendStatus(t) ==        \* writeObject at the end of RECEIVE or SEND
  /\ t \notin sent
  /\ sent' = sent \cup {t}
  /\ wire' = IF online THEN wire \cup {t} ELSE wire
  /\ UNCHANGED <<online, mapVars, reader, callVars>>

SetOffline ==           \* what is under way is lost
  /\ online
  /\ online' = FALSE
  /\ wire' = {}
  /\ UNCHANGED <<sent, mapVars, reader, callVars>>

(***************************************************************************)
(* The read loop with an AsyncResponseTransferStatus.                      *)
(***************************************************************************)

ReaderAt(t, step) == reader = [of |-> t, next |-> step]
ReaderGoes(step) == reader' = [reader EXCEPT !.next = step]

Read(t) ==              \* is there a RemoteTransfer to update?
  /\ reader.next = "read" /\ t \in wire
  /\ wire' = wire \ {t}
  /\ reader' = [of |-> t, next |-> IF remote[t] = "none" THEN "store" ELSE "update"]
  /\ UNCHANGED <<online, sent, mapVars, callVars>>

Update(t) ==            \* UpdateStatus; the caller may have left it by now
  /\ ReaderAt(t, "update")
  /\ remote' = [remote EXCEPT ![t] = IF @ = "none" THEN @ ELSE "finished"]
  /\ ReaderGoes("store")
  /\ UNCHANGED <<slaveVars, completed, bell, callVars>>

Store(t) ==             \* completedTransfers.Store
  /\ ReaderAt(t, "store")
  /\ completed' = completed \cup {t}
  /\ ReaderGoes("delete")
  /\ UNCHANGED <<slaveVars, remote, bell, callVars>>

Delete(t) ==            \* transfers.Delete
  /\ ReaderAt(t, "delete")
  /\ remote' = [remote EXCEPT ![t] = "none"]
  /\ ReaderGoes("ring")
  /\ UNCHANGED <<slaveVars, completed, bell, callVars>>

Ring(t) ==              \* signalTransferDone closes the channel, if there is one
  /\ ReaderAt(t, "ring")
  /\ bell' = [bell EXCEPT ![t] = IF @ = "none" THEN @ ELSE "closed"]
  /\ reader' = [of |-> None, next |-> "read"]
  /\ UNCHANGED <<slaveVars, remote, completed, callVars>>

(***************************************************************************)
(* WaitTransferStatus.                                                     *)
(***************************************************************************)

CallerGoes(t, c) == caller' = [caller EXCEPT ![t] = c]

Wait(t) ==              \* transferDoneChan
  /\ caller[t] = "no"
  /\ CallerGoes(t, "completed")
  /\ bell' = [bell EXCEPT ![t] = "open"]
  /\ UNCHANGED <<slaveVars, remote, completed, reader, expired>>

\* It returns, and clearTransferDone is deferred.
Returns(t, c) ==
  /\ CallerGoes(t, c)
  /\ bell' = [bell EXCEPT ![t] = "none"]

GetCompleted(t) ==
  /\ caller[t] = "completed"
  /\ IF t \in completed THEN Returns(t, "got") ELSE CallerGoes(t, "finished") /\ UNCHANGED bell
  /\ completed' = completed \ {t}
  /\ UNCHANGED <<slaveVars, remote, reader, expired>>

\* Mutant: any RemoteTransfer that is still there is taken for finished.
GetRunning(t) ==
  /\ caller[t] = "finished"
  /\ IF remote[t] # "none"
     THEN Returns(t, "got") /\ remote' = [remote EXCEPT ![t] = "none"]
     ELSE CallerGoes(t, "online") /\ UNCHANGED <<bell, remote>>
  /\ UNCHANGED <<slaveVars, completed, reader, expired>>

GetFinished(t) ==       \* IsFinished, GetStatus, transfers.Delete
  /\ caller[t] = "finished"
  /\ IF remote[t] = "finished"
     THEN Returns(t, "got") /\ remote' = [remote EXCEPT ![t] = "none"]
     ELSE CallerGoes(t, "online") /\ UNCHANGED <<bell, remote>>
  /\ UNCHANGED <<slaveVars, completed, reader, expired>>

LookOnline(t) ==        \* then the select
  /\ caller[t] = "online"
  /\ IF online THEN CallerGoes(t, "sleep") /\ UNCHANGED bell ELSE Returns(t, "failed")
  /\ UNCHANGED <<slaveVars, remote, completed, reader, expired>>

Wake(t) ==              \* the channel is closed
  /\ caller[t] = "sleep" /\ bell[t] = "closed"
  /\ CallerGoes(t, "completed")
  /\ UNCHANGED <<slaveVars, remote, completed, bell, reader, expired>>

Tick(t) ==              \* a second has passed
  /\ caller[t] = "sleep"
  /\ CallerGoes(t, "completed")
  /\ UNCHANGED <<slaveVars, remote, completed, bell, reader, expired>>

Deadline(t) ==
  /\ caller[t] \in Looking \cup {"sleep"}
  /\ expired' = expired \cup {t}
  /\ UNCHANGED <<slaveVars, mapVars, reader, caller>>

Expire(t) ==
  /\ caller[t] = "sleep" /\ t \in expired
  /\ Returns(t, "failed")
  /\ UNCHANGED <<slaveVars, remote, completed, reader, expired>>

(***************************************************************************)
(* The specification.                                                      *)
(***************************************************************************)

CallerStep(t) == GetCompleted(t) \/ GetFinished(t) \/ LookOnline(t) \/ Wake(t)

ReadStep == \E t \in Transfers : Read(t) \/ Update(t) \/ Store(t) \/ Delete(t) \/ Ring(t)

Next ==
  \/ SetOffline \/ ReadStep
  \/ \E t \in Transfers :
       SendStatus(t) \/ Wait(t) \/ CallerStep(t) \/ Tick(t) \/ Deadline(t) \/ Expire(t)

Spec == Init /\ [][Next]_vars

\* The read loop and the callers are goroutines that run; a status need not come,
\* and of the ticker nothing is asked while the slave is online.  A select takes
\* the deadline sooner or later, as the next tick is a second away.
FairSpec ==
  /\ Spec
  /\ WF_vars(ReadStep)
  /\ \A t \in Transfers :
       WF_vars(CallerStep(t)) /\ WF_vars(~online /\ Tick(t)) /\ SF_vars(Expire(t))

(***************************************************************************)
(* Properties.                                                             *)
(***************************************************************************)

\* remote_slave.go:626 "completion itself is delivered instantly via doneCh": a
\* status that was sent to a caller that sleeps is still on its way through the
\* link and the read loop, or has woken it.  None comes to lie beside a sleeper.
SleeperIsWoken ==
  \A t \in Transfers :
    online /\ t \in sent /\ caller[t] = "sleep" =>
      t \in wire \/ reader.of = t \/ bell[t] = "closed"

\* The promise of TransferResult, the instant wake-up included: while the slave
\* is online the closing of the channel must do.
Result == INSTANCE TransferResult WITH
  answer <- [t \in Transfers |-> IF caller[t] \in Looking \cup {"sleep"} THEN "awaited"
                                 ELSE caller[t]]
Promised == Result!Spec
=============================================================================

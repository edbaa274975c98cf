----------------------------- MODULE SlaveLink -----------------------------
(***************************************************************************)
(* The command/response link between the master's RemoteSlave and one      *)
(* slave name, across reconnects.                                          *)
(*                                                                         *)
(* A session is one RemoteSlave object: one accepted connection.  A caller *)
(* is a master goroutine that issues a command (FetchIndex, SendCommand)   *)
(* and waits for its reply (FetchResponse); a remerger is the caller that  *)
(* runs initializeSlaveRemerge and also keeps the active-remerge marker.   *)
(* The reader is the goroutine in RemoteSlave.Run.  The slave runs every   *)
(* command in a goroutine of its own (a job), which survives a reconnect   *)
(* and writes its reply to whatever stream the slave has by then.          *)
(*                                                                         *)
(* A reply that is in transit is a job that has not finished: jobs finish  *)
(* in any order, so the two cannot be told apart by the master.  The       *)
(* handshake of a connection is one step.                                  *)
(***************************************************************************)
EXTENDS Naturals, FiniteSets

CONSTANTS
  Callers,      \* goroutines of the master that issue commands and wait
  Remergers,    \* those of them that run initializeSlaveRemerge
  MaxSession,   \* bound: connections the slave makes
  MaxIndex,     \* bound: commands issued on one connection
  MaxCommands,  \* bound: commands issued on all of them
  None,         \* no caller, no message
  Closed        \* the nil that SetOffline sends to a waiter

ASSUME LinkAssumption ==
  /\ MaxSession \in Nat \ {0}
  /\ MaxIndex \in Nat \ {0}
  /\ Remergers \subseteq Callers
  /\ None \notin Callers
  /\ None # Closed

Session == 1..MaxSession
Index   == 1..MaxIndex

\* A command, and the reply to it: the index is all the wire carries, the
\* session it was issued on and the caller are known to the model alone.
Command == [index : Index, sess : Session, by : Callers \cup {None}]

ASSUME MessageAssumption == None \notin Command /\ Closed \notin Command

VARIABLES
  sess,      \* session of the RemoteSlave in sm.slaves and of the slave's stream
  stage,     \* progress of SetOffline, per session
  next,      \* nextCmdIndex, per session
  pending,   \* pendingCmds: index -> caller whose channel is registered
  early,     \* earlyResponses: index -> reply
  rem,       \* remergeIndex and remergeTimedOut, per session
  sweep,     \* indexes SetOffline's Range has still to visit, per session
  reader,    \* the read loop: where it is and the reply it holds
  jobs,      \* commands sent whose reply the master has not read
  pc,        \* where each caller is
  call,      \* session and index of each caller's command
  chan,      \* content of each caller's one-place channel
  outcome,   \* how each caller's FetchResponse is about to return
  crossed    \* history: the callers that routeResponse and FetchResponse missed
             \* each other over

callVars == <<pc, call, chan, outcome, crossed>>
vars == <<sess, stage, next, pending, early, rem, sweep, reader, jobs,
          pc, call, chan, outcome, crossed>>

NoRemerge == [index |-> 0, timedOut |-> FALSE]

TypeOK ==
  /\ sess \in 0..MaxSession
  /\ stage \in [Session -> {"new", "up", "closing", "sweeping", "down"}]
  /\ next \in [Session -> 0..MaxIndex]
  /\ pending \in [Session -> [Index -> Callers \cup {None}]]
  /\ early \in [Session -> [Index -> Command \cup {None}]]
  /\ rem \in [Session -> [index : 0..MaxIndex, timedOut : BOOLEAN]]
  /\ sweep \in [Session -> SUBSET Index]
  /\ reader \in [Session -> [at : {"read", "lookup", "miss", "store", "stop"},
                             msg : Command \cup {None}]]
  /\ jobs \in SUBSET Command
  /\ pc \in [Callers -> {"idle", "indexed", "issued", "sent", "registered",
                         "waiting", "leaving", "overdue", "finish"}]
  /\ call \in [Callers -> [sess : Session, index : Index]]
  /\ chan \in [Callers -> Command \cup {None, Closed}]
  /\ outcome \in [Callers -> [kind : {"none", "answer", "closed", "timeout"},
                              msg : Command \cup {None}]]
  /\ crossed \in SUBSET Callers

NoOutcome == [kind |-> "none", msg |-> None]

Init ==
  /\ sess = 0
  /\ stage = [s \in Session |-> "new"]
  /\ next = [s \in Session |-> 0]
  /\ pending = [s \in Session |-> [i \in Index |-> None]]
  /\ early = [s \in Session |-> [i \in Index |-> None]]
  /\ rem = [s \in Session |-> NoRemerge]
  /\ sweep = [s \in Session |-> {}]
  /\ reader = [s \in Session |-> [at |-> "read", msg |-> None]]
  /\ jobs = {}
  /\ pc = [c \in Callers |-> "idle"]
  /\ call = [c \in Callers |-> [sess |-> 1, index |-> 1]]
  /\ chan = [c \in Callers |-> None]
  /\ outcome = [c \in Callers |-> NoOutcome]
  /\ crossed = {}

\* The command of a caller's call, and the reply to it.
CommandOf(c) == [index |-> call[c].index, sess |-> call[c].sess, by |-> c]

Online(s) == stage[s] = "up"

\* The bounds leave room for one more command.
MayIssue ==
  /\ next[sess] < MaxIndex
  /\ Cardinality({p \in Session \X Index : p[2] <= next[p[1]]}) < MaxCommands

(***************************************************************************)
(* Connections.                                                            *)
(***************************************************************************)

\* handleSlaveConnection accepts the name unless its RemoteSlave is online,
\* and replaces that RemoteSlave by a new one with fresh maps and counters.
Connect ==
  /\ sess < MaxSession
  /\ sess > 0 => ~Online(sess)
  /\ sess' = sess + 1
  /\ stage' = [stage EXCEPT ![sess + 1] = "up"]
  /\ UNCHANGED <<next, pending, early, rem, sweep, reader, jobs, callVars>>

\* SetOffline wins its compare-and-swap: a read error, a heartbeat timeout, a
\* kick or a shutdown.
GoOffline(s) ==
  /\ Online(s)
  /\ stage' = [stage EXCEPT ![s] = "closing"]
  /\ UNCHANGED <<sess, next, pending, early, rem, sweep, reader, jobs, callVars>>

\* Mutant: SetOffline leaves the waiters alone.
CloseLinkNoSweep(s) ==
  /\ stage[s] = "closing"
  /\ stage' = [stage EXCEPT ![s] = "sweeping"]
  /\ rem' = [rem EXCEPT ![s] = NoRemerge]
  /\ UNCHANGED <<sess, next, pending, early, sweep, reader, jobs, callVars>>

\* SetOffline clears the active remerge, closes the connection and calls
\* onOffline, before it starts to wake the waiters.
CloseLink(s) ==
  /\ stage[s] = "closing"
  /\ stage' = [stage EXCEPT ![s] = "sweeping"]
  /\ rem' = [rem EXCEPT ![s] = NoRemerge]
  /\ sweep' = [sweep EXCEPT ![s] = Index]
  /\ UNCHANGED <<sess, next, pending, early, reader, jobs, callVars>>

\* One visit of pendingCmds.Range: a nil, sent without blocking.  The visits
\* come in any order, and an entry stored meanwhile may be missed.
SweepOne(s, i) ==
  /\ i \in sweep[s]
  /\ sweep' = [sweep EXCEPT ![s] = @ \ {i}]
  /\ LET c == pending[s][i] IN
       chan' = IF c # None /\ chan[c] = None THEN [chan EXCEPT ![c] = Closed]
                                             ELSE chan
  /\ UNCHANGED <<sess, stage, next, pending, early, rem, reader, jobs, pc,
                 call, outcome, crossed>>

SweepDone(s) ==
  /\ stage[s] = "sweeping" /\ sweep[s] = {}
  /\ stage' = [stage EXCEPT ![s] = "down"]
  /\ UNCHANGED <<sess, next, pending, early, rem, sweep, reader, jobs, callVars>>

(***************************************************************************)
(* Callers.                                                                *)
(***************************************************************************)

\* Mutant: the counter is read, not advanced.
FetchIndexStale(c) ==
  /\ pc[c] = "idle"
  /\ sess > 0 /\ Online(sess)
  /\ MayIssue
  /\ call' = [call EXCEPT ![c] = [sess |-> sess, index |-> next[sess] + 1]]
  /\ pc' = [pc EXCEPT ![c] = "indexed"]
  /\ UNCHANGED <<sess, stage, next, pending, early, rem, sweep, reader, jobs,
                 chan, outcome, crossed>>

\* FetchIndex, on the RemoteSlave that GetSlave returned.
FetchIndex(c) ==
  /\ pc[c] = "idle"
  /\ sess > 0 /\ Online(sess)
  /\ MayIssue
  /\ next' = [next EXCEPT ![sess] = @ + 1]
  /\ call' = [call EXCEPT ![c] = [sess |-> sess, index |-> next[sess] + 1]]
  /\ pc' = [pc EXCEPT ![c] = "indexed"]
  /\ UNCHANGED <<sess, stage, pending, early, rem, sweep, reader, jobs, chan,
                 outcome, crossed>>

\* SendCommand: refused when the slave went offline since FetchIndex.
SendCommand(c) ==
  /\ pc[c] = "indexed"
  /\ \/ /\ Online(call[c].sess)
        /\ jobs' = jobs \cup {CommandOf(c)}
        /\ pc' = [pc EXCEPT ![c] = IF c \in Remergers THEN "issued" ELSE "sent"]
     \/ /\ ~Online(call[c].sess)
        /\ pc' = [pc EXCEPT ![c] = "idle"]
        /\ UNCHANGED jobs
  /\ UNCHANGED <<sess, stage, next, pending, early, rem, sweep, reader, call,
                 chan, outcome, crossed>>

\* A command nobody waits for: ping, remergePause, remergeResume, abort.
FireAndForget ==
  /\ sess > 0 /\ Online(sess)
  /\ MayIssue
  /\ next' = [next EXCEPT ![sess] = @ + 1]
  /\ jobs' = jobs \cup {[index |-> next[sess] + 1, sess |-> sess, by |-> None]}
  /\ UNCHANGED <<sess, stage, pending, early, rem, sweep, reader, callVars>>

\* setActiveRemerge, after IssueRemerge has sent the command.
SetActiveRemerge(c) ==
  /\ pc[c] = "issued"
  /\ rem' = [rem EXCEPT ![call[c].sess] =
                         [index |-> call[c].index, timedOut |-> FALSE]]
  /\ pc' = [pc EXCEPT ![c] = "sent"]
  /\ UNCHANGED <<sess, stage, next, pending, early, sweep, reader, jobs, call,
                 chan, outcome, crossed>>

\* FetchResponse makes a channel and stores it in pendingCmds ...
Register(c) ==
  /\ pc[c] = "sent"
  /\ pending' = [pending EXCEPT ![call[c].sess][call[c].index] = c]
  /\ chan' = [chan EXCEPT ![c] = None]
  /\ pc' = [pc EXCEPT ![c] = "registered"]
  /\ UNCHANGED <<sess, stage, next, early, rem, sweep, reader, jobs, call,
                 outcome, crossed>>

\* Mutant: the early reply is discarded instead of delivered.
TakeEarlyDropped(c) ==
  /\ pc[c] = "registered"
  /\ early' = [early EXCEPT ![call[c].sess][call[c].index] = None]
  /\ pc' = [pc EXCEPT ![c] = "waiting"]
  /\ UNCHANGED <<sess, stage, next, pending, rem, sweep, reader, jobs, call,
                 chan, outcome, crossed>>

\* The read loop holds the caller's own reply and has already looked for its
\* channel, in vain.
LookedTooSoon(c) ==
  LET r == reader[call[c].sess] IN
    r.at \in {"miss", "store"} /\ r.msg = CommandOf(c)

\* ... then takes a reply that came before the registration, if there is one.
TakeEarly(c) ==
  LET s == call[c].sess
      i == call[c].index
      m == early[s][i]
  IN
  /\ pc[c] = "registered"
  /\ chan' = IF m # None /\ chan[c] = None THEN [chan EXCEPT ![c] = m] ELSE chan
  /\ early' = [early EXCEPT ![s][i] = None]
  /\ pc' = [pc EXCEPT ![c] = "waiting"]
  /\ crossed' = IF LookedTooSoon(c) THEN crossed \cup {c} ELSE crossed
  /\ UNCHANGED <<sess, stage, next, pending, rem, sweep, reader, jobs, call, outcome>>

\* The select receives from the channel: an answer, or the nil of SetOffline.
Receive(c) ==
  /\ pc[c] = "waiting"
  /\ chan[c] # None
  /\ outcome' = [outcome EXCEPT ![c] =
                  IF chan[c] = Closed THEN [kind |-> "closed", msg |-> None]
                                      ELSE [kind |-> "answer", msg |-> chan[c]]]
  /\ chan' = [chan EXCEPT ![c] = None]
  /\ pc' = [pc EXCEPT ![c] = "leaving"]
  /\ UNCHANGED <<sess, stage, next, pending, early, rem, sweep, reader, jobs, call,
                 crossed>>

\* Mutant: the timer only counts while the slave is online.
TimeoutOnline(c) ==
  /\ pc[c] = "waiting" /\ Online(call[c].sess)
  /\ outcome' = [outcome EXCEPT ![c] = [kind |-> "timeout", msg |-> None]]
  /\ pc' = [pc EXCEPT ![c] = "leaving"]
  /\ UNCHANGED <<sess, stage, next, pending, early, rem, sweep, reader, jobs,
                 call, chan, crossed>>

\* The select takes the timer; it may, even when a reply is there as well.
Timeout(c) ==
  /\ pc[c] = "waiting"
  /\ outcome' = [outcome EXCEPT ![c] = [kind |-> "timeout", msg |-> None]]
  /\ pc' = [pc EXCEPT ![c] = "leaving"]
  /\ UNCHANGED <<sess, stage, next, pending, early, rem, sweep, reader, jobs,
                 call, chan, crossed>>

\* The deferred pendingCmds.Delete of FetchResponse.
Unregister(c) ==
  /\ pc[c] = "leaving"
  /\ pending' = [pending EXCEPT ![call[c].sess][call[c].index] = None]
  /\ pc' = [pc EXCEPT ![c] =
             IF c \notin Remergers THEN "idle"
             ELSE IF outcome[c].kind = "timeout" THEN "overdue" ELSE "finish"]
  /\ chan' = [chan EXCEPT ![c] = None]
  /\ outcome' = [outcome EXCEPT ![c] = NoOutcome]
  /\ crossed' = crossed \ {c}
  /\ UNCHANGED <<sess, stage, next, early, rem, sweep, reader, jobs, call>>

\* markActiveRemergeTimedOut, after FetchResponse has returned the timeout.
\* (IssueRemergeStop, which follows, is a FireAndForget.)
MarkTimedOut(c) ==
  LET s == call[c].sess IN
  /\ pc[c] = "overdue"
  /\ rem' = IF rem[s].index = call[c].index
            THEN [rem EXCEPT ![s] = [index |-> call[c].index, timedOut |-> TRUE]]
            ELSE rem
  /\ pc' = [pc EXCEPT ![c] = "idle"]
  /\ UNCHANGED <<sess, stage, next, pending, early, sweep, reader, jobs, call,
                 chan, outcome, crossed>>

\* clearActiveRemerge(index) at the end of a remerge that did not time out.
ClearActiveRemerge(c) ==
  LET s == call[c].sess IN
  /\ pc[c] = "finish"
  /\ rem' = IF rem[s].index = call[c].index THEN [rem EXCEPT ![s] = NoRemerge]
                                            ELSE rem
  /\ pc' = [pc EXCEPT ![c] = "idle"]
  /\ UNCHANGED <<sess, stage, next, pending, early, sweep, reader, jobs, call,
                 chan, outcome, crossed>>

(***************************************************************************)
(* The read loop and the slave's jobs.                                     *)
(***************************************************************************)

\* Where the loop goes after a reply: its condition is IsOnline.
NextRead(s) == [at |-> IF Online(s) THEN "read" ELSE "stop", msg |-> None]

\* A job finishes, its reply goes out on the slave's current stream, and the
\* read loop takes it.  A loop already past its check reads once more when
\* the session is offline.
ReadReply(s) ==
  /\ s = sess
  /\ reader[s].at = "read"
  /\ \E m \in jobs :
       /\ jobs' = jobs \ {m}
       /\ reader' = [reader EXCEPT ![s] = [at |-> "lookup", msg |-> m]]
  /\ UNCHANGED <<sess, stage, next, pending, early, rem, sweep, callVars>>

\* The link is dead: a command in flight never arrives, or a job finishes and
\* its write fails.
LoseReply ==
  /\ sess > 0 /\ ~Online(sess)
  /\ \E m \in jobs : jobs' = jobs \ {m}
  /\ UNCHANGED <<sess, stage, next, pending, early, rem, sweep, reader, callVars>>

\* routeResponse finds the index in pendingCmds and sends without blocking.
DeliverReply(s) ==
  LET m == reader[s].msg
      c == pending[s][m.index]
  IN
  /\ reader[s].at = "lookup"
  /\ c # None
  /\ chan' = IF chan[c] = None THEN [chan EXCEPT ![c] = m] ELSE chan
  /\ reader' = [reader EXCEPT ![s] = NextRead(s)]
  /\ UNCHANGED <<sess, stage, next, pending, early, rem, sweep, jobs, pc, call, outcome,
                 crossed>>

\* routeResponse does not find it.
MissReply(s) ==
  /\ reader[s].at = "lookup"
  /\ pending[s][reader[s].msg.index] = None
  /\ reader' = [reader EXCEPT ![s] = [at |-> "miss", msg |-> reader[s].msg]]
  /\ UNCHANGED <<sess, stage, next, pending, early, rem, sweep, jobs, callVars>>

TimedOutRemerge(s, i) == rem[s].index = i /\ rem[s].timedOut

\* The late answer of a remerge that timed out only clears its marker.
ClearLateRemerge(s) ==
  /\ reader[s].at = "miss"
  /\ TimedOutRemerge(s, reader[s].msg.index)
  /\ rem' = [rem EXCEPT ![s] = NoRemerge]
  /\ reader' = [reader EXCEPT ![s] = NextRead(s)]
  /\ UNCHANGED <<sess, stage, next, pending, early, sweep, jobs, callVars>>

NotLateRemerge(s) ==
  /\ reader[s].at = "miss"
  /\ ~TimedOutRemerge(s, reader[s].msg.index)
  /\ reader' = [reader EXCEPT ![s] = [at |-> "store", msg |-> reader[s].msg]]
  /\ UNCHANGED <<sess, stage, next, pending, early, rem, sweep, jobs, callVars>>

\* Any other reply is kept for a FetchResponse to come.
StoreEarly(s) ==
  LET m == reader[s].msg IN
  /\ reader[s].at = "store"
  /\ early' = [early EXCEPT ![s][m.index] = m]
  /\ reader' = [reader EXCEPT ![s] = NextRead(s)]
  /\ UNCHANGED <<sess, stage, next, pending, rem, sweep, jobs, callVars>>

----------------------------------------------------------------------------

CallerWaits(c) ==   \* every caller step but the timer
  \/ SendCommand(c) \/ SetActiveRemerge(c) \/ Register(c) \/ TakeEarly(c)
  \/ Receive(c) \/ Unregister(c) \/ MarkTimedOut(c) \/ ClearActiveRemerge(c)

Read(s) ==
  \/ DeliverReply(s) \/ MissReply(s) \/ ClearLateRemerge(s)
  \/ NotLateRemerge(s) \/ StoreEarly(s)

Offline(s) ==
  CloseLink(s) \/ SweepDone(s) \/ \E i \in Index : SweepOne(s, i)

Next ==
  \/ Connect
  \/ LoseReply
  \/ FireAndForget
  \/ \E c \in Callers : FetchIndex(c) \/ Timeout(c) \/ CallerWaits(c)
  \/ \E s \in Session : GoOffline(s) \/ ReadReply(s) \/ Read(s) \/ Offline(s)

Spec == Init /\ [][Next]_vars

\* Goroutines that can run do run: callers, the read loop once it holds a
\* reply, and SetOffline once it has started.  Nothing obliges the slave to
\* answer, the link to break or a timer to fire.
SchedulerFairness ==
  /\ \A c \in Callers : WF_vars(CallerWaits(c))
  /\ \A s \in Session : WF_vars(Read(s)) /\ WF_vars(Offline(s))

FairSpec == Spec /\ SchedulerFairness

----------------------------------------------------------------------------
(***************************************************************************)
(* Properties.                                                             *)
(***************************************************************************)

Active(c)  == pc[c] # "idle"
Waiting(c) == pc[c] = "waiting"

\* FetchIndex (remote_slave.go:210) promises "a free command index": two
\* calls in flight on one RemoteSlave never share an index, whatever the
\* interleaving of callers, pings and reconnects.
IndexesFree ==
  \A c, d \in Callers :
    c # d /\ Active(c) /\ Active(d) => call[c] # call[d]

\* An answer that FetchResponse (remote_slave.go:234) returns is the answer to
\* the caller's own command, however the calls of a connection interleave.  Only
\* what a job of an earlier connection answers on this one, under the very index
\* the caller drew after the restart of nextCmdIndex (214), reaches a caller it
\* was not made for.
AnswerIsOwn ==
  \A c \in Callers : outcome[c].kind = "answer" =>
    LET m == outcome[c].msg IN
      \/ m = CommandOf(c)
      \/ m.sess < call[c].sess /\ m.index = call[c].index

\* Between pendingCmds and earlyResponses no answer falls through, but in one
\* way: while the slave is online, a caller that sleeps on an empty channel has
\* its answer still to come - the job runs, or the read loop has it and finds
\* the channel - unless routeResponse had looked for the channel (remote_slave.go:525)
\* before it was there and had not buffered the reply (538) when FetchResponse
\* took its only look (242).
AnswerNotLost ==
  \A c \in Callers :
    LET r == reader[call[c].sess] IN
    Waiting(c) /\ chan[c] = None /\ Online(call[c].sess) /\ c \notin crossed =>
      \/ CommandOf(c) \in jobs
      \/ r.at = "lookup" /\ r.msg = CommandOf(c)

\* Every call ends if the timers fire: FetchResponse returns an answer, a closed
\* link or a timeout, and the remerge bookkeeping after it completes.
CallsReturn ==
  (\A c \in Callers : WF_vars(Timeout(c))) =>
    \A c \in Callers : Active(c) ~> ~Active(c)

\* SetOffline (remote_slave.go:561) unblocks a caller that was already
\* waiting when the slave went offline, without the help of its timer.
OfflineWakesWaiters ==
  \A c \in Callers : \A s \in Session :
    [](Waiting(c) /\ call[c].sess = s /\ Online(s) /\ <>~Online(s) => <>~Waiting(c))
=============================================================================

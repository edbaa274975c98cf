-------------------------- MODULE SlaveLinkProofs --------------------------
(***************************************************************************)
(* What holds of SlaveLink for any number of callers, connections and      *)
(* commands.                                                               *)
(***************************************************************************)
EXTENDS SlaveLink, TLAPS

USE LinkAssumption, MessageAssumption

\* The marker that clearActiveRemerge leaves is a marker.
LEMMA NoRemergeType == NoRemerge \in [index : 0..MaxIndex, timedOut : BOOLEAN]
BY DEF NoRemerge

\* RemoteSlave's maps, counters and markers, the read loop and every caller
\* keep to their domains through any interleaving.
THEOREM TypeCorrect == Spec => []TypeOK
<1>1. Init => TypeOK
  BY DEF Init, TypeOK, Session, Index, NoRemerge, NoOutcome
<1>2. TypeOK /\ [Next]_vars => TypeOK'
  <2> SUFFICES ASSUME TypeOK, [Next]_vars PROVE TypeOK'
    OBVIOUS
  <2> USE DEF TypeOK, Session, Index, callVars
  <2>1. CASE Connect
    BY <2>1 DEF Connect
  <2>2. CASE LoseReply
    BY <2>2 DEF LoseReply
  <2>3. CASE FireAndForget
    <3>1. sess \in 1..MaxSession /\ next[sess] + 1 \in 1..MaxIndex
      <4>1. sess \in Nat /\ sess > 0 /\ sess <= MaxSession /\ next[sess] < MaxIndex
        BY <2>3 DEF FireAndForget, MayIssue
      <4>2. sess \in Session /\ next[sess] \in 0..MaxIndex
        BY <4>1
      <4> QED
        BY <4>1, <4>2
    <3>2. [index |-> next[sess] + 1, sess |-> sess, by |-> None] \in Command
      BY <3>1 DEF Command
    <3>3. next' \in [Session -> 0..MaxIndex] /\ jobs' \in SUBSET Command
      BY <2>3, <3>1, <3>2 DEF FireAndForget
    <3> QED
      BY <2>3, <3>3 DEF FireAndForget
  <2>4. ASSUME NEW c \in Callers, FetchIndex(c) PROVE TypeOK'
    <3>1. sess \in 1..MaxSession /\ next[sess] + 1 \in 1..MaxIndex
      BY <2>4 DEF FetchIndex, MayIssue
    <3>2. next' \in [Session -> 0..MaxIndex]
      BY <2>4, <3>1 DEF FetchIndex
    <3>3. call' \in [Callers -> [sess : Session, index : Index]]
      BY <2>4, <3>1 DEF FetchIndex
    <3> QED
      BY <2>4, <3>2, <3>3 DEF FetchIndex
  <2>5. ASSUME NEW c \in Callers, Timeout(c) PROVE TypeOK'
    BY <2>5 DEF Timeout
  <2>6. ASSUME NEW c \in Callers, SendCommand(c) PROVE TypeOK'
    <3>1. call[c].sess \in Session /\ call[c].index \in Index
      OBVIOUS
    <3>2. CommandOf(c) \in Command
      BY <3>1 DEF Command, CommandOf
    <3>3. jobs' \in SUBSET Command
      BY <2>6, <3>2 DEF SendCommand
    <3>4. pc' \in [Callers -> {"idle", "indexed", "issued", "sent", "registered",
                              "waiting", "leaving", "overdue", "finish"}]
      BY <2>6 DEF SendCommand
    <3>5. UNCHANGED <<sess, stage, next, pending, early, rem, sweep, reader, call, chan,
                      outcome, crossed>>
      BY <2>6 DEF SendCommand
    <3> QED
      BY <3>3, <3>4, <3>5
  <2>7. ASSUME NEW c \in Callers, SetActiveRemerge(c) PROVE TypeOK'
    <3>1. rem' \in [Session -> [index : 0..MaxIndex, timedOut : BOOLEAN]]
      <4>1. call[c].sess \in Session /\ call[c].index \in 0..MaxIndex
        OBVIOUS
      <4>2. [index |-> call[c].index, timedOut |-> FALSE]
              \in [index : 0..MaxIndex, timedOut : BOOLEAN]
        BY <4>1
      <4> QED
        BY <2>7, <4>1, <4>2 DEF SetActiveRemerge
    <3> QED
      BY <2>7, <3>1 DEF SetActiveRemerge
  <2>8. ASSUME NEW c \in Callers, Register(c) PROVE TypeOK'
    BY <2>8 DEF Register
  <2>9. ASSUME NEW c \in Callers, TakeEarly(c) PROVE TypeOK'
    BY <2>9 DEF TakeEarly
  <2>10. ASSUME NEW c \in Callers, Receive(c) PROVE TypeOK'
    BY <2>10 DEF Receive
  <2>11. ASSUME NEW c \in Callers, Unregister(c) PROVE TypeOK'
    BY <2>11 DEF Unregister, NoOutcome
  <2>12. ASSUME NEW c \in Callers, MarkTimedOut(c) PROVE TypeOK'
    <3>1. rem' \in [Session -> [index : 0..MaxIndex, timedOut : BOOLEAN]]
      <4>1. rem' = rem \/ rem' = [rem EXCEPT ![call[c].sess] =
                      [index |-> call[c].index, timedOut |-> TRUE]]
        BY <2>12 DEF MarkTimedOut
      <4>2. call[c].sess \in Session /\ call[c].index \in 0..MaxIndex
        OBVIOUS
      <4>3. [index |-> call[c].index, timedOut |-> TRUE]
              \in [index : 0..MaxIndex, timedOut : BOOLEAN]
        BY <4>2
      <4> QED
        BY <4>1, <4>2, <4>3
    <3> QED
      BY <2>12, <3>1 DEF MarkTimedOut
  <2>13. ASSUME NEW c \in Callers, ClearActiveRemerge(c) PROVE TypeOK'
    <3>1. rem' \in [Session -> [index : 0..MaxIndex, timedOut : BOOLEAN]]
      BY <2>13, NoRemergeType DEF ClearActiveRemerge
    <3> QED
      BY <2>13, <3>1 DEF ClearActiveRemerge
  <2>14. ASSUME NEW s \in Session, GoOffline(s) PROVE TypeOK'
    BY <2>14 DEF GoOffline
  <2>15. ASSUME NEW s \in Session, ReadReply(s) PROVE TypeOK'
    BY <2>15 DEF ReadReply
  <2>16. ASSUME NEW s \in Session, DeliverReply(s) PROVE TypeOK'
    BY <2>16 DEF DeliverReply, NextRead
  <2>17. ASSUME NEW s \in Session, MissReply(s) PROVE TypeOK'
    <3>1. reader' = [reader EXCEPT ![s] = [at |-> "miss", msg |-> reader[s].msg]]
      BY <2>17 DEF MissReply
    <3>2. reader' \in [Session -> [at : {"read", "lookup", "miss", "store", "stop"},
                                   msg : Command \cup {None}]]
      BY <3>1
    <3> QED
      BY <2>17, <3>2 DEF MissReply
  <2>18. ASSUME NEW s \in Session, ClearLateRemerge(s) PROVE TypeOK'
    <3>1. rem' \in [Session -> [index : 0..MaxIndex, timedOut : BOOLEAN]]
      BY <2>18, NoRemergeType DEF ClearLateRemerge
    <3> QED
      BY <2>18, <3>1 DEF ClearLateRemerge, NextRead
  <2>19. ASSUME NEW s \in Session, NotLateRemerge(s) PROVE TypeOK'
    <3>1. reader' = [reader EXCEPT ![s] = [at |-> "store", msg |-> reader[s].msg]]
      BY <2>19 DEF NotLateRemerge
    <3>2. reader' \in [Session -> [at : {"read", "lookup", "miss", "store", "stop"},
                                   msg : Command \cup {None}]]
      BY <3>1
    <3> QED
      BY <2>19, <3>2 DEF NotLateRemerge
  <2>20. ASSUME NEW s \in Session, StoreEarly(s) PROVE TypeOK'
    BY <2>20 DEF StoreEarly, NextRead
  <2>21. ASSUME NEW s \in Session, CloseLink(s) PROVE TypeOK'
    <3>1. rem' \in [Session -> [index : 0..MaxIndex, timedOut : BOOLEAN]]
      BY <2>21, NoRemergeType DEF CloseLink
    <3> QED
      BY <2>21, <3>1 DEF CloseLink
  <2>22. ASSUME NEW s \in Session, SweepDone(s) PROVE TypeOK'
    BY <2>22 DEF SweepDone
  <2>23. ASSUME NEW s \in Session, NEW i \in Index, SweepOne(s, i) PROVE TypeOK'
    BY <2>23 DEF SweepOne
  <2>24. CASE UNCHANGED vars
    BY <2>24 DEF vars
  <2> QED
    BY <2>1, <2>2, <2>3, <2>4, <2>5, <2>6, <2>7, <2>8, <2>9, <2>10, <2>11,
       <2>12, <2>13, <2>14, <2>15, <2>16, <2>17, <2>18, <2>19, <2>20, <2>21,
       <2>22, <2>23, <2>24
    DEF Next, CallerWaits, Read, Offline
<1> QED
  BY <1>1, <1>2, PTL DEF Spec

----------------------------------------------------------------------------
(***************************************************************************)
(* Answers are never crossed within a connection.  The invariant follows   *)
(* every message: an index handed out is below the counter, and a message  *)
(* that carries the session and index of a call in progress was made for   *)
(* that caller.  It lists every place a message can be in.                 *)
(***************************************************************************)

Expecting(c) == pc[c] \in {"registered", "waiting", "leaving"}

Matches(c, m) == call[c].sess = m.sess /\ call[c].index = m.index

Traced(m) ==
  /\ m.index <= next[m.sess]
  /\ \A c \in Callers : Active(c) /\ Matches(c, m) => m.by = c

CallsBounded ==
  \A c \in Callers : Active(c) => call[c].index <= next[call[c].sess]

CallsApart ==
  \A c, d \in Callers :
    c # d /\ Active(c) /\ Active(d)
      => call[c].sess # call[d].sess \/ call[c].index # call[d].index

PendingOwned ==
  \A s \in Session : \A i \in Index : pending[s][i] # None =>
    LET c == pending[s][i] IN
      Expecting(c) /\ call[c].sess = s /\ call[c].index = i

JobsTraced == \A m \in jobs : Traced(m)

EarlyTraced ==
  \A s \in Session : \A i \in Index : early[s][i] # None =>
    Traced(early[s][i]) /\ early[s][i].index = i

ReaderTraced == \A s \in Session : reader[s].msg # None => Traced(reader[s].msg)

ChanTraced ==
  \A c \in Callers : chan[c] \notin {None, Closed} =>
    Traced(chan[c]) /\ chan[c].index = call[c].index /\ Expecting(c)

OutcomeTraced ==
  \A c \in Callers : outcome[c].kind = "answer" =>
    /\ outcome[c].msg \in Command
    /\ Traced(outcome[c].msg)
    /\ outcome[c].msg.index = call[c].index
    /\ pc[c] = "leaving"

LinkInv ==
  /\ TypeOK
  /\ CallsBounded /\ CallsApart /\ PendingOwned
  /\ JobsTraced /\ EarlyTraced /\ ReaderTraced /\ ChanTraced /\ OutcomeTraced

\* A step that hands out no index leaves every message traced.
LEMMA TracedStable ==
  ASSUME next' = next, call' = call,
         \A c \in Callers : Active(c)' => Active(c)
  PROVE  \A m : Traced(m) => Traced(m)'
BY DEF Traced, Matches

\* A step of the connection, the slave or the read loop that delivers nothing.
LEMMA QuietStep ==
  ASSUME LinkInv, TypeOK',
         UNCHANGED <<next, call, pc, pending, early, chan, outcome>>,
         jobs' \subseteq jobs,
         \A s \in Session : reader'[s].msg \in {None, reader[s].msg} \cup jobs
  PROVE  LinkInv'
<1>1. \A m : Traced(m) => Traced(m)'
  BY TracedStable DEF Active
<1>2. CallsBounded' /\ CallsApart' /\ PendingOwned'
  BY DEF LinkInv, CallsBounded, CallsApart, PendingOwned, Active, Expecting
<1>3. JobsTraced' /\ EarlyTraced' /\ ReaderTraced'
  BY <1>1 DEF LinkInv, JobsTraced, EarlyTraced, ReaderTraced
<1>4. ChanTraced' /\ OutcomeTraced'
  BY <1>1 DEF LinkInv, ChanTraced, OutcomeTraced, Expecting
<1> QED
  BY <1>2, <1>3, <1>4 DEF LinkInv

\* An entry of pendingCmds stays owned while its caller stays in FetchResponse.
LEMMA PendingKept ==
  ASSUME TypeOK, PendingOwned, call' = call, pending' = pending,
         \A d \in Callers : Expecting(d) => Expecting(d)'
  PROVE  PendingOwned'
<1> SUFFICES ASSUME NEW s \in Session, NEW i \in Index, pending[s][i] # None
             PROVE  /\ Expecting(pending[s][i])'
                    /\ call[pending[s][i]].sess = s
                    /\ call[pending[s][i]].index = i
  BY DEF PendingOwned
<1>1. pending[s][i] \in Callers
  BY DEF TypeOK
<1> QED
  BY <1>1 DEF PendingOwned

LEMMA SendCommandInv ==
  ASSUME LinkInv, TypeOK', NEW c \in Callers, SendCommand(c)
  PROVE  LinkInv'
<1>1. \A m : Traced(m) => Traced(m)'
  BY TracedStable DEF LinkInv, TypeOK, Active, SendCommand
<1>2. EarlyTraced' /\ ReaderTraced'
  BY <1>1 DEF LinkInv, EarlyTraced, ReaderTraced, SendCommand, callVars
<1>3. CallsBounded'
  BY <1>1 DEF LinkInv, TypeOK, Session, Index, CallsBounded, SendCommand, Active, Expecting
<1>4. CallsApart'
  <2>1. \A d \in Callers : Active(d)' => Active(d)
    BY DEF LinkInv, TypeOK, SendCommand, Active
  <2> QED
    BY <2>1 DEF LinkInv, CallsApart, SendCommand
<1>5. PendingOwned'
  <2>1. \A d \in Callers : Expecting(d) => Expecting(d)'
    BY DEF LinkInv, TypeOK, SendCommand, Expecting
  <2> QED
    BY <2>1, PendingKept DEF LinkInv, SendCommand, callVars
<1>6. JobsTraced'
  <2> DEFINE m == CommandOf(c)
  <2>1. Traced(m)
    BY DEF CommandOf, LinkInv, CallsBounded, CallsApart, Traced, Matches, SendCommand, Active
  <2>2. jobs' \subseteq jobs \cup {m}
    BY DEF SendCommand
  <2> QED
    BY <1>1, <2>1, <2>2 DEF LinkInv, JobsTraced
<1>7. ChanTraced'
  BY <1>1 DEF LinkInv, TypeOK, Session, Index, ChanTraced, SendCommand, Active, Expecting
<1>8. OutcomeTraced'
  BY <1>1 DEF LinkInv, TypeOK, Session, Index, OutcomeTraced, SendCommand, Active, Expecting
<1> QED
  BY <1>2, <1>3, <1>4, <1>5, <1>6, <1>7, <1>8 DEF LinkInv

LEMMA SetActiveRemergeInv ==
  ASSUME LinkInv, TypeOK', NEW c \in Callers, SetActiveRemerge(c)
  PROVE  LinkInv'
<1>1. \A m : Traced(m) => Traced(m)'
  BY TracedStable DEF LinkInv, TypeOK, callVars, Active, SetActiveRemerge
<1>2. JobsTraced' /\ EarlyTraced' /\ ReaderTraced'
  BY <1>1 DEF LinkInv, JobsTraced, EarlyTraced, ReaderTraced, SetActiveRemerge, callVars
<1>3. CallsBounded'
  BY <1>1 DEF LinkInv, TypeOK, Session, Index, CallsBounded, SetActiveRemerge, Active, Expecting
<1>4. CallsApart'
  BY <1>1 DEF LinkInv, TypeOK, Session, Index, CallsApart, SetActiveRemerge, Active, Expecting
<1>5. PendingOwned'
  <2>1. \A d \in Callers : Expecting(d) => Expecting(d)'
    BY DEF LinkInv, TypeOK, SetActiveRemerge, Expecting
  <2> QED
    BY <2>1, PendingKept DEF LinkInv, SetActiveRemerge, callVars
<1>6. ChanTraced'
  BY <1>1 DEF LinkInv, TypeOK, Session, Index, ChanTraced, SetActiveRemerge, Active, Expecting
<1>7. OutcomeTraced'
  BY <1>1 DEF LinkInv, TypeOK, Session, Index, OutcomeTraced, SetActiveRemerge, Active, Expecting
<1> QED
  BY <1>2, <1>3, <1>4, <1>5, <1>6, <1>7 DEF LinkInv

LEMMA RegisterInv ==
  ASSUME LinkInv, TypeOK', NEW c \in Callers, Register(c)
  PROVE  LinkInv'
<1>1. \A m : Traced(m) => Traced(m)'
  BY TracedStable DEF LinkInv, TypeOK, callVars, Active, Register
<1>2. JobsTraced' /\ EarlyTraced' /\ ReaderTraced'
  BY <1>1 DEF LinkInv, JobsTraced, EarlyTraced, ReaderTraced, Register, callVars
<1>3. CallsBounded'
  BY <1>1 DEF LinkInv, TypeOK, Session, Index, CallsBounded, Register, Active, Expecting
<1>4. CallsApart'
  BY <1>1 DEF LinkInv, TypeOK, Session, Index, CallsApart, Register, Active, Expecting
<1>5. PendingOwned'
  <2>1. \A d \in Callers : Expecting(d) => Expecting(d)'
    BY DEF LinkInv, TypeOK, Register, Expecting
  <2>2. Expecting(c)' /\ call' = call
    BY DEF LinkInv, TypeOK, Register, Expecting
  <2> SUFFICES ASSUME NEW s \in Session, NEW i \in Index,
                      NEW d, d = pending'[s][i], d # None
               PROVE  Expecting(d)' /\ call[d].sess = s /\ call[d].index = i
    BY <2>2 DEF PendingOwned
  <2>3. CASE s = call[c].sess /\ i = call[c].index
    <3>1. d = c
      BY <2>3 DEF LinkInv, TypeOK, Register
    <3> QED
      BY <3>1, <2>2, <2>3
  <2>4. CASE ~(s = call[c].sess /\ i = call[c].index)
    <3>1. d = pending[s][i] /\ d \in Callers
      BY <2>4 DEF LinkInv, TypeOK, Register
    <3> QED
      BY <3>1, <2>1 DEF LinkInv, PendingOwned
  <2> QED
    BY <2>3, <2>4
<1>6. ChanTraced'
  BY <1>1 DEF LinkInv, TypeOK, Session, Index, ChanTraced, Register, Active, Expecting
<1>7. OutcomeTraced'
  BY <1>1 DEF LinkInv, TypeOK, Session, Index, OutcomeTraced, Register, Active, Expecting
<1> QED
  BY <1>2, <1>3, <1>4, <1>5, <1>6, <1>7 DEF LinkInv

LEMMA TakeEarlyInv ==
  ASSUME LinkInv, TypeOK', NEW c \in Callers, TakeEarly(c)
  PROVE  LinkInv'
<1>1. \A m : Traced(m) => Traced(m)'
  BY TracedStable DEF LinkInv, TypeOK, callVars, Active, TakeEarly
<1>2. JobsTraced' /\ ReaderTraced'
  BY <1>1 DEF LinkInv, JobsTraced, ReaderTraced, TakeEarly, callVars
<1>3. CallsBounded'
  BY <1>1 DEF LinkInv, TypeOK, Session, Index, CallsBounded, TakeEarly, Active, Expecting
<1>4. CallsApart'
  BY <1>1 DEF LinkInv, TypeOK, Session, Index, CallsApart, TakeEarly, Active, Expecting
<1>5. PendingOwned'
  <2>1. \A d \in Callers : Expecting(d) => Expecting(d)'
    BY DEF LinkInv, TypeOK, TakeEarly, Expecting
  <2> QED
    BY <2>1, PendingKept DEF LinkInv, TakeEarly, callVars
<1>6. EarlyTraced'
  BY <1>1 DEF LinkInv, TypeOK, Session, Index, EarlyTraced, TakeEarly, Active, Expecting
<1>7. ChanTraced'
  <2> PICK m : m = early[call[c].sess][call[c].index]
    OBVIOUS
  <2>1. call[c].sess \in Session /\ call[c].index \in Index
    BY DEF LinkInv, TypeOK
  <2>2. m # None => Traced(m)' /\ m.index = call[c].index
    BY <1>1, <2>1 DEF LinkInv, EarlyTraced
  <2>3. \A d \in Callers : Expecting(d) => Expecting(d)'
    BY DEF LinkInv, TypeOK, TakeEarly, Expecting
  <2>4. Expecting(c)' /\ call' = call
    BY DEF LinkInv, TypeOK, TakeEarly, Expecting
  <2>5. \A d \in Callers : chan'[d] = chan[d] \/ (d = c /\ m # None /\ chan'[d] = m)
    BY DEF LinkInv, TypeOK, TakeEarly
  <2> QED
    BY <1>1, <2>2, <2>3, <2>4, <2>5 DEF LinkInv, ChanTraced
<1>8. OutcomeTraced'
  BY <1>1 DEF LinkInv, TypeOK, Session, Index, OutcomeTraced, TakeEarly, Active, Expecting
<1> QED
  BY <1>2, <1>3, <1>4, <1>5, <1>6, <1>7, <1>8 DEF LinkInv

LEMMA ReceiveInv ==
  ASSUME LinkInv, TypeOK', NEW c \in Callers, Receive(c)
  PROVE  LinkInv'
<1>1. \A m : Traced(m) => Traced(m)'
  BY TracedStable DEF LinkInv, TypeOK, callVars, Active, Receive
<1>2. JobsTraced' /\ EarlyTraced' /\ ReaderTraced'
  BY <1>1 DEF LinkInv, JobsTraced, EarlyTraced, ReaderTraced, Receive, callVars
<1>3. CallsBounded'
  BY <1>1 DEF LinkInv, TypeOK, Session, Index, CallsBounded, Receive, Active, Expecting
<1>4. CallsApart'
  BY <1>1 DEF LinkInv, TypeOK, Session, Index, CallsApart, Receive, Active, Expecting
<1>5. PendingOwned'
  <2>1. \A d \in Callers : Expecting(d) => Expecting(d)'
    BY DEF LinkInv, TypeOK, Receive, Expecting
  <2> QED
    BY <2>1, PendingKept DEF LinkInv, Receive, callVars
<1>6. ChanTraced'
  BY <1>1 DEF LinkInv, TypeOK, Session, Index, ChanTraced, Receive, Active, Expecting
<1>7. OutcomeTraced'
  <2>1. \A d \in Callers : d # c => outcome'[d] = outcome[d] /\ pc'[d] = pc[d]
    BY DEF LinkInv, TypeOK, Receive
  <2>2. pc'[c] = "leaving" /\ call' = call
    BY DEF LinkInv, TypeOK, Receive
  <2>3. chan[c] # None /\ (chan[c] = Closed \/ chan[c] \in Command)
    BY DEF LinkInv, TypeOK, Receive
  <2>4. outcome'[c] = IF chan[c] = Closed THEN [kind |-> "closed", msg |-> None]
                      ELSE [kind |-> "answer", msg |-> chan[c]]
    BY DEF LinkInv, TypeOK, Receive
  <2>5. outcome'[c].kind = "answer" =>
          /\ outcome'[c].msg = chan[c] /\ chan[c] \in Command
          /\ chan[c].index = call[c].index
    BY <2>3, <2>4 DEF LinkInv, ChanTraced
  <2>6. chan[c] \in Command => \A m : m = chan[c] => Traced(m)'
    BY <1>1, MessageAssumption DEF LinkInv, ChanTraced
  <2>7. \A m : outcome'[c].kind = "answer" /\ m = outcome'[c].msg => Traced(m)'
    BY <2>5, <2>6
  <2> SUFFICES ASSUME NEW d \in Callers, outcome'[d].kind = "answer"
               PROVE  /\ outcome'[d].msg \in Command
                      /\ \A m : m = outcome'[d].msg => Traced(m)'
                      /\ outcome'[d].msg.index = call'[d].index
                      /\ pc'[d] = "leaving"
    BY DEF OutcomeTraced
  <2>8. CASE d = c
    BY <2>2, <2>5, <2>7, <2>8
  <2>9. CASE d # c
    BY <1>1, <2>1, <2>2, <2>9 DEF LinkInv, OutcomeTraced
  <2> QED
    BY <2>8, <2>9
<1> QED
  BY <1>2, <1>3, <1>4, <1>5, <1>6, <1>7 DEF LinkInv

LEMMA TimeoutInv ==
  ASSUME LinkInv, TypeOK', NEW c \in Callers, Timeout(c)
  PROVE  LinkInv'
<1>1. \A m : Traced(m) => Traced(m)'
  BY TracedStable DEF LinkInv, TypeOK, callVars, Active, Timeout
<1>2. JobsTraced' /\ EarlyTraced' /\ ReaderTraced'
  BY <1>1 DEF LinkInv, JobsTraced, EarlyTraced, ReaderTraced, Timeout, callVars
<1>3. CallsBounded'
  BY <1>1 DEF LinkInv, TypeOK, Session, Index, CallsBounded, Timeout, Active, Expecting
<1>4. CallsApart'
  BY <1>1 DEF LinkInv, TypeOK, Session, Index, CallsApart, Timeout, Active, Expecting
<1>5. PendingOwned'
  <2>1. \A d \in Callers : Expecting(d) => Expecting(d)'
    BY DEF LinkInv, TypeOK, Timeout, Expecting
  <2> QED
    BY <2>1, PendingKept DEF LinkInv, Timeout, callVars
<1>6. ChanTraced'
  BY <1>1 DEF LinkInv, TypeOK, Session, Index, ChanTraced, Timeout, Active, Expecting
<1>7. OutcomeTraced'
  BY <1>1 DEF LinkInv, TypeOK, Session, Index, OutcomeTraced, Timeout, Active, Expecting
<1> QED
  BY <1>2, <1>3, <1>4, <1>5, <1>6, <1>7 DEF LinkInv

LEMMA UnregisterInv ==
  ASSUME LinkInv, TypeOK', NEW c \in Callers, Unregister(c)
  PROVE  LinkInv'
<1>1. \A m : Traced(m) => Traced(m)'
  BY TracedStable DEF LinkInv, TypeOK, callVars, Active, Unregister
<1>2. JobsTraced' /\ EarlyTraced' /\ ReaderTraced'
  BY <1>1 DEF LinkInv, JobsTraced, EarlyTraced, ReaderTraced, Unregister, callVars
<1>3. CallsBounded'
  BY <1>1 DEF LinkInv, TypeOK, Session, Index, CallsBounded, Unregister, NoOutcome, Active, Expecting
<1>4. CallsApart'
  BY <1>1 DEF LinkInv, TypeOK, Session, Index, CallsApart, Unregister, NoOutcome, Active, Expecting
<1>5. PendingOwned'
  BY <1>1 DEF LinkInv, TypeOK, Session, Index, PendingOwned, Unregister, NoOutcome, Active, Expecting
<1>6. ChanTraced'
  BY <1>1 DEF LinkInv, TypeOK, Session, Index, ChanTraced, Unregister, NoOutcome, Active, Expecting
<1>7. OutcomeTraced'
  BY <1>1 DEF LinkInv, TypeOK, Session, Index, OutcomeTraced, Unregister, NoOutcome, Active, Expecting
<1> QED
  BY <1>2, <1>3, <1>4, <1>5, <1>6, <1>7 DEF LinkInv

LEMMA MarkTimedOutInv ==
  ASSUME LinkInv, TypeOK', NEW c \in Callers, MarkTimedOut(c)
  PROVE  LinkInv'
<1>1. \A m : Traced(m) => Traced(m)'
  BY TracedStable DEF LinkInv, TypeOK, callVars, Active, MarkTimedOut
<1>2. JobsTraced' /\ EarlyTraced' /\ ReaderTraced'
  BY <1>1 DEF LinkInv, JobsTraced, EarlyTraced, ReaderTraced, MarkTimedOut, callVars
<1>3. CallsBounded'
  BY <1>1 DEF LinkInv, TypeOK, Session, Index, CallsBounded, MarkTimedOut, Active, Expecting
<1>4. CallsApart'
  BY <1>1 DEF LinkInv, TypeOK, Session, Index, CallsApart, MarkTimedOut, Active, Expecting
<1>5. PendingOwned'
  <2>1. \A d \in Callers : Expecting(d) => Expecting(d)'
    BY DEF LinkInv, TypeOK, MarkTimedOut, Expecting
  <2> QED
    BY <2>1, PendingKept DEF LinkInv, MarkTimedOut, callVars
<1>6. ChanTraced'
  BY <1>1 DEF LinkInv, TypeOK, Session, Index, ChanTraced, MarkTimedOut, Active, Expecting
<1>7. OutcomeTraced'
  BY <1>1 DEF LinkInv, TypeOK, Session, Index, OutcomeTraced, MarkTimedOut, Active, Expecting
<1> QED
  BY <1>2, <1>3, <1>4, <1>5, <1>6, <1>7 DEF LinkInv

LEMMA ClearActiveRemergeInv ==
  ASSUME LinkInv, TypeOK', NEW c \in Callers, ClearActiveRemerge(c)
  PROVE  LinkInv'
<1>1. \A m : Traced(m) => Traced(m)'
  BY TracedStable DEF LinkInv, TypeOK, callVars, Active, ClearActiveRemerge
<1>2. JobsTraced' /\ EarlyTraced' /\ ReaderTraced'
  BY <1>1 DEF LinkInv, JobsTraced, EarlyTraced, ReaderTraced, ClearActiveRemerge, callVars
<1>3. CallsBounded'
  BY <1>1 DEF LinkInv, TypeOK, Session, Index, CallsBounded, ClearActiveRemerge, Active, Expecting
<1>4. CallsApart'
  BY <1>1 DEF LinkInv, TypeOK, Session, Index, CallsApart, ClearActiveRemerge, Active, Expecting
<1>5. PendingOwned'
  <2>1. \A d \in Callers : Expecting(d) => Expecting(d)'
    BY DEF LinkInv, TypeOK, ClearActiveRemerge, Expecting
  <2> QED
    BY <2>1, PendingKept DEF LinkInv, ClearActiveRemerge, callVars
<1>6. ChanTraced'
  BY <1>1 DEF LinkInv, TypeOK, Session, Index, ChanTraced, ClearActiveRemerge, Active, Expecting
<1>7. OutcomeTraced'
  BY <1>1 DEF LinkInv, TypeOK, Session, Index, OutcomeTraced, ClearActiveRemerge, Active, Expecting
<1> QED
  BY <1>2, <1>3, <1>4, <1>5, <1>6, <1>7 DEF LinkInv

LEMMA DeliverReplyInv ==
  ASSUME LinkInv, TypeOK', NEW s \in Session, DeliverReply(s)
  PROVE  LinkInv'
<1>1. \A m : Traced(m) => Traced(m)'
  BY TracedStable DEF LinkInv, TypeOK, callVars, Active, DeliverReply
<1>2. CallsBounded' /\ CallsApart' /\ PendingOwned' /\ JobsTraced' /\ EarlyTraced' /\ OutcomeTraced'
  BY <1>1 DEF LinkInv, CallsBounded, CallsApart, PendingOwned, JobsTraced, EarlyTraced, OutcomeTraced, DeliverReply, callVars, Active, Expecting
<1>3. ReaderTraced'
  BY <1>1 DEF LinkInv, TypeOK, Session, Index, ReaderTraced, DeliverReply, NextRead, Active, Expecting
<1>4. ChanTraced'
  <2> PICK m : m = reader[s].msg
    OBVIOUS
  <2> PICK c : c = pending[s][m.index]
    OBVIOUS
  <2>1. \A d \in Callers : chan'[d] = chan[d] \/ (d = c /\ chan'[d] = m)
    BY DEF LinkInv, TypeOK, DeliverReply
  <2>2. m # None => Traced(m)' /\ m.index \in Index
    BY <1>1 DEF LinkInv, TypeOK, ReaderTraced, Command
  <2>3. m # None => Expecting(c) /\ m.index = call[c].index
    BY <2>2 DEF LinkInv, PendingOwned, DeliverReply
  <2>4. UNCHANGED <<pc, call>>
    BY DEF DeliverReply
  <2> QED
    BY <1>1, <2>1, <2>2, <2>3, <2>4 DEF LinkInv, ChanTraced, Expecting
<1> QED
  BY <1>2, <1>3, <1>4 DEF LinkInv

LEMMA StoreEarlyInv ==
  ASSUME LinkInv, TypeOK', NEW s \in Session, StoreEarly(s)
  PROVE  LinkInv'
<1>1. \A m : Traced(m) => Traced(m)'
  BY TracedStable DEF LinkInv, TypeOK, callVars, Active, StoreEarly
<1>2. CallsBounded' /\ CallsApart' /\ PendingOwned' /\ JobsTraced' /\ ChanTraced' /\ OutcomeTraced'
  BY <1>1 DEF LinkInv, CallsBounded, CallsApart, PendingOwned, JobsTraced, ChanTraced, OutcomeTraced, StoreEarly, callVars, Active, Expecting
<1>3. EarlyTraced'
  <2> PICK m : m = reader[s].msg
    OBVIOUS
  <2>1. m # None => Traced(m)'
    BY <1>1 DEF LinkInv, ReaderTraced
  <2>2. \A t \in Session : \A i \in Index :
          early'[t][i] = early[t][i] \/ (i = m.index /\ early'[t][i] = m)
    BY DEF LinkInv, TypeOK, StoreEarly
  <2> QED
    BY <1>1, <2>1, <2>2 DEF LinkInv, EarlyTraced
<1>4. ReaderTraced'
  BY <1>1 DEF LinkInv, TypeOK, Session, Index, ReaderTraced, StoreEarly, NextRead, Active, Expecting
<1> QED
  BY <1>2, <1>3, <1>4 DEF LinkInv

LEMMA SweepOneInv ==
  ASSUME LinkInv, TypeOK', NEW s \in Session, NEW i \in Index, SweepOne(s, i)
  PROVE  LinkInv'
<1>1. \A m : Traced(m) => Traced(m)'
  BY TracedStable DEF LinkInv, TypeOK, callVars, Active, SweepOne
<1>2. CallsBounded' /\ CallsApart' /\ PendingOwned' /\ JobsTraced' /\ EarlyTraced' /\ ReaderTraced' /\ OutcomeTraced'
  BY <1>1 DEF LinkInv, CallsBounded, CallsApart, PendingOwned, JobsTraced, EarlyTraced, ReaderTraced, OutcomeTraced, SweepOne, callVars, Active, Expecting
<1>3. ChanTraced'
  BY <1>1 DEF LinkInv, TypeOK, Session, Index, ChanTraced, SweepOne, Active, Expecting
<1> QED
  BY <1>2, <1>3 DEF LinkInv

LEMMA FireAndForgetInv ==
  ASSUME LinkInv, TypeOK', FireAndForget
  PROVE  LinkInv'
<1> PICK m : m = [index |-> next[sess] + 1, sess |-> sess, by |-> None]
  OBVIOUS
<1>1. sess \in Session /\ next[sess] \in 0..MaxIndex /\ next' = [next EXCEPT ![sess] = @ + 1]
  BY DEF LinkInv, TypeOK, FireAndForget, Session
<1>2. \A t \in Session : next[t] \in Nat /\ next'[t] \in Nat /\ next[t] <= next'[t]
  BY <1>1 DEF LinkInv, TypeOK
<1>3. \A k \in Command : Traced(k) => Traced(k)'
  <2> SUFFICES ASSUME NEW k \in Command, Traced(k) PROVE Traced(k)'
    OBVIOUS
  <2>1. k.index \in Nat /\ k.sess \in Session
    BY DEF Command, Index
  <2> QED
    BY <1>2, <2>1 DEF Traced, Matches, Active, FireAndForget, callVars
<1>4. Traced(m)'
  BY <1>1 DEF LinkInv, TypeOK, CallsBounded, Traced, Matches, Active, FireAndForget, callVars
<1>5. CallsBounded'
  <2> SUFFICES ASSUME NEW c \in Callers, Active(c) PROVE call[c].index <= next'[call[c].sess]
    BY DEF CallsBounded, Active, FireAndForget, callVars
  <2>1. call[c].index \in Nat /\ call[c].sess \in Session
    BY DEF LinkInv, TypeOK, Index
  <2> QED
    BY <1>2, <2>1 DEF LinkInv, CallsBounded
<1>6. CallsApart' /\ PendingOwned'
  BY DEF LinkInv, CallsApart, PendingOwned, Active, Expecting, FireAndForget, callVars
<1>7. JobsTraced'
  BY <1>3, <1>4 DEF LinkInv, TypeOK, JobsTraced, FireAndForget
<1>8. EarlyTraced' /\ ReaderTraced'
  BY <1>3 DEF LinkInv, TypeOK, EarlyTraced, ReaderTraced, FireAndForget
<1>9. ChanTraced' /\ OutcomeTraced'
  BY <1>3 DEF LinkInv, TypeOK, ChanTraced, OutcomeTraced, Expecting, FireAndForget, callVars
<1> QED
  BY <1>5, <1>6, <1>7, <1>8, <1>9 DEF LinkInv

\* The heart of the matter: the index FetchIndex hands out is above every
\* index in use, in a call or in a message.
LEMMA FetchIndexInv ==
  ASSUME LinkInv, TypeOK', NEW c \in Callers, FetchIndex(c)
  PROVE  LinkInv'
<1>1. sess \in Session /\ next[sess] \in 0..MaxIndex /\ next' = [next EXCEPT ![sess] = @ + 1]
  BY DEF LinkInv, TypeOK, FetchIndex, Session
<1>2. \A t \in Session : next[t] \in Nat /\ next'[t] \in Nat /\ next[t] <= next'[t]
  BY <1>1 DEF LinkInv, TypeOK
<1>3. /\ pc[c] = "idle" /\ pc'[c] = "indexed"
      /\ call'[c].sess = sess /\ call'[c].index = next[sess] + 1
      /\ \A d \in Callers : d # c => pc'[d] = pc[d] /\ call'[d] = call[d]
  BY DEF LinkInv, TypeOK, FetchIndex
<1>4. \A k \in Command : Traced(k) => Traced(k)'
  <2> SUFFICES ASSUME NEW k \in Command, Traced(k) PROVE Traced(k)'
    OBVIOUS
  <2>1. k.index \in Nat /\ k.sess \in Session /\ k.index <= next[k.sess]
    BY DEF Command, Index, Traced
  <2>2. k.index <= next'[k.sess]
    BY <1>2, <2>1
  <2>3. ASSUME NEW d \in Callers, Active(d)', Matches(d, k)' PROVE k.by = d
    <3>1. CASE d = c
      BY <1>1, <1>3, <2>1, <2>3, <3>1 DEF Matches
    <3>2. CASE d # c
      BY <1>3, <2>3, <3>2 DEF Matches, Traced, Active
    <3> QED
      BY <3>1, <3>2
  <2> QED
    BY <2>2, <2>3 DEF Traced
<1>5. \A d \in Callers : Active(d) => call[d].index <= next[call[d].sess]
                                     /\ call[d].index \in Nat /\ call[d].sess \in Session
  <2>1. call \in [Callers -> [sess : Session, index : Index]]
    BY DEF LinkInv, TypeOK
  <2>2. \A d \in Callers : call[d].index \in Nat /\ call[d].sess \in Session
    BY <2>1, LinkAssumption DEF Index
  <2> QED
    BY <2>2 DEF LinkInv, CallsBounded
<1>6. CallsBounded'
  <2> SUFFICES ASSUME NEW d \in Callers, Active(d)'
               PROVE  call'[d].index <= next'[call'[d].sess]
    BY DEF CallsBounded
  <2>1. CASE d = c
    <3>1. next'[sess] = next[sess] + 1
      BY <1>1 DEF LinkInv, TypeOK
    <3> QED
      BY <1>1, <1>3, <2>1, <3>1
  <2>2. CASE d # c
    BY <1>2, <1>3, <1>5, <2>2 DEF Active
  <2> QED
    BY <2>1, <2>2
<1>7. CallsApart'
  <2> SUFFICES ASSUME NEW d \in Callers, NEW e \in Callers, d # e, Active(d)', Active(e)'
               PROVE  call'[d].sess # call'[e].sess \/ call'[d].index # call'[e].index
    BY DEF CallsApart
  <2>1. CASE d = c
    BY <1>1, <1>3, <1>5, <2>1 DEF Active
  <2>2. CASE e = c
    BY <1>1, <1>3, <1>5, <2>2 DEF Active
  <2>3. CASE d # c /\ e # c
    BY <1>3, <2>3 DEF LinkInv, CallsApart, Active
  <2> QED
    BY <2>1, <2>2, <2>3
<1>8. PendingOwned'
  <2> SUFFICES ASSUME NEW s \in Session, NEW i \in Index,
                      NEW d, d = pending[s][i], d # None
               PROVE  Expecting(d)' /\ call'[d].sess = s /\ call'[d].index = i
    BY DEF PendingOwned, FetchIndex
  <2>1. d \in Callers /\ Expecting(d) /\ call[d].sess = s /\ call[d].index = i
    BY DEF LinkInv, TypeOK, PendingOwned
  <2>2. d # c
    BY <1>3, <2>1 DEF Expecting
  <2> QED
    BY <1>3, <2>1, <2>2 DEF Expecting
<1>9. JobsTraced' /\ EarlyTraced' /\ ReaderTraced'
  BY <1>4 DEF LinkInv, TypeOK, JobsTraced, EarlyTraced, ReaderTraced, FetchIndex
<1>10. ChanTraced'
  BY <1>3, <1>4 DEF LinkInv, TypeOK, ChanTraced, Expecting, FetchIndex
<1>11. OutcomeTraced'
  BY <1>3, <1>4 DEF LinkInv, TypeOK, OutcomeTraced, FetchIndex
<1> QED
  BY <1>6, <1>7, <1>8, <1>9, <1>10, <1>11 DEF LinkInv

\* Every message and every call of RemoteSlave keep their index, connection and caller together.
THEOREM LinkInvariant == Spec => []LinkInv
<1>1. Init => LinkInv
  <2> SUFFICES ASSUME Init PROVE LinkInv
    OBVIOUS
  <2>1. TypeOK
    BY DEF Init, TypeOK, Session, Index, NoRemerge, NoOutcome
  <2>2. CallsBounded /\ CallsApart /\ JobsTraced /\ OutcomeTraced
    BY DEF Init, NoOutcome, CallsBounded, CallsApart, JobsTraced, OutcomeTraced, Active
  <2>3. PendingOwned /\ EarlyTraced /\ ReaderTraced /\ ChanTraced
    BY DEF Init, PendingOwned, EarlyTraced, ReaderTraced, ChanTraced
  <2> QED
    BY <2>1, <2>2, <2>3 DEF LinkInv
<1>2. LinkInv /\ TypeOK' /\ [Next]_vars => LinkInv'
  <2> SUFFICES ASSUME LinkInv, TypeOK', [Next]_vars PROVE LinkInv'
    OBVIOUS
  <2>1. ASSUME NEW c \in Callers, CallerWaits(c) PROVE LinkInv'
    BY <2>1, SendCommandInv, SetActiveRemergeInv, RegisterInv, TakeEarlyInv,
       ReceiveInv, UnregisterInv, MarkTimedOutInv, ClearActiveRemergeInv
    DEF CallerWaits
  <2>2. CASE Connect
    BY <2>2, QuietStep DEF Connect, callVars
  <2>3. CASE LoseReply
    BY <2>3, QuietStep DEF LoseReply, callVars
  <2>4. ASSUME NEW s \in Session, GoOffline(s) PROVE LinkInv'
    BY <2>4, QuietStep DEF GoOffline, callVars
  <2>5. ASSUME NEW s \in Session, ReadReply(s) PROVE LinkInv'
    BY <2>5, QuietStep DEF ReadReply, callVars, LinkInv, TypeOK
  <2>6. ASSUME NEW s \in Session, MissReply(s) PROVE LinkInv'
    BY <2>6, QuietStep DEF MissReply, callVars, LinkInv, TypeOK
  <2>7. ASSUME NEW s \in Session, ClearLateRemerge(s) PROVE LinkInv'
    BY <2>7, QuietStep DEF ClearLateRemerge, NextRead, callVars, LinkInv, TypeOK
  <2>8. ASSUME NEW s \in Session, NotLateRemerge(s) PROVE LinkInv'
    BY <2>8, QuietStep DEF NotLateRemerge, callVars, LinkInv, TypeOK
  <2>9. ASSUME NEW s \in Session, CloseLink(s) PROVE LinkInv'
    BY <2>9, QuietStep DEF CloseLink, callVars
  <2>10. ASSUME NEW s \in Session, SweepDone(s) PROVE LinkInv'
    BY <2>10, QuietStep DEF SweepDone, callVars
  <2>11. CASE UNCHANGED vars
    BY <2>11, QuietStep DEF vars
  <2> QED
    BY <2>1, <2>2, <2>3, <2>4, <2>5, <2>6, <2>7, <2>8, <2>9, <2>10, <2>11,
       FireAndForgetInv, FetchIndexInv, TimeoutInv, DeliverReplyInv,
       StoreEarlyInv, SweepOneInv
    DEF Next, Read, Offline
<1> QED
  BY <1>1, <1>2, TypeCorrect, PTL DEF Spec

\* Two calls in flight on one RemoteSlave never share a command index.
THEOREM IndexesStayFree == Spec => []IndexesFree
<1>1. LinkInv => IndexesFree
  BY DEF LinkInv, CallsApart, IndexesFree
<1> QED
  BY <1>1, LinkInvariant, PTL

-----------------------------------------------------------------------------
(***************************************************************************)
(* No answer is lost between the maps.  While the slave is online, the     *)
(* answer to a command that was sent is a job, in the read loop's hand, in *)
(* earlyResponses or in the caller's channel; once the caller sleeps, only *)
(* where it is still delivered, unless routeResponse and FetchResponse     *)
(* missed each other.  Only the answer of a remerge that timed out is      *)
(* dropped, and nobody waits for that one.                                 *)
(***************************************************************************)

OnlineIsCurrent == \A s \in Session : Online(s) => s = sess

CallsPast == \A c \in Callers : Active(c) => call[c].sess <= sess

ReaderEmpty ==
  \A s \in Session : reader[s].msg = None <=> reader[s].at \in {"read", "stop"}

LateIsOver ==
  \A s \in Session : rem[s].timedOut =>
    /\ rem[s].index <= next[s]
    /\ \A c \in Callers : Active(c) => call[c].sess # s \/ call[c].index # rem[s].index

\* What FetchResponse waits on is in pendingCmds until it returns.
PendingHeld ==
  \A c \in Callers : Expecting(c) => pending[call[c].sess][call[c].index] = c

\* Until a caller has looked in earlyResponses its reply may be anywhere before it ...
Coming(c) ==
  \/ CommandOf(c) \in jobs
  \/ reader[call[c].sess].msg = CommandOf(c)
  \/ early[call[c].sess][call[c].index] # None

\* ... and afterwards it has to be where routeResponse will find the channel.
Heard(c) ==
  \/ CommandOf(c) \in jobs
  \/ reader[call[c].sess].at = "lookup" /\ reader[call[c].sess].msg = CommandOf(c)

Ahead(c) ==
  Online(call[c].sess) =>
    /\ pc[c] \in {"issued", "sent"} => Coming(c)
    /\ pc[c] = "registered" => Coming(c) \/ chan[c] # None
    /\ pc[c] = "waiting" => Heard(c) \/ chan[c] # None \/ c \in crossed

AnswerAhead == \A c \in Callers : Ahead(c)

AheadInv ==
  /\ OnlineIsCurrent /\ CallsPast /\ ReaderEmpty /\ LateIsOver /\ PendingHeld
  /\ AnswerAhead

LEMMA OnlineIsCurrentStep ==
  ASSUME TypeOK, OnlineIsCurrent, CallsPast, [Next]_vars
  PROVE  OnlineIsCurrent' /\ CallsPast'
<1> USE DEF TypeOK, Session, Index, OnlineIsCurrent, CallsPast, Online, Active, callVars
<1>1. CASE Connect
  BY <1>1 DEF Connect
<1>2. CASE LoseReply \/ FireAndForget
  BY <1>2 DEF LoseReply, FireAndForget
<1>3. ASSUME NEW c \in Callers, FetchIndex(c) PROVE OnlineIsCurrent' /\ CallsPast'
  BY <1>3 DEF FetchIndex
<1>4. ASSUME NEW c \in Callers, Timeout(c) \/ CallerWaits(c)
      PROVE  OnlineIsCurrent' /\ CallsPast'
  <2>1. sess' = sess /\ stage' = stage /\ call' = call
    BY <1>4 DEF Timeout, CallerWaits, SendCommand, SetActiveRemerge, Register, TakeEarly, Receive,
       Unregister, MarkTimedOut, ClearActiveRemerge
  <2>2. \A d \in Callers : Active(d)' => Active(d)
    BY <1>4 DEF Timeout, CallerWaits, SendCommand, SetActiveRemerge, Register, TakeEarly, Receive,
       Unregister, MarkTimedOut, ClearActiveRemerge
  <2> QED
    BY <2>1, <2>2
<1>5. ASSUME NEW s \in Session, GoOffline(s) \/ ReadReply(s) \/ Read(s) \/ Offline(s)
      PROVE  OnlineIsCurrent' /\ CallsPast'
  <2>1. sess' = sess /\ pc' = pc /\ call' = call
    BY <1>5 DEF GoOffline, ReadReply, Read, DeliverReply, MissReply, ClearLateRemerge,
       NotLateRemerge, StoreEarly, Offline, CloseLink, SweepOne, SweepDone
  <2>2. \A t \in Session : Online(t)' => Online(t)
    BY <1>5 DEF GoOffline, ReadReply, Read, DeliverReply, MissReply, ClearLateRemerge,
       NotLateRemerge, StoreEarly, Offline, CloseLink, SweepOne, SweepDone
  <2> QED
    BY <2>1, <2>2
<1>6. CASE UNCHANGED vars
  BY <1>6 DEF vars
<1> QED
  BY <1>1, <1>2, <1>3, <1>4, <1>5, <1>6 DEF Next

LEMMA ReaderEmptyStep ==
  ASSUME TypeOK, ReaderEmpty, [Next]_vars
  PROVE  ReaderEmpty'
<1> USE DEF TypeOK, ReaderEmpty, callVars
<1>1. CASE Connect \/ LoseReply \/ FireAndForget
  BY <1>1 DEF Connect, LoseReply, FireAndForget
<1>2. ASSUME NEW c \in Callers, FetchIndex(c) \/ Timeout(c) \/ CallerWaits(c) PROVE ReaderEmpty'
  BY <1>2 DEF FetchIndex, Timeout, CallerWaits, SendCommand, SetActiveRemerge, Register,
     TakeEarly, Receive, Unregister, MarkTimedOut, ClearActiveRemerge
<1>3. ASSUME NEW s \in Session, GoOffline(s) \/ Offline(s) PROVE ReaderEmpty'
  BY <1>3 DEF GoOffline, Offline, CloseLink, SweepOne, SweepDone
<1>4. ASSUME NEW s \in Session, ReadReply(s) \/ Read(s) PROVE ReaderEmpty'
  <2>1. /\ \A t \in Session \ {s} : reader'[t] = reader[t]
        /\ reader'[s].msg = None <=> reader'[s].at \in {"read", "stop"}
    <3>1. CASE ReadReply(s)
      <4>1. PICK m \in jobs : reader' = [reader EXCEPT ![s] = [at |-> "lookup", msg |-> m]]
        BY <3>1 DEF ReadReply
      <4>2. m # None
        OBVIOUS
      <4> QED
        BY <4>1, <4>2
    <3>2. CASE MissReply(s) \/ NotLateRemerge(s)
      <4>1. reader[s].msg # None
        BY <3>2 DEF MissReply, NotLateRemerge
      <4>2. \E loc \in {"miss", "store"} :
              reader' = [reader EXCEPT ![s] = [at |-> loc, msg |-> reader[s].msg]]
        BY <3>2 DEF MissReply, NotLateRemerge
      <4> QED
        BY <4>1, <4>2
    <3>3. CASE DeliverReply(s) \/ ClearLateRemerge(s) \/ StoreEarly(s)
      <4>1. reader' = [reader EXCEPT ![s] = NextRead(s)]
        BY <3>3 DEF DeliverReply, ClearLateRemerge, StoreEarly
      <4>2. NextRead(s).msg = None /\ NextRead(s).at \in {"read", "stop"}
        BY DEF NextRead
      <4> QED
        BY <4>1, <4>2
    <3> QED
      BY <1>4, <3>1, <3>2, <3>3 DEF Read
  <2> QED
    BY <2>1
<1>5. CASE UNCHANGED vars
  BY <1>5 DEF vars
<1> QED
  BY <1>1, <1>2, <1>3, <1>4, <1>5 DEF Next

LEMMA LateIsOverStep ==
  ASSUME LinkInv, LateIsOver, [Next]_vars
  PROVE  LateIsOver'
<1> USE DEF LinkInv, TypeOK, Active, callVars
<1>1. ASSUME \A s \in Session : rem'[s] = rem[s] \/ ~rem'[s].timedOut,
             \A s \in Session : next[s] <= next'[s],
             call' = call, \A c \in Callers : Active(c)' => Active(c),
             next' \in [Session -> 0..MaxIndex]
      PROVE  LateIsOver'
  <2> SUFFICES ASSUME NEW s \in Session, rem'[s].timedOut
               PROVE  /\ rem'[s].index <= next'[s]
                      /\ \A c \in Callers : Active(c)' =>
                           call'[c].sess # s \/ call'[c].index # rem'[s].index
    BY DEF LateIsOver
  <2>1. rem'[s] = rem[s] /\ rem[s].timedOut
    BY <1>1
  <2>2. rem[s].index <= next[s] /\ rem[s].index \in Nat /\ next[s] \in Nat /\ next'[s] \in Nat
    BY <1>1, <2>1 DEF LateIsOver
  <2>3. rem'[s].index <= next'[s]
    BY <1>1, <2>1, <2>2
  <2> QED
    BY <1>1, <2>1, <2>3 DEF LateIsOver
<1>2. ASSUME UNCHANGED <<rem, next, call>>, \A c \in Callers : Active(c)' => Active(c)
      PROVE  LateIsOver'
  BY <1>1, <1>2
<1>3. ASSUME NEW s \in Session, next' = [next EXCEPT ![s] = @ + 1], next[s] < MaxIndex
      PROVE  /\ next' \in [Session -> 0..MaxIndex]
             /\ \A t \in Session : next[t] <= next'[t]
  <2>1. \A t \in Session : next[t] \in Nat /\ next[t] <= MaxIndex
    OBVIOUS
  <2>2. next[s] + 1 \in 0..MaxIndex
    BY <1>3, <2>1
  <2> QED
    BY <1>3, <2>1, <2>2
<1>4. CASE Connect \/ LoseReply
  BY <1>2, <1>4 DEF Connect, LoseReply
<1>5. CASE FireAndForget
  <2>1. sess \in Session /\ next' = [next EXCEPT ![sess] = @ + 1] /\ next[sess] < MaxIndex
    BY <1>5 DEF FireAndForget, MayIssue, Session
  <2>2. rem' = rem /\ call' = call /\ pc' = pc
    BY <1>5 DEF FireAndForget
  <2>3. next' \in [Session -> 0..MaxIndex] /\ \A t \in Session : next[t] <= next'[t]
    BY <1>3, <2>1
  <2> QED
    BY <1>1, <2>2, <2>3
<1>6. ASSUME NEW c \in Callers, FetchIndex(c) PROVE LateIsOver'
  <2>1. sess \in Session /\ next' = [next EXCEPT ![sess] = @ + 1] /\ next[sess] < MaxIndex
    BY <1>6 DEF FetchIndex, MayIssue, Session
  <2>2. next' \in [Session -> 0..MaxIndex] /\ \A t \in Session : next[t] <= next'[t]
    BY <1>3, <2>1
  <2>3. /\ rem' = rem /\ call'[c].sess = sess /\ call'[c].index = next[sess] + 1
        /\ \A d \in Callers \ {c} : call'[d] = call[d] /\ pc'[d] = pc[d]
    BY <1>6 DEF FetchIndex
  <2> SUFFICES ASSUME NEW s \in Session, rem[s].timedOut
               PROVE  /\ rem[s].index <= next'[s]
                      /\ \A d \in Callers : Active(d)' =>
                           call'[d].sess # s \/ call'[d].index # rem[s].index
    BY <2>3 DEF LateIsOver
  <2>4. rem[s].index <= next[s] /\ rem[s].index \in Nat /\ next[s] \in Nat /\ next'[s] \in Nat
    BY <2>2 DEF LateIsOver
  <2>5. rem[s].index <= next'[s]
    BY <2>2, <2>4
  <2>6. call'[c].sess # s \/ call'[c].index # rem[s].index
    BY <2>3, <2>4
  <2>7. \A d \in Callers \ {c} : Active(d)' => call'[d].sess # s \/ call'[d].index # rem[s].index
    BY <2>3 DEF LateIsOver
  <2> QED
    BY <2>5, <2>6, <2>7
<1>7. ASSUME NEW c \in Callers, Timeout(c) \/ CallerWaits(c) PROVE LateIsOver'
  <2>0. next' = next /\ call' = call /\ \A d \in Callers : Active(d)' => Active(d)
    BY <1>7 DEF Timeout, CallerWaits, SendCommand, SetActiveRemerge, Register, TakeEarly, Receive,
       Unregister, MarkTimedOut, ClearActiveRemerge
  <2>1. CASE MarkTimedOut(c)
    <3>1. PICK s \in Session : s = call[c].sess
      OBVIOUS
    <3>2. CASE rem[s].index # call[c].index
      BY <1>2, <2>0, <2>1, <3>1, <3>2 DEF MarkTimedOut
    <3>3. CASE rem[s].index = call[c].index
      <4>1. rem' = [rem EXCEPT ![s] = [index |-> call[c].index, timedOut |-> TRUE]]
        BY <2>1, <3>1, <3>3 DEF MarkTimedOut
      <4>2. Active(c) /\ pc'[c] = "idle" /\ \A d \in Callers \ {c} : pc'[d] = pc[d]
        BY <2>1 DEF MarkTimedOut
      <4>3. call[c].index <= next[s]
        BY <3>1, <4>2 DEF CallsBounded
      <4>4. \A d \in Callers : Active(d)' => call[d].sess # s \/ call[d].index # call[c].index
        BY <3>1, <4>2 DEF CallsApart
      <4>5. ASSUME NEW t \in Session, t # s, rem'[t].timedOut
            PROVE  /\ rem[t].index <= next[t] /\ rem'[t] = rem[t]
                   /\ \A d \in Callers : Active(d)' => call[d].sess # t \/ call[d].index # rem[t].index
        BY <2>0, <4>1, <4>5 DEF LateIsOver
      <4> QED
        BY <2>0, <4>1, <4>3, <4>4, <4>5 DEF LateIsOver
    <3> QED
      BY <3>2, <3>3
  <2>2. CASE SetActiveRemerge(c) \/ ClearActiveRemerge(c)
    <3>1. \A s \in Session : rem'[s] = rem[s] \/ ~rem'[s].timedOut
      BY <2>2 DEF SetActiveRemerge, ClearActiveRemerge, NoRemerge
    <3>2. \A s \in Session : next[s] \in Nat
      OBVIOUS
    <3> QED
      BY <1>1, <2>0, <3>1, <3>2
  <2>3. CASE Timeout(c) \/ SendCommand(c) \/ Register(c) \/ TakeEarly(c) \/ Receive(c)
             \/ Unregister(c)
    <3>1. rem' = rem
      BY <2>3 DEF Timeout, SendCommand, Register, TakeEarly, Receive, Unregister
    <3> QED
      BY <1>2, <2>0, <3>1
  <2> QED
    BY <1>7, <2>1, <2>2, <2>3 DEF CallerWaits
<1>8. ASSUME NEW s \in Session, GoOffline(s) \/ ReadReply(s) \/ Read(s) \/ Offline(s)
      PROVE  LateIsOver'
  <2>1. next' = next /\ call' = call /\ pc' = pc
    BY <1>8 DEF GoOffline, ReadReply, Read, DeliverReply, MissReply, ClearLateRemerge,
       NotLateRemerge, StoreEarly, Offline, CloseLink, SweepOne, SweepDone
  <2>2. rem' = rem \/ rem' = [rem EXCEPT ![s] = NoRemerge]
    BY <1>8 DEF GoOffline, ReadReply, Read, DeliverReply, MissReply, ClearLateRemerge,
       NotLateRemerge, StoreEarly, Offline, CloseLink, SweepOne, SweepDone
  <2>3. \A t \in Session : rem'[t] = rem[t] \/ ~rem'[t].timedOut
    BY <2>2 DEF NoRemerge
  <2>4. \A t \in Session : next[t] \in Nat
    OBVIOUS
  <2> QED
    BY <1>1, <2>1, <2>3, <2>4
<1>9. CASE UNCHANGED vars
  BY <1>2, <1>9 DEF vars
<1> QED
  BY <1>4, <1>5, <1>6, <1>7, <1>8, <1>9 DEF Next

LEMMA PendingHeldStep ==
  ASSUME LinkInv, PendingHeld, [Next]_vars
  PROVE  PendingHeld'
<1> USE DEF LinkInv, TypeOK, Expecting, callVars
<1>1. ASSUME UNCHANGED <<pending, call>>, \A c \in Callers : Expecting(c)' => Expecting(c)
      PROVE  PendingHeld'
  BY <1>1 DEF PendingHeld
<1>2. CASE Connect \/ LoseReply \/ FireAndForget
  BY <1>1, <1>2 DEF Connect, LoseReply, FireAndForget
<1>3. ASSUME NEW c \in Callers, FetchIndex(c) PROVE PendingHeld'
  BY <1>3 DEF FetchIndex, PendingHeld
<1>4. ASSUME NEW c \in Callers, Timeout(c) \/ SendCommand(c) \/ SetActiveRemerge(c)
                \/ TakeEarly(c) \/ Receive(c) \/ MarkTimedOut(c) \/ ClearActiveRemerge(c)
      PROVE  PendingHeld'
  <2>1. pending' = pending /\ call' = call
    BY <1>4 DEF Timeout, SendCommand, SetActiveRemerge, TakeEarly, Receive, MarkTimedOut,
       ClearActiveRemerge
  <2>2. \A d \in Callers : Expecting(d)' => Expecting(d)
    BY <1>4 DEF Timeout, SendCommand, SetActiveRemerge, TakeEarly, Receive, MarkTimedOut,
       ClearActiveRemerge
  <2> QED
    BY <1>1, <2>1, <2>2
<1>5. ASSUME NEW c \in Callers, Register(c) \/ Unregister(c) PROVE PendingHeld'
  <2>1. /\ call' = call /\ Active(c)
        /\ \A d \in Callers \ {c} : pc'[d] = pc[d]
        /\ \A s \in Session : \A i \in Index :
             s # call[c].sess \/ i # call[c].index => pending'[s][i] = pending[s][i]
    BY <1>5 DEF Register, Unregister, Active
  <2>2. ASSUME NEW d \in Callers, d # c, Expecting(d)'
        PROVE  pending'[call[d].sess][call[d].index] = d
    <3>1. Expecting(d) /\ Active(d)
      BY <2>1, <2>2 DEF Active
    <3>2. call[c].sess # call[d].sess \/ call[c].index # call[d].index
      BY <2>1, <2>2, <3>1 DEF CallsApart
    <3>3. pending[call[d].sess][call[d].index] = d
      BY <3>1 DEF PendingHeld
    <3> QED
      BY <2>1, <3>2, <3>3
  <2>3. Expecting(c)' => pending'[call[c].sess][call[c].index] = c
    <3>1. CASE Register(c)
      BY <3>1 DEF Register
    <3>2. CASE Unregister(c)
      BY <3>2 DEF Unregister
    <3> QED
      BY <1>5, <3>1, <3>2
  <2> QED
    BY <2>1, <2>2, <2>3 DEF PendingHeld
<1>6. ASSUME NEW s \in Session, GoOffline(s) \/ ReadReply(s) \/ Read(s) \/ Offline(s)
      PROVE  PendingHeld'
  <2>1. UNCHANGED <<pending, call, pc>>
    BY <1>6 DEF GoOffline, ReadReply, Read, DeliverReply, MissReply, ClearLateRemerge,
       NotLateRemerge, StoreEarly, Offline, CloseLink, SweepOne, SweepDone
  <2> QED
    BY <1>1, <2>1
<1>7. CASE UNCHANGED vars
  BY <1>1, <1>7 DEF vars
<1> QED
  BY <1>2, <1>3, <1>4, <1>5, <1>6, <1>7 DEF Next, CallerWaits

\* A step takes no answer of a caller away if it leaves the jobs, the read loop's hand and the
\* early responses as they are, or puts more there.
LEMMA AheadKept ==
  ASSUME NEW c \in Callers, Ahead(c),
         Online(call[c].sess)' => Online(call[c].sess),
         call'[c] = call[c], pc'[c] = pc[c],
         pc[c] # "waiting" /\ Coming(c) => Coming(c)',
         pc[c] = "waiting" /\ Heard(c) => Heard(c)',
         chan[c] # None => chan'[c] # None,
         c \in crossed => c \in crossed'
  PROVE  Ahead(c)'
BY DEF Ahead, Online

LEMMA AheadCaller ==
  ASSUME LinkInv, AheadInv, NEW c \in Callers, Timeout(c) \/ CallerWaits(c)
  PROVE  AnswerAhead'
<1> USE DEF LinkInv, TypeOK
<1>0. \A d \in Callers : Ahead(d)
  BY DEF AheadInv, AnswerAhead, Ahead
<1>1. stage' = stage /\ reader' = reader /\ call' = call
  BY DEF Timeout, CallerWaits, SendCommand, SetActiveRemerge, Register, TakeEarly, Receive,
     Unregister, MarkTimedOut, ClearActiveRemerge
<1>2. jobs \subseteq jobs'
  BY DEF Timeout, CallerWaits, SendCommand, SetActiveRemerge, Register, TakeEarly, Receive,
     Unregister, MarkTimedOut, ClearActiveRemerge
<1>3. \A d \in Callers \ {c} :
        /\ pc'[d] = pc[d] /\ chan'[d] = chan[d]
        /\ d \in crossed => d \in crossed'
  BY DEF Timeout, CallerWaits, SendCommand, SetActiveRemerge, Register, TakeEarly, Receive,
     Unregister, MarkTimedOut, ClearActiveRemerge
<1>4. ASSUME NEW d \in Callers,
             early'[call[d].sess][call[d].index] = early[call[d].sess][call[d].index]
      PROVE  Coming(d) => Coming(d)'
  BY <1>1, <1>2, <1>4 DEF Coming, CommandOf
<1>5. \A d \in Callers : Heard(d) => Heard(d)'
  BY <1>1, <1>2 DEF Heard, CommandOf
<1>6. ASSUME NEW d \in Callers, d # c, Active(d) PROVE Ahead(d)'
  <2>1. early'[call[d].sess][call[d].index] = early[call[d].sess][call[d].index]
    <3>1. CASE TakeEarly(c)
      <4>1. Active(c)
        BY <3>1 DEF TakeEarly, Active
      <4>2. call[c].sess # call[d].sess \/ call[c].index # call[d].index
        BY <1>6, <4>1 DEF CallsApart
      <4> QED
        BY <3>1, <4>2 DEF TakeEarly
    <3>2. CASE ~TakeEarly(c)
      BY <3>2 DEF Timeout, CallerWaits, SendCommand, SetActiveRemerge, Register, Receive,
         Unregister, MarkTimedOut, ClearActiveRemerge
    <3> QED
      BY <3>1, <3>2
  <2>2. Coming(d) => Coming(d)'
    BY <1>4, <2>1
  <2> QED
    BY <1>0, <1>1, <1>3, <1>5, <1>6, <2>2, AheadKept DEF Online
<1>7. ASSUME NEW d \in Callers, d # c, ~Active(d) PROVE Ahead(d)'
  BY <1>3, <1>7 DEF Ahead, Active
<1>8. Ahead(c)'
  <2>1. CASE SendCommand(c)
    <3>1. CASE Online(call[c].sess)
      <4>1. CommandOf(c) \in jobs'
        BY <2>1, <3>1 DEF SendCommand
      <4>2. pc'[c] \in {"issued", "sent"}
        BY <2>1, <3>1 DEF SendCommand
      <4>3. Coming(c)'
        BY <1>1, <4>1 DEF Coming, CommandOf
      <4> QED
        BY <4>2, <4>3 DEF Ahead
    <3>2. CASE ~Online(call[c].sess)
      BY <1>1, <3>2 DEF Ahead, Online
    <3> QED
      BY <3>1, <3>2
  <2>2. CASE SetActiveRemerge(c) \/ Register(c)
    <3>1. /\ pc[c] \in {"issued", "sent"} /\ pc'[c] \in {"sent", "registered"}
          /\ early' = early
      BY <2>2 DEF SetActiveRemerge, Register
    <3>2. Coming(c) => Coming(c)'
      BY <1>4, <3>1
    <3> QED
      BY <1>0, <1>1, <3>1, <3>2 DEF Ahead, Online
  <2>3. CASE TakeEarly(c)
    <3>1. pc[c] = "registered" /\ pc'[c] = "waiting"
      BY <2>3 DEF TakeEarly
    <3>2. CASE chan[c] # None \/ early[call[c].sess][call[c].index] # None
      <4>1. chan'[c] # None
        BY <2>3, <3>2 DEF TakeEarly
      <4> QED
        BY <3>1, <4>1 DEF Ahead
    <3>3. CASE CommandOf(c) \in jobs
      <4>1. Heard(c)'
        BY <1>5, <3>3 DEF Heard
      <4> QED
        BY <3>1, <4>1 DEF Ahead
    <3>4. CASE reader[call[c].sess].msg = CommandOf(c)
      <4>1. reader[call[c].sess].at \in {"lookup", "miss", "store"}
        <5>1. CommandOf(c) \in Command
          BY DEF CommandOf, Command
        <5>2. CommandOf(c) # None
          BY <5>1
        <5> QED
          BY <3>4, <5>2 DEF AheadInv, ReaderEmpty
      <4>2. CASE reader[call[c].sess].at = "lookup"
        <5>1. Heard(c)'
          BY <1>5, <3>4, <4>2 DEF Heard
        <5> QED
          BY <3>1, <5>1 DEF Ahead
      <4>3. CASE reader[call[c].sess].at \in {"miss", "store"}
        <5>1. c \in crossed'
          BY <2>3, <3>4, <4>3 DEF TakeEarly, LookedTooSoon
        <5> QED
          BY <3>1, <5>1 DEF Ahead
      <4> QED
        BY <4>1, <4>2, <4>3
    <3>5. CASE ~Online(call[c].sess)
      BY <1>1, <3>5 DEF Ahead, Online
    <3> QED
      BY <1>0, <3>1, <3>2, <3>3, <3>4, <3>5 DEF Ahead, Coming
  <2>4. CASE Timeout(c) \/ Receive(c) \/ Unregister(c) \/ MarkTimedOut(c) \/ ClearActiveRemerge(c)
    <3>1. pc'[c] \in {"leaving", "idle", "overdue", "finish"}
      BY <2>4 DEF Timeout, Receive, Unregister, MarkTimedOut, ClearActiveRemerge
    <3> QED
      BY <3>1 DEF Ahead
  <2> QED
    BY <2>1, <2>2, <2>3, <2>4 DEF CallerWaits
<1>9. \A d \in Callers : Ahead(d)'
  BY <1>6, <1>7, <1>8
<1> QED
  BY <1>9 DEF AnswerAhead, Ahead

LEMMA AheadReader ==
  ASSUME LinkInv, AheadInv, NEW s \in Session, ReadReply(s) \/ Read(s)
  PROVE  AnswerAhead'
<1> USE DEF LinkInv, TypeOK, callVars
<1>0. \A d \in Callers : Ahead(d)
  BY DEF AheadInv, AnswerAhead, Ahead
<1>1. UNCHANGED <<stage, sess, pc, call, crossed>>
  BY DEF ReadReply, Read, DeliverReply, MissReply, ClearLateRemerge, NotLateRemerge, StoreEarly
<1>2. SUFFICES ASSUME NEW c \in Callers, Online(call[c].sess),
                      pc[c] \in {"issued", "sent", "registered", "waiting"}
               PROVE  Ahead(c)'
  <2>1. ASSUME NEW c \in Callers PROVE Ahead(c)'
    <3>1. CASE Online(call[c].sess) /\ pc[c] \in {"issued", "sent", "registered", "waiting"}
      BY <1>2, <3>1
    <3>2. CASE ~(Online(call[c].sess) /\ pc[c] \in {"issued", "sent", "registered", "waiting"})
      BY <1>1, <3>2 DEF Ahead, Online
    <3> QED
      BY <3>1, <3>2
  <2> QED
    BY <2>1 DEF AnswerAhead, Ahead
<1> DEFINE t == call[c].sess
           i == call[c].index
           own == CommandOf(c)
<1>3. t \in Session /\ i \in Index /\ t = sess /\ Active(c)
  BY <1>2 DEF AheadInv, OnlineIsCurrent, Active
<1>4. own \in Command /\ own # None /\ own.index = i /\ own' = own
  <2>1. own \in Command /\ own.index = i /\ own' = own
    BY <1>1 DEF CommandOf, Command
  <2> QED
    BY <2>1
<1>5. ASSUME chan[c] # None => chan'[c] # None,
             pc[c] # "waiting" /\ Coming(c) => Coming(c)',
             pc[c] = "waiting" /\ Heard(c) => Heard(c)'
      PROVE  Ahead(c)'
  BY <1>0, <1>1, <1>5, AheadKept DEF Online
<1>6. CASE ReadReply(s)
  <2>1. PICK m \in jobs : /\ jobs' = jobs \ {m}
                          /\ reader' = [reader EXCEPT ![s] = [at |-> "lookup", msg |-> m]]
    BY <1>6 DEF ReadReply
  <2>2. s = t /\ reader[s].msg = None /\ early' = early /\ chan' = chan
    BY <1>3, <1>6 DEF ReadReply, AheadInv, ReaderEmpty
  <2>3. reader'[t].msg = m /\ reader'[t].at = "lookup"
    BY <2>1, <2>2
  <2>4. Coming(c) => Coming(c)'
    BY <1>1, <1>4, <2>1, <2>2, <2>3 DEF Coming
  <2>5. Heard(c) => Heard(c)'
    BY <1>1, <1>4, <2>1, <2>2, <2>3 DEF Heard
  <2> QED
    BY <1>5, <2>2, <2>4, <2>5
<1>7. CASE Read(s) /\ s # t
  <2>1. /\ jobs' = jobs
        /\ reader'[t] = reader[t]
        /\ early'[t] = early[t]
    BY <1>7 DEF Read, DeliverReply, MissReply, ClearLateRemerge, NotLateRemerge, StoreEarly
  <2>2. (Coming(c) => Coming(c)') /\ (Heard(c) => Heard(c)')
    BY <1>1, <1>4, <2>1 DEF Coming, Heard
  <2>3. chan[c] # None => chan'[c] # None
    BY <1>7 DEF Read, DeliverReply, MissReply, ClearLateRemerge, NotLateRemerge, StoreEarly
  <2> QED
    BY <1>5, <2>2, <2>3
<1>8. CASE Read(s) /\ s = t
  <2> DEFINE m == reader[s].msg
  <2>1. CASE DeliverReply(s)
    <3>1. /\ jobs' = jobs /\ early' = early
          /\ m \in Command /\ m.index \in Index /\ pending[s][m.index] \in Callers
      BY <2>1 DEF DeliverReply, AheadInv, ReaderEmpty, Command
    <3>2. CASE m.index = i
      <4>1. pending[s][m.index] = c /\ pc[c] \in {"registered", "waiting"}
        <5>1. PICK d \in Callers : d = pending[s][m.index]
          BY <3>1
        <5>2. d # None
          BY <5>1
        <5>3. Expecting(d) /\ call[d].sess = s /\ call[d].index = m.index
          BY <3>1, <5>1, <5>2 DEF PendingOwned
        <5>4. d = c
          BY <1>3, <1>8, <3>2, <5>3 DEF CallsApart, Expecting, Active
        <5> QED
          BY <1>2, <5>1, <5>3, <5>4 DEF Expecting
      <4>2. chan'[c] # None
        BY <2>1, <3>1, <4>1 DEF DeliverReply
      <4> QED
        BY <1>1, <4>1, <4>2 DEF Ahead
    <3>3. CASE m.index # i
      <4>1. (Coming(c) => Coming(c)') /\ (Heard(c) => Heard(c)')
        BY <1>1, <1>4, <1>8, <3>1, <3>3 DEF Coming, Heard
      <4>2. chan[c] # None => chan'[c] # None
        BY <2>1 DEF DeliverReply
      <4> QED
        BY <1>5, <4>1, <4>2
    <3> QED
      BY <3>2, <3>3
  <2>2. CASE MissReply(s) \/ NotLateRemerge(s)
    <3>1. /\ jobs' = jobs /\ early' = early /\ chan' = chan
          /\ reader'[t].msg = reader[t].msg
      BY <1>8, <2>2 DEF MissReply, NotLateRemerge
    <3>2. Coming(c) => Coming(c)'
      BY <1>1, <1>4, <3>1 DEF Coming
    <3>3. pc[c] = "waiting" /\ Heard(c) => Heard(c)'
      <4>1. ASSUME pc[c] = "waiting", reader[t].at = "lookup", m = own PROVE FALSE
        <5>1. pending[t][i] = c
          BY <4>1 DEF AheadInv, PendingHeld, Expecting
        <5>2. pending[t][i] = None
          BY <1>4, <1>8, <2>2, <4>1 DEF MissReply, NotLateRemerge
        <5> QED
          BY <5>1, <5>2
      <4> QED
        BY <1>4, <1>8, <3>1, <4>1 DEF Heard
    <3> QED
      BY <1>5, <3>1, <3>2, <3>3
  <2>3. CASE ClearLateRemerge(s)
    <3>1. jobs' = jobs /\ early' = early /\ chan' = chan
      BY <2>3 DEF ClearLateRemerge
    <3>2. m.index # i
      BY <1>3, <1>8, <2>3 DEF ClearLateRemerge, TimedOutRemerge, AheadInv, LateIsOver
    <3>3. (Coming(c) => Coming(c)') /\ (Heard(c) => Heard(c)')
      BY <1>1, <1>4, <1>8, <3>1, <3>2 DEF Coming, Heard
    <3> QED
      BY <1>5, <3>1, <3>3
  <2>4. CASE StoreEarly(s)
    <3>1. /\ jobs' = jobs /\ chan' = chan /\ early' = [early EXCEPT ![s][m.index] = m]
          /\ m \in Command /\ m.index \in Index /\ m # None /\ reader[s].at = "store"
      BY <2>4 DEF StoreEarly, AheadInv, ReaderEmpty, Command
    <3>2. early'[t][i] = IF m.index = i THEN m ELSE early[t][i]
      BY <1>3, <1>8, <3>1
    <3>3. Coming(c) => Coming(c)'
      BY <1>1, <1>4, <1>8, <3>1, <3>2 DEF Coming
    <3>4. Heard(c) => Heard(c)'
      BY <1>1, <1>4, <1>8, <3>1 DEF Heard
    <3> QED
      BY <1>5, <3>1, <3>3, <3>4
  <2> QED
    BY <1>8, <2>1, <2>2, <2>3, <2>4 DEF Read
<1> QED
  BY <1>6, <1>7, <1>8

LEMMA AheadStep ==
  ASSUME LinkInv, AheadInv, [Next]_vars
  PROVE  AnswerAhead'
<1> USE DEF LinkInv, TypeOK, callVars
<1>0. \A d \in Callers : Ahead(d)
  BY DEF AheadInv, AnswerAhead, Ahead
<1>1. ASSUME \A t \in Session : Online(t)' => Online(t),
             UNCHANGED <<call, pc, reader, early, crossed>>, jobs \subseteq jobs',
             \A c \in Callers : chan[c] # None => chan'[c] # None
      PROVE  AnswerAhead'
  <2>1. ASSUME NEW c \in Callers PROVE Ahead(c)'
    <3>1. (Coming(c) => Coming(c)') /\ (Heard(c) => Heard(c)')
      BY <1>1 DEF Coming, Heard, CommandOf
    <3> QED
      BY <1>0, <1>1, <3>1, AheadKept DEF Online
  <2> QED
    BY <2>1 DEF AnswerAhead, Ahead
<1>2. CASE Connect
  <2>1. ASSUME NEW c \in Callers PROVE Ahead(c)'
    <3>1. UNCHANGED <<call, pc, reader, early, jobs, chan, crossed>>
      BY <1>2 DEF Connect
    <3>2. (Coming(c) => Coming(c)') /\ (Heard(c) => Heard(c)')
      BY <3>1 DEF Coming, Heard, CommandOf
    <3>3. CASE Active(c)
      <4>1. call[c].sess # sess + 1
        BY <3>3 DEF AheadInv, CallsPast, Session
      <4>2. Online(call[c].sess)' => Online(call[c].sess)
        BY <1>2, <4>1 DEF Connect, Online
      <4> QED
        BY <1>0, <3>1, <3>2, <4>2, AheadKept
    <3>4. CASE ~Active(c)
      BY <3>1, <3>4 DEF Ahead, Active
    <3> QED
      BY <3>3, <3>4
  <2> QED
    BY <2>1 DEF AnswerAhead, Ahead
<1>3. CASE LoseReply
  <2>1. ASSUME NEW c \in Callers PROVE Ahead(c)'
    <3>1. UNCHANGED <<call, pc, reader, early, stage, chan, crossed>> /\ ~Online(sess)
      BY <1>3 DEF LoseReply
    <3>2. ~Online(call[c].sess)
      BY <3>1 DEF AheadInv, OnlineIsCurrent
    <3> QED
      BY <3>1, <3>2 DEF Ahead, Online
  <2> QED
    BY <2>1 DEF AnswerAhead, Ahead
<1>4. CASE FireAndForget
  BY <1>1, <1>4 DEF FireAndForget, Online
<1>5. ASSUME NEW c \in Callers, FetchIndex(c) PROVE AnswerAhead'
  <2>1. ASSUME NEW d \in Callers PROVE Ahead(d)'
    <3>1. /\ UNCHANGED <<reader, early, stage, jobs, chan, crossed>> /\ pc'[c] = "indexed"
          /\ \A e \in Callers \ {c} : call'[e] = call[e] /\ pc'[e] = pc[e]
      BY <1>5 DEF FetchIndex
    <3>2. CASE d = c
      BY <3>1, <3>2 DEF Ahead
    <3>3. CASE d # c
      <4>1. call'[d] = call[d] /\ pc'[d] = pc[d]
        BY <3>1, <3>3
      <4>2. (Coming(d) => Coming(d)') /\ (Heard(d) => Heard(d)')
        BY <3>1, <4>1 DEF Coming, Heard, CommandOf
      <4> QED
        BY <1>0, <3>1, <4>1, <4>2, AheadKept DEF Online
    <3> QED
      BY <3>2, <3>3
  <2> QED
    BY <2>1 DEF AnswerAhead, Ahead
<1>6. ASSUME NEW s \in Session, GoOffline(s) \/ Offline(s) PROVE AnswerAhead'
  <2>1. UNCHANGED <<call, pc, reader, early, jobs, crossed>>
    BY <1>6 DEF GoOffline, Offline, CloseLink, SweepOne, SweepDone
  <2>2. \A t \in Session : Online(t)' => Online(t)
    BY <1>6 DEF GoOffline, Offline, CloseLink, SweepOne, SweepDone, Online
  <2>3. \A c \in Callers : chan[c] # None => chan'[c] # None
    BY <1>6 DEF GoOffline, Offline, CloseLink, SweepOne, SweepDone
  <2> QED
    BY <1>1, <2>1, <2>2, <2>3
<1>7. CASE UNCHANGED vars
  BY <1>1, <1>7 DEF vars, Online
<1> QED
  BY <1>2, <1>3, <1>4, <1>5, <1>6, <1>7, AheadCaller, AheadReader DEF Next

\* Wherever the answer to a sent command is, it stays within the caller's reach as long as its
\* RemoteSlave is online.
THEOREM AheadInvariant == Spec => []AheadInv
<1>1. Init => AheadInv
  <2> SUFFICES ASSUME Init PROVE AheadInv
    OBVIOUS
  <2>1. OnlineIsCurrent /\ CallsPast /\ ReaderEmpty /\ PendingHeld
    BY DEF Init, OnlineIsCurrent, CallsPast, ReaderEmpty, PendingHeld, Expecting, Online, Active
  <2>2. LateIsOver /\ AnswerAhead
    BY DEF Init, LateIsOver, AnswerAhead, Ahead, NoRemerge
  <2> QED
    BY <2>1, <2>2 DEF AheadInv
<1>2. LinkInv /\ AheadInv /\ [Next]_vars => AheadInv'
  BY OnlineIsCurrentStep, ReaderEmptyStep, LateIsOverStep, PendingHeldStep, AheadStep DEF AheadInv, LinkInv
<1> QED
  BY <1>1, <1>2, LinkInvariant, PTL DEF Spec

\* While the slave is online no answer falls through between pendingCmds and earlyResponses,
\* however the caller's registration, routeResponse and the late answers of remerges interleave,
\* except past a caller that routeResponse looked for too soon: a reply that is buffered already,
\* or about to be, does not count as still to come.
THEOREM AnswersAreNotLost == Spec => []AnswerNotLost
<1>1. AheadInv => AnswerNotLost
  BY DEF AheadInv, AnswerAhead, Ahead, Heard, Waiting, AnswerNotLost
<1> QED
  BY <1>1, AheadInvariant, PTL

----------------------------------------------------------------------------
(***************************************************************************)
(* What comes from another connection comes from an earlier one.           *)
(***************************************************************************)

JobsPast == \A m \in jobs : m.sess <= sess

ReaderPast == \A s \in Session : reader[s].msg # None => reader[s].msg.sess <= s

EarlyPast ==
  \A s \in Session : \A i \in Index : early[s][i] # None => early[s][i].sess <= s

ChanPast ==
  \A c \in Callers : chan[c] \notin {None, Closed} => chan[c].sess <= call[c].sess

OutcomePast ==
  \A c \in Callers : outcome[c].kind = "answer" => outcome[c].msg.sess <= call[c].sess

PastInv == JobsPast /\ ReaderPast /\ EarlyPast /\ ChanPast /\ OutcomePast

\* A step that makes no message and moves none.
LEMMA PastKept ==
  ASSUME PastInv, UNCHANGED <<call, early, chan, outcome, reader, sess>>, jobs' \subseteq jobs
  PROVE  PastInv'
BY DEF PastInv, JobsPast, ReaderPast, EarlyPast, ChanPast, OutcomePast

LEMMA PastCaller ==
  ASSUME LinkInv, CallsPast, PastInv, NEW c \in Callers, CallerWaits(c)
  PROVE  PastInv'
<1> USE DEF LinkInv, TypeOK, PastInv, JobsPast, ReaderPast, EarlyPast, ChanPast, OutcomePast
<1>1. CASE SendCommand(c)
  <2>1. /\ UNCHANGED <<call, early, chan, outcome, reader, sess>>
        /\ jobs' \subseteq jobs \cup {CommandOf(c)} /\ Active(c)
    BY <1>1 DEF SendCommand, Active
  <2>2. CommandOf(c).sess <= sess
    BY <2>1 DEF CallsPast, CommandOf
  <2> QED
    BY <2>1, <2>2
<1>2. CASE SetActiveRemerge(c) \/ MarkTimedOut(c) \/ ClearActiveRemerge(c)
  BY <1>2, PastKept DEF SetActiveRemerge, MarkTimedOut, ClearActiveRemerge
<1>3. CASE Register(c)
  BY <1>3 DEF Register
<1>4. CASE TakeEarly(c)
  <2>1. /\ UNCHANGED <<call, jobs, outcome, reader, sess>>
        /\ \A d \in Callers \ {c} : chan'[d] = chan[d]
        /\ chan'[c] \in {chan[c], early[call[c].sess][call[c].index]}
        /\ \A s \in Session : \A i \in Index : early'[s][i] \in {None, early[s][i]}
    BY <1>4 DEF TakeEarly
  <2>2. ChanPast'
    <3>1. chan'[c] \notin {None, Closed} => chan'[c].sess <= call[c].sess
      BY <2>1
    <3> QED
      BY <2>1, <3>1
  <2> QED
    BY <2>1, <2>2
<1>5. CASE Receive(c)
  <2>1. /\ UNCHANGED <<call, jobs, early, reader, sess>>
        /\ \A d \in Callers \ {c} : outcome'[d] = outcome[d]
        /\ \A d \in Callers : chan'[d] \in {None, chan[d]}
        /\ outcome'[c].kind = "answer" =>
             chan[c] \notin {None, Closed} /\ outcome'[c].msg = chan[c]
    BY <1>5 DEF Receive
  <2> QED
    BY <2>1
<1>6. CASE Unregister(c)
  BY <1>6 DEF Unregister, NoOutcome
<1> QED
  BY <1>1, <1>2, <1>3, <1>4, <1>5, <1>6 DEF CallerWaits

LEMMA PastReader ==
  ASSUME LinkInv, PastInv, NEW s \in Session, ReadReply(s) \/ Read(s)
  PROVE  PastInv'
<1> USE DEF LinkInv, TypeOK, PastInv, JobsPast, ReaderPast, EarlyPast, ChanPast, OutcomePast,
            callVars
<1>1. CASE ReadReply(s)
  <2>1. PICK m \in jobs : /\ jobs' = jobs \ {m}
                          /\ reader' = [reader EXCEPT ![s] = [at |-> "lookup", msg |-> m]]
    BY <1>1 DEF ReadReply
  <2>2. s = sess /\ UNCHANGED <<call, early, chan, outcome, sess>>
    BY <1>1 DEF ReadReply
  <2>3. reader'[s].msg.sess <= s /\ \A t \in Session \ {s} : reader'[t] = reader[t]
    BY <2>1, <2>2
  <2> QED
    BY <2>1, <2>2, <2>3
<1>2. CASE Read(s)
  <2>1. UNCHANGED <<call, outcome, sess, jobs>>
    BY <1>2 DEF Read, DeliverReply, MissReply, ClearLateRemerge, NotLateRemerge, StoreEarly
  <2>2. ReaderPast'
    <3>1. /\ \A t \in Session \ {s} : reader'[t] = reader[t]
          /\ reader'[s].msg \in {None, reader[s].msg}
      BY <1>2 DEF Read, DeliverReply, MissReply, ClearLateRemerge, NotLateRemerge, StoreEarly,
         NextRead
    <3> QED
      BY <3>1
  <2>3. EarlyPast'
    <3>1. CASE StoreEarly(s)
      <4>1. early' = [early EXCEPT ![s][reader[s].msg.index] = reader[s].msg]
        BY <3>1 DEF StoreEarly
      <4>2. \A i \in Index : early'[s][i] \in {early[s][i], reader[s].msg}
        BY <4>1
      <4>3. \A t \in Session \ {s} : early'[t] = early[t]
        BY <4>1
      <4>4. reader[s].msg # None => reader[s].msg.sess <= s
        OBVIOUS
      <4>5. ASSUME NEW i \in Index, early'[s][i] # None PROVE early'[s][i].sess <= s
        BY <4>2, <4>4, <4>5
      <4> QED
        BY <4>3, <4>5
    <3>2. CASE ~StoreEarly(s)
      <4>1. early' = early
        BY <1>2, <3>2 DEF Read, DeliverReply, MissReply, ClearLateRemerge, NotLateRemerge
      <4> QED
        BY <4>1
    <3> QED
      BY <3>1, <3>2
  <2>4. ChanPast'
    <3>1. CASE DeliverReply(s)
      <4> DEFINE m == reader[s].msg
                 c == pending[s][m.index]
      <4>1. reader[s].at = "lookup" /\ c # None
        BY <3>1 DEF DeliverReply
      <4>2. chan' = IF chan[c] = None THEN [chan EXCEPT ![c] = m] ELSE chan
        BY <3>1 DEF DeliverReply
      <4>3. ASSUME NEW d \in Callers, chan'[d] # chan[d]
            PROVE  d = c /\ chan'[d] = m
        BY <4>2, <4>3
      <4>4. ASSUME NEW d \in Callers, chan'[d] \notin {None, Closed}
            PROVE  chan'[d].sess <= call[d].sess
        <5>1. CASE chan'[d] = chan[d]
          BY <4>4, <5>1
        <5>2. CASE chan'[d] # chan[d]
          <6>1. d = c /\ chan'[d] = m /\ m # None
            BY <4>3, <4>4, <5>2
          <6>2. m.index \in Index
            BY <6>1 DEF Command
          <6>3. call[d].sess = s
            BY <4>1, <6>1, <6>2 DEF PendingOwned
          <6> QED
            BY <6>1, <6>3
        <5> QED
          BY <5>1, <5>2
      <4> QED
        BY <2>1, <4>4
    <3>2. CASE ~DeliverReply(s)
      <4>1. chan' = chan
        BY <1>2, <3>2 DEF Read, StoreEarly, MissReply, ClearLateRemerge, NotLateRemerge
      <4> QED
        BY <2>1, <4>1
    <3> QED
      BY <3>1, <3>2
  <2> QED
    BY <2>1, <2>2, <2>3, <2>4
<1> QED
  BY <1>1, <1>2

LEMMA PastStep ==
  ASSUME LinkInv, CallsPast, PastInv, [Next]_vars
  PROVE  PastInv'
<1> USE DEF LinkInv, TypeOK, callVars
<1>1. CASE Connect
  BY <1>1 DEF Connect, Session, Command, PastInv, JobsPast, ReaderPast, EarlyPast, ChanPast,
     OutcomePast
<1>2. CASE LoseReply
  BY <1>2, PastKept DEF LoseReply
<1>3. CASE FireAndForget
  <2>1. /\ UNCHANGED <<call, early, chan, outcome, reader, sess>>
        /\ \E m : m.sess = sess /\ jobs' = jobs \cup {m}
    BY <1>3 DEF FireAndForget
  <2> QED
    BY <2>1 DEF PastInv, JobsPast, ReaderPast, EarlyPast, ChanPast, OutcomePast
<1>4. ASSUME NEW c \in Callers, FetchIndex(c) PROVE PastInv'
  <2>1. /\ UNCHANGED <<early, chan, outcome, reader, sess, jobs>>
        /\ \A d \in Callers \ {c} : call'[d] = call[d]
        /\ pc[c] = "idle"
    BY <1>4 DEF FetchIndex
  <2>2. chan[c] \in {None, Closed} /\ outcome[c].kind # "answer"
    BY <2>1 DEF ChanTraced, OutcomeTraced, Expecting
  <2> QED
    BY <2>1, <2>2 DEF PastInv, JobsPast, ReaderPast, EarlyPast, ChanPast, OutcomePast
<1>5. ASSUME NEW c \in Callers, Timeout(c) PROVE PastInv'
  BY <1>5 DEF Timeout, PastInv, JobsPast, ReaderPast, EarlyPast, ChanPast, OutcomePast
<1>6. ASSUME NEW s \in Session, GoOffline(s) \/ Offline(s) PROVE PastInv'
  <2>1. UNCHANGED <<call, early, outcome, reader, sess, jobs>>
    BY <1>6 DEF GoOffline, Offline, CloseLink, SweepOne, SweepDone
  <2>2. \A c \in Callers : chan'[c] \in {Closed, chan[c]}
    BY <1>6 DEF GoOffline, Offline, CloseLink, SweepOne, SweepDone
  <2> QED
    BY <2>1, <2>2 DEF PastInv, JobsPast, ReaderPast, EarlyPast, ChanPast, OutcomePast
<1>7. CASE UNCHANGED vars
  BY <1>7, PastKept DEF vars
<1> QED
  BY <1>1, <1>2, <1>3, <1>4, <1>5, <1>6, <1>7, PastCaller, PastReader DEF Next

\* FetchResponse returns the answer to the caller's own command; only a job of an earlier
\* connection, under the index the caller drew, gives it another's.
THEOREM AnswersAreOwn == Spec => []AnswerIsOwn
<1>1. Init => PastInv
  BY DEF Init, NoOutcome, PastInv, JobsPast, ReaderPast, EarlyPast, ChanPast, OutcomePast
<1>2. LinkInv /\ CallsPast /\ PastInv /\ [Next]_vars => PastInv'
  BY PastStep
<1>3. AheadInv => CallsPast
  BY DEF AheadInv
<1>4. LinkInv /\ PastInv => AnswerIsOwn
  <2> SUFFICES ASSUME LinkInv, PastInv, NEW c \in Callers, outcome[c].kind = "answer",
                      NEW m, m = outcome[c].msg
               PROVE  m = CommandOf(c) \/ (m.sess < call[c].sess /\ m.index = call[c].index)
    BY DEF AnswerIsOwn
  <2>1. m \in Command /\ Traced(m) /\ m.index = call[c].index /\ Active(c)
    BY DEF LinkInv, OutcomeTraced, Active
  <2>2. m.sess <= call[c].sess /\ m.sess \in Nat /\ call[c].sess \in Nat
    BY <2>1 DEF PastInv, OutcomePast, LinkInv, TypeOK, Session, Command
  <2>3. CASE m.sess = call[c].sess
    <3>1. m.by = c
      BY <2>1, <2>3 DEF Traced, Matches
    <3> QED
      BY <2>1, <2>3, <3>1 DEF Command, CommandOf
  <2>4. CASE m.sess # call[c].sess
    BY <2>1, <2>2, <2>4
  <2> QED
    BY <2>3, <2>4
<1> QED
  BY <1>1, <1>2, <1>3, <1>4, LinkInvariant, AheadInvariant, PTL DEF Spec
=============================================================================

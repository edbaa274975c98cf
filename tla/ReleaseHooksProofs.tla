------------------------- MODULE ReleaseHooksProofs ------------------------
(***************************************************************************)
(* For any number of uploads, files and any size of the channel: a release *)
(* uses its queue as PostHookQueue says, no hook is left in a queue whose  *)
(* goroutine has ended, and the hooks run as HookRuns promises.  What is   *)
(* announced as complete is complete, a complete release is announced, and *)
(* no bad file stays in it unless the slave has failed to delete it.       *)
(***************************************************************************)
EXTENDS ReleaseHooks, FiniteSetTheorems, TLAPS

Lives(q) == runner[q] \in {"idle", "busy"}
InFlight(q) == {j \in Jobs : at[j] \in {"reserved", "sent"} /\ to[j] = q}
In(j, q) == \E i \in 1..Len(tasks[q]) : tasks[q][i] = j

\* pending counts the enqueues in flight.
Books == \A q \in Jobs : IsFiniteSet(InFlight(q)) /\ pending[q] = Cardinality(InFlight(q))

\* An upload that has not come has no queue named after it, and its hook is nowhere.
Fresh ==
  \A j \in Jobs :
    at[j] = "no" => /\ to[j] = None /\ runner[j] = "none" /\ j \notin done
                    /\ \A k \in Jobs : to[k] # j

\* The queue of the map is the one whose goroutine runs; it runs a hook when busy.
OneLives ==
  /\ \A q \in Jobs : Lives(q) <=> entry = q
  /\ \A q \in Jobs : runner[q] = "busy" <=> running[q] # None

\* A hook that has not run is on its way to the map's queue, in it, or running.
Placed ==
  \A j \in Jobs : at[j] # "no" /\ j \notin done =>
    /\ entry \in Jobs /\ to[j] = entry
    /\ at[j] = "reserved" \/ In(j, entry) \/ running[entry] = j

\* What is in a queue was sent to it once, and has not run.
Sent(j, q) == at[j] \in {"sent", "returned"} /\ to[j] = q /\ j \notin done

Contents ==
  \A q \in Jobs : \A i \in 1..Len(tasks[q]) :
    Sent(tasks[q][i], q) /\ running[q] # tasks[q][i]

Once ==
  \A q \in Jobs : \A i, k \in 1..Len(tasks[q]) : tasks[q][i] = tasks[q][k] => i = k

Running == \A q \in Jobs : running[q] # None => Sent(running[q], q)

Done == \A j \in done : at[j] \in {"sent", "returned"}
Bound == \A j \in Jobs : at[j] # "no" => to[j] \in Jobs

\* A hook that was queued when another was given is before it.
Past == \A j \in Jobs : \A k \in first[j] : at[k] = "returned"

Ordered ==
  \A q \in Jobs : \A i, k \in 1..Len(tasks[q]) :
    tasks[q][k] \in first[tasks[q][i]] => k < i

After == \A q \in Jobs : running[q] # None => \A k \in first[running[q]] : k \in done

QueueInv ==
  /\ QueueTypeOK /\ Books /\ Fresh /\ OneLives /\ Placed
  /\ Contents /\ Once /\ Running /\ Done /\ Bound /\ Past /\ Ordered /\ After

USE QueueAssumption

LEMMA QueueInitInv == QueueInit => QueueInv
<1> SUFFICES ASSUME QueueInit PROVE QueueInv
  OBVIOUS
<1>1. Books
  <2>1. \A q \in Jobs : InFlight(q) = {}
    BY DEF QueueInit, InFlight
  <2> QED
    BY <2>1, FS_EmptySet DEF QueueInit, Books
<1>2. QueueTypeOK
  BY DEF QueueInit, QueueTypeOK
<1> QED
  BY <1>1, <1>2 DEF QueueInit, QueueInv, Fresh, OneLives, Lives, Placed, Contents, Once,
     Running, Sent, Done, Bound, Past, Ordered, After

\* What the channels hold, as sequences.
LEMMA QueueSeqs ==
  ASSUME QueueTypeOK
  PROVE  \A q \in Jobs : /\ tasks[q] \in Seq(Jobs) /\ Len(tasks[q]) \in Nat
                         /\ \A i \in 1..Len(tasks[q]) : tasks[q][i] \in Jobs
<1> SUFFICES ASSUME NEW q \in Jobs
             PROVE  /\ tasks[q] \in Seq(Jobs) /\ Len(tasks[q]) \in Nat
                    /\ \A i \in 1..Len(tasks[q]) : tasks[q][i] \in Jobs
  OBVIOUS
<1>1. tasks[q] \in Seq(Jobs)
  BY DEF QueueTypeOK
<1> QED
  BY <1>1

\* A channel after a send, and the first hook and the rest of one that is not empty.
LEMMA Appended ==
  ASSUME NEW s \in Seq(Jobs), NEW j \in Jobs
  PROVE  /\ Append(s, j) \in Seq(Jobs) /\ Len(Append(s, j)) = Len(s) + 1
         /\ Append(s, j)[Len(s) + 1] = j
         /\ \A i \in 1..Len(s) : Append(s, j)[i] = s[i]
  OBVIOUS

LEMMA Taken ==
  ASSUME NEW s \in Seq(Jobs), s # <<>>
  PROVE  \E n \in Nat, h \in Jobs :
           /\ Len(s) = n + 1 /\ s[1] = h /\ Head(s) = h
           /\ Tail(s) \in Seq(Jobs) /\ Len(Tail(s)) = n
           /\ \A i \in 1..n : Tail(s)[i] = s[i + 1]
<1>1. Len(s) \in Nat /\ Len(s) # 0 /\ s[1] \in Jobs
  OBVIOUS
<1>2. /\ Len(s) - 1 \in Nat /\ Len(s) = (Len(s) - 1) + 1 /\ Head(s) = s[1]
      /\ Tail(s) \in Seq(Jobs) /\ Len(Tail(s)) = Len(s) - 1
      /\ \A i \in 1..(Len(s) - 1) : Tail(s)[i] = s[i + 1]
  BY <1>1
<1> QED
  BY <1>1, <1>2

\* Each step of an enqueue and of the queue's goroutine keeps the invariant.
LEMMA ReserveInv == ASSUME QueueInv, NEW j \in Jobs, Reserve(j) PROVE QueueInv'
<1> USE DEF QueueInv
<1>1. PICK q \in Jobs :
        /\ q = IF entry = None THEN j ELSE entry
        /\ at[j] = "no" /\ entry' = q
        /\ to' = [to EXCEPT ![j] = q] /\ pending' = [pending EXCEPT ![q] = @ + 1]
        /\ runner' = IF entry = None THEN [runner EXCEPT ![q] = "idle"] ELSE runner
        /\ at' = [at EXCEPT ![j] = "reserved"]
        /\ first' = [first EXCEPT ![j] = Queued]
        /\ UNCHANGED <<tasks, running, done>>
  BY DEF Reserve, QueueTypeOK
<1>2. /\ to[j] = None /\ runner[j] = "none" /\ j \notin done
      /\ \A k \in Jobs : to[k] # j
  BY <1>1 DEF Fresh
<1>3. /\ at'[j] = "reserved" /\ to'[j] = q /\ first'[j] = Queued
      /\ \A k \in Jobs \ {j} : at'[k] = at[k] /\ to'[k] = to[k] /\ first'[k] = first[k]
      /\ pending'[q] = pending[q] + 1
      /\ \A p \in Jobs \ {q} : pending'[p] = pending[p]
  BY <1>1 DEF QueueTypeOK
<1>4. QueueTypeOK'
  BY <1>1 DEF QueueTypeOK, Queued
<1>5. Books'
  <2>1. InFlight(q)' = InFlight(q) \cup {j} /\ j \notin InFlight(q)
    BY <1>1, <1>3 DEF InFlight
  <2>2. ASSUME NEW p \in Jobs, p # q PROVE InFlight(p)' = InFlight(p)
    BY <1>1, <1>2, <1>3, <2>2 DEF InFlight
  <2>3. /\ IsFiniteSet(InFlight(q) \cup {j})
        /\ Cardinality(InFlight(q) \cup {j}) = Cardinality(InFlight(q)) + 1
    <3>1. IsFiniteSet(InFlight(q))
      BY DEF Books
    <3> QED
      BY <2>1, <3>1, FS_AddElement
  <2> QED
    BY <1>3, <2>1, <2>2, <2>3 DEF Books
<1>6. Fresh'
  BY <1>1, <1>2 DEF QueueTypeOK, Fresh, OneLives, Lives
<1>7. OneLives'
  BY <1>1, <1>2 DEF QueueTypeOK, OneLives, Lives
<1>8. Placed'
  BY <1>1, <1>2 DEF QueueTypeOK, Placed, In, OneLives, Lives
<1>9. \A k \in Jobs, p \in Jobs : Sent(k, p) => k # j /\ Sent(k, p)'
  BY <1>1, <1>3 DEF Sent
<1>10. Contents'
  BY <1>1, <1>9, QueueSeqs DEF Contents
<1>11. Once' /\ Done' /\ Bound'
  BY <1>1, <1>3 DEF Once, Done, Bound
<1>12. ASSUME NEW p \in Jobs, running[p] # None PROVE running[p] \in Jobs /\ Sent(running[p], p)
  BY <1>12 DEF QueueTypeOK, Running
<1>13. Running'
  BY <1>1, <1>9, <1>12 DEF Running
<1>14. Past'
  BY <1>1, <1>3 DEF Past, Queued
<1>15. Ordered'
  <2> SUFFICES ASSUME NEW p \in Jobs, NEW i \in 1..Len(tasks[p]), NEW k \in 1..Len(tasks[p]),
                      tasks[p][k] \in first'[tasks[p][i]]
               PROVE  k < i
    BY <1>1 DEF Ordered
  <2>1. tasks[p][i] \in Jobs \ {j}
    BY <1>9, QueueSeqs DEF Contents
  <2> QED
    BY <1>3, <2>1 DEF Ordered
<1>16. After'
  BY <1>1, <1>3, <1>9, <1>12 DEF After
<1> QED
  BY <1>4, <1>5, <1>6, <1>7, <1>8, <1>10, <1>11, <1>13, <1>14, <1>15, <1>16

LEMMA SendInv == ASSUME QueueInv, NEW j \in Jobs, Send(j) PROVE QueueInv'
<1> USE DEF QueueInv
<1>1. PICK q \in Jobs :
        /\ q = to[j] /\ entry = q /\ at[j] = "reserved" /\ j \notin done
        /\ tasks' = [tasks EXCEPT ![q] = Append(@, j)]
        /\ at' = [at EXCEPT ![j] = "sent"]
        /\ UNCHANGED <<entry, pending, runner, running, to, done, first>>
  BY DEF Send, Placed, Done, QueueTypeOK
<1>2. /\ at'[j] = "sent" /\ \A k \in Jobs \ {j} : at'[k] = at[k]
      /\ tasks'[q] = Append(tasks[q], j) /\ \A p \in Jobs \ {q} : tasks'[p] = tasks[p]
  BY <1>1 DEF QueueTypeOK
<1>3. PICK n \in Nat :
        /\ n = Len(tasks[q]) /\ tasks'[q] \in Seq(Jobs)
        /\ Len(tasks'[q]) = n + 1 /\ tasks'[q][n + 1] = j
        /\ \A i \in 1..n : tasks'[q][i] = tasks[q][i]
  BY <1>2, QueueSeqs, Appended
<1>4. QueueTypeOK'
  BY <1>1, <1>2, <1>3 DEF QueueTypeOK
<1>5. Books'
  <2>1. ASSUME NEW p \in Jobs PROVE InFlight(p)' = InFlight(p)
    BY <1>1, <1>2 DEF InFlight
  <2> QED
    BY <1>1, <2>1 DEF Books
<1>6. Fresh' /\ OneLives' /\ Done' /\ Bound'
  BY <1>1, <1>2 DEF Fresh, OneLives, Lives, Done, Bound, QueueTypeOK
<1>7. Placed'
  <2>1. In(j, q)'
    BY <1>3 DEF In
  <2>2. ASSUME NEW k \in Jobs, In(k, q) PROVE In(k, q)'
    BY <1>3, <2>2 DEF In
  <2> QED
    BY <1>1, <1>2, <2>1, <2>2 DEF Placed
<1>8. \A k \in Jobs, p \in Jobs : Sent(k, p) => k # j /\ Sent(k, p)'
  BY <1>1, <1>2 DEF Sent
<1>9. Sent(j, q)' /\ \A p \in Jobs : running[p] # j
  BY <1>1, <1>2, <1>8, QueueAssumption DEF Sent, Running
<1>10. ASSUME NEW i \in 1..n
       PROVE  /\ tasks[q][i] \in Jobs \ {j} /\ tasks'[q][i] = tasks[q][i]
              /\ Sent(tasks[q][i], q) /\ running[q] # tasks[q][i]
  BY <1>3, <1>8, QueueSeqs DEF Contents
<1>11. Contents'
  <2>1. ASSUME NEW p \in Jobs, p # q, NEW i \in 1..Len(tasks[p])
        PROVE  Sent(tasks[p][i], p)' /\ running[p] # tasks[p][i]
    <3>1. tasks[p][i] \in Jobs /\ Sent(tasks[p][i], p) /\ running[p] # tasks[p][i]
      BY QueueSeqs DEF Contents
    <3> QED
      BY <1>2, <1>8, <2>1, <3>1 DEF Sent
  <2>2. ASSUME NEW i \in 1..(n + 1)
        PROVE  Sent(tasks[q][i], q)' /\ running[q] # tasks'[q][i]
    <3>1. CASE i = n + 1
      BY <1>3, <1>9, <3>1 DEF Sent
    <3>2. CASE i \in 1..n
      BY <1>1, <1>2, <1>10, <3>2 DEF Sent
    <3> QED
      BY <3>1, <3>2
  <2> QED
    BY <1>1, <1>2, <1>3, <2>1, <2>2 DEF Contents, Sent
<1>12. Once'
  <2>1. \A i, k \in 1..(n + 1) : tasks'[q][i] = tasks'[q][k] => i = k
    BY <1>3, <1>10 DEF Once
  <2>2. ASSUME NEW p \in Jobs, p # q, NEW i \in 1..Len(tasks[p]), NEW k \in 1..Len(tasks[p]),
               tasks[p][i] = tasks[p][k]
        PROVE  i = k
    BY <2>2 DEF Once
  <2> SUFFICES ASSUME NEW p \in Jobs,
                      NEW i \in 1..Len(tasks'[p]), NEW k \in 1..Len(tasks'[p]),
                      tasks'[p][i] = tasks'[p][k]
               PROVE  i = k
    BY DEF Once
  <2>3. CASE p = q
    BY <1>3, <2>1, <2>3
  <2>4. CASE p # q
    BY <1>2, <2>2, <2>4
  <2> QED
    BY <2>3, <2>4
<1>13. Running'
  BY <1>1, <1>8 DEF Running, QueueTypeOK
<1>14. j \notin Queued /\ \A k \in Jobs : j \notin first[k]
  BY <1>1 DEF Queued, Past
<1>15. Past' /\ After'
  BY <1>1, <1>2, <1>14 DEF Past, After
<1>16. Ordered'
  <2>1. \A i, k \in 1..(n + 1) : tasks'[q][k] \in first[tasks'[q][i]] => k < i
    <3> SUFFICES ASSUME NEW i \in 1..(n + 1), NEW k \in 1..(n + 1),
                        tasks'[q][k] \in first[tasks'[q][i]]
                 PROVE  k < i
      OBVIOUS
    <3>1. k \in 1..n
      <4> SUFFICES ASSUME k = n + 1 PROVE FALSE
        OBVIOUS
      <4>1. tasks'[q][i] \in Jobs
        BY <1>3, <1>10
      <4> QED
        BY <1>3, <1>14, <4>1
    <3>2. CASE i = n + 1
      BY <3>1, <3>2
    <3>3. CASE i \in 1..n
      BY <1>3, <3>1, <3>3 DEF Ordered
    <3> QED
      BY <3>2, <3>3
  <2> QED
    BY <1>1, <1>2, <1>3, <2>1 DEF Ordered
<1> QED
  BY <1>4, <1>5, <1>6, <1>7, <1>11, <1>12, <1>13, <1>15, <1>16

LEMMA GiveBackInv == ASSUME QueueInv, NEW j \in Jobs, GiveBack(j) PROVE QueueInv'
<1> USE DEF QueueInv
<1>1. PICK q \in Jobs :
        /\ q = to[j] /\ at[j] = "sent"
        /\ pending' = [pending EXCEPT ![q] = @ - 1]
        /\ at' = [at EXCEPT ![j] = "returned"]
        /\ UNCHANGED <<entry, tasks, runner, running, to, done, first>>
  <2>1. at[j] = "sent" /\ to[j] \in Jobs
    BY DEF GiveBack, Bound
  <2> QED
    BY <2>1 DEF GiveBack
<1>2. /\ at'[j] = "returned" /\ \A k \in Jobs \ {j} : at'[k] = at[k]
      /\ pending'[q] = pending[q] - 1
      /\ \A p \in Jobs \ {q} : pending'[p] = pending[p]
  BY <1>1 DEF QueueTypeOK
<1>3. Books' /\ pending'[q] \in Nat
  <2>1. InFlight(q)' = InFlight(q) \ {j} /\ j \in InFlight(q)
    BY <1>1, <1>2 DEF InFlight
  <2>2. ASSUME NEW p \in Jobs, p # q PROVE InFlight(p)' = InFlight(p)
    BY <1>1, <1>2, <2>2 DEF InFlight
  <2>3. /\ IsFiniteSet(InFlight(q) \ {j})
        /\ Cardinality(InFlight(q) \ {j}) = Cardinality(InFlight(q)) - 1
    <3>1. IsFiniteSet(InFlight(q))
      BY DEF Books
    <3> QED
      BY <2>1, <3>1, FS_RemoveElement
  <2>4. Cardinality(InFlight(q) \ {j}) \in Nat
    BY <2>3, FS_CardinalityType
  <2> QED
    BY <1>2, <2>1, <2>2, <2>3, <2>4 DEF Books
<1>4. QueueTypeOK'
  BY <1>1, <1>3 DEF QueueTypeOK
<1>5. Fresh' /\ OneLives' /\ Done' /\ Bound'
  BY <1>1, <1>2 DEF Fresh, OneLives, Lives, Done, Bound, QueueTypeOK
<1>6. Placed'
  BY <1>1, <1>2 DEF Placed, In
<1>7. \A k \in Jobs, p \in Jobs : Sent(k, p) => Sent(k, p)'
  BY <1>1, <1>2 DEF Sent
<1>8. Contents' /\ Once' /\ Running'
  BY <1>1, <1>7, QueueSeqs DEF Contents, Once, Running, QueueTypeOK
<1>9. Past' /\ Ordered' /\ After'
  BY <1>1, <1>2 DEF Past, Ordered, After
<1> QED
  BY <1>3, <1>4, <1>5, <1>6, <1>8, <1>9

LEMMA TakeInv == ASSUME QueueInv, NEW q \in Jobs, Take(q) PROVE QueueInv'
<1> USE DEF QueueInv
<1>1. /\ runner[q] = "idle" /\ tasks[q] # <<>> /\ entry = q
      /\ running' = [running EXCEPT ![q] = Head(tasks[q])]
      /\ tasks' = [tasks EXCEPT ![q] = Tail(@)]
      /\ runner' = [runner EXCEPT ![q] = "busy"]
      /\ UNCHANGED <<entry, pending, at, to, done, first>>
  BY DEF Take, OneLives, Lives
<1>2. PICK n \in Nat, h \in Jobs :
        /\ Len(tasks[q]) = n + 1 /\ tasks[q][1] = h /\ Head(tasks[q]) = h
        /\ Tail(tasks[q]) \in Seq(Jobs) /\ Len(Tail(tasks[q])) = n
        /\ \A i \in 1..n : Tail(tasks[q])[i] = tasks[q][i + 1]
  BY <1>1, QueueSeqs, Taken
<1>3. /\ running'[q] = h /\ \A p \in Jobs \ {q} : running'[p] = running[p]
      /\ tasks'[q] = Tail(tasks[q]) /\ \A p \in Jobs \ {q} : tasks'[p] = tasks[p]
      /\ runner'[q] = "busy" /\ \A p \in Jobs \ {q} : runner'[p] = runner[p]
      /\ at' = at /\ to' = to /\ done' = done /\ first' = first
  BY <1>1, <1>2 DEF QueueTypeOK
<1>4. QueueTypeOK'
  BY <1>1, <1>2 DEF QueueTypeOK
<1>5. Books'
  <2>1. ASSUME NEW p \in Jobs PROVE InFlight(p)' = InFlight(p)
    BY <1>1 DEF InFlight
  <2> QED
    BY <1>1, <2>1 DEF Books
<1>6. Fresh' /\ OneLives' /\ Done' /\ Bound'
  BY <1>1, <1>2, <1>3, QueueAssumption DEF Fresh, OneLives, Lives, Done, Bound
<1>7. running[q] = None
  BY <1>1 DEF OneLives
<1>8. ASSUME NEW k \in Jobs, In(k, q) PROVE In(k, q)' \/ running'[q] = k
  <2>1. PICK i \in 1..(n + 1) : tasks[q][i] = k
    BY <1>2, <1>8 DEF In
  <2>2. CASE i = 1
    BY <1>2, <1>3, <2>1, <2>2
  <2>3. CASE i # 1
    <3>1. i - 1 \in 1..n /\ (i - 1) + 1 = i
      BY <2>3
    <3>2. tasks'[q][i - 1] = k /\ Len(tasks'[q]) = n
      BY <1>2, <1>3, <2>1, <3>1
    <3> QED
      BY <3>1, <3>2 DEF In
  <2> QED
    BY <2>2, <2>3
<1>9. Placed'
  BY <1>1, <1>3, <1>7, <1>8, QueueAssumption DEF Placed
<1>10. \A k \in Jobs, p \in Jobs : Sent(k, p) => Sent(k, p)'
  BY <1>1 DEF Sent
<1>11. ASSUME NEW i \in 1..n
       PROVE  /\ tasks'[q][i] = tasks[q][i + 1] /\ i + 1 \in 1..(n + 1)
              /\ tasks'[q][i] \in Jobs /\ tasks'[q][i] # h
              /\ Sent(tasks[q][i + 1], q)
  <2>1. tasks'[q][i] = tasks[q][i + 1] /\ i + 1 \in 1..(n + 1)
    <3>1. Tail(tasks[q])[i] = tasks[q][i + 1]
      BY <1>2
    <3>2. tasks'[q][i] = Tail(tasks[q])[i]
      BY <1>3
    <3>3. i + 1 \in 1..(n + 1)
      OBVIOUS
    <3> QED
      BY <3>1, <3>2, <3>3
  <2>2. tasks[q][i + 1] \in Jobs /\ Sent(tasks[q][i + 1], q)
    <3> i + 1 \in 1..Len(tasks[q])
      BY <1>2, <2>1
    <3> QED
      BY QueueSeqs DEF Contents
  <2>3. tasks[q][i + 1] # h
    BY <1>2, <2>1 DEF Once
  <2> QED
    BY <2>1, <2>2, <2>3
<1>12. Contents'
  <2> SUFFICES ASSUME NEW p \in Jobs, NEW i \in 1..Len(tasks'[p])
               PROVE  /\ at'[tasks'[p][i]] \in {"sent", "returned"} /\ to'[tasks'[p][i]] = p
                      /\ tasks'[p][i] \notin done' /\ running'[p] # tasks'[p][i]
    BY DEF Contents, Sent
  <2>1. CASE p = q
    <3>1. i \in 1..n
      BY <1>2, <1>3, <2>1
    <3> QED
      BY <1>3, <1>11, <2>1, <3>1 DEF Sent
  <2>2. CASE p # q
    BY <1>3, <2>2 DEF Contents, Sent
  <2> QED
    BY <2>1, <2>2
<1>13. Once'
  <2>1. ASSUME NEW p \in Jobs, p # q, NEW i \in 1..Len(tasks[p]), NEW k \in 1..Len(tasks[p]),
               tasks[p][i] = tasks[p][k]
        PROVE  i = k
    BY <2>1 DEF Once
  <2>2. ASSUME NEW i \in 1..n, NEW k \in 1..n, tasks'[q][i] = tasks'[q][k] PROVE i = k
    <3>1. /\ i + 1 \in 1..Len(tasks[q]) /\ k + 1 \in 1..Len(tasks[q])
          /\ tasks[q][i + 1] = tasks[q][k + 1]
      BY <1>2, <1>11, <2>2
    <3>2. i + 1 = k + 1
      BY <3>1 DEF Once
    <3> QED
      BY <3>2
  <2> SUFFICES ASSUME NEW p \in Jobs,
                      NEW i \in 1..Len(tasks'[p]), NEW k \in 1..Len(tasks'[p]),
                      tasks'[p][i] = tasks'[p][k]
               PROVE  i = k
    BY DEF Once
  <2>3. CASE p = q
    BY <1>2, <1>3, <2>2, <2>3
  <2>4. CASE p # q
    BY <1>3, <2>1, <2>4
  <2> QED
    BY <2>3, <2>4
<1>14. Sent(h, q)
  BY <1>2 DEF Contents
<1>15. Running'
  BY <1>1, <1>3, <1>10, <1>14 DEF Running, QueueTypeOK
<1>16. Past'
  BY <1>1 DEF Past
<1>17. Ordered'
  <2>1. ASSUME NEW p \in Jobs, p # q, NEW i \in 1..Len(tasks[p]), NEW k \in 1..Len(tasks[p]),
               tasks[p][k] \in first[tasks[p][i]]
        PROVE  k < i
    BY <2>1 DEF Ordered
  <2>2. ASSUME NEW i \in 1..n, NEW k \in 1..n, tasks'[q][k] \in first[tasks'[q][i]]
        PROVE  k < i
    <3>1. /\ i + 1 \in 1..Len(tasks[q]) /\ k + 1 \in 1..Len(tasks[q])
          /\ tasks[q][k + 1] \in first[tasks[q][i + 1]]
      BY <1>2, <1>11, <2>2
    <3>2. k + 1 < i + 1
      BY <3>1 DEF Ordered
    <3> QED
      BY <3>2
  <2> QED
    BY <1>1, <1>2, <1>3, <2>1, <2>2 DEF Ordered
<1>18. After'
  <2>1. ASSUME NEW k \in first[h] PROVE k \in done
    <3> SUFFICES ASSUME k \notin done PROVE FALSE
      OBVIOUS
    <3>1. k \in Jobs /\ at[k] = "returned"
      BY DEF Past, QueueTypeOK
    <3>2. In(k, q)
      BY <1>1, <1>7, <3>1, QueueAssumption DEF Placed
    <3>3. PICK i \in 1..(n + 1) : tasks[q][i] = k
      BY <1>2, <3>2 DEF In
    <3>4. 1 \in 1..Len(tasks[q]) /\ i \in 1..Len(tasks[q]) /\ tasks[q][1] = h
      BY <1>2
    <3>5. i < 1
      BY <3>3, <3>4 DEF Ordered
    <3> QED
      BY <3>5
  <2> QED
    BY <1>1, <1>3, <2>1 DEF After
<1> QED
  BY <1>4, <1>5, <1>6, <1>9, <1>12, <1>13, <1>15, <1>16, <1>17, <1>18

LEMMA TaskEndsInv == ASSUME QueueInv, NEW q \in Jobs, TaskEnds(q) PROVE QueueInv'
<1> USE DEF QueueInv
<1>1. PICK h \in Jobs :
        /\ running[q] = h /\ runner[q] = "busy" /\ entry = q /\ Sent(h, q)
        /\ done' = done \cup {h}
        /\ running' = [running EXCEPT ![q] = None]
        /\ runner' = [runner EXCEPT ![q] = "idle"]
        /\ UNCHANGED <<entry, tasks, pending, at, to, first>>
  BY DEF TaskEnds, OneLives, Lives, Running, QueueTypeOK
<1>2. /\ running'[q] = None /\ \A p \in Jobs \ {q} : running'[p] = running[p]
      /\ runner'[q] = "idle" /\ \A p \in Jobs \ {q} : runner'[p] = runner[p]
      /\ entry' = entry /\ at' = at /\ to' = to /\ tasks' = tasks /\ first' = first
  BY <1>1 DEF QueueTypeOK
<1>3. QueueTypeOK'
  BY <1>1 DEF QueueTypeOK
<1>4. Books'
  <2>1. ASSUME NEW p \in Jobs PROVE InFlight(p)' = InFlight(p)
    BY <1>1 DEF InFlight
  <2> QED
    BY <1>1, <2>1 DEF Books
<1>5. Fresh' /\ OneLives' /\ Done' /\ Bound'
  BY <1>1, <1>2 DEF Fresh, OneLives, Lives, Done, Bound, Sent
<1>6. Placed'
  BY <1>1, <1>2 DEF Placed, In
<1>7. \A p \in Jobs : \A i \in 1..Len(tasks[p]) : tasks[p][i] # h
  BY <1>1 DEF Contents, Sent
<1>8. Contents'
  <2> SUFFICES ASSUME NEW p \in Jobs, NEW i \in 1..Len(tasks[p])
               PROVE  /\ at[tasks[p][i]] \in {"sent", "returned"} /\ to[tasks[p][i]] = p
                      /\ tasks[p][i] \notin done' /\ running'[p] # tasks[p][i]
    BY <1>2 DEF Contents, Sent
  <2>1. /\ at[tasks[p][i]] \in {"sent", "returned"} /\ to[tasks[p][i]] = p
        /\ tasks[p][i] \notin done /\ running[p] # tasks[p][i]
    BY DEF Contents, Sent
  <2>2. tasks[p][i] \in Jobs
    BY QueueSeqs
  <2> QED
    BY <1>1, <1>2, <1>7, <2>1, <2>2, QueueAssumption
<1>9. \A p \in Jobs : running'[p] = None
  BY <1>1, <1>2 DEF OneLives, Lives
<1>10. Once' /\ Running' /\ Past' /\ Ordered' /\ After'
  BY <1>2, <1>9 DEF Once, Running, Past, Ordered, After
<1> QED
  BY <1>3, <1>4, <1>5, <1>6, <1>8, <1>10

\* When the goroutine finds its queue empty and nothing on the way, no hook is left.
LEMMA IdleLeavesNone ==
  ASSUME QueueInv, NEW q \in Jobs, Idle(q), NEW j \in Jobs, at[j] # "no"
  PROVE  j \in done
<1> SUFFICES ASSUME j \notin done PROVE FALSE
  OBVIOUS
<1>1. entry = q /\ to[j] = q
  BY DEF Idle, QueueInv, Placed
<1>2. j \notin InFlight(q)
  <2>1. IsFiniteSet(InFlight(q)) /\ Cardinality(InFlight(q)) = 0
    BY DEF Idle, QueueInv, Books
  <2> QED
    BY <2>1, FS_EmptySet
<1>3. ~In(j, q)
  BY DEF Idle, In
<1>4. running[q] # j
  BY QueueAssumption DEF Idle, QueueInv, OneLives
<1> QED
  BY <1>1, <1>2, <1>3, <1>4 DEF QueueInv, Placed, InFlight

LEMMA IdleInv == ASSUME QueueInv, NEW q \in Jobs, Idle(q) PROVE QueueInv'
<1> USE DEF QueueInv
<1>1. /\ runner[q] = "idle" /\ entry = q /\ entry' = None
      /\ runner' = [runner EXCEPT ![q] = "over"]
      /\ tasks' = tasks /\ pending' = pending /\ running' = running /\ at' = at
      /\ to' = to /\ done' = done /\ first' = first
  BY DEF Idle
<1>2. runner'[q] = "over" /\ \A p \in Jobs \ {q} : runner'[p] = runner[p]
  BY <1>1 DEF QueueTypeOK
<1>3. QueueTypeOK'
  BY <1>1 DEF QueueTypeOK
<1>4. Books'
  <2>1. ASSUME NEW p \in Jobs PROVE InFlight(p)' = InFlight(p)
    BY <1>1 DEF InFlight
  <2> QED
    BY <1>1, <2>1 DEF Books
<1>5. Fresh' /\ Done' /\ Bound'
  BY <1>1, <1>2 DEF Fresh, Done, Bound
<1>6. OneLives'
  BY <1>1, <1>2, QueueAssumption DEF OneLives, Lives
<1>7. Placed'
  BY <1>1, IdleLeavesNone DEF Placed
<1>8. Contents' /\ Once' /\ Running' /\ Past' /\ Ordered' /\ After'
  BY <1>1 DEF Contents, Once, Running, Past, Ordered, After, Sent
<1> QED
  BY <1>3, <1>4, <1>5, <1>6, <1>7, <1>8

LEMMA QueueStepInv == QueueInv /\ [QueueNext]_queueVars => QueueInv'
<1> SUFFICES ASSUME QueueInv, [QueueNext]_queueVars PROVE QueueInv'
  OBVIOUS
<1>1. ASSUME NEW j \in Jobs, EnqueueStep(j) \/ RunnerStep(j) PROVE QueueInv'
  BY <1>1, ReserveInv, SendInv, GiveBackInv, TakeInv, TaskEndsInv, IdleInv
     DEF EnqueueStep, RunnerStep
<1>2. CASE UNCHANGED queueVars
  <2>1. ASSUME NEW p \in Jobs PROVE InFlight(p)' = InFlight(p)
    BY <1>2 DEF queueVars, InFlight
  <2>2. QueueTypeOK' /\ Books' /\ Fresh' /\ OneLives' /\ Placed'
    BY <1>2, <2>1 DEF queueVars, QueueInv, QueueTypeOK, Books, Fresh, OneLives, Lives, Placed, In
  <2>3. Contents' /\ Once' /\ Running' /\ Done' /\ Bound' /\ Past' /\ Ordered' /\ After'
    BY <1>2 DEF queueVars, QueueInv, Contents, Once, Running, Sent, Done, Bound, Past,
       Ordered, After
  <2> QED
    BY <2>2, <2>3 DEF QueueInv
<1> QED
  BY <1>1, <1>2 DEF QueueNext

\* The invariant of every execution: where each hook is, and which queue lives.
THEOREM QueueInvariant == QueueSpec => []QueueInv
  BY QueueInitInv, QueueStepInv, PTL DEF QueueSpec

\* A hook is never left in a queue whose goroutine has ended: the reservation of
\* enqueueReleasePostHook keeps runReleasePostHookQueue from leaving.
THEOREM NoHookIsLost == QueueSpec => []NoTaskOrphaned
<1>1. QueueInv => NoTaskOrphaned
  BY DEF QueueInv, Placed, OneLives, Lives, NoTaskOrphaned
<1> QED
  BY <1>1, QueueInvariant, PTL

-----------------------------------------------------------------------------

LEMMA RunsInit == QueueInit => Runs!Init
  BY QueueAssumption DEF QueueInit, Runs!Init, Stage, Queued

\* Each step is one of HookRuns, or hidden.
LEMMA ReserveRuns == ASSUME QueueInv, NEW j \in Jobs, Reserve(j) PROVE Runs!Give(j)
<1>1. /\ at[j] = "no" /\ at'[j] = "reserved" /\ \A k \in Jobs \ {j} : at'[k] = at[k]
      /\ running' = running /\ done' = done /\ first' = [first EXCEPT ![j] = Queued]
      /\ j \notin done /\ \A q \in Jobs : running[q] # j
  BY QueueAssumption DEF Reserve, QueueInv, QueueTypeOK, Fresh, Running, Sent
<1>2. Stage(j) = "no" /\ Stage(j)' = "given"
  BY <1>1 DEF Stage
<1>3. ASSUME NEW k \in Jobs \ {j} PROVE Stage(k)' = Stage(k)
  BY <1>1 DEF Stage
<1>4. Queued' = Queued
  BY <1>1 DEF Queued
<1> QED
  BY <1>1, <1>2, <1>3, <1>4 DEF Runs!Give

LEMMA GiveBackRuns == ASSUME QueueInv, NEW j \in Jobs, GiveBack(j) PROVE Runs!Queued(j)
<1>1. /\ at[j] = "sent" /\ at'[j] = "returned" /\ \A k \in Jobs \ {j} : at'[k] = at[k]
      /\ running' = running /\ done' = done /\ first' = first
  BY DEF GiveBack, QueueInv, QueueTypeOK
<1>2. ASSUME NEW k \in Jobs PROVE Stage(k)' = Stage(k)
  BY <1>1 DEF Stage
<1>3. Queued' = Queued \cup {j} /\ Stage(j) # "no"
  BY <1>1 DEF Queued, Stage
<1> QED
  BY <1>1, <1>2, <1>3 DEF Runs!Queued

LEMMA TakeRuns == ASSUME QueueInv, NEW q \in Jobs, Take(q) PROVE \E h \in Jobs : Runs!Run(h)
<1>1. /\ runner[q] = "idle" /\ tasks[q] # <<>> /\ entry = q
      /\ at' = at /\ done' = done /\ first' = first
  BY DEF Take, QueueInv, OneLives, Lives
<1>2. PICK h \in Jobs : /\ Head(tasks[q]) = h /\ Sent(h, q) /\ running'[q] = h
                        /\ \A p \in Jobs \ {q} : running'[p] = running[p]
  <2>1. PICK n \in Nat, h \in Jobs :
           Len(tasks[q]) = n + 1 /\ tasks[q][1] = h /\ Head(tasks[q]) = h
    BY <1>1, QueueSeqs, Taken DEF QueueInv
  <2>2. Sent(h, q)
    BY <2>1 DEF QueueInv, Contents
  <2>3. running'[q] = h /\ \A p \in Jobs \ {q} : running'[p] = running[p]
    BY <2>1 DEF Take, QueueInv, QueueTypeOK
  <2> QED
    BY <2>1, <2>2, <2>3
<1>3. \A p \in Jobs : running[p] = None
  BY <1>1 DEF QueueInv, OneLives, Lives
<1>4. \A k \in Jobs : Stage(k) # "running"
  BY <1>3, QueueAssumption DEF Stage
<1>5. Stage(h) = "given" /\ Stage(h)' = "running"
  BY <1>1, <1>2, <1>3, QueueAssumption DEF Stage, Sent
<1>6. ASSUME NEW k \in Jobs \ {h} PROVE Stage(k)' = Stage(k)
  BY <1>1, <1>2, <1>3, QueueAssumption DEF Stage
<1>7. \A k \in first[h] : k \in Jobs /\ Stage(k) = "done"
  <2>1. QueueInv'
    BY TakeInv
  <2>2. \A k \in first[h] : k \in done
    BY <1>1, <1>2, <2>1, QueueAssumption DEF QueueInv, After
  <2>3. \A k \in first[h] : k \in Jobs /\ at[k] = "returned"
    BY DEF QueueInv, Past, QueueTypeOK
  <2> QED
    BY <1>3, <2>2, <2>3, QueueAssumption DEF Stage
<1>8. Queued' = Queued
  BY <1>1 DEF Queued
<1> QED
  BY <1>1, <1>4, <1>5, <1>6, <1>7, <1>8 DEF Runs!Run

LEMMA TaskEndsRuns ==
  ASSUME QueueInv, NEW q \in Jobs, TaskEnds(q) PROVE \E h \in Jobs : Runs!Finish(h)
<1>1. PICK h \in Jobs :
        /\ running[q] = h /\ Sent(h, q) /\ done' = done \cup {h}
        /\ \A p \in Jobs : running'[p] = None /\ (p # q => running[p] = None)
        /\ at' = at /\ first' = first
  BY QueueAssumption DEF TaskEnds, QueueInv, OneLives, Lives, Running, QueueTypeOK
<1>2. Stage(h) = "running" /\ Stage(h)' = "done"
  BY <1>1, QueueAssumption DEF Stage, Sent
<1>3. ASSUME NEW k \in Jobs \ {h} PROVE Stage(k)' = Stage(k)
  BY <1>1, QueueAssumption DEF Stage
<1>4. Queued' = Queued
  BY <1>1 DEF Queued
<1> QED
  BY <1>1, <1>2, <1>3, <1>4 DEF Runs!Finish

LEMMA RunsStep == QueueInv /\ [QueueNext]_queueVars => [Runs!Next]_(Runs!vars)
<1> SUFFICES ASSUME QueueInv, [QueueNext]_queueVars PROVE [Runs!Next]_(Runs!vars)
  OBVIOUS
<1>1. ASSUME NEW j \in Jobs, Reserve(j) \/ GiveBack(j) PROVE Runs!Next
  BY <1>1, ReserveRuns, GiveBackRuns DEF Runs!Next
<1>2. ASSUME NEW q \in Jobs, Take(q) \/ TaskEnds(q) PROVE Runs!Next
  BY <1>2, TakeRuns, TaskEndsRuns DEF Runs!Next
<1>3. ASSUME NEW j \in Jobs, Send(j) \/ Idle(j) \/ UNCHANGED queueVars
      PROVE  UNCHANGED Runs!vars
  <2>1. /\ running' = running /\ done' = done /\ first' = first
        /\ \A k \in Jobs : /\ at'[k] = "no" <=> at[k] = "no"
                           /\ at'[k] = "returned" <=> at[k] = "returned"
    BY <1>3 DEF Send, Idle, queueVars, QueueInv, QueueTypeOK
  <2>2. ASSUME NEW k \in Jobs PROVE Stage(k)' = Stage(k)
    BY <2>1 DEF Stage
  <2>3. Queued' = Queued
    BY <2>1 DEF Queued
  <2> QED
    BY <2>1, <2>2, <2>3 DEF Runs!vars
<1>4. CASE UNCHANGED queueVars
  BY <1>4 DEF queueVars, Runs!vars, Stage, Queued
<1> QED
  BY <1>1, <1>2, <1>3, <1>4 DEF QueueNext, EnqueueStep, RunnerStep

\* The hooks of a release run one at a time, once, and in the order in which their
\* uploads were answered: enqueueReleasePostHook and runReleasePostHookQueue
\* implement HookRuns.
THEOREM HooksRunAsPromised == QueueSpec => HooksRun
  BY RunsInit, RunsStep, QueueInvariant, PTL DEF QueueSpec, HooksRun, Runs!Spec

-----------------------------------------------------------------------------

\* The hooks use the queue only through its operations.
LEMMA ReleaseStepsQueue == [Next]_vars => [QueueNext]_queueVars
<1> SUFFICES ASSUME [Next]_vars PROVE [QueueNext]_queueVars
  OBVIOUS
<1>1. ASSUME NEW j \in Jobs, Handle(j) PROVE [QueueNext]_queueVars
  BY <1>1 DEF Handle, Check, Enqueue, QueueNext
<1>2. ASSUME NEW q \in Jobs, RunHooks(q) PROVE [QueueNext]_queueVars
  BY <1>2 DEF RunHooks, StartHook, Finalize, Build, Count, Emit, EndQueue, EndHook,
     QueueNext, RunnerStep
<1>3. ASSUME NEW j \in Jobs, NEW f \in Files, NEW crc \in Entries, Store(j, f, crc)
      PROVE  [QueueNext]_queueVars
  BY <1>3 DEF Store
<1>4. ASSUME NEW f \in Files, Delete(f) \/ Return(f) PROVE [QueueNext]_queueVars
  BY <1>4 DEF Delete, Return
<1>5. CASE UNCHANGED vars
  BY <1>5 DEF vars
<1> QED
  BY <1>1, <1>2, <1>3, <1>4, <1>5 DEF Next

\* A release uses its queue as PostHookQueue says.
THEOREM ReleaseUsesQueue == Spec => QueueSpec
<1>1. Init => QueueInit
  BY DEF Init
<1> QED
  BY <1>1, ReleaseStepsQueue, PTL DEF Spec, QueueSpec

\* So no hook of a release is lost, and its hooks run as HookRuns promises.
THEOREM ReleaseHooksRun == Spec => []NoTaskOrphaned /\ HooksRun
  BY ReleaseUsesQueue, NoHookIsLost, HooksRunAsPromised, PTL

-----------------------------------------------------------------------------

USE ReleaseAssumption DEF HookStates, Entries

\* A hook is somewhere in the pipeline while its queue's goroutine is busy.
HookBusy == \A q \in Jobs : hook[q].step # "no" <=> runner[q] = "busy"

\* While a bad upload has not been checked, no good file has come in its place.
BadUpload ==
  /\ \A j \in Jobs : at[j] # "no" => hand[j] = "checked"
  /\ \A j \in bad : hand[j] # "no"
  /\ \A j \in bad : hand[j] = "stored" => file[j] \in Payload /\ index[file[j]] # "good"

\* What a hook has counted as complete stays so until it is announced.
CountedIsTrue ==
  "delete" \notin may =>
    \A q \in Jobs : hook[q].step = "emit" /\ hook[q].complete => Complete

ReleaseInv == QueueInv /\ TypeOK /\ HookBusy /\ BadUpload /\ CountedIsTrue

LEMMA ReleaseInitInv == Init => ReleaseInv
<1> SUFFICES ASSUME Init PROVE ReleaseInv
  OBVIOUS
<1>1. QueueInv /\ TypeOK
  BY QueueInitInv DEF Init, QueueInv, TypeOK, Files, NoHook
<1>2. HookBusy /\ BadUpload /\ CountedIsTrue
  BY DEF Init, QueueInit, NoHook, HookBusy, BadUpload, CountedIsTrue
<1> QED
  BY <1>1, <1>2 DEF ReleaseInv

\* A complete release has all its files and no bad one.
LEMMA CompleteHas ==
  ASSUME TypeOK, Complete
  PROVE  Bad = {} /\ SfvValid /\ \A f \in Files : index[f] # "absent"
  BY DEF Complete, SfvValid, Bad, Files

LEMMA StoreInv ==
  ASSUME ReleaseInv, NEW j \in Jobs, NEW f \in Files, NEW crc \in Entries, Store(j, f, crc),
         QueueInv'
  PROVE  ReleaseInv'
<1> USE DEF ReleaseInv
<1>1. /\ hand[j] = "no" /\ index[f] = "absent"
      /\ \A k \in Jobs : Uploading(k) => file[k] # f
      /\ crc # "good" => f \in Payload
      /\ hand'[j] = "stored" /\ \A k \in Jobs \ {j} : hand'[k] = hand[k]
      /\ file'[j] = f /\ \A k \in Jobs \ {j} : file'[k] = file[k]
      /\ bad' = IF crc = "bad" THEN bad \cup {j} ELSE bad
      /\ index'[f] = crc /\ crc # "absent"
      /\ \A g \in Files \ {f} : index'[g] = index[g]
  BY DEF Store, TypeOK, Files
<1>2. UNCHANGED <<queueVars, may, left, cached, hook, announced>>
  BY DEF Store
<1>3. TypeOK'
  BY <1>1, <1>2 DEF Store, TypeOK, QueueInv
<1>4. HookBusy'
  BY <1>2 DEF HookBusy, queueVars
<1>5. BadUpload'
  <2>1. at' = at /\ at[j] = "no" /\ j \notin bad
    BY <1>1, <1>2 DEF BadUpload, queueVars, TypeOK, QueueTypeOK
  <2>2. \A k \in bad : hand[k] = "stored" => Uploading(k) /\ k # j /\ file[k] # f
    BY <1>1, <2>1 DEF BadUpload, Uploading, TypeOK
  <2> QED
    BY <1>1, <2>1, <2>2 DEF BadUpload, TypeOK, Files
<1>6. CountedIsTrue'
  BY <1>1, <1>2, CompleteHas DEF CountedIsTrue
<1> QED
  BY <1>3, <1>4, <1>5, <1>6

\* A step that deletes none but bad files, and forgets no SFV.
OnlyBadGoes ==
  /\ index' \in [Files -> Entries] /\ cached' \in BOOLEAN /\ left' \subseteq Payload
  /\ cached => cached'
  /\ \A f \in Files :
       index'[f] = index[f] \/ (f \in Payload /\ index[f] # "good" /\ index'[f] # "good")

LEMMA NoneGoes == ASSUME TypeOK, NoParse PROVE OnlyBadGoes
  BY DEF TypeOK, NoParse, OnlyBadGoes

\* What is left on the slave is payload, if what is deleted is.
LEMMA LeavesPayload ==
  ASSUME TypeOK, NEW fs \in SUBSET Payload, Leaves(fs)
  PROVE  left' \subseteq Payload
  BY DEF TypeOK, Leaves

\* What a parse makes of each file: a bad one goes or is spared, the handler's own goes,
\* and every other stays as it is.
LEMMA ParseDoes ==
  ASSUME TypeOK, NEW own \in SUBSET Payload, ParseSfv(own)
  PROVE  /\ cached' = TRUE /\ index[Sfv] # "absent" /\ index'[Sfv] = index[Sfv]
         /\ index' \in [Files -> Entries] /\ left' \subseteq Payload
         /\ \A f \in Payload :
              \/ index'[f] = index[f] /\ f \notin Bad \cup own
              \/ index'[f] \in {"absent", "spared"} /\ f \in Bad \cup own
<1>1. cached' = TRUE /\ index[Sfv] # "absent" /\ Leaves(own)
  BY DEF ParseSfv
<1>2. PICK spared \in SUBSET Bad :
        index' = [f \in Files |-> IF f \in spared THEN "spared"
                                  ELSE IF f \in Bad \cup own THEN "absent" ELSE index[f]]
  BY DEF ParseSfv
<1>3. Bad \subseteq Payload
  BY DEF Bad
<1>4. \A f \in Files : index[f] \in Entries
  BY DEF TypeOK
<1>5. index' \in [Files -> Entries]
  BY <1>2, <1>4
<1> QED
  BY <1>1, <1>2, <1>3, <1>5, LeavesPayload DEF Files

LEMMA ParseDeletesBad ==
  ASSUME TypeOK, NEW own \in SUBSET Payload, \A f \in own : index[f] # "good", ParseSfv(own)
  PROVE  OnlyBadGoes
  BY ParseDoes DEF OnlyBadGoes, Bad, Files

LEMMA StaysComplete == ASSUME TypeOK, OnlyBadGoes, Complete PROVE Complete'
  BY DEF TypeOK, OnlyBadGoes, Complete, SfvValid, Files

\* Each step of the handlers, of the hooks and of clients keeps the invariant.
LEMMA CheckInv ==
  ASSUME ReleaseInv, NEW j \in Jobs, Check(j), QueueInv'
  PROVE  ReleaseInv'
<1> USE DEF ReleaseInv
<1>1. /\ hand[j] = "stored" /\ UNCHANGED <<queueVars, may, file, bad, hook, announced>>
      /\ hand'[j] \in {"checked", "over"} /\ \A k \in Jobs \ {j} : hand'[k] = hand[k]
      /\ hand' \in [Jobs -> {"no", "stored", "checked", "over"}]
  BY DEF Check, TypeOK
<1>2. OnlyBadGoes
  <2>1. CASE NoParse
    BY <2>1, NoneGoes
  <2>2. OwnBad(j) \in SUBSET Payload /\ \A f \in OwnBad(j) : index[f] # "good"
    BY <1>1 DEF BadUpload, OwnBad
  <2>3. CASE ParseSfv(OwnBad(j))
    BY <2>2, <2>3, ParseDeletesBad
  <2>4. CASE UNCHANGED cached /\ Without(OwnBad(j)) /\ Leaves(OwnBad(j))
    <3>1. left' \subseteq Payload
      BY <2>2, <2>4, LeavesPayload
    <3> QED
      BY <2>2, <2>4, <3>1 DEF TypeOK, Without, OnlyBadGoes, Files
  <2> QED
    BY <2>1, <2>3, <2>4 DEF Check
<1>3. TypeOK'
  BY <1>1, <1>2 DEF TypeOK, OnlyBadGoes, QueueInv
<1>4. HookBusy'
  BY <1>1 DEF HookBusy, queueVars
<1>5. BadUpload'
  <2>1. at[j] = "no" \/ hand'[j] = "checked"
    BY <1>1 DEF BadUpload
  <2>2. \A k \in bad : file[k] \in Files /\ (index[file[k]] # "good" => index'[file[k]] # "good")
    BY <1>2 DEF OnlyBadGoes, TypeOK
  <2> QED
    BY <1>1, <2>1, <2>2 DEF BadUpload, TypeOK, queueVars
<1>6. CountedIsTrue'
  BY <1>1, <1>2, StaysComplete DEF CountedIsTrue
<1> QED
  BY <1>3, <1>4, <1>5, <1>6

LEMMA EnqueueInv ==
  ASSUME ReleaseInv, NEW j \in Jobs, Enqueue(j), QueueInv'
  PROVE  ReleaseInv'
<1> USE DEF ReleaseInv
<1>1. hand[j] = "checked" /\ UNCHANGED raceVars /\ runner' \in [Jobs -> {"none", "idle", "busy", "over"}]
      /\ \A k \in Jobs \ {j} : at'[k] = at[k]
  BY DEF Enqueue, EnqueueStep, Reserve, Send, GiveBack, QueueInv, QueueTypeOK
<1>2. \A q \in Jobs : runner'[q] = "busy" <=> runner[q] = "busy"
  BY DEF Enqueue, EnqueueStep, Reserve, Send, GiveBack, QueueInv, QueueTypeOK, Fresh
<1>3. TypeOK'
  BY <1>1 DEF TypeOK, raceVars, QueueInv
<1>4. HookBusy' /\ BadUpload'
  BY <1>1, <1>2 DEF HookBusy, BadUpload, raceVars
<1>5. CountedIsTrue'
  BY <1>1 DEF CountedIsTrue, Complete, SfvValid, raceVars
<1> QED
  BY <1>3, <1>4, <1>5

\* Only one hook runs at a time.
LEMMA OneHook ==
  ASSUME ReleaseInv, NEW q \in Jobs, Lives(q), NEW p \in Jobs, hook[p].step # "no"
  PROVE  p = q
  BY DEF ReleaseInv, HookBusy, QueueInv, OneLives, Lives

\* A step of the pipeline of the hook that runs: it leaves the uploads alone, and is
\* not at "emit" with a complete release afterwards unless it has just counted it.
LEMMA HookStepInv ==
  ASSUME ReleaseInv, NEW q \in Jobs, Lives(q), QueueInv',
         index' \in [Files -> Entries], cached' \in BOOLEAN,
         left' \subseteq Payload, announced' \in BOOLEAN,
         UNCHANGED <<may, hand, file, bad, at>>,
         \A f \in Payload : index[f] # "good" => index'[f] # "good",
         NEW h \in HookStates,
         hook' = [hook EXCEPT ![q] = h],
         h.step # "no" <=> runner'[q] = "busy",
         \A p \in Jobs \ {q} : runner'[p] = runner[p],
         h.step = "emit" /\ h.complete => Complete'
  PROVE  ReleaseInv'
<1> USE DEF ReleaseInv
<1>1. hook'[q] = h /\ \A p \in Jobs \ {q} : hook'[p] = hook[p] /\ hook[p].step = "no"
  BY OneHook DEF TypeOK
<1>2. TypeOK'
  BY DEF TypeOK, QueueInv
<1>3. HookBusy'
  BY <1>1 DEF HookBusy
<1>4. BadUpload'
  BY DEF BadUpload, TypeOK
<1>5. CountedIsTrue'
  BY <1>1 DEF CountedIsTrue
<1> QED
  BY <1>2, <1>3, <1>4, <1>5

LEMMA RunHooksInv ==
  ASSUME ReleaseInv, NEW q \in Jobs, RunHooks(q), QueueInv'
  PROVE  ReleaseInv'
<1> USE DEF ReleaseInv
<1>1. TypeOK /\ QueueTypeOK /\ hook[q] \in HookStates
  BY DEF TypeOK
<1>2. CASE StartHook(q)
  <2>1. /\ Lives(q) /\ runner'[q] = "busy" /\ \A p \in Jobs \ {q} : runner'[p] = runner[p]
        /\ hook' = [hook EXCEPT ![q] = [hook[q] EXCEPT !.step = "finalize"]]
        /\ UNCHANGED <<may, hand, file, bad, index, left, cached, announced, at>>
    BY <1>1, <1>2 DEF StartHook, Take, HookGoes, Lives, QueueTypeOK
  <2>2. PICK h \in HookStates :
          h.step = "finalize" /\ hook' = [hook EXCEPT ![q] = h]
    BY <1>1, <2>1
  <2> QED
    BY <1>1, <2>1, <2>2, HookStepInv DEF TypeOK
<1>3. ASSUME At(q, "finalize") \/ At(q, "build") \/ At(q, "count") \/ At(q, "emit")
      PROVE  Lives(q)
  BY <1>3 DEF At, Lives
<1>4. CASE EndHook(q) /\ UNCHANGED <<may, hand, file, bad, cached>>
             /\ announced' \in BOOLEAN /\ index' \in [Files -> Entries]
             /\ left' \subseteq Payload
             /\ \A f \in Payload : index[f] # "good" => index'[f] # "good"
  <2>1. /\ Lives(q) /\ runner'[q] = "idle" /\ \A p \in Jobs \ {q} : runner'[p] = runner[p]
        /\ hook' = [hook EXCEPT ![q] = NoHook] /\ at' = at
    BY <1>1, <1>4 DEF EndHook, TaskEnds, Lives, QueueTypeOK
  <2>2. NoHook \in HookStates /\ NoHook.step = "no"
    BY DEF NoHook
  <2> QED
    BY <1>1, <1>4, <2>1, <2>2, HookStepInv DEF TypeOK
<1>5. CASE Finalize(q)
  <2>1. CASE /\ ~OfSfv(q) /\ Without({file[running[q]]}) /\ Leaves({file[running[q]]})
             /\ EndHook(q)
    <3>1. running[q] \in Jobs
      BY <1>1, <1>5 DEF Finalize, At, QueueInv, OneLives, QueueTypeOK
    <3>2. {file[running[q]]} \in SUBSET Payload
      BY <2>1, <3>1 DEF OfSfv, TypeOK, Files
    <3>3. left' \subseteq Payload
      BY <2>1, <3>2, LeavesPayload
    <3> QED
      BY <1>1, <1>4, <1>5, <2>1, <3>3 DEF Finalize, Without, TypeOK, Files
  <2>2. CASE HookGoes(q, "build") /\ UNCHANGED <<index, left, queueVars>>
    <3>1. /\ hook' = [hook EXCEPT ![q] = [hook[q] EXCEPT !.step = "build"]]
          /\ UNCHANGED <<may, hand, file, bad, index, left, cached, announced, at, runner>>
          /\ Lives(q) /\ runner[q] = "busy"
      BY <1>3, <1>5, <2>2 DEF Finalize, HookGoes, queueVars, At
    <3>2. PICK h \in HookStates :
            h.step = "build" /\ hook' = [hook EXCEPT ![q] = h]
      BY <1>1, <3>1
    <3> QED
      BY <1>1, <3>1, <3>2, HookStepInv DEF TypeOK
  <2> QED
    BY <1>5, <2>1, <2>2 DEF Finalize
<1>6. CASE Build(q)
  <2>1. OnlyBadGoes
    BY <1>1, <1>6, NoneGoes, ParseDeletesBad DEF Build
  <2>2. PICK h \in HookStates :
          h.step = "count" /\ hook' = [hook EXCEPT ![q] = h]
    <3>1. SfvValid' \in BOOLEAN
      BY <2>1 DEF SfvValid, OnlyBadGoes
    <3> QED
      BY <1>6, <3>1 DEF Build
  <2>3. /\ UNCHANGED <<may, hand, file, bad, announced, at, runner>>
        /\ Lives(q) /\ runner[q] = "busy"
    BY <1>3, <1>6 DEF Build, queueVars, At
  <2>4. /\ index' \in [Files -> Entries] /\ cached' \in BOOLEAN /\ left' \subseteq Payload
        /\ \A f \in Payload : index[f] # "good" => index'[f] # "good"
    BY <2>1 DEF OnlyBadGoes, Files
  <2> QED
    BY <1>1, <2>2, <2>3, <2>4, HookStepInv DEF TypeOK
<1>7. CASE Count(q)
  <2>1. PICK h \in HookStates :
          h.step = "emit" /\ h.complete = Complete /\ hook' = [hook EXCEPT ![q] = h]
    <3>1. Complete \in BOOLEAN
      BY DEF Complete
    <3>2. hook' = [hook EXCEPT ![q] = [hook[q] EXCEPT !.step = "emit", !.complete = Complete]]
      BY <1>1, <1>7 DEF Count, TypeOK
    <3> QED
      BY <1>1, <3>1, <3>2
  <2>2. /\ UNCHANGED <<may, hand, file, bad, index, left, cached, announced, at, runner>>
        /\ Lives(q) /\ runner[q] = "busy"
    BY <1>3, <1>7 DEF Count, queueVars, At
  <2>3. Complete' = Complete
    BY <2>2 DEF Complete, SfvValid
  <2> QED
    BY <1>1, <2>1, <2>2, <2>3, HookStepInv DEF TypeOK
<1>8. CASE Emit(q)
  <2>1. announced' \in BOOLEAN
    BY <1>1, <1>8 DEF Emit, TypeOK
  <2> QED
    BY <1>1, <1>4, <1>8, <2>1 DEF Emit, TypeOK
<1>9. CASE EndQueue(q)
  <2>1. /\ hook[q].step = "no" /\ Lives(q) /\ runner'[q] = "over"
        /\ \A p \in Jobs \ {q} : runner'[p] = runner[p]
        /\ hook' = [hook EXCEPT ![q] = hook[q]]
        /\ UNCHANGED <<may, hand, file, bad, index, left, cached, announced, at>>
    BY <1>1, <1>9 DEF EndQueue, Idle, Lives, HookBusy, raceVars, QueueTypeOK, TypeOK
  <2> QED
    BY <1>1, <2>1, HookStepInv DEF TypeOK
<1> QED
  BY <1>2, <1>5, <1>6, <1>7, <1>8, <1>9 DEF RunHooks

LEMMA DeleteInv ==
  ASSUME ReleaseInv, NEW f \in Files, Delete(f), QueueInv'
  PROVE  ReleaseInv'
<1> USE DEF ReleaseInv
<1>1. /\ "delete" \in may /\ UNCHANGED <<queueVars, may, hand, file, bad, left, hook, announced>>
      /\ index' \in [Files -> Entries] /\ cached' \in BOOLEAN
      /\ \A g \in Files : index'[g] = index[g] \/ index'[g] = "absent"
  BY DEF Delete, Without, TypeOK
<1>2. TypeOK' /\ HookBusy'
  BY <1>1 DEF TypeOK, HookBusy, queueVars, QueueInv
<1>3. BadUpload' /\ CountedIsTrue'
  BY <1>1 DEF BadUpload, CountedIsTrue, queueVars, TypeOK, Files
<1> QED
  BY <1>2, <1>3

LEMMA ReturnInv ==
  ASSUME ReleaseInv, NEW f \in Files, Return(f), QueueInv'
  PROVE  ReleaseInv'
<1> USE DEF ReleaseInv
<1>1. /\ UNCHANGED <<queueVars, may, hand, file, bad, cached, hook, announced>>
      /\ index' \in [Files -> Entries] /\ left' \subseteq Payload
      /\ index[f] = "absent" /\ index'[f] = "unknown"
      /\ \A g \in Files \ {f} : index'[g] = index[g]
  BY DEF Return, TypeOK
<1>2. TypeOK' /\ HookBusy'
  BY <1>1 DEF TypeOK, HookBusy, queueVars, QueueInv
<1>3. BadUpload' /\ CountedIsTrue'
  BY <1>1, CompleteHas DEF BadUpload, CountedIsTrue, queueVars, TypeOK, Files
<1> QED
  BY <1>2, <1>3

LEMMA ReleaseStepInv == ReleaseInv /\ [Next]_vars => ReleaseInv'
<1> SUFFICES ASSUME ReleaseInv, [Next]_vars PROVE ReleaseInv'
  OBVIOUS
<1>1. QueueInv'
  BY ReleaseStepsQueue, QueueStepInv DEF ReleaseInv
<1>2. ASSUME NEW j \in Jobs, Handle(j) \/ RunHooks(j) PROVE ReleaseInv'
  BY <1>1, <1>2, CheckInv, EnqueueInv, RunHooksInv DEF Handle
<1>3. ASSUME NEW j \in Jobs, NEW f \in Files, NEW crc \in Entries, Store(j, f, crc)
      PROVE  ReleaseInv'
  BY <1>1, <1>3, StoreInv
<1>4. ASSUME NEW f \in Files, Delete(f) \/ Return(f) PROVE ReleaseInv'
  BY <1>1, <1>4, DeleteInv, ReturnInv
<1>5. CASE UNCHANGED vars
  BY <1>1, <1>5 DEF vars, queueVars, raceVars, ReleaseInv, TypeOK, QueueInv, HookBusy,
     BadUpload, CountedIsTrue, Complete, SfvValid
<1> QED
  BY <1>2, <1>3, <1>4, <1>5 DEF Next

\* The invariant of a release: its queue's, and what a hook has counted.
THEOREM ReleaseInvariant == Spec => []ReleaseInv
  BY ReleaseInitInv, ReleaseStepInv, PTL DEF Spec

\* The state of a release and of its hooks stays well typed.
THEOREM ReleaseTypeCorrect == Spec => []TypeOK
<1>1. ReleaseInv => TypeOK
  BY DEF ReleaseInv
<1> QED
  BY <1>1, ReleaseInvariant, PTL

\* COMPLETE is announced only of a release that is complete at that moment, as long
\* as no client deletes files: the hooks run one at a time, so that none deletes what
\* another has counted.
THEOREM AnnouncedIsComplete == Spec => CompleteIsTrue
<1>1. ASSUME ReleaseInv, [Next]_vars, announced' /\ ~announced /\ "delete" \notin may
      PROVE  Complete
  <2>1. PICK q \in Jobs : Emit(q)
    BY <1>1 DEF Next, Store, Handle, Check, Enqueue, RunHooks, StartHook, Finalize, Build,
       Count, EndQueue, Delete, Return, raceVars, vars
  <2>2. hook[q].step = "emit" /\ hook[q].complete
    BY <1>1, <2>1 DEF Emit, At
  <2> QED
    BY <1>1, <2>2 DEF ReleaseInv, CountedIsTrue
<1>2. ReleaseInv /\ [Next]_vars =>
        [announced' /\ ~announced /\ "delete" \notin may => Complete]_vars
  BY <1>1
<1> QED
  BY <1>2, ReleaseInvariant, PTL DEF Spec, CompleteIsTrue

-----------------------------------------------------------------------------

\* An upload that has its hook's statistics still ahead of it.
Handling(j) ==
  /\ j \notin done /\ hand[j] \in {"stored", "checked"}
  /\ \A q \in Jobs : running[q] = j => hook[q].step \in {"finalize", "build"}

\* One whose hook parses the SFV.
WillParse(j) == Handling(j) /\ file[j] = Sfv

\* One whose hook counts what is there now, or has done so.
Counting(j, q) ==
  /\ running[q] = j /\ hook[q].sfv
  /\ hook[q].step = "count" \/ (hook[q].step = "emit" /\ hook[q].complete)

WillCount(j) ==
  \/ Handling(j) /\ j \notin bad
  \/ j \notin done /\ \E q \in Jobs : Counting(j, q)

\* The entries of an SFV are known only while it is there.
SfvKnown == cached => index[Sfv] # "absent"

\* A bad file of a release whose SFV is known belongs to a handler that checks it next.
BadIsHandled ==
  cached => \A f \in Payload : index[f] = "bad" =>
    \E j \in bad : file[j] = f /\ hand[j] = "stored"

\* An SFV that nobody has parsed has its upload's hook ahead of it.
ParseAhead ==
  "fail" \notin may /\ index[Sfv] # "absent" => cached \/ \E j \in Jobs : WillParse(j)

\* A release that is complete and has not been announced has a hook that will.
CountAhead == Complete => announced \/ \E j \in Jobs : WillCount(j)

AheadInv == SfvKnown /\ BadIsHandled /\ ParseAhead /\ CountAhead

LEMMA AheadInit == Init => AheadInv
  BY DEF Init, AheadInv, SfvKnown, BadIsHandled, ParseAhead, CountAhead, Complete, SfvValid, Files

\* A release is complete only with its SFV's entries and every payload good.
LEMMA CompleteIs ==
  ASSUME SfvKnown
  PROVE  Complete <=> cached /\ \A f \in Payload : index[f] = "good"
  BY DEF SfvKnown, Complete, SfvValid

\* What an upload has ahead of it, in a step that leaves its hook alone.
LEMMA KeepsAhead ==
  ASSUME NEW j \in Jobs, UNCHANGED <<done, running, hook, file>>,
         hand[j] \in {"stored", "checked"} => hand'[j] \in {"stored", "checked"}
  PROVE  /\ Handling(j) => Handling(j)'
         /\ WillParse(j) => WillParse(j)'
         /\ (j \in bad' => j \in bad) /\ WillCount(j) => WillCount(j)'
  BY DEF Handling, WillParse, WillCount, Counting

\* An upload that has not been given has no hook that runs or has run.
LEMMA NotGiven ==
  ASSUME ReleaseInv, NEW j \in Jobs, hand[j] # "checked"
  PROVE  /\ j \notin done /\ \A q \in Jobs : running[q] # j
         /\ hand[j] = "no" => j \notin bad
<1>1. at[j] = "no"
  BY DEF ReleaseInv, BadUpload
<1> QED
  BY <1>1 DEF ReleaseInv, BadUpload, QueueInv, Fresh, Running, Sent

LEMMA StoreAhead ==
  ASSUME ReleaseInv, AheadInv, NEW j \in Jobs, NEW f \in Files, NEW crc \in Entries,
         Store(j, f, crc)
  PROVE  AheadInv'
<1> USE DEF ReleaseInv
<1>1. /\ hand[j] = "no" /\ index[f] = "absent"
      /\ crc # "good" => f # Sfv
      /\ hand'[j] = "stored" /\ \A k \in Jobs \ {j} : hand'[k] = hand[k]
      /\ file'[j] = f /\ \A k \in Jobs \ {j} : file'[k] = file[k]
      /\ bad' = IF crc = "bad" THEN bad \cup {j} ELSE bad
      /\ index'[f] = crc /\ crc # "absent"
      /\ \A g \in Files \ {f} : index'[g] = index[g]
  BY DEF Store, TypeOK, Files
<1>2. UNCHANGED <<queueVars, may, left, cached, hook, announced>>
  BY DEF Store
<1>3. j \notin done /\ j \notin bad /\ \A q \in Jobs : running[q] # j
  BY <1>1, NotGiven
<1>4. Handling(j)'
  BY <1>1, <1>2, <1>3 DEF Handling, queueVars
<1>5. SfvKnown'
  BY <1>1, <1>2 DEF AheadInv, SfvKnown, Files
<1>6. BadIsHandled'
  <2> SUFFICES ASSUME cached, NEW g \in Payload, index'[g] = "bad"
               PROVE  \E k \in bad' : file'[k] = g /\ hand'[k] = "stored"
    BY <1>2 DEF BadIsHandled
  <2>1. CASE g = f
    BY <1>1, <2>1
  <2>2. CASE g # f
    <3>1. PICK k \in bad : file[k] = g /\ hand[k] = "stored"
      BY <1>1, <2>2 DEF AheadInv, BadIsHandled, Files
    <3> QED
      BY <1>1, <1>3, <3>1 DEF TypeOK
  <2> QED
    BY <2>1, <2>2
<1>7. ParseAhead'
  <2>1. CASE f = Sfv
    BY <1>1, <1>4, <2>1 DEF ParseAhead, WillParse
  <2>2. CASE f # Sfv
    <3>1. \A k \in Jobs : WillParse(k) => WillParse(k)'
      BY <1>1, <1>2 DEF WillParse, Handling, queueVars
    <3> QED
      BY <1>1, <1>2, <2>2, <3>1 DEF AheadInv, ParseAhead, Files
  <2> QED
    BY <2>1, <2>2
<1>8. CountAhead'
  <2> SUFFICES ASSUME Complete' PROVE WillCount(j)'
    BY DEF CountAhead
  <2>1. cached /\ index[Sfv] # "absent" /\ \A g \in Payload : index'[g] = "good"
    BY <1>2 DEF Complete, SfvValid, AheadInv, SfvKnown
  <2>2. f \in Payload /\ crc = "good"
    BY <1>1, <2>1 DEF Files
  <2> QED
    BY <1>1, <1>3, <1>4, <2>2 DEF WillCount
<1> QED
  BY <1>5, <1>6, <1>7, <1>8 DEF AheadInv

LEMMA CheckAhead ==
  ASSUME ReleaseInv, AheadInv, NEW j \in Jobs, Check(j)
  PROVE  AheadInv'
<1> USE DEF ReleaseInv
<1>1. /\ hand[j] = "stored" /\ UNCHANGED <<queueVars, may, file, bad, hook, announced>>
      /\ \A k \in Jobs \ {j} : hand'[k] = hand[k]
      /\ j \notin bad \/ file[j] = Sfv => hand'[j] = "checked"
  BY DEF Check, TypeOK
<1>2. UNCHANGED <<done, running, hook, file, bad>>
  BY <1>1 DEF queueVars
<1>3. j \in bad => file[j] \in Payload /\ index[file[j]] # "good"
  BY <1>1 DEF BadUpload
<1>4. \A k \in Jobs : WillParse(k) => WillParse(k)'
  <2> SUFFICES ASSUME NEW k \in Jobs, WillParse(k) PROVE WillParse(k)'
    OBVIOUS
  <2>1. hand'[k] \in {"stored", "checked"}
    BY <1>1 DEF WillParse, Handling
  <2> QED
    BY <1>2, <2>1, KeepsAhead
<1>5. /\ j \notin done /\ \A q \in Jobs : running[q] # j
  BY <1>1, NotGiven
<1>6. \A k \in Jobs : WillCount(k) => WillCount(k)'
  <2> SUFFICES ASSUME NEW k \in Jobs, WillCount(k) PROVE WillCount(k)'
    OBVIOUS
  <2>1. CASE k # j
    BY <1>1, <1>2, <2>1, KeepsAhead
  <2>2. CASE k = j
    <3>1. j \notin bad
      BY <1>5, <2>2 DEF WillCount, Counting
    <3> QED
      BY <1>1, <1>2, <2>2, <3>1, KeepsAhead
  <2> QED
    BY <2>1, <2>2
<1>7. CASE /\ cached' = cached /\ index'[Sfv] = index[Sfv]
           /\ \A f \in Payload : index'[f] = index[f] \/ index'[f] = "absent"
           /\ cached /\ j \in bad => index'[file[j]] = "absent"
  <2>1. SfvKnown' /\ ParseAhead'
    BY <1>1, <1>4, <1>7 DEF AheadInv, SfvKnown, ParseAhead
  <2>2. BadIsHandled'
    <3> SUFFICES ASSUME cached, NEW f \in Payload, index'[f] = "bad"
                 PROVE  \E k \in bad : file[k] = f /\ hand'[k] = "stored"
      BY <1>2, <1>7 DEF BadIsHandled
    <3>1. PICK k \in bad : file[k] = f /\ hand[k] = "stored"
      BY <1>7 DEF AheadInv, BadIsHandled
    <3>2. k # j /\ k \in Jobs
      BY <1>7, <3>1 DEF TypeOK
    <3> QED
      BY <1>1, <3>1, <3>2
  <2>3. CountAhead'
    <3>1. Complete' => Complete
      BY <1>7 DEF AheadInv, SfvKnown, Complete, SfvValid
    <3> QED
      BY <1>1, <1>6, <3>1 DEF AheadInv, CountAhead
  <2> QED
    BY <2>1, <2>2, <2>3 DEF AheadInv
<1>8. CASE file[j] # Sfv /\ ParseSfv(OwnBad(j))
  <2>1. OwnBad(j) \in SUBSET Payload
    BY <1>3 DEF OwnBad
  <2>2. /\ cached' /\ index[Sfv] # "absent" /\ index'[Sfv] = index[Sfv]
        /\ \A f \in Payload : /\ index'[f] # "bad"
                              /\ f \in OwnBad(j) => index'[f] # "good"
    BY <1>8, <2>1, ParseDoes DEF Bad
  <2>3. SfvKnown' /\ ParseAhead' /\ BadIsHandled'
    BY <2>2 DEF SfvKnown, ParseAhead, BadIsHandled
  <2>4. CountAhead'
    <3> SUFFICES ASSUME Complete' PROVE WillCount(j)'
      BY DEF CountAhead
    <3>1. j \notin bad
      BY <1>3, <2>2 DEF Complete, OwnBad
    <3> QED
      BY <1>1, <1>2, <1>5, <3>1 DEF WillCount, Handling
  <2> QED
    BY <2>3, <2>4 DEF AheadInv
<1> QED
  <2>1. CASE NoParse /\ (file[j] = Sfv \/ ~SfvValid)
    BY <1>3, <1>7, <2>1 DEF NoParse, AheadInv, SfvKnown, SfvValid
  <2>2. CASE SfvValid /\ UNCHANGED cached /\ Without(OwnBad(j))
    <3>1. index'[Sfv] = index[Sfv]
          /\ \A f \in Payload : index'[f] = index[f] \/ index'[f] = "absent"
      BY <1>3, <2>2 DEF Without, OwnBad, Files
    <3>2. j \in bad => index'[file[j]] = "absent"
      BY <1>3, <2>2 DEF Without, OwnBad, Files
    <3> QED
      BY <1>7, <2>2, <3>1, <3>2
  <2> QED
    BY <1>8, <2>1, <2>2 DEF Check

LEMMA DeleteAhead ==
  ASSUME ReleaseInv, AheadInv, NEW f \in Files, Delete(f)
  PROVE  AheadInv'
<1> USE DEF ReleaseInv
<1>1. /\ UNCHANGED <<queueVars, may, hand, file, bad, hook, announced>>
      /\ \A g \in Files : index'[g] = IF g = f THEN "absent" ELSE index[g]
      /\ cached' <=> cached /\ f # Sfv
  BY DEF Delete, Without, TypeOK
<1>2. UNCHANGED <<done, running, hook, file, hand, bad>>
  BY <1>1 DEF queueVars
<1>3. SfvKnown' /\ BadIsHandled'
  BY <1>1, <1>2 DEF AheadInv, SfvKnown, BadIsHandled, Files
<1>4. ParseAhead'
  <2> SUFFICES ASSUME "fail" \notin may, index'[Sfv] # "absent"
               PROVE  cached' \/ \E j \in Jobs : WillParse(j)'
    BY <1>1 DEF ParseAhead
  <2>1. Sfv # f /\ index'[Sfv] = index[Sfv] /\ (cached' <=> cached)
    BY <1>1 DEF Files
  <2> QED
    BY <1>2, <2>1, KeepsAhead DEF AheadInv, ParseAhead
<1>5. CountAhead'
  <2>1. Complete' => Complete
    BY <1>1 DEF AheadInv, SfvKnown, Complete, SfvValid, Files
  <2> QED
    BY <1>1, <1>2, <2>1, KeepsAhead DEF AheadInv, CountAhead
<1> QED
  BY <1>3, <1>4, <1>5 DEF AheadInv

LEMMA ReturnAhead ==
  ASSUME ReleaseInv, AheadInv, NEW f \in Files, Return(f)
  PROVE  AheadInv'
<1>1. /\ UNCHANGED <<queueVars, may, hand, file, bad, cached, hook, announced>>
      /\ f \in Payload /\ index'[f] = "unknown"
      /\ \A g \in Files \ {f} : index'[g] = index[g]
  BY DEF ReleaseInv, Return, TypeOK
<1>2. UNCHANGED <<done, running, hook, file, hand, bad>>
  BY <1>1 DEF queueVars
<1>3. SfvKnown' /\ BadIsHandled'
  BY <1>1, <1>2 DEF AheadInv, SfvKnown, BadIsHandled, Files
<1>4. ParseAhead'
  BY <1>1, <1>2, KeepsAhead DEF AheadInv, ParseAhead, Files
<1>5. ~Complete'
  BY <1>1 DEF Complete
<1> QED
  BY <1>3, <1>4, <1>5 DEF AheadInv, CountAhead

\* A step of the queue that runs or ends no hook.
LEMMA QuietAhead ==
  ASSUME AheadInv, UNCHANGED <<running, done>>, UNCHANGED raceVars
  PROVE  AheadInv'
<1>1. UNCHANGED <<may, hand, file, bad, index, cached, hook, announced>>
  BY DEF raceVars
<1>2. SfvKnown' /\ BadIsHandled'
  BY <1>1 DEF AheadInv, SfvKnown, BadIsHandled
<1>3. ParseAhead' /\ CountAhead'
  BY <1>1, KeepsAhead DEF AheadInv, ParseAhead, CountAhead, Complete, SfvValid
<1> QED
  BY <1>2, <1>3 DEF AheadInv

\* Only one queue's goroutine runs a hook, one that has been given and has not run.
LEMMA OneRuns ==
  ASSUME ReleaseInv, NEW q \in Jobs, Lives(q)
  PROVE  /\ \A p \in Jobs \ {q} : running[p] = None
         /\ running[q] # None => running[q] \in Jobs /\ running[q] \notin done
         /\ runner[q] = "busy" <=> running[q] # None
<1>1. QueueTypeOK /\ OneLives /\ Running
  BY DEF ReleaseInv, QueueInv
<1>2. \A p \in Jobs \ {q} : running[p] = None
  BY <1>1 DEF OneLives, Lives
<1> QED
  BY <1>1, <1>2 DEF OneLives, Running, Sent, QueueTypeOK

\* A hook that starts takes what its upload has ahead of it with it.
LEMMA StartAhead ==
  ASSUME ReleaseInv, AheadInv, NEW q \in Jobs, StartHook(q)
  PROVE  AheadInv'
<1> USE DEF ReleaseInv
<1>1. /\ runner[q] = "idle" /\ UNCHANGED <<may, hand, file, bad, index, cached, announced, done>>
      /\ hook'[q].step = "finalize" /\ \A p \in Jobs \ {q} : hook'[p] = hook[p]
      /\ \A p \in Jobs \ {q} : running'[p] = running[p]
  BY DEF StartHook, Take, HookGoes, TypeOK, QueueTypeOK
<1>2. running[q] = None /\ \A p \in Jobs \ {q} : running[p] = None
  BY <1>1, OneRuns DEF Lives
<1>3. \A j \in Jobs : Handling(j) => Handling(j)'
  BY <1>1, <1>2 DEF Handling
<1>4. \A j \in Jobs : WillCount(j) => WillCount(j)'
  BY <1>1, <1>2, <1>3 DEF WillCount, Counting
<1>5. ParseAhead'
  BY <1>1, <1>3 DEF AheadInv, ParseAhead, WillParse
<1>6. CountAhead'
  BY <1>1, <1>4 DEF AheadInv, CountAhead, Complete, SfvValid
<1>7. SfvKnown' /\ BadIsHandled'
  BY <1>1 DEF AheadInv, SfvKnown, BadIsHandled
<1> QED
  BY <1>5, <1>6, <1>7 DEF AheadInv

\* In the pipeline, the uploads that do not run have the same ahead of them.
LEMMA OthersAhead ==
  ASSUME ReleaseInv, NEW q \in Jobs, Lives(q), running[q] # None,
         UNCHANGED <<hand, file, bad>>,
         \A p \in Jobs \ {q} : hook'[p] = hook[p] /\ running'[p] = running[p],
         running'[q] \in {running[q], None}, done' \subseteq done \cup {running[q]},
         NEW j \in Jobs, j # running[q]
  PROVE  /\ Handling(j) => Handling(j)'
         /\ WillCount(j) => WillCount(j)'
<1>1. \A p \in Jobs : running[p] # j /\ running'[p] # j
  BY OneRuns
<1> QED
  BY <1>1 DEF Handling, WillCount, Counting

\* A hook deletes its upload's file when that is bad.
LEMMA FinalizeAhead ==
  ASSUME ReleaseInv, AheadInv, NEW q \in Jobs, Finalize(q)
  PROVE  AheadInv'
<1> USE DEF ReleaseInv
<1>1. /\ Lives(q) /\ running[q] # None /\ running[q] \in Jobs /\ hook[q].step = "finalize"
      /\ \A p \in Jobs \ {q} : running[p] = None
      /\ UNCHANGED <<may, hand, file, bad, cached, announced>>
  BY OneRuns DEF Finalize, At, Lives
<1>2. ~\E p \in Jobs : Counting(running[q], p)
  BY <1>1 DEF Counting
<1>3. CASE /\ ~OfSfv(q) /\ SfvValid /\ running[q] \in bad
           /\ Without({file[running[q]]}) /\ EndHook(q)
  <2>1. /\ file[running[q]] \in Payload
        /\ \A f \in Files : index'[f] = IF f = file[running[q]] THEN "absent" ELSE index[f]
    BY <1>1, <1>3 DEF OfSfv, Without, TypeOK, Files
  <2>2. /\ \A p \in Jobs \ {q} : hook'[p] = hook[p] /\ running'[p] = running[p]
        /\ running'[q] = None /\ done' = done \cup {running[q]}
    BY <1>3 DEF EndHook, TaskEnds, TypeOK, QueueTypeOK
  <2>3. SfvKnown' /\ BadIsHandled' /\ ParseAhead'
    BY <1>1, <1>3, <2>1 DEF AheadInv, SfvKnown, BadIsHandled, ParseAhead, SfvValid, Files
  <2>4. ~Complete'
    BY <2>1 DEF Complete, Files
  <2> QED
    BY <2>3, <2>4 DEF AheadInv, CountAhead
<1>4. CASE /\ OfSfv(q) \/ ~SfvValid \/ running[q] \notin bad
           /\ HookGoes(q, "build") /\ UNCHANGED <<index, left, queueVars>>
  <2>1. /\ hook'[q].step = "build" /\ \A p \in Jobs \ {q} : hook'[p] = hook[p]
        /\ UNCHANGED <<index, running, done>>
    BY <1>4 DEF HookGoes, TypeOK, queueVars
  <2>2. Handling(running[q]) => Handling(running[q])'
    BY <1>1, <2>1 DEF Handling
  <2>3. \A j \in Jobs : WillParse(j) => WillParse(j)'
    BY <1>1, <2>1, <2>2, OthersAhead DEF WillParse
  <2>4. \A j \in Jobs : WillCount(j) => WillCount(j)'
    BY <1>1, <1>2, <2>1, <2>2, OthersAhead DEF WillCount
  <2>5. SfvKnown' /\ BadIsHandled' /\ ParseAhead'
    BY <1>1, <2>1, <2>3 DEF AheadInv, SfvKnown, BadIsHandled, ParseAhead
  <2>6. CountAhead'
    BY <1>1, <2>1, <2>4 DEF AheadInv, CountAhead, Complete, SfvValid
  <2> QED
    BY <2>5, <2>6 DEF AheadInv
<1> QED
  BY <1>3, <1>4 DEF Finalize

\* After Build, a hook has seen the SFV if it is known; its own parse makes it so.
LEMMA BuildAhead ==
  ASSUME ReleaseInv, AheadInv, NEW q \in Jobs, Build(q)
  PROVE  AheadInv'
<1> USE DEF ReleaseInv
<1>1. /\ Lives(q) /\ running[q] # None /\ running[q] \in Jobs /\ running[q] \notin done
      /\ \A p \in Jobs \ {q} : running[p] = None
      /\ UNCHANGED <<may, hand, file, bad, announced, running, done>>
  BY OneRuns DEF Build, At, Lives, queueVars
<1>2. /\ hook'[q] = [step |-> "count", sfv |-> SfvValid', complete |-> FALSE]
      /\ \A p \in Jobs \ {q} : hook'[p] = hook[p]
  BY DEF Build, TypeOK
<1>3. SfvKnown' /\ BadIsHandled' /\ (cached => cached') /\ index'[Sfv] = index[Sfv]
  <2>1. CASE NoParse
    BY <1>1, <2>1 DEF NoParse, AheadInv, SfvKnown, BadIsHandled
  <2>2. CASE ParseSfv({})
    <3>1. /\ cached' /\ index[Sfv] # "absent" /\ index'[Sfv] = index[Sfv]
          /\ \A f \in Payload : index'[f] # "bad"
      BY <2>2, ParseDoes DEF Bad
    <3> QED
      BY <3>1 DEF SfvKnown, BadIsHandled
  <2> QED
    BY <2>1, <2>2 DEF Build
<1>4. ParseAhead'
  <2> SUFFICES ASSUME "fail" \notin may, index[Sfv] # "absent", ~cached'
               PROVE  \E j \in Jobs : WillParse(j)'
    BY <1>1, <1>3 DEF ParseAhead
  <2>1. ~OfSfv(q)
    BY DEF Build, ParseSfv
  <2>2. PICK j \in Jobs : WillParse(j)
    BY <1>3 DEF AheadInv, ParseAhead
  <2>3. j # running[q]
    BY <2>1, <2>2 DEF WillParse, OfSfv
  <2> QED
    BY <1>1, <1>2, <2>2, <2>3, OthersAhead DEF WillParse
<1>5. CountAhead'
  <2> SUFFICES ASSUME Complete' PROVE WillCount(running[q])'
    BY <1>1 DEF CountAhead
  <2>1. hook'[q].step = "count" /\ hook'[q].sfv
    BY <1>2 DEF Complete
  <2>2. Counting(running[q], q)'
    BY <1>1, <2>1 DEF Counting
  <2> QED
    BY <1>1, <2>2 DEF WillCount
<1> QED
  BY <1>3, <1>4, <1>5 DEF AheadInv

\* A hook that has seen the SFV counts a release as complete when it is, and says so.
LEMMA CountStepAhead ==
  ASSUME ReleaseInv, AheadInv, NEW q \in Jobs, Count(q)
  PROVE  AheadInv'
<1> USE DEF ReleaseInv
<1>1. /\ Lives(q) /\ running[q] # None /\ running[q] \in Jobs /\ hook[q].step = "count"
      /\ \A p \in Jobs \ {q} : running[p] = None
      /\ UNCHANGED <<may, hand, file, bad, index, cached, announced, running, done>>
  BY OneRuns DEF Count, At, Lives, queueVars
<1>2. /\ hook'[q].step = "emit" /\ hook'[q].complete = Complete /\ hook'[q].sfv = hook[q].sfv
      /\ \A p \in Jobs \ {q} : hook'[p] = hook[p]
  BY DEF Count, TypeOK
<1>3. ~Handling(running[q])
  BY <1>1 DEF Handling
<1>4. \A j \in Jobs : WillParse(j) => WillParse(j)'
  BY <1>1, <1>2, <1>3, OthersAhead DEF WillParse
<1>5. \A j \in Jobs : WillCount(j) /\ Complete => WillCount(j)'
  <2> SUFFICES ASSUME NEW j \in Jobs, WillCount(j), Complete PROVE WillCount(j)'
    OBVIOUS
  <2>1. CASE j # running[q]
    BY <1>1, <1>2, <2>1, OthersAhead
  <2>2. CASE j = running[q]
    <3>1. j \notin done /\ Counting(j, q)
      BY <1>1, <1>3, <2>2 DEF WillCount, Counting
    <3> QED
      BY <1>1, <1>2, <3>1 DEF WillCount, Counting
  <2> QED
    BY <2>1, <2>2
<1>6. SfvKnown' /\ BadIsHandled' /\ ParseAhead'
  BY <1>1, <1>4 DEF AheadInv, SfvKnown, BadIsHandled, ParseAhead
<1>7. CountAhead'
  BY <1>1, <1>5 DEF AheadInv, CountAhead, Complete, SfvValid
<1> QED
  BY <1>6, <1>7 DEF AheadInv

LEMMA EmitAhead ==
  ASSUME ReleaseInv, AheadInv, NEW q \in Jobs, Emit(q)
  PROVE  AheadInv'
<1> USE DEF ReleaseInv
<1>1. /\ Lives(q) /\ running[q] # None /\ running[q] \in Jobs /\ hook[q].step = "emit"
      /\ \A p \in Jobs \ {q} : running[p] = None
      /\ UNCHANGED <<may, hand, file, bad, index, cached>>
      /\ announced' <=> announced \/ (hook[q].sfv /\ hook[q].complete)
  BY OneRuns DEF Emit, At, Lives, TypeOK
<1>2. /\ \A p \in Jobs \ {q} : hook'[p] = hook[p] /\ running'[p] = running[p]
      /\ running'[q] = None /\ done' = done \cup {running[q]}
  BY DEF Emit, EndHook, TaskEnds, TypeOK, QueueTypeOK
<1>3. ~Handling(running[q])
  BY <1>1 DEF Handling
<1>4. \A j \in Jobs : WillParse(j) => WillParse(j)'
  BY <1>1, <1>2, <1>3, OthersAhead DEF WillParse
<1>5. \A j \in Jobs : WillCount(j) => announced' \/ WillCount(j)'
  <2> SUFFICES ASSUME NEW j \in Jobs, WillCount(j) PROVE announced' \/ WillCount(j)'
    OBVIOUS
  <2>1. CASE j # running[q]
    BY <1>1, <1>2, <2>1, OthersAhead
  <2>2. CASE j = running[q]
    BY <1>1, <1>3, <2>2 DEF WillCount, Counting
  <2> QED
    BY <2>1, <2>2
<1>6. SfvKnown' /\ BadIsHandled' /\ ParseAhead'
  BY <1>1, <1>4 DEF AheadInv, SfvKnown, BadIsHandled, ParseAhead
<1>7. CountAhead'
  BY <1>1, <1>5 DEF AheadInv, CountAhead, Complete, SfvValid
<1> QED
  BY <1>6, <1>7 DEF AheadInv

LEMMA AheadStep == ReleaseInv /\ AheadInv /\ [Next]_vars => AheadInv'
<1> SUFFICES ASSUME ReleaseInv, AheadInv, [Next]_vars PROVE AheadInv'
  OBVIOUS
<1>1. ASSUME NEW j \in Jobs, Enqueue(j) \/ EndQueue(j) PROVE AheadInv'
  <2>1. UNCHANGED <<running, done>> /\ UNCHANGED raceVars
    BY <1>1 DEF Enqueue, EnqueueStep, Reserve, Send, GiveBack, EndQueue, Idle
  <2> QED
    BY <2>1, QuietAhead
<1>2. ASSUME NEW j \in Jobs, Handle(j) \/ RunHooks(j) PROVE AheadInv'
  BY <1>1, <1>2, CheckAhead, StartAhead, FinalizeAhead, BuildAhead, CountStepAhead, EmitAhead
     DEF Handle, RunHooks
<1>3. CASE UNCHANGED vars
  BY <1>3, QuietAhead DEF vars, queueVars
<1> QED
  BY <1>2, <1>3, StoreAhead, DeleteAhead, ReturnAhead DEF Next

\* The invariant of what is still to be checked, parsed, counted and announced.
THEOREM AheadInvariant == Spec => []AheadInv
  BY AheadInit, AheadStep, ReleaseInvariant, PTL DEF Spec

\* When no upload is in its handler or has its hook ahead of it, nothing is left to do.
LEMMA QuietHasNone ==
  ASSUME ReleaseInv, Quiet, NEW j \in Jobs
  PROVE  hand[j] # "stored" /\ ~Handling(j) /\ ~WillCount(j)
<1>1. /\ at[j] = "no" \/ j \in done
      /\ hand[j] \in {"stored", "checked"} => at[j] = "returned"
      /\ at[j] # "no" => hand[j] = "checked"
  BY DEF Quiet, Uploading, ReleaseInv, BadUpload
<1>2. ~Handling(j)
  BY <1>1 DEF Handling
<1>3. ASSUME j \notin done PROVE \A q \in Jobs : running[q] # j
  BY <1>1, <1>3 DEF ReleaseInv, QueueInv, Running, Sent
<1> QED
  BY <1>1, <1>2, <1>3 DEF WillCount, Counting

\* runReleaseUploadPipeline: in whatever order the payload and its SFV come and their
\* hooks run, a release that is complete when all is quiet has been announced.
THEOREM CompleteIsSaid == Spec => []CompleteIsAnnounced
<1>1. ReleaseInv /\ AheadInv => CompleteIsAnnounced
  <2> SUFFICES ASSUME ReleaseInv, AheadInv, Quiet, Complete \/ ("fail" \notin may /\ Whole)
               PROVE  announced
    BY DEF CompleteIsAnnounced
  <2>1. Complete
    BY QuietHasNone DEF AheadInv, ParseAhead, WillParse, Whole, Complete, SfvValid
  <2> QED
    BY <2>1, QuietHasNone DEF AheadInv, CountAhead
<1> QED
  BY <1>1, ReleaseInvariant, AheadInvariant, PTL

\* delete_bad_crc: a bad file stays in a release whose SFV is known only if the slave
\* failed to delete it when the SFV was parsed: the handler of the one or the parse of
\* the other finds it, and a handler takes it out of the index in any case.
THEOREM BadFilesGo == Spec => []BadIsGone
<1>1. ReleaseInv /\ AheadInv => BadIsGone
  <2> SUFFICES ASSUME ReleaseInv, AheadInv, Quiet, SfvValid, NEW f \in Payload, index[f] = "bad"
               PROVE  FALSE
    BY DEF BadIsGone
  <2>1. PICK j \in bad : hand[j] = "stored"
    BY DEF AheadInv, BadIsHandled, SfvValid
  <2>2. j \in Jobs
    BY <2>1 DEF ReleaseInv, TypeOK
  <2> QED
    BY <2>1, <2>2, QuietHasNone
<1> QED
  BY <1>1, ReleaseInvariant, AheadInvariant, PTL
=============================================================================

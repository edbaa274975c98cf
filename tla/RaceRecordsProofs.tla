------------------------- MODULE RaceRecordsProofs -------------------------
(***************************************************************************)
(* The announced duration of a release covers every file its race window   *)
(* was told of (WindowCovers of RaceRecords), for any number of paths,     *)
(* payloads, racers, uploads and operators' acts.                          *)
(*                                                                         *)
(* WindowCovers speaks of a system at rest.  RecordsInv speaks of every    *)
(* state: a noted file is covered, or the operator's rename that moves its *)
(* window is still to come (Covered); what is still to come for a window   *)
(* harms no file that is covered (Harmless), because one operator follows  *)
(* up one change at a time (OneAtATime); and a hook tells the window the   *)
(* very times of its file's entry (Stamped).                               *)
(***************************************************************************)
EXTENDS RaceRecords, FiniteSetTheorems, SequenceTheorems, TLAPS

-----------------------------------------------------------------------------
(* Sequences of steps.                                                     *)

Elems(q) == {q[i] : i \in DOMAIN q}
IsSeq(q) == q \in Seq(Elems(q))

WindowSteps == {"winmove", "forget", "reset"}
OneWindowStep(q) ==
  \A i, j \in DOMAIN q : q[i].do \in WindowSteps /\ q[j].do \in WindowSteps => i = j

\* A thread that does nothing has no step.
LEMMA NoSteps == IsSeq(<<>>) /\ Elems(<<>>) = {}
  BY DEF IsSeq, Elems

\* A list of one step holds it.
LEMMA OneStep ==
  ASSUME NEW x
  PROVE  IsSeq(<<x>>) /\ Elems(<<x>>) = {x}
  BY DEF IsSeq, Elems

\* A list of two, as an operator's deletion begins.
LEMMA TwoSteps ==
  ASSUME NEW x, NEW y
  PROVE  IsSeq(<<x, y>>) /\ Elems(<<x, y>>) = {x, y}
  BY DEF IsSeq, Elems

\* A list of four, as a discarded payload leaves.
LEMMA FourSteps ==
  ASSUME NEW x, NEW y, NEW z, NEW w
  PROVE  IsSeq(<<x, y, z, w>>) /\ Elems(<<x, y, z, w>>) = {x, y, z, w}
  BY DEF IsSeq, Elems

\* A list of three, as a removed directory leaves.
LEMMA ThreeSteps ==
  ASSUME NEW x, NEW y, NEW z
  PROVE  IsSeq(<<x, y, z>>) /\ Elems(<<x, y, z>>) = {x, y, z}
  BY DEF IsSeq, Elems

\* A sequence over a set is one over its own elements.
LEMMA SeqIn ==
  \A S, q : q \in Seq(S) => IsSeq(q) /\ Elems(q) \subseteq S
<1> SUFFICES ASSUME NEW S, NEW q, q \in Seq(S) PROVE IsSeq(q) /\ Elems(q) \subseteq S
  OBVIOUS
<1>1. Len(q) \in Nat /\ q \in [1..Len(q) -> S] /\ DOMAIN q = 1..Len(q)
  BY LenProperties
<1>2. q \in [1..Len(q) -> Elems(q)] /\ Elems(q) \subseteq S
  BY <1>1 DEF Elems
<1>3. q \in UNION {[1..n -> Elems(q)] : n \in Nat}
  BY <1>1, <1>2
<1>4. q \in Seq(Elems(q))
  BY <1>3, SeqDef, Zenon
<1> QED
  BY <1>2, <1>4 DEF IsSeq

\* The first step of a list, and what is left of it.
LEMMA TailOf ==
  ASSUME NEW q, IsSeq(q), q # <<>>
  PROVE  /\ IsSeq(Tail(q)) /\ Elems(Tail(q)) \subseteq Elems(q)
         /\ Head(q) \in Elems(q) /\ \A x \in Elems(q) : x = Head(q) \/ x \in Elems(Tail(q))
<1>1. Tail(q) \in Seq(Elems(q)) /\ Len(q) \in Nat \ {0} /\ DOMAIN q = 1..Len(q)
  BY DEF IsSeq
<1>2. /\ \A i \in 1..Len(q) - 1 : Tail(q)[i] = q[i + 1]
      /\ DOMAIN Tail(q) = 1..Len(q) - 1 /\ Head(q) = q[1]
  BY <1>1 DEF IsSeq
<1>3. ASSUME NEW i \in 1..Len(q), i # 1 PROVE q[i] \in Elems(Tail(q))
  <2>1. i - 1 \in 1..Len(q) - 1 /\ (i - 1) + 1 = i
    BY <1>1, <1>3
  <2>2. Tail(q)[i - 1] = q[i]
    BY <1>2, <2>1
  <2> QED
    BY <1>2, <2>1, <2>2 DEF Elems
<1>4. IsSeq(Tail(q)) /\ Elems(Tail(q)) \subseteq Elems(q)
  BY <1>1, SeqIn, Zenon
<1>5. 1 \in 1..Len(q)
  BY <1>1
<1> QED
  BY <1>1, <1>2, <1>3, <1>4, <1>5 DEF Elems

\* Steps put before others.
LEMMA ConcatOf ==
  ASSUME NEW p, NEW q, IsSeq(p), IsSeq(q)
  PROVE  IsSeq(p \o q) /\ Elems(p \o q) = Elems(p) \cup Elems(q)
<1> DEFINE S == Elems(p) \cup Elems(q)
<1>1. p \in Seq(S) /\ q \in Seq(S)
  BY DEF IsSeq
<1>2. p \o q \in Seq(S)
  BY <1>1
<1> HIDE DEF S
<1>3. IsSeq(p \o q) /\ Elems(p \o q) \subseteq S
  BY <1>2, SeqIn, Zenon
<1> USE DEF S
<1>4. /\ DOMAIN p = 1..Len(p) /\ DOMAIN q = 1..Len(q) /\ DOMAIN (p \o q) = 1..Len(p) + Len(q)
      /\ \A i \in 1..Len(p) : (p \o q)[i] = p[i]
      /\ \A i \in 1..Len(q) : (p \o q)[Len(p) + i] = q[i]
      /\ Len(p) \in Nat /\ Len(q) \in Nat
  BY <1>1
<1>5. \A i \in 1..Len(p) : i \in 1..Len(p) + Len(q)
  BY <1>4
<1>6. \A i \in 1..Len(q) : Len(p) + i \in 1..Len(p) + Len(q)
  BY <1>4
<1>7. Elems(p) \subseteq Elems(p \o q)
  BY <1>4, <1>5 DEF Elems
<1>8. Elems(q) \subseteq Elems(p \o q)
  BY <1>4, <1>6 DEF Elems
<1> QED
  BY <1>7, <1>8, <1>3

\* What is left of a discard whose file the index lacked.
LEMMA SubSeqOf ==
  ASSUME NEW q, IsSeq(q)
  PROVE  IsSeq(SubSeq(q, 3, Len(q))) /\ Elems(SubSeq(q, 3, Len(q))) \subseteq Elems(q)
<1>1. SubSeq(q, 3, Len(q)) \in Seq(Elems(q))
  BY DEF IsSeq
<1> QED
  BY <1>1, SeqIn, Zenon

\* A step for each listed file, in some order.
LEMMA SetToSeqOf ==
  ASSUME NEW S, IsFiniteSet(S)
  PROVE  IsSeq(SetToSeq(S)) /\ Elems(SetToSeq(S)) \subseteq S
<1>1. Cardinality(S) \in Nat /\ ExistsBijection(1..Cardinality(S), S)
  BY FS_CardinalityType
<1>2. PICK f \in [1..Cardinality(S) -> S] : IsInjective(f)
  BY <1>1 DEF ExistsBijection, Bijection, Injection, IsInjective
<1>3. SetToSeq(S) \in [1..Cardinality(S) -> S]
  BY <1>2 DEF SetToSeq
<1>4. SetToSeq(S) \in UNION {[1..n -> S] : n \in Nat}
  BY <1>1, <1>3
<1>5. SetToSeq(S) \in Seq(S)
  BY <1>4, SeqDef, Zenon
<1> QED
  BY <1>5, SeqIn, Zenon

\* The next step is done.
LEMMA OneTail ==
  ASSUME NEW q, IsSeq(q), q # <<>>, OneWindowStep(q)
  PROVE  /\ OneWindowStep(Tail(q))
         /\ Head(q).do \in WindowSteps => \A x \in Elems(Tail(q)) : x.do \notin WindowSteps
<1>1. Len(q) \in Nat \ {0} /\ DOMAIN q = 1..Len(q)
  BY DEF IsSeq
<1>2. /\ \A i \in 1..Len(q) - 1 : Tail(q)[i] = q[i + 1]
      /\ DOMAIN Tail(q) = 1..Len(q) - 1 /\ Head(q) = q[1]
  BY <1>1 DEF IsSeq
<1>3. \A i \in 1..Len(q) - 1 : i + 1 \in 1..Len(q) /\ i + 1 # 1 /\ i \in Nat
  BY <1>1
<1>4. 1 \in DOMAIN q
  BY <1>1
<1>5. ASSUME NEW i \in DOMAIN Tail(q), NEW j \in DOMAIN Tail(q),
             Tail(q)[i].do \in WindowSteps, Tail(q)[j].do \in WindowSteps
      PROVE  i = j
  <2>1. i + 1 = j + 1
    BY <1>1, <1>2, <1>3, <1>5 DEF OneWindowStep
  <2> QED
    BY <1>2, <1>3, <2>1
<1>6. ASSUME Head(q).do \in WindowSteps, NEW i \in DOMAIN Tail(q), Tail(q)[i].do \in WindowSteps
      PROVE  FALSE
  BY <1>1, <1>2, <1>3, <1>4, <1>6 DEF OneWindowStep
<1> QED
  BY <1>5, <1>6 DEF OneWindowStep, Elems

\* Other steps come before what is left.
LEMMA OneConcat ==
  ASSUME NEW x, x.do \notin WindowSteps, NEW q, IsSeq(q), OneWindowStep(q)
  PROVE  OneWindowStep(<<x>> \o q)
<1>1. q \in Seq(Elems(q) \cup {x}) /\ <<x>> \in Seq(Elems(q) \cup {x})
  BY SeqMonotonic DEF IsSeq
<1>2. /\ Len(q) \in Nat /\ DOMAIN q = 1..Len(q) /\ DOMAIN (<<x>> \o q) = 1..Len(q) + 1
      /\ (<<x>> \o q)[1] = x
      /\ \A i \in 1..Len(q) + 1 : i # 1 => (<<x>> \o q)[i] = q[i - 1]
  BY <1>1
<1>3. \A i \in 1..Len(q) + 1 : i # 1 => i - 1 \in 1..Len(q) /\ i \in Nat
  BY <1>2
<1>4. ASSUME NEW i \in 1..Len(q) + 1, NEW j \in 1..Len(q) + 1,
             (<<x>> \o q)[i].do \in WindowSteps, (<<x>> \o q)[j].do \in WindowSteps
      PROVE  i = j
  <2>1. i # 1 /\ j # 1
    BY <1>2, <1>4
  <2>2. i - 1 = j - 1
    BY <1>2, <1>3, <1>4, <2>1 DEF OneWindowStep
  <2> QED
    BY <1>3, <2>1, <2>2
<1> QED
  BY <1>2, <1>4 DEF OneWindowStep

-----------------------------------------------------------------------------
(* The inductive invariant.                                                *)

Pending(t) == Elems(todo[t])

IsEntry(e) ==
  e \in [by : {e.by}, sum : {e.sum}, timed : {e.timed}, noted : {e.noted}, start : Int, end : Nat]
IsWindow(w) == w \in [start : Int, end : Nat, payload : BOOLEAN]
IsStep(x) ==
  /\ x.do = "hook" => x.d \in Paths /\ x.f \in Payloads /\ x.start \in Int /\ x.end \in Nat \ {0}
  /\ x.do = "keep" => x \in [do : {x.do}, d : {x.d}, f : {x.f}, s : {x.s}, id : {x.id}]
  /\ x.do \in {"dbmove", "winmove"} => x \in [do : {x.do}, d : Paths, f : {x.f}, to : Paths]
  /\ x.do \in {"forget", "reset"} => x.d \in Paths
  /\ x.do = "scan" => x \in [do : {x.do}, d : {x.d}, f : {x.f}, del : {x.del}]

StepsTyped ==
  /\ DOMAIN todo = Threads
  /\ \A t \in Threads : IsSeq(todo[t]) /\ \A x \in Pending(t) : IsStep(x)
WindowsTyped ==
  /\ DOMAIN window = Paths
  /\ \A d \in Paths : window[d] = Nil \/ IsWindow(window[d])
EntriesTyped ==
  /\ DOMAIN entries = Paths
  /\ \A d \in Paths : DOMAIN entries[d] = Payloads
  /\ \A d \in Paths, f \in Payloads : entries[d][f] = Nil \/ IsEntry(entries[d][f])
Typed ==
  /\ stores \in Nat /\ dirs \subseteq Paths /\ races \in RaceSettings
  /\ StepsTyped /\ WindowsTyped /\ EntriesTyped

\* A transfer was recorded when it ended, and its hook tells the window of that time.
Stamped ==
  /\ \A d \in Paths, f \in Payloads : entries[d][f] # Nil => entries[d][f].end <= stores
  /\ \A t \in Threads : \A x \in Pending(t) : x.do = "hook" =>
       /\ x.end <= stores
       /\ \A d \in Paths, f \in Payloads :
            entries[d][f] # Nil /\ entries[d][f].end = x.end => entries[d][f].start = x.start

Tidy == \A d \in Paths \ dirs, f \in Payloads : entries[d][f] = Nil

\* Only an operator's follow-ups take a window away or move it, one at a time.
FollowUps == {"drop", "uncache", "dbmove", "dbscrub"}
OneAtATime ==
  /\ \A t \in Threads \ {Oper} : \A x \in Pending(t) : x.do \notin WindowSteps
  /\ OneWindowStep(todo[Oper])
  /\ (\E x \in Pending(Oper) : x.do \in WindowSteps) =>
       \A x \in Pending(Oper) : x.do \in WindowSteps \cup FollowUps

NoHook(d) == \A t \in Threads : \A x \in Pending(t) : ~(x.do = "hook" /\ x.d = d)
IsNoted(d, f) == entries[d][f] # Nil /\ entries[d][f].noted
Covers(w, e) == w # Nil /\ w.payload /\ w.start <= e.start /\ w.end >= e.end

\* What is still to come for a window does no harm.
Harmless ==
  \A x \in Pending(Oper) :
    /\ x.do = "forget" => x.d \notin dirs
    /\ x.do = "reset" => x.d \in loose \/ (NoHook(x.d) /\ \A f \in Payloads : ~IsNoted(x.d, f))
    /\ x.do = "winmove" =>
         /\ x.d \notin dirs
         /\ x.to \in loose \/
              (NoHook(x.to) /\ \A f \in Payloads : IsNoted(x.to, f) => Covers(window[x.d], entries[x.to][f]))

\* A file the window was told of is covered, or will be when the window has moved.
Covered ==
  \A d \in dirs \ loose, f \in Payloads :
    IsNoted(d, f) => \/ Covers(window[d], entries[d][f])
                    \/ \E x \in Pending(Oper) : x.do = "winmove" /\ x.to = d

RecordsInv == Typed /\ Stamped /\ Tidy /\ OneAtATime /\ Harmless /\ Covered

-----------------------------------------------------------------------------
(* Steps that leave the windows alone.                                     *)

Plain(x) == x.do \notin WindowSteps \cup {"hook"} /\ IsStep(x)

\* Entries go, or keep their times.
EntriesShrink ==
  /\ DOMAIN entries' = Paths
  /\ \A d \in Paths : DOMAIN entries'[d] = Payloads
  /\ \A d \in Paths, f \in Payloads :
       \/ entries'[d][f] = Nil
       \/ /\ entries[d][f] # Nil /\ IsEntry(entries'[d][f])
          /\ entries'[d][f].noted => entries[d][f].noted
          /\ entries'[d][f].start = entries[d][f].start /\ entries'[d][f].end = entries[d][f].end

Undisturbed == UNCHANGED <<dirs, window, stores, races>> /\ loose \subseteq loose' /\ EntriesShrink

\* Whatever plain steps are added or done, the invariant stays when no window, no
\* directory and no time of an entry changes.
LEMMA StepsGoOn ==
  ASSUME RecordsInv, Undisturbed, DOMAIN todo' = Threads,
         \A t \in Threads : IsSeq(todo'[t]) /\ \A x \in Pending(t)' : x \in Pending(t) \/ Plain(x),
         \A x \in Pending(Oper) : x.do \in WindowSteps => x \in Pending(Oper)',
         OneWindowStep(todo'[Oper]),
         (\E x \in Pending(Oper)' : x.do \in WindowSteps) =>
           \A x \in Pending(Oper)' : x.do \in WindowSteps \cup FollowUps
  PROVE  RecordsInv'
<1> USE DEF RecordsInv, Undisturbed
<1>0. Oper \in Threads
  BY DEF Threads
<1>1. \A t \in Threads : \A x \in Pending(t)' : x.do \in WindowSteps \cup {"hook"} => x \in Pending(t)
  BY DEF Plain
<1>2. /\ \A d \in Paths, f \in Payloads : entries'[d][f] # Nil =>
            /\ entries[d][f] # Nil /\ IsEntry(entries'[d][f]) /\ (entries'[d][f].noted => entries[d][f].noted)
            /\ entries'[d][f].start = entries[d][f].start /\ entries'[d][f].end = entries[d][f].end
  BY DEF EntriesShrink
<1>3. Typed'
  <2>1. StepsTyped'
    BY DEF Typed, StepsTyped, Plain
  <2>2. EntriesTyped'
    BY <1>2 DEF EntriesTyped, EntriesShrink
  <2>3. WindowsTyped'
    BY DEF Typed, WindowsTyped
  <2> QED
    BY <2>1, <2>2, <2>3 DEF Typed
<1>4. Stamped'
  BY <1>1, <1>2 DEF Stamped
<1>5. Tidy'
  BY <1>2 DEF Tidy
<1>6. OneAtATime'
  BY <1>1 DEF OneAtATime
<1>7. \A d : NoHook(d) => NoHook(d)'
  BY <1>1 DEF NoHook
<1>8. \A d \in Paths, f \in Payloads : IsNoted(d, f)' =>
        IsNoted(d, f) /\ \A w : Covers(w, entries[d][f]) => Covers(w, entries'[d][f])
  BY <1>2 DEF IsNoted, Covers
<1>9. ASSUME NEW x \in Pending(Oper), x.do \in WindowSteps
      PROVE  x.d \in Paths /\ (x.do = "winmove" => x.to \in Paths)
  BY <1>0, <1>9 DEF WindowSteps, Typed, StepsTyped, IsStep
<1>10. Harmless'
  <2> SUFFICES ASSUME NEW x \in Pending(Oper)', x.do \in WindowSteps
               PROVE  /\ x.do = "forget" => x.d \notin dirs'
                      /\ x.do = "reset" => x.d \in loose' \/ (NoHook(x.d)' /\ \A f \in Payloads : ~IsNoted(x.d, f)')
                      /\ x.do = "winmove" =>
                           /\ x.d \notin dirs'
                           /\ x.to \in loose' \/ (NoHook(x.to)' /\ \A f \in Payloads :
                                IsNoted(x.to, f)' => Covers(window'[x.d], entries'[x.to][f]))
    BY DEF Harmless, WindowSteps
  <2>1. x \in Pending(Oper)
    BY <1>0, <1>1
  <2>2. CASE x.do = "forget"
    BY <2>1, <2>2 DEF Harmless
  <2>3. CASE x.do = "reset"
    BY <1>7, <1>8, <1>9, <2>1, <2>3 DEF Harmless, WindowSteps
  <2>4. CASE x.do = "winmove"
    BY <1>7, <1>8, <1>9, <2>1, <2>4 DEF Harmless, WindowSteps
  <2> QED
    BY <2>2, <2>3, <2>4 DEF WindowSteps
<1>11. Covered'
  BY <1>8 DEF Covered, Typed, WindowSteps
<1> QED
  BY <1>3, <1>4, <1>5, <1>6, <1>10, <1>11

\* What follows a head that is no window step and follows none.
LEMMA NoWindowStep ==
  ASSUME RecordsInv, NEW t \in Threads, todo[t] # <<>>, Head(todo[t]).do \notin WindowSteps \cup FollowUps
  PROVE  \A x \in Pending(t) : x.do \notin WindowSteps
<1>1. Head(todo[t]) \in Pending(t)
  BY TailOf DEF RecordsInv, Typed, StepsTyped, Pending
<1> QED
  BY <1>1 DEF RecordsInv, OneAtATime

\* A thread without window steps gets a list of plain ones.
LEMMA PlainList ==
  ASSUME RecordsInv, Undisturbed, NEW t \in Threads, \A x \in Pending(t) : x.do \notin WindowSteps,
         NEW q, IsSeq(q), \A x \in Elems(q) : x \in Pending(t) \/ Plain(x), todo' = [todo EXCEPT ![t] = q]
  PROVE  RecordsInv'
<1>1. /\ DOMAIN todo' = Threads /\ todo'[t] = q /\ \A u \in Threads \ {t} : todo'[u] = todo[u]
  BY DEF RecordsInv, Typed, StepsTyped
<1>2. Pending(t)' = Elems(q) /\ \A u \in Threads \ {t} : Pending(u)' = Pending(u)
  BY <1>1 DEF Pending
<1>3. \A u \in Threads : IsSeq(todo'[u]) /\ \A x \in Pending(u)' : x \in Pending(u) \/ Plain(x)
  BY <1>1, <1>2 DEF RecordsInv, Typed, StepsTyped
<1>4. Oper \in Threads
  BY DEF Threads
<1>5. CASE t = Oper
  <2>1. \A x \in Elems(q) : x.do \notin WindowSteps
    BY DEF Plain
  <2>2. OneWindowStep(q)
    BY <2>1 DEF OneWindowStep, Elems
  <2> QED
    BY <1>1, <1>2, <1>3, <1>5, <2>1, <2>2, StepsGoOn
<1>6. CASE t # Oper
  <2>1. todo'[Oper] = todo[Oper] /\ Pending(Oper)' = Pending(Oper)
    BY <1>1, <1>2, <1>4, <1>6
  <2>2. /\ OneWindowStep(todo[Oper])
        /\ (\E x \in Pending(Oper) : x.do \in WindowSteps) =>
             \A x \in Pending(Oper) : x.do \in WindowSteps \cup FollowUps
    BY DEF RecordsInv, OneAtATime
  <2> QED
    BY <1>1, <1>3, <2>1, <2>2, StepsGoOn
<1> QED
  BY <1>5, <1>6

\* The next step of a thread is replaced by plain ones, or is done.
LEMMA PlainStep ==
  ASSUME RecordsInv, Undisturbed, NEW t \in Threads, todo[t] # <<>>,
         Head(todo[t]).do \notin WindowSteps \cup FollowUps,
         NEW p, IsSeq(p), \A x \in Elems(p) : Plain(x), Done(t) \/ ThenDo(t, p)
  PROVE  RecordsInv'
<1>1. \A x \in Pending(t) : x.do \notin WindowSteps
  BY NoWindowStep
<1>2. IsSeq(todo[t]) /\ IsSeq(Tail(todo[t])) /\ Elems(Tail(todo[t])) \subseteq Pending(t)
  BY TailOf DEF RecordsInv, Typed, StepsTyped, Pending
<1>3. IsSeq(p \o Tail(todo[t])) /\ Elems(p \o Tail(todo[t])) = Elems(p) \cup Elems(Tail(todo[t]))
  BY <1>2, ConcatOf
<1> DEFINE r == Tail(todo[t])
           q == p \o Tail(todo[t])
<1> HIDE DEF r, q
<1>4. CASE Done(t)
  <2>1. todo' = [todo EXCEPT ![t] = r]
    BY <1>4 DEF Done, r
  <2>2. IsSeq(r) /\ \A x \in Elems(r) : x \in Pending(t)
    BY <1>2 DEF r
  <2> QED
    BY <1>1, <2>1, <2>2, PlainList
<1>5. CASE ThenDo(t, p)
  <2>1. todo' = [todo EXCEPT ![t] = q]
    BY <1>5 DEF ThenDo, q
  <2>2. IsSeq(q) /\ \A x \in Elems(q) : x \in Pending(t) \/ Plain(x)
    BY <1>2, <1>3 DEF q
  <2> QED
    BY <1>1, <2>1, <2>2, PlainList
<1> QED
  BY <1>4, <1>5

\* A thread that does nothing begins plain steps.
LEMMA PlainBegin ==
  ASSUME RecordsInv, Undisturbed, NEW t \in Threads, todo[t] = <<>>,
         NEW q, IsSeq(q), \A x \in Elems(q) : Plain(x), todo' = [todo EXCEPT ![t] = q]
  PROVE  RecordsInv'
<1>1. Pending(t) = {}
  BY NoSteps DEF Pending
<1> QED
  BY <1>1, PlainList

\* Nothing but steps.
LEMMA NothingElse ==
  ASSUME RecordsInv, UNCHANGED <<dirs, window, stores, races, entries>>, loose \subseteq loose'
  PROVE  Undisturbed
  BY DEF RecordsInv, Typed, EntriesTyped, Undisturbed, EntriesShrink

-----------------------------------------------------------------------------
(* The actions that do so.                                                 *)

\* One step, an operator's or a hook's among others.
LEMMA OnePlain ==
  ASSUME NEW x, Plain(x)
  PROVE  IsSeq(<<x>>) /\ \A y \in Elems(<<x>>) : Plain(y)
  BY OneStep

\* getOrCreateReleaseID: what is left is to keep the id or to write with it.
LEMMA FindKeeps ==
  ASSUME RecordsInv, NEW t \in Threads, NEW s, NEW rest,
         Find(t, s, rest), UNCHANGED <<dirs, window, stores, races, entries, loose>>,
         \/ rest = <<>> /\ todo[t] = <<>>
         \/ todo[t] # <<>> /\ Head(todo[t]).do = "find" /\ rest = Tail(todo[t])
  PROVE  RecordsInv'
<1> DEFINE cached == idOf[s.d] # Nil
           do == IF cached THEN "write" ELSE "keep"
           id == IF cached THEN idOf[s.d] ELSE WithRelease(db, s.d).rel[s.d]
<1>1. /\ do \in {"write", "keep"}
      /\ todo' = [todo EXCEPT ![t] = <<[do |-> do, d |-> s.d, f |-> s.f, s |-> s, id |-> id]>> \o rest]
  BY Zenon DEF Find
<1> HIDE DEF do, id, cached
<1>2. PICK x : x = [do |-> do, d |-> s.d, f |-> s.f, s |-> s, id |-> id]
  OBVIOUS
<1>3. Plain(x)
  BY <1>1, <1>2 DEF Plain, IsStep, WindowSteps
<1>4. IsSeq(<<x>>) /\ \A y \in Elems(<<x>>) : Plain(y)
  BY <1>3, OnePlain
<1>5. todo' = [todo EXCEPT ![t] = <<x>> \o rest]
  BY <1>1, <1>2
<1>6. Undisturbed
  BY NothingElse
<1>7. CASE rest = <<>> /\ todo[t] = <<>>
  <2>1. <<x>> \o <<>> = <<x>>
    OBVIOUS
  <2> QED
    BY <1>4, <1>5, <1>6, <1>7, <2>1, PlainBegin
<1>8. CASE todo[t] # <<>> /\ Head(todo[t]).do = "find" /\ rest = Tail(todo[t])
  <2>1. ThenDo(t, <<x>>)
    BY <1>5, <1>8 DEF ThenDo
  <2> QED
    BY <1>4, <1>6, <1>8, <2>1, PlainStep DEF WindowSteps, FollowUps
<1> QED
  BY <1>7, <1>8

\* getOrCreateReleaseID and what is written with the id.
LEMMA WritesKeep ==
  ASSUME RecordsInv, NEW t \in Threads, FindId(t) \/ KeepId(t) \/ WriteRows(t) \/ ClearPath(t) \/ Replace(t)
  PROVE  RecordsInv'
<1>1. CASE FindId(t)
  BY <1>1, FindKeeps DEF FindId, Does
<1>2. CASE KeepId(t)
  <2> DEFINE s == Head(todo[t])
  <2>1. todo[t] # <<>> /\ s.do = "keep" /\ ThenDo(t, <<[s EXCEPT !.do = "write"]>>)
    BY <1>2 DEF KeepId, Does
  <2>2. s \in [do : {s.do}, d : {s.d}, f : {s.f}, s : {s.s}, id : {s.id}]
    BY <2>1, TailOf DEF RecordsInv, Typed, StepsTyped, Pending, IsStep
  <2>3. [s EXCEPT !.do = "write"].do = "write"
    BY <2>2
  <2>4. Plain([s EXCEPT !.do = "write"])
    BY <2>3 DEF Plain, IsStep, WindowSteps
  <2>5. Undisturbed
    BY <1>2, NothingElse DEF KeepId
  <2> QED
    BY <2>1, <2>4, <2>5, OnePlain, PlainStep DEF WindowSteps, FollowUps
<1>3. CASE WriteRows(t) \/ ClearPath(t) \/ Replace(t)
  <2>1. todo[t] # <<>> /\ Head(todo[t]).do \in {"write", "clear", "replace"} /\ Done(t) /\ Undisturbed
    BY <1>3, NothingElse DEF WriteRows, ClearPath, Replace, Does
  <2> QED
    BY <2>1, NoSteps, PlainStep DEF WindowSteps, FollowUps
<1> QED
  BY <1>1, <1>2, <1>3

\* uploadRecordWriter.
LEMMA WriterKeeps == RecordsInv /\ WriterTakes => RecordsInv'
<1> SUFFICES ASSUME RecordsInv, WriterTakes PROVE RecordsInv'
  OBVIOUS
<1>1. Writer \in Threads
  BY DEF Threads
<1> QED
  BY <1>1, FindKeeps DEF WriterTakes

\* Deleting and clearing steps are plain.
LEMMA PlainSteps ==
  ASSUME NEW do, NEW d, NEW f,
         do \in {"find", "verify", "delete", "clear", "miss", "present", "read"}
  PROVE  Plain(Step(do, d, f))
  BY DEF Plain, IsStep, Step, WindowSteps

\* DeleteFile and MarkFileMissing as one list.
LEMMA DiscardPlain ==
  ASSUME NEW d, NEW f
  PROVE  IsSeq(Discard(d, f)) /\ \A x \in Elems(Discard(d, f)) : Plain(x)
  BY FourSteps, PlainSteps DEF Discard

\* The checks of a thread: a payload against the SFV, a release before it is synchronised.
LEMMA ChecksKeep ==
  ASSUME RecordsInv, NEW t \in Threads, VerifyOld(t) \/ ReadVerified(t) \/ Scan(t) \/ Sum(t)
  PROVE  RecordsInv'
<1> DEFINE s == Head(todo[t])
<1>1. Undisturbed
  BY NothingElse DEF VerifyOld, ReadVerified, Scan, Sum
<1>2. todo[t] # <<>> /\ s.do \in {"verify", "read", "scan", "sum"}
  BY DEF VerifyOld, ReadVerified, Scan, Sum, Does
<1>3. s.do = "scan" => s \in [do : {s.do}, d : {s.d}, f : {s.f}, del : {s.del}]
  BY <1>2, TailOf DEF RecordsInv, Typed, StepsTyped, Pending, IsStep
<1>4. Done(t) \/ \E p : IsSeq(p) /\ (\A x \in Elems(p) : Plain(x)) /\ ThenDo(t, p)
  <2>1. CASE VerifyOld(t)
    BY <2>1, DiscardPlain, NoSteps DEF VerifyOld
  <2>2. CASE ReadVerified(t)
    <3>1. ASSUME NEW found PROVE Plain([do |-> "replace", d |-> s.d, f |-> Nil, found |-> found])
      BY DEF Plain, IsStep, WindowSteps
    <3> QED
      BY <2>2, <3>1, OnePlain, NoSteps DEF ReadVerified
  <2>3. CASE Scan(t)
    <3>1. s.do = "scan"
      BY <2>3 DEF Scan, Does
    <3>2. [s EXCEPT !.do = "sum"].do = "sum"
      BY <1>3, <3>1
    <3>3. Plain([s EXCEPT !.do = "sum"])
      BY <3>2 DEF Plain, IsStep, WindowSteps
    <3> QED
      BY <2>3, <3>3, OnePlain, TwoSteps, PlainSteps DEF Scan
  <2>4. CASE Sum(t)
    <3>1. Plain(Step("present", s.d, s.f)) /\ Plain(Step("miss", s.d, s.f)) /\ Plain(Step("clear", s.d, s.f))
      BY PlainSteps
    <3> QED
      BY <2>4, <3>1, DiscardPlain, NoSteps, OnePlain, TwoSteps DEF Sum
  <2> QED
    BY <2>1, <2>2, <2>3, <2>4
<1> QED
  BY <1>1, <1>2, <1>4, NoSteps, PlainStep DEF WindowSteps, FollowUps

\* A deleted or missing file leaves the index.
LEMMA EntryGoes ==
  ASSUME RecordsInv, NEW d, NEW f, entries' = [entries EXCEPT ![d][f] = Nil]
  PROVE  EntriesShrink
<1>1. /\ DOMAIN entries = Paths /\ \A x \in Paths : DOMAIN entries[x] = Payloads
      /\ \A x \in Paths, y \in Payloads : entries[x][y] = Nil \/ IsEntry(entries[x][y])
  BY DEF RecordsInv, Typed, EntriesTyped
<1>2. DOMAIN entries' = Paths /\ \A x \in Paths : DOMAIN entries'[x] = Payloads
  BY <1>1
<1>3. \A x \in Paths, y \in Payloads : entries'[x][y] = Nil \/ entries'[x][y] = entries[x][y]
  BY <1>1
<1> HIDE DEF RecordsInv
<1> QED
  BY <1>1, <1>2, <1>3 DEF EntriesShrink

\* MarkFileMissing, and the delete that finds nothing: the rest of its discard is left out.
LEMMA DeletesKeep ==
  ASSUME RecordsInv, NEW t \in Threads, DeleteEntry(t) \/ MissEntry(t)
  PROVE  RecordsInv'
<1> DEFINE s == Head(todo[t])
<1>1. Undisturbed
  <2>1. entries' = [entries EXCEPT ![s.d][s.f] = Nil]
    BY DEF DeleteEntry, MissEntry
  <2>2. EntriesShrink
    BY <2>1, EntryGoes
  <2> QED
    BY <2>2 DEF DeleteEntry, MissEntry, Loosens, Undisturbed
<1>2. todo[t] # <<>> /\ s.do \in {"delete", "miss"}
  BY DEF DeleteEntry, MissEntry, Does
<1>3. CASE Done(t)
  BY <1>1, <1>2, <1>3, NoSteps, PlainStep DEF WindowSteps, FollowUps
<1>4. CASE ~Done(t)
  <2>1. todo' = [todo EXCEPT ![t] = SubSeq(todo[t], 3, Len(todo[t]))]
    BY <1>4 DEF DeleteEntry, MissEntry, Done
  <2>2. IsSeq(todo[t])
    BY DEF RecordsInv, Typed, StepsTyped
  <2>3. /\ IsSeq(SubSeq(todo[t], 3, Len(todo[t])))
        /\ \A x \in Elems(SubSeq(todo[t], 3, Len(todo[t]))) : x \in Pending(t)
    BY <2>2, SubSeqOf DEF Pending
  <2>4. \A x \in Pending(t) : x.do \notin WindowSteps
    BY <1>2, NoWindowStep DEF WindowSteps, FollowUps
  <2> HIDE DEF RecordsInv
  <2> QED
    BY <1>1, <2>1, <2>3, <2>4, PlainList
<1> QED
  BY <1>3, <1>4

\* SyncPresentFile: the checksum of the entry, and no more of it.
LEMMA PresentKeeps ==
  ASSUME RecordsInv, Present(Oper)
  PROVE  RecordsInv'
<1> DEFINE s == Head(todo[Oper])
<1>0. Oper \in Threads /\ todo[Oper] # <<>> /\ s.do = "present"
  BY DEF Threads, Present, Does
<1>1. EntriesShrink
  <2>1. /\ DOMAIN entries = Paths /\ \A x \in Paths : DOMAIN entries[x] = Payloads
        /\ \A x \in Paths, y \in Payloads : entries[x][y] = Nil \/ IsEntry(entries[x][y])
    BY DEF RecordsInv, Typed, EntriesTyped
  <2>2. CASE UNCHANGED entries
    BY <2>1, <2>2 DEF EntriesShrink
  <2>3. CASE entries' # entries
    <3>1. /\ entries[s.d][s.f] # Nil
          /\ entries' = [entries EXCEPT ![s.d][s.f] = [entries[s.d][s.f] EXCEPT !.sum = "good"]]
      BY <2>3 DEF Present
    <3>2. PICK e : e = entries[s.d][s.f]
      OBVIOUS
    <3>3. PICK g : g = [e EXCEPT !.sum = "good"]
      OBVIOUS
    <3>4. IsEntry(e) => IsEntry(g) /\ g.noted = e.noted /\ g.start = e.start /\ g.end = e.end
      BY <3>3 DEF IsEntry
    <3>5. entries' = [entries EXCEPT ![s.d][s.f] = g]
      BY <3>1, <3>2, <3>3
    <3>6. DOMAIN entries' = Paths /\ \A x \in Paths : DOMAIN entries'[x] = Payloads
      BY <2>1, <3>5
    <3>7. \A x \in Paths, y \in Payloads :
            \/ entries'[x][y] = entries[x][y]
            \/ x = s.d /\ y = s.f /\ entries'[x][y] = g
      BY <2>1, <3>5
    <3> HIDE DEF RecordsInv
    <3>8. ASSUME NEW x \in Paths, NEW y \in Payloads, entries'[x][y] # Nil
          PROVE  /\ entries[x][y] # Nil /\ IsEntry(entries'[x][y])
                 /\ entries'[x][y].noted => entries[x][y].noted
                 /\ entries'[x][y].start = entries[x][y].start /\ entries'[x][y].end = entries[x][y].end
      <4>1. CASE entries'[x][y] = entries[x][y]
        BY <2>1, <3>8, <4>1
      <4>2. CASE x = s.d /\ y = s.f /\ entries'[x][y] = g
        <5>1. entries[x][y] = e /\ e # Nil
          BY <3>1, <3>2, <4>2
        <5>2. IsEntry(e)
          BY <2>1, <5>1
        <5> QED
          BY <3>4, <4>2, <5>1, <5>2
      <4> QED
        BY <3>7, <4>1, <4>2
    <3> QED
      BY <3>6, <3>8 DEF EntriesShrink
  <2> QED
    BY <2>2, <2>3
<1>2. Undisturbed
  BY <1>1 DEF Present, Undisturbed
<1>3. Plain(Step("read", s.d, Nil))
  BY PlainSteps
<1>4. Done(Oper) \/ \E p : IsSeq(p) /\ (\A x \in Elems(p) : Plain(x)) /\ ThenDo(Oper, p)
  BY <1>3, NoSteps, OnePlain DEF Present
<1> QED
  BY <1>0, <1>2, <1>4, NoSteps, PlainStep DEF WindowSteps, FollowUps

\* The operator begins steps of a plain kind.
LEMMA BeginsPlain ==
  ASSUME RecordsInv, NEW q, Begin(q), IsSeq(q), \A x \in Elems(q) : Plain(x),
         UNCHANGED <<dirs, entries, window>>, loose \subseteq loose'
  PROVE  RecordsInv'
<1>1. Oper \in Threads /\ todo[Oper] = <<>> /\ todo' = [todo EXCEPT ![Oper] = q]
  BY DEF Threads, Begin, Free
<1>2. Undisturbed
  BY NothingElse DEF Begin, RecordsInv, Typed
<1> QED
  BY <1>1, <1>2, PlainBegin

\* A finite set of files has finitely many steps.
LEMMA FiniteImage ==
  ASSUME NEW f, IsFiniteSet(DOMAIN f), f = [x \in DOMAIN f |-> f[x]]
  PROVE  IsFiniteSet({f[x] : x \in DOMAIN f})
<1>1. f \in Surjection(DOMAIN f, {f[x] : x \in DOMAIN f})
  BY DEF Surjection
<1> QED
  BY <1>1, FS_Surjection

\* The SFV is saved, then each listed file is looked at (the SFV's hook, SITE RESCAN).
LEMMA ListedSteps ==
  ASSUME NEW d, NEW S, IsFiniteSet(S), \A x \in S : Plain(x)
  PROVE  /\ IsSeq(<<Step("find", d, Nil)>> \o SetToSeq(S))
         /\ \A x \in Elems(<<Step("find", d, Nil)>> \o SetToSeq(S)) : Plain(x)
<1>1. Plain(Step("find", d, Nil))
  BY PlainSteps
<1>2. IsSeq(SetToSeq(S)) /\ \A x \in Elems(SetToSeq(S)) : Plain(x)
  BY SetToSeqOf
<1>3. IsSeq(<<Step("find", d, Nil)>>) /\ \A x \in Elems(<<Step("find", d, Nil)>>) : Plain(x)
  BY <1>1, OnePlain
<1> QED
  BY <1>2, <1>3, ConcatOf

\* SITE DELE, SITE RESCAN, the SFV's hook, and the file that changes on the slave.
LEMMA BeginsKeep ==
  ASSUME RecordsInv,
         \/ \E d, f : DeleteFile(d, f) \/ Spoil(d, f)
         \/ \E d, del : Rescan(d, del)
         \/ \E u \in Users : \E d : StoreSfv(u, d)
  PROVE  RecordsInv'
<1>1. ASSUME NEW d, NEW f, DeleteFile(d, f) PROVE RecordsInv'
  <2>1. Plain(Step("delete", d, f)) /\ Plain(Step("clear", d, f))
    BY PlainSteps
  <2> QED
    BY <1>1, <2>1, TwoSteps, BeginsPlain DEF DeleteFile
<1>2. ASSUME NEW d, NEW f, Spoil(d, f) PROVE RecordsInv'
  BY <1>2, NoSteps, BeginsPlain DEF Spoil
<1>3. ASSUME NEW d, NEW del, Rescan(d, del) PROVE RecordsInv'
  <2> DEFINE S == {[do |-> "scan", d |-> d, f |-> f, del |-> del] : f \in Listed}
  <2>1. IsFiniteSet(S)
    <3> DEFINE g == [f \in Listed |-> [do |-> "scan", d |-> d, f |-> f, del |-> del]]
    <3>1. DOMAIN g = Listed /\ S = {g[f] : f \in DOMAIN g} /\ g = [f \in DOMAIN g |-> g[f]]
      OBVIOUS
    <3> QED
      BY <3>1, RaceRecordsAssumption, FiniteImage
  <2>2. \A x \in S : Plain(x)
    BY DEF Plain, IsStep, WindowSteps
  <2> DEFINE q == <<Step("find", d, Nil)>> \o SetToSeq(S)
  <2>3. IsSeq(q) /\ \A x \in Elems(q) : Plain(x)
    BY <2>1, <2>2, ListedSteps
  <2>4. Begin(q) /\ UNCHANGED <<dirs, entries, window>> /\ loose \subseteq loose'
    BY <1>3 DEF Rescan, Overtakes
  <2> HIDE DEF q
  <2> QED
    BY <2>3, <2>4, BeginsPlain
<1>4. ASSUME NEW u \in Users, NEW d, StoreSfv(u, d) PROVE RecordsInv'
  <2> DEFINE S == {Step("verify", d, f) : f \in Listed}
  <2>1. IsFiniteSet(S)
    <3> DEFINE g == [f \in Listed |-> Step("verify", d, f)]
    <3>1. DOMAIN g = Listed /\ S = {g[f] : f \in DOMAIN g} /\ g = [f \in DOMAIN g |-> g[f]]
      OBVIOUS
    <3> QED
      BY <3>1, RaceRecordsAssumption, FiniteImage
  <2>2. \A x \in S : Plain(x)
    BY PlainSteps
  <2> DEFINE q == <<Step("find", d, Nil)>> \o SetToSeq(S)
  <2>3. IsSeq(q) /\ \A x \in Elems(q) : Plain(x)
    BY <2>1, <2>2, ListedSteps
  <2>4. u \in Threads /\ todo[u] = <<>> /\ todo' = [todo EXCEPT ![u] = q]
    BY <1>4 DEF StoreSfv, Threads, Free
  <2>5. Undisturbed
    BY <1>4, NothingElse DEF StoreSfv, Overtakes
  <2> HIDE DEF q
  <2> QED
    BY <2>3, <2>4, <2>5, PlainBegin
<1> QED
  BY <1>1, <1>2, <1>3, <1>4

-----------------------------------------------------------------------------
(* What an operator's change of the index is followed by.                  *)

\* The database's share: the window step that comes after it stays the only one.
LEMMA FollowUpDone ==
  ASSUME RecordsInv, Undisturbed, todo[Oper] # <<>>, Head(todo[Oper]).do \in FollowUps,
         \/ Done(Oper)
         \/ \E x : x.do = "uncache" /\ IsStep(x) /\ ThenDo(Oper, <<x>>)
  PROVE  RecordsInv'
<1> DEFINE r == Tail(todo[Oper])
<1>0. Oper \in Threads
  BY DEF Threads
<1>1. /\ DOMAIN todo = Threads /\ IsSeq(todo[Oper]) /\ OneWindowStep(todo[Oper])
      /\ \A t \in Threads : IsSeq(todo[t])
      /\ (\E x \in Pending(Oper) : x.do \in WindowSteps) =>
           \A x \in Pending(Oper) : x.do \in WindowSteps \cup FollowUps
  BY <1>0 DEF RecordsInv, Typed, StepsTyped, OneAtATime
<1>2. /\ IsSeq(r) /\ Elems(r) \subseteq Pending(Oper) /\ OneWindowStep(r)
      /\ \A x \in Pending(Oper) : x.do \in WindowSteps => x \in Elems(r)
  BY <1>1, TailOf, OneTail DEF Pending, WindowSteps, FollowUps
<1>3. \A q : todo' = [todo EXCEPT ![Oper] = q] =>
        /\ DOMAIN todo' = Threads /\ todo'[Oper] = q /\ Pending(Oper)' = Elems(q)
        /\ \A t \in Threads \ {Oper} : todo'[t] = todo[t] /\ Pending(t)' = Pending(t)
  BY <1>0, <1>1 DEF Pending
<1> HIDE DEF RecordsInv, r
<1>4. CASE Done(Oper)
  <2>1. todo' = [todo EXCEPT ![Oper] = r]
    BY <1>4 DEF Done, r
  <2>2. /\ DOMAIN todo' = Threads /\ todo'[Oper] = r /\ Pending(Oper)' = Elems(r)
        /\ \A t \in Threads \ {Oper} : todo'[t] = todo[t] /\ Pending(t)' = Pending(t)
    BY <1>3, <2>1
  <2> QED
    BY <1>1, <1>2, <2>2, StepsGoOn
<1>5. ASSUME NEW x, x.do = "uncache", IsStep(x), ThenDo(Oper, <<x>>)
      PROVE  RecordsInv'
  <2> DEFINE q == <<x>> \o r
  <2>1. todo' = [todo EXCEPT ![Oper] = q]
    BY <1>5 DEF ThenDo, r
  <2>2. x.do \notin WindowSteps /\ Plain(x)
    BY <1>5 DEF WindowSteps, Plain
  <2>3. IsSeq(q) /\ Elems(q) = {x} \cup Elems(r)
    BY <1>2, OneStep, ConcatOf
  <2>4. OneWindowStep(q)
    BY <1>2, <2>2, OneConcat
  <2> HIDE DEF q
  <2>5. /\ DOMAIN todo' = Threads /\ todo'[Oper] = q /\ Pending(Oper)' = Elems(q)
        /\ \A t \in Threads \ {Oper} : todo'[t] = todo[t] /\ Pending(t)' = Pending(t)
    BY <1>3, <2>1
  <2>6. (\E y \in Elems(q) : y.do \in WindowSteps) => \A y \in Elems(q) : y.do \in WindowSteps \cup FollowUps
    BY <1>1, <1>2, <1>5, <2>2, <2>3 DEF FollowUps
  <2> QED
    BY <1>1, <1>2, <2>2, <2>3, <2>4, <2>5, <2>6, StepsGoOn
<1> QED
  BY <1>4, <1>5

\* Dropping, moving and scrubbing the release's rows, and the cached id.
LEMMA FollowUpsKeep ==
  ASSUME RecordsInv, DropPath(Oper) \/ Uncache(Oper) \/ ScrubRelease(Oper) \/ MoveRelease(Oper)
  PROVE  RecordsInv'
<1> DEFINE s == Head(todo[Oper])
<1>1. Undisturbed
  BY NothingElse DEF DropPath, Uncache, ScrubRelease, MoveRelease
<1>2. todo[Oper] # <<>> /\ s.do \in FollowUps
  BY DEF DropPath, Uncache, ScrubRelease, MoveRelease, Does, FollowUps
<1>3. CASE DropPath(Oper) \/ Uncache(Oper) \/ ScrubRelease(Oper)
  <2>1. Done(Oper)
    BY <1>3 DEF DropPath, Uncache, ScrubRelease
  <2> QED
    BY <1>1, <1>2, <2>1, FollowUpDone
<1>4. CASE MoveRelease(Oper)
  <2>1. s.do = "dbmove" /\ Oper \in Threads
    BY <1>4 DEF MoveRelease, Does, Threads
  <2>2. s \in [do : {s.do}, d : Paths, f : {s.f}, to : Paths]
    BY <1>2, <2>1, TailOf DEF RecordsInv, Typed, StepsTyped, Pending, IsStep
  <2>3. [s EXCEPT !.do = "uncache"].do = "uncache"
    BY <2>2
  <2>4. IsStep([s EXCEPT !.do = "uncache"])
    BY <2>3 DEF IsStep
  <2>5. CASE ThenDo(Oper, <<[s EXCEPT !.do = "uncache"]>>)
    BY <1>1, <1>2, <2>3, <2>4, <2>5, FollowUpDone
  <2>6. CASE ThenDo(Oper, <<>>)
    <3>1. IsSeq(todo[Oper]) /\ IsSeq(Tail(todo[Oper]))
      BY <1>2, <2>1, TailOf DEF RecordsInv, Typed, StepsTyped
    <3>2. <<>> \o Tail(todo[Oper]) = Tail(todo[Oper])
      BY <3>1 DEF IsSeq
    <3>3. Done(Oper)
      BY <2>6, <3>2 DEF ThenDo, Done
    <3> QED
      BY <1>1, <1>2, <3>3, FollowUpDone
  <2> QED
    BY <1>4, <2>5, <2>6 DEF MoveRelease
<1> QED
  BY <1>3, <1>4

\* The window's share.
LEMMA WindowStepDone ==
  ASSUME RecordsInv, Done(Oper), todo[Oper] # <<>>, Head(todo[Oper]).do \in WindowSteps,
         UNCHANGED <<dirs, entries, stores, races, loose>>, WindowsTyped',
         \A d \in dirs \ loose, f \in Payloads :
           IsNoted(d, f) /\ (Covers(window[d], entries[d][f])
                               \/ (Head(todo[Oper]).do = "winmove" /\ Head(todo[Oper]).to = d))
             => Covers(window'[d], entries[d][f])
  PROVE  RecordsInv'
<1> DEFINE s == Head(todo[Oper])
           r == Tail(todo[Oper])
<1>0. Oper \in Threads
  BY DEF Threads
<1>1. /\ DOMAIN todo = Threads /\ IsSeq(todo[Oper]) /\ OneWindowStep(todo[Oper])
      /\ \A t \in Threads : IsSeq(todo[t]) /\ \A x \in Pending(t) : IsStep(x)
  BY <1>0 DEF RecordsInv, Typed, StepsTyped, OneAtATime
<1>2. /\ IsSeq(r) /\ Elems(r) \subseteq Pending(Oper) /\ OneWindowStep(r)
      /\ \A x \in Elems(r) : x.do \notin WindowSteps
      /\ \A x \in Pending(Oper) : x.do \in WindowSteps => x = s
  BY <1>1, TailOf, OneTail DEF Pending
<1>3. /\ DOMAIN todo' = Threads /\ todo'[Oper] = r /\ Pending(Oper)' = Elems(r)
      /\ \A t \in Threads \ {Oper} : todo'[t] = todo[t] /\ Pending(t)' = Pending(t)
  BY <1>0, <1>1 DEF Done, Pending
<1> HIDE DEF r
<1>4. \A t \in Threads : IsSeq(todo'[t]) /\ Pending(t)' \subseteq Pending(t)
  BY <1>1, <1>2, <1>3
<1>5. Typed'
  <2>1. StepsTyped'
    BY <1>1, <1>3, <1>4 DEF StepsTyped
  <2>2. EntriesTyped'
    BY DEF RecordsInv, Typed, EntriesTyped
  <2> QED
    BY <2>1, <2>2 DEF RecordsInv, Typed
<1>6. Stamped' /\ Tidy'
  BY <1>4 DEF RecordsInv, Stamped, Tidy
<1>7. OneAtATime'
  BY <1>2, <1>3 DEF RecordsInv, OneAtATime
<1>8. Harmless'
  BY <1>2, <1>3 DEF Harmless, WindowSteps
<1>9. Covered'
  <2> SUFFICES ASSUME NEW d \in dirs \ loose, NEW f \in Payloads, IsNoted(d, f)
               PROVE  Covers(window'[d], entries[d][f])
    BY DEF Covered, IsNoted
  <2>1. \/ Covers(window[d], entries[d][f])
        \/ \E x \in Pending(Oper) : x.do = "winmove" /\ x.to = d
    BY DEF RecordsInv, Covered
  <2> QED
    BY <1>2, <2>1 DEF WindowSteps
<1> QED
  BY <1>5, <1>6, <1>7, <1>8, <1>9 DEF RecordsInv

\* InvalidateReleaseStateForPath of a directory that is gone, the scrub's reset of a
\* window nobody was noted in, RenameReleaseState to a directory it covers.
LEMMA WindowsKeep ==
  ASSUME RecordsInv, Forget(Oper) \/ ResetWindow(Oper) \/ MoveWindow(Oper)
  PROVE  RecordsInv'
<1> DEFINE s == Head(todo[Oper])
<1>0. Oper \in Threads
  BY DEF Threads
<1>1. /\ Done(Oper) /\ todo[Oper] # <<>> /\ s.do \in WindowSteps
      /\ UNCHANGED <<dirs, entries, stores, races, loose>>
  BY DEF Forget, ResetWindow, MoveWindow, Does, WindowSteps
<1>2. s \in Pending(Oper) /\ IsStep(s)
  BY <1>0, <1>1, TailOf DEF RecordsInv, Typed, StepsTyped, Pending
<1>3. dirs \subseteq Paths /\ DOMAIN window = Paths /\ \A d \in Paths : window[d] = Nil \/ IsWindow(window[d])
  BY DEF RecordsInv, Typed, WindowsTyped
<1>4. ASSUME window' = [window EXCEPT ![s.d] = Nil], s.d \in Paths, s.do # "winmove",
             s.d \notin dirs \ loose \/ \A f \in Payloads : ~IsNoted(s.d, f)
      PROVE  RecordsInv'
  <2>1. WindowsTyped'
    BY <1>3, <1>4 DEF WindowsTyped
  <2>2. \A d \in dirs \ loose, f \in Payloads :
          IsNoted(d, f) /\ Covers(window[d], entries[d][f]) => Covers(window'[d], entries[d][f])
    BY <1>3, <1>4
  <2> QED
    BY <1>1, <1>4, <2>1, <2>2, WindowStepDone
<1>5. CASE Forget(Oper)
  <2>1. s.do = "forget" /\ s.d \in Paths /\ s.d \notin dirs
    BY <1>2, <1>5 DEF Forget, Does, IsStep, RecordsInv, Harmless
  <2> QED
    BY <1>4, <1>5, <2>1 DEF Forget
<1>6. CASE ResetWindow(Oper)
  <2>1. s.do = "reset" /\ s.d \in Paths /\ (s.d \in loose \/ \A f \in Payloads : ~IsNoted(s.d, f))
    BY <1>2, <1>6 DEF ResetWindow, Does, IsStep, RecordsInv, Harmless
  <2> QED
    BY <1>4, <1>6, <2>1 DEF ResetWindow
<1>7. CASE MoveWindow(Oper)
  <2>1. /\ s.do = "winmove" /\ s.d \in Paths /\ s.to \in Paths /\ s.d \notin dirs
        /\ s.to \in loose \/ \A f \in Payloads : IsNoted(s.to, f) => Covers(window[s.d], entries[s.to][f])
    BY <1>2, <1>7 DEF MoveWindow, Does, IsStep, RecordsInv, Harmless
  <2>2. CASE window[s.d] = Nil
    <3>1. window' = window
      BY <1>7, <2>2 DEF MoveWindow
    <3>2. s.to \in loose \/ \A f \in Payloads : ~IsNoted(s.to, f)
      BY <2>1, <2>2 DEF Covers
    <3>3. WindowsTyped'
      BY <1>3, <3>1 DEF WindowsTyped
    <3> QED
      BY <1>1, <2>1, <3>1, <3>2, <3>3, WindowStepDone
  <2>3. CASE window[s.d] # Nil
    <3>1. window' = [window EXCEPT ![s.to] = window[s.d], ![s.d] = Nil]
      BY <1>7, <2>3 DEF MoveWindow
    <3>2. /\ DOMAIN window' = Paths /\ window'[s.d] = Nil
          /\ s.to # s.d => window'[s.to] = window[s.d]
          /\ \A d \in Paths : d # s.d /\ d # s.to => window'[d] = window[d]
      BY <1>3, <2>1, <3>1
    <3>3. WindowsTyped'
      BY <1>3, <2>1, <3>2 DEF WindowsTyped
    <3>4. ASSUME NEW d \in dirs \ loose, NEW f \in Payloads, IsNoted(d, f),
                 Covers(window[d], entries[d][f]) \/ s.to = d
          PROVE  Covers(window'[d], entries[d][f])
      <4>1. d \in Paths /\ d # s.d
        BY <1>3, <2>1
      <4>2. CASE d = s.to
        BY <2>1, <3>2, <3>4, <4>1, <4>2
      <4>3. CASE d # s.to
        BY <3>2, <3>4, <4>1, <4>3
      <4> QED
        BY <4>2, <4>3
    <3> QED
      BY <1>1, <3>3, <3>4, WindowStepDone
  <2> QED
    BY <2>2, <2>3
<1> QED
  BY <1>5, <1>6, <1>7

-----------------------------------------------------------------------------
(* Uploads and their hooks.                                                *)

\* A window is not Nil.
LEMMA WindowIsSomething == \A w : IsWindow(w) => w # Nil
  BY RaceRecordsAssumption DEF IsWindow

\* The window's times only widen.
LEMMA NotedWidens ==
  ASSUME NEW w, w = Nil \/ IsWindow(w), NEW s \in Int, NEW e \in Nat
  PROVE  /\ IsWindow(Noted(w, s, e)) /\ Noted(w, s, e) # Nil
         /\ Noted(w, s, e).payload /\ Noted(w, s, e).start <= s /\ Noted(w, s, e).end >= e
         /\ w # Nil /\ w.payload => Noted(w, s, e).start <= w.start /\ Noted(w, s, e).end >= w.end
<1>1. CASE w = Nil
  <2>1. Noted(w, s, e) = [start |-> s, end |-> e, payload |-> TRUE]
    BY <1>1 DEF Noted
  <2>2. PICK v : v = [start |-> s, end |-> e, payload |-> TRUE]
    OBVIOUS
  <2>3. IsWindow(v) /\ v.payload /\ v.start <= s /\ v.end >= e
    BY <2>2 DEF IsWindow
  <2> QED
    BY <1>1, <2>1, <2>2, <2>3, WindowIsSomething
<1>2. CASE w # Nil
  <2> DEFINE a == IF ~w.payload \/ s < w.start THEN s ELSE w.start
             z == IF e > w.end THEN e ELSE w.end
  <2>0. w.start \in Int /\ w.end \in Nat
    BY <1>2 DEF IsWindow
  <2>1. /\ a \in Int /\ z \in Nat /\ a <= s /\ z >= e /\ z >= w.end
        /\ w.payload => a <= w.start
    BY <2>0
  <2>2. Noted(w, s, e) = [start |-> a, end |-> z, payload |-> TRUE]
    BY <1>2 DEF Noted
  <2> HIDE DEF a, z
  <2>3. PICK v : v = [start |-> a, end |-> z, payload |-> TRUE]
    OBVIOUS
  <2>4. /\ IsWindow(v) /\ v.payload /\ v.start <= s /\ v.end >= e /\ v.end >= w.end
        /\ w.payload => v.start <= w.start
    BY <2>1, <2>3 DEF IsWindow
  <2> QED
    BY <2>2, <2>3, <2>4, WindowIsSomething
<1> QED
  BY <1>1, <1>2

\* What the window covered it covers after another transfer was noted.
LEMMA CoversStill ==
  ASSUME NEW w, w = Nil \/ IsWindow(w), NEW s \in Int, NEW e \in Nat, NEW x, IsEntry(x), Covers(w, x)
  PROVE  Covers(Noted(w, s, e), x)
<1>1. /\ w # Nil /\ w.payload /\ w.start \in Int /\ w.end \in Nat /\ x.start \in Int /\ x.end \in Nat
      /\ w.start <= x.start /\ w.end >= x.end
  BY DEF Covers, IsWindow, IsEntry
<1>2. PICK v : v = Noted(w, s, e)
  OBVIOUS
<1>3. /\ v # Nil /\ v.payload /\ v.start <= w.start /\ v.end >= w.end /\ v.start \in Int /\ v.end \in Nat
  BY <1>1, <1>2, NotedWidens DEF IsWindow
<1> QED
  BY <1>1, <1>2, <1>3 DEF Covers

\* MKD: the directory is empty, and the operator's session has nothing left to do.
LEMMA MkdirKeeps ==
  ASSUME RecordsInv, NEW d \in Paths, Mkdir(d)
  PROVE  RecordsInv'
<1>1. /\ d \notin dirs /\ todo[Oper] = <<>> /\ dirs' = dirs \cup {d} /\ stores \in Nat
      /\ window' = [window EXCEPT ![d] = Seeded(window[d], stores)]
      /\ UNCHANGED <<todo, entries, stores, races>> /\ loose \subseteq loose' \cup {d}
  BY DEF Mkdir, Free, RecordsInv, Typed
<1>2. Pending(Oper) = {} /\ \A t : Pending(t)' = Pending(t)
  BY <1>1, NoSteps DEF Pending
<1>3. \A w : w = Nil \/ IsWindow(w) => IsWindow(Seeded(w, stores))
  BY <1>1 DEF Seeded, IsWindow
<1>4. /\ DOMAIN window = Paths /\ \A x \in Paths : window[x] = Nil \/ IsWindow(window[x])
      /\ dirs \subseteq Paths
  BY DEF RecordsInv, Typed, WindowsTyped
<1>5. Typed'
  <2>1. WindowsTyped'
    BY <1>1, <1>3, <1>4 DEF WindowsTyped
  <2>2. StepsTyped' /\ EntriesTyped'
    BY <1>1, <1>2 DEF RecordsInv, Typed, StepsTyped, EntriesTyped
  <2> QED
    BY <1>1, <2>1, <2>2 DEF RecordsInv, Typed
<1>6. Stamped' /\ Tidy' /\ OneAtATime'
  BY <1>1, <1>2 DEF RecordsInv, Stamped, Tidy, OneAtATime
<1>7. Harmless'
  BY <1>2 DEF Harmless
<1>8. Covered'
  <2> SUFFICES ASSUME NEW x \in dirs' \ loose', NEW f \in Payloads, IsNoted(x, f)
               PROVE  Covers(window'[x], entries[x][f])
    BY <1>1 DEF Covered, IsNoted
  <2>1. x # d /\ x \in dirs \ loose
    BY <1>1 DEF RecordsInv, Tidy, IsNoted
  <2> QED
    BY <1>1, <1>2, <1>4, <2>1 DEF RecordsInv, Covered
<1> QED
  BY <1>5, <1>6, <1>7, <1>8 DEF RecordsInv

\* The daemon starts again: no window, nothing to do, no file noted.
LEMMA RestartKeeps ==
  ASSUME RecordsInv, NEW late, NEW weak, Restart(late, weak)
  PROVE  RecordsInv'
<1>1. /\ UNCHANGED <<dirs, stores, races>> /\ stores \in Nat
      /\ window' = [d \in Paths |-> Nil] /\ todo' = [t \in Threads |-> <<>>]
  BY DEF Restart, RecordsInv, Typed
<1>2. \A t \in Threads : Pending(t)' = {}
  BY <1>1, NoSteps DEF Pending
<1> DEFINE base == Reconciled(db, dirs \ late)
           nobodys == [by |-> Weak, sum |-> "zero", timed |-> FALSE, noted |-> FALSE, start |-> 0, end |-> 0]
           cleared(d, f) == [entries[d][f] EXCEPT !.noted = FALSE, !.start = 0, !.end = 0]
           hydrated(d, f) == [nobodys EXCEPT !.by = Rows(base, d)[f].by, !.sum = Rows(base, d)[f].sum, !.timed = TRUE]
           Again(d, f) ==
             IF onSlave[d][f] = Nil \/ entries[d][f] = Nil THEN Nil
             ELSE CASE d \notin late /\ <<d, f>> \notin weak -> cleared(d, f)
               [] d \notin late /\ <<d, f>> \in weak /\ Hydrates(Rows(base, d)[f]) -> hydrated(d, f)
               [] OTHER -> nobodys
<1> HIDE DEF Again, base, cleared, hydrated, nobodys
<1>3. /\ DOMAIN entries' = Paths /\ \A d \in Paths : DOMAIN entries'[d] = Payloads
      /\ \A d \in Paths, f \in Payloads : entries'[d][f] = Again(d, f)
  <2>1. entries' = [d \in Paths |-> [f \in Payloads |-> Again(d, f)]]
    BY Zenon DEF Restart, Again, base, cleared, hydrated, nobodys
  <2> QED
    BY <2>1
<1>4. \A d \in Paths, f \in Payloads : entries[d][f] = Nil => entries'[d][f] = Nil
  BY <1>3 DEF Again
<1>5. ASSUME NEW d \in Paths, NEW f \in Payloads, entries'[d][f] # Nil
      PROVE  IsEntry(entries'[d][f]) /\ ~entries'[d][f].noted /\ entries'[d][f].end = 0
  <2>1. PICK e : e = entries[d][f]
    OBVIOUS
  <2>2. IsEntry(e)
    BY <1>5, <1>4, <2>1 DEF RecordsInv, Typed, EntriesTyped
  <2>3. PICK no \in BOOLEAN, z \in Nat : no = FALSE /\ z = 0
    OBVIOUS
  <2>4. PICK c : c = [e EXCEPT !.noted = no, !.start = z, !.end = z]
    OBVIOUS
  <2>5. PICK row : row = Rows(base, d)[f]
    OBVIOUS
  <2>6. PICK h : h = [by |-> row.by, sum |-> row.sum, timed |-> TRUE, noted |-> FALSE, start |-> 0, end |-> 0]
    OBVIOUS
  <2>7. IsEntry(c) /\ ~c.noted /\ c.end = 0
    <3>1. z \in Int
      OBVIOUS
    <3>2. IsEntry(c) /\ c.noted = no /\ c.end = z
      BY <2>2, <2>4, <3>1 DEF IsEntry
    <3> QED
      BY <2>3, <3>2
  <2>8. IsEntry(h) /\ ~h.noted /\ h.end = 0
    BY <2>6 DEF IsEntry
  <2>9. IsEntry(nobodys) /\ ~nobodys.noted /\ nobodys.end = 0
    BY DEF IsEntry, nobodys
  <2>10. cleared(d, f) = c
    BY <2>1, <2>3, <2>4, Zenon DEF cleared
  <2>11. hydrated(d, f) = h
    <3>1. hydrated(d, f) =
            [[by |-> Weak, sum |-> "zero", timed |-> FALSE, noted |-> FALSE, start |-> 0, end |-> 0]
               EXCEPT !.by = row.by, !.sum = row.sum, !.timed = TRUE]
      BY <2>5, Zenon DEF hydrated, nobodys
    <3> QED
      BY <2>6, <3>1
  <2>12. Again(d, f) \in {Nil, c, h, nobodys}
    BY <2>10, <2>11 DEF Again
  <2> QED
    BY <1>3, <1>5, <2>7, <2>8, <2>9, <2>12
<1>6. Typed'
  <2>1. WindowsTyped' /\ EntriesTyped'
    BY <1>1, <1>3, <1>5 DEF WindowsTyped, EntriesTyped
  <2>2. StepsTyped'
    BY <1>1, <1>2, NoSteps DEF StepsTyped
  <2> QED
    BY <1>1, <2>1, <2>2 DEF RecordsInv, Typed
<1>7. Stamped' /\ Tidy'
  BY <1>1, <1>2, <1>5, <1>4 DEF RecordsInv, Stamped, Tidy
<1>8. OneAtATime' /\ Harmless'
  <2>0. Oper \in Threads
    BY DEF Threads
  <2>1. todo'[Oper] = <<>>
    BY <1>1, <2>0
  <2> QED
    BY <1>2, <2>0, <2>1 DEF OneAtATime, OneWindowStep, Harmless
<1>9. Covered'
  <2>1. dirs' \subseteq Paths
    BY <1>1 DEF RecordsInv, Typed
  <2> QED
    BY <1>5, <2>1 DEF Covered, IsNoted
<1> QED
  BY <1>6, <1>7, <1>8, <1>9 DEF RecordsInv

\* A session that starts: its steps are new, the rest is as it was.
LEMMA OnlyThese ==
  ASSUME RecordsInv, NEW t \in Threads, NEW q, todo' = [todo EXCEPT ![t] = q]
  PROVE  /\ DOMAIN todo' = Threads /\ todo'[t] = q /\ Pending(t)' = Elems(q)
         /\ \A o \in Threads \ {t} : todo'[o] = todo[o] /\ Pending(o)' = Pending(o)
  BY DEF RecordsInv, Typed, StepsTyped, Pending

\* An upload: its entry's times are those of its hook, later than any other's, and
\* what an operator still has to do about the directory loosens it.
LEMMA StoreFileKeeps ==
  ASSUME RecordsInv, NEW u \in Users, NEW d \in Paths, NEW f \in races.files, NEW sum,
         NEW length \in races.lengths, StoreFile(u, d, f, sum, length)
  PROVE  RecordsInv'
<1> DEFINE start == stores + 1 - length
           end == stores + 1
           rec == [do |-> "find", d |-> d, f |-> f, by |-> u, sum |-> sum]
           hook == [do |-> "hook", d |-> d, f |-> f, sum |-> sum, start |-> start, end |-> end]
           new == [by |-> u, sum |-> sum, timed |-> TRUE, noted |-> FALSE, start |-> start, end |-> end]
<1>0. /\ u \in Threads /\ Oper \in Threads /\ f \in Payloads /\ length \in Nat
      /\ stores \in Nat /\ dirs \subseteq Paths /\ races \in RaceSettings
  BY RaceRecordsAssumption DEF Threads, RecordsInv, Typed
<1>1. /\ todo[u] = <<>> /\ d \in dirs /\ stores' = end /\ UNCHANGED <<dirs, window, races>>
      /\ entries' = [entries EXCEPT ![d][f] = new] /\ entries[d][f] = Nil /\ Overtakes(d)
      /\ \/ todo' = [todo EXCEPT ![u] = <<hook>>]
         \/ todo' = [todo EXCEPT ![u] = <<rec, hook>>]
  BY DEF StoreFile, Free
<1>2. start \in Int /\ end \in Nat \ {0} /\ stores <= end /\ stores # end
  BY <1>0
<1>3. IsEntry(new) /\ ~new.noted /\ new.start = start /\ new.end = end
  BY <1>2 DEF IsEntry
<1>4. /\ hook.do = "hook" /\ hook.d = d /\ hook.end = end /\ hook.start = start /\ IsStep(hook)
  BY <1>0, <1>2 DEF IsStep
<1>5. Plain(rec)
  BY DEF Plain, IsStep, WindowSteps
<1> HIDE DEF rec, hook, new
<1>6. PICK q : /\ IsSeq(q) /\ todo' = [todo EXCEPT ![u] = q]
               /\ \A x \in Elems(q) : x = hook \/ Plain(x)
  <2>1. IsSeq(<<hook>>) /\ \A x \in Elems(<<hook>>) : x = hook
    BY OneStep
  <2>2. IsSeq(<<rec, hook>>) /\ \A x \in Elems(<<rec, hook>>) : x = hook \/ Plain(x)
    BY <1>5, TwoSteps
  <2> QED
    BY <1>1, <2>1, <2>2
<1>7. /\ DOMAIN todo' = Threads /\ todo'[u] = q /\ Pending(u)' = Elems(q)
      /\ \A o \in Threads \ {u} : todo'[o] = todo[o] /\ Pending(o)' = Pending(o)
  BY <1>0, <1>6, OnlyThese
<1>8. /\ DOMAIN entries = Paths /\ \A x \in Paths : DOMAIN entries[x] = Payloads
      /\ \A x \in Paths, y \in Payloads : entries[x][y] = Nil \/ IsEntry(entries[x][y])
  BY DEF RecordsInv, Typed, EntriesTyped
<1>9. /\ DOMAIN entries' = Paths /\ \A x \in Paths : DOMAIN entries'[x] = Payloads
      /\ entries'[d][f] = new
      /\ \A x \in Paths, y \in Payloads : ~(x = d /\ y = f) => entries'[x][y] = entries[x][y]
  BY <1>0, <1>1, <1>8
<1>10. \A t \in Threads : \A x \in Pending(t)' : x \in Pending(t) \/ x = hook \/ Plain(x)
  BY <1>6, <1>7
<1>11. \A x \in Elems(q) : x.do \notin WindowSteps
  BY <1>4, <1>6 DEF Plain, WindowSteps
<1>12. Pending(u) = {}
  BY <1>1, NoSteps DEF Pending
<1>13. u = Oper \/ (u # Oper /\ todo'[Oper] = todo[Oper] /\ Pending(Oper)' = Pending(Oper))
  BY <1>0, <1>7
<1>14. Typed'
  <2>1. StepsTyped'
    BY <1>4, <1>6, <1>7 DEF RecordsInv, Typed, StepsTyped, Plain
  <2>2. EntriesTyped'
    BY <1>3, <1>8, <1>9 DEF EntriesTyped
  <2>3. WindowsTyped'
    BY <1>1 DEF RecordsInv, Typed, WindowsTyped
  <2> QED
    BY <1>0, <1>1, <1>2, <2>1, <2>2, <2>3 DEF Typed
<1>15. Stamped'
  <2>1. \A x \in Paths, y \in Payloads : entries[x][y] # Nil =>
          entries[x][y].end \in Nat /\ entries[x][y].end <= stores
    BY <1>8 DEF RecordsInv, Stamped, IsEntry
  <2>2. ASSUME NEW x \in Paths, NEW y \in Payloads, entries'[x][y] # Nil
        PROVE  /\ entries'[x][y].end <= stores'
               /\ \/ x = d /\ y = f /\ entries'[x][y].end = end /\ entries'[x][y].start = start
                  \/ entries'[x][y] = entries[x][y] /\ entries[x][y].end <= stores
    <3>1. CASE x = d /\ y = f
      <4>1. entries'[x][y].end = end /\ entries'[x][y].start = start
        BY <1>3, <1>9, <3>1
      <4>2. end <= stores'
        BY <1>0, <1>1
      <4> HIDE DEF start, end
      <4> QED
        BY <3>1, <4>1, <4>2
    <3>2. CASE ~(x = d /\ y = f)
      <4>1. entries'[x][y] = entries[x][y]
        BY <1>9, <3>2
      <4>2. entries[x][y].end \in Nat /\ entries[x][y].end <= stores
        BY <2>1, <2>2, <4>1
      <4> QED
        BY <1>0, <1>1, <4>1, <4>2
    <3> QED
      BY <3>1, <3>2
  <2>3. ASSUME NEW t \in Threads, NEW x \in Pending(t)', x.do = "hook"
        PROVE  /\ x.end <= stores'
               /\ \A e \in Paths, g \in Payloads :
                    entries'[e][g] # Nil /\ entries'[e][g].end = x.end => entries'[e][g].start = x.start
    <3>1. CASE x = hook
      <4>1. x.end = end /\ x.start = start
        BY <1>4, <3>1
      <4> QED
        BY <1>0, <1>1, <1>2, <2>2, <4>1
    <3>2. CASE x \in Pending(t)
      <4>1. x.end \in Nat /\ x.end <= stores
        BY <2>3, <3>2 DEF RecordsInv, Stamped, Typed, StepsTyped, IsStep
      <4>2. x.end # end /\ x.end <= stores'
        BY <1>0, <1>1, <4>1
      <4>3. \A e \in Paths, g \in Payloads :
              entries[e][g] # Nil /\ entries[e][g].end = x.end => entries[e][g].start = x.start
        BY <2>3, <3>2 DEF RecordsInv, Stamped
      <4> QED
        BY <2>2, <4>2, <4>3
    <3> QED
      BY <1>10, <2>3, <3>1, <3>2 DEF Plain
  <2> QED
    BY <2>2, <2>3 DEF Stamped
<1>16. Tidy'
  BY <1>1, <1>9 DEF RecordsInv, Tidy
<1>17. OneAtATime'
  BY <1>7, <1>11, <1>13 DEF RecordsInv, OneAtATime, OneWindowStep, Elems
<1>18. ASSUME NEW x \in Pending(Oper), x.do \in WindowSteps, About(x, d)
       PROVE  d \in loose'
  <2>1. PICK i \in DOMAIN todo[Oper] : x = todo[Oper][i]
    BY DEF Pending, Elems
  <2> QED
    BY <1>0, <1>1, <1>18, <2>1 DEF Overtakes, Trailing, WindowSteps
<1>19. loose \subseteq loose'
  BY <1>1 DEF Overtakes
<1>20. \A x \in Paths, y \in Payloads : IsNoted(x, y)' => IsNoted(x, y) /\ entries'[x][y] = entries[x][y]
  BY <1>3, <1>9 DEF IsNoted
<1>21. Harmless'
  <2> SUFFICES ASSUME NEW x \in Pending(Oper)', x.do \in WindowSteps
               PROVE  /\ x.do = "forget" => x.d \notin dirs'
                      /\ x.do = "reset" => x.d \in loose' \/ (NoHook(x.d)' /\ \A g \in Payloads : ~IsNoted(x.d, g)')
                      /\ x.do = "winmove" =>
                           /\ x.d \notin dirs'
                           /\ x.to \in loose' \/ (NoHook(x.to)' /\ \A g \in Payloads :
                                IsNoted(x.to, g)' => Covers(window'[x.d], entries'[x.to][g]))
    BY DEF Harmless, WindowSteps
  <2>1. x \in Pending(Oper)
    BY <1>7, <1>11, <1>13
  <2>2. x.d \in Paths /\ (x.do = "winmove" => x.to \in Paths)
    BY <1>0, <2>1 DEF RecordsInv, Typed, StepsTyped, IsStep, WindowSteps
  <2>3. \A e : e # d /\ NoHook(e) => NoHook(e)'
    BY <1>4, <1>10 DEF NoHook, Plain
  <2>4. CASE x.do = "forget"
    BY <1>1, <2>1, <2>4 DEF RecordsInv, Harmless
  <2>5. CASE x.do = "reset"
    <3>1. x.d = d => d \in loose'
      BY <1>18, <2>1 DEF About
    <3> QED
      BY <1>19, <1>20, <2>1, <2>2, <2>3, <2>5, <3>1 DEF RecordsInv, Harmless
  <2>6. CASE x.do = "winmove"
    <3>1. x.to = d => d \in loose'
      BY <1>18, <2>1, <2>6 DEF About
    <3> QED
      BY <1>1, <1>19, <1>20, <2>1, <2>2, <2>3, <2>6, <3>1 DEF RecordsInv, Harmless
  <2> QED
    BY <2>4, <2>5, <2>6 DEF WindowSteps
<1>22. Covered'
  <2> SUFFICES ASSUME NEW x \in dirs' \ loose', NEW g \in Payloads, IsNoted(x, g)'
               PROVE  \/ Covers(window'[x], entries'[x][g])
                      \/ \E z \in Pending(Oper)' : z.do = "winmove" /\ z.to = x
    BY DEF Covered
  <2>1. x \in dirs \ loose /\ x \in Paths
    BY <1>0, <1>1, <1>19
  <2>2. \/ Covers(window[x], entries[x][g])
        \/ \E z \in Pending(Oper) : z.do = "winmove" /\ z.to = x
    BY <1>20, <2>1 DEF RecordsInv, Covered
  <2> QED
    BY <1>1, <1>12, <1>13, <1>20, <2>1, <2>2
<1> QED
  BY <1>14, <1>15, <1>16, <1>17, <1>21, <1>22 DEF RecordsInv

\* A file that fails its SFV goes, and the hook ends; nothing else changes.
LEMMA HookDiscards ==
  ASSUME RecordsInv, NEW u \in Users, Hook(u), UNCHANGED <<window, entries>>, ThenDo(u, Discard(Head(todo[u]).d, Head(todo[u]).f))
  PROVE  RecordsInv'
<1>1. u \in Threads /\ todo[u] # <<>> /\ Head(todo[u]).do = "hook"
  BY DEF Threads, Hook, Does
<1>2. Undisturbed
  BY NothingElse DEF Hook
<1> QED
  BY <1>1, <1>2, DiscardPlain, PlainStep DEF WindowSteps, FollowUps

\* The hook: the window widens to the transfer, whose entry still has its times when
\* the entry is this transfer's.
LEMMA HookNotes ==
  ASSUME RecordsInv, NEW u \in Users, todo[u] # <<>>, Head(todo[u]).do = "hook",
         window' = [window EXCEPT ![Head(todo[u]).d] = Noted(@, Head(todo[u]).start, Head(todo[u]).end)],
         \/ /\ entries[Head(todo[u]).d][Head(todo[u]).f] # Nil
            /\ entries[Head(todo[u]).d][Head(todo[u]).f].end = Head(todo[u]).end
            /\ entries' = [entries EXCEPT ![Head(todo[u]).d][Head(todo[u]).f].noted = TRUE]
         \/ entries' = entries,
         ThenDo(u, IfComplete(Head(todo[u]).d)),
         UNCHANGED <<dirs, stores, races, loose>>
  PROVE  RecordsInv'
<1>1. PICK s : s = Head(todo[u])
  OBVIOUS
<1>2. u \in Threads /\ Oper \in Threads
  BY DEF Threads
<1>3. /\ s \in Pending(u) /\ s.do = "hook" /\ IsSeq(todo[u])
      /\ s.d \in Paths /\ s.f \in Payloads /\ s.start \in Int /\ s.end \in Nat
  BY <1>1, <1>2, TailOf DEF RecordsInv, Typed, StepsTyped, IsStep, Pending
<1>4. /\ DOMAIN entries = Paths /\ \A x \in Paths : DOMAIN entries[x] = Payloads
      /\ \A x \in Paths, y \in Payloads : entries[x][y] = Nil \/ IsEntry(entries[x][y])
      /\ DOMAIN window = Paths /\ \A x \in Paths : window[x] = Nil \/ IsWindow(window[x])
      /\ dirs \subseteq Paths
  BY DEF RecordsInv, Typed, EntriesTyped, WindowsTyped
<1>5. PICK w : w = Noted(window[s.d], s.start, s.end)
  OBVIOUS
<1>6. /\ IsWindow(w) /\ w # Nil /\ w.payload /\ w.start <= s.start /\ w.end >= s.end
      /\ \A e : IsEntry(e) /\ Covers(window[s.d], e) => Covers(w, e)
  BY <1>3, <1>4, <1>5, NotedWidens, CoversStill
<1>7. DOMAIN window' = Paths /\ window'[s.d] = w /\ \A x \in Paths : x # s.d => window'[x] = window[x]
  BY <1>1, <1>3, <1>4, <1>5
<1>8. \A x \in Paths : \A e : IsEntry(e) /\ Covers(window[x], e) => Covers(window'[x], e)
  BY <1>6, <1>7
<1>9. PICK q : /\ IsSeq(q) /\ todo' = [todo EXCEPT ![u] = q]
               /\ \A x \in Elems(q) : x \in Pending(u) \/ Plain(x)
  <2> DEFINE r == Tail(todo[u])
             p == IfComplete(s.d)
  <2>1. IsSeq(r) /\ Elems(r) \subseteq Pending(u)
    BY <1>3, TailOf DEF Pending
  <2>2. Plain(Step("read", s.d, Nil))
    BY PlainSteps
  <2>3. IsSeq(p) /\ \A x \in Elems(p) : Plain(x)
    BY <2>2, NoSteps, OnePlain DEF IfComplete
  <2>4. todo' = [todo EXCEPT ![u] = p \o r]
    BY <1>1 DEF ThenDo
  <2> HIDE DEF p, r
  <2>5. IsSeq(p \o r) /\ Elems(p \o r) = Elems(p) \cup Elems(r)
    BY <2>1, <2>3, ConcatOf
  <2> QED
    BY <2>1, <2>3, <2>4, <2>5
<1>10. /\ DOMAIN todo' = Threads /\ todo'[u] = q /\ Pending(u)' = Elems(q)
       /\ \A o \in Threads \ {u} : todo'[o] = todo[o] /\ Pending(o)' = Pending(o)
  BY <1>2, <1>9, OnlyThese
<1>11. \A x \in Pending(u) : x.do \notin WindowSteps
  BY <1>1, <1>2, <1>3, NoWindowStep DEF WindowSteps, FollowUps
<1>12. \A t \in Threads : \A x \in Pending(t)' : x \in Pending(t) \/ Plain(x)
  BY <1>9, <1>10
<1>13. \A x \in Elems(q) : x.do \notin WindowSteps
  BY <1>9, <1>11 DEF Plain
<1>14. u = Oper \/ (u # Oper /\ todo'[Oper] = todo[Oper] /\ Pending(Oper)' = Pending(Oper))
  BY <1>2, <1>10
\* The entries: times stay, and at most the hook's own file is noted.
<1>15. /\ DOMAIN entries' = Paths /\ \A x \in Paths : DOMAIN entries'[x] = Payloads
       /\ \A x \in Paths, y \in Payloads :
            \/ entries'[x][y] = entries[x][y]
            \/ /\ x = s.d /\ y = s.f /\ entries[x][y] # Nil
               /\ IsEntry(entries'[x][y]) /\ entries[x][y].end = s.end
               /\ entries'[x][y].start = entries[x][y].start /\ entries'[x][y].end = entries[x][y].end
  <2>1. CASE entries' = entries
    BY <1>4, <2>1
  <2>2. CASE entries' # entries
    <3>1. PICK e : e = entries[s.d][s.f]
      OBVIOUS
    <3>2. IsEntry(e) /\ e # Nil /\ e.end = s.end
      BY <1>1, <1>3, <1>4, <2>2, <3>1
    <3>3. PICK g : g = [e EXCEPT !.noted = TRUE]
      OBVIOUS
    <3>4. IsEntry(g) /\ g.start = e.start /\ g.end = e.end
      BY <3>2, <3>3 DEF IsEntry
    <3>5. entries' = [entries EXCEPT ![s.d][s.f] = g]
      BY <1>1, <2>2, <3>1, <3>3
    <3>6. DOMAIN entries' = Paths /\ \A x \in Paths : DOMAIN entries'[x] = Payloads
      BY <1>4, <3>5
    <3>7. \A x \in Paths, y \in Payloads :
            entries'[x][y] = entries[x][y] \/ (x = s.d /\ y = s.f /\ entries'[x][y] = g)
      BY <1>4, <3>5
    <3> QED
      BY <3>1, <3>2, <3>4, <3>6, <3>7
  <2> QED
    BY <2>1, <2>2
<1>16. \A x \in Paths, y \in Payloads : entries'[x][y] # Nil =>
         /\ entries[x][y] # Nil /\ IsEntry(entries'[x][y])
         /\ entries'[x][y].start = entries[x][y].start /\ entries'[x][y].end = entries[x][y].end
  BY <1>4, <1>15
<1>17. Typed'
  <2>1. StepsTyped'
    BY <1>9, <1>10 DEF RecordsInv, Typed, StepsTyped, Plain
  <2>2. EntriesTyped'
    BY <1>15, <1>16 DEF EntriesTyped
  <2>3. WindowsTyped'
    BY <1>4, <1>6, <1>7 DEF WindowsTyped
  <2> QED
    BY <2>1, <2>2, <2>3 DEF RecordsInv, Typed
<1>18. Stamped'
  <2>1. \A t \in Threads : \A x \in Pending(t)' : x.do = "hook" => x \in Pending(t)
    BY <1>12 DEF Plain
  <2>2. \A d \in Paths, f \in Payloads : entries'[d][f] # Nil => entries'[d][f].end <= stores'
    BY <1>16 DEF RecordsInv, Stamped
  <2>3. ASSUME NEW t \in Threads, NEW x \in Pending(t)', x.do = "hook"
        PROVE  /\ x.end <= stores'
               /\ \A d \in Paths, f \in Payloads :
                    entries'[d][f] # Nil /\ entries'[d][f].end = x.end => entries'[d][f].start = x.start
    <3>1. /\ x.end <= stores
          /\ \A d \in Paths, f \in Payloads :
               entries[d][f] # Nil /\ entries[d][f].end = x.end => entries[d][f].start = x.start
      BY <2>1, <2>3 DEF RecordsInv, Stamped
    <3> QED
      BY <1>16, <3>1
  <2> QED
    BY <2>2, <2>3 DEF Stamped
<1>19. Tidy'
  BY <1>16 DEF RecordsInv, Tidy
<1>20. OneAtATime'
  BY <1>10, <1>13, <1>14 DEF RecordsInv, OneAtATime, OneWindowStep, Elems
<1>21. \A e : NoHook(e) => NoHook(e)' /\ e # s.d
  BY <1>2, <1>3, <1>12 DEF NoHook, Plain
<1>22. Harmless'
  <2> SUFFICES ASSUME NEW x \in Pending(Oper)', x.do \in WindowSteps
               PROVE  /\ x.do = "forget" => x.d \notin dirs'
                      /\ x.do = "reset" => x.d \in loose' \/ (NoHook(x.d)' /\ \A g \in Payloads : ~IsNoted(x.d, g)')
                      /\ x.do = "winmove" =>
                           /\ x.d \notin dirs'
                           /\ x.to \in loose' \/ (NoHook(x.to)' /\ \A g \in Payloads :
                                IsNoted(x.to, g)' => Covers(window'[x.d], entries'[x.to][g]))
    BY DEF Harmless, WindowSteps
  <2>1. x \in Pending(Oper)
    BY <1>10, <1>13, <1>14
  <2>2. x.d \in Paths /\ (x.do = "winmove" => x.to \in Paths)
    BY <1>2, <2>1 DEF RecordsInv, Typed, StepsTyped, IsStep, WindowSteps
  <2>3. \A e \in Paths, g \in Payloads : e # s.d /\ IsNoted(e, g)' =>
          IsNoted(e, g) /\ entries'[e][g] = entries[e][g] /\ IsEntry(entries[e][g])
    BY <1>4, <1>15 DEF IsNoted
  <2>4. CASE x.do = "forget"
    BY <2>1, <2>4 DEF RecordsInv, Harmless
  <2>5. CASE x.do = "reset"
    BY <1>21, <2>1, <2>2, <2>3, <2>5 DEF RecordsInv, Harmless
  <2>6. CASE x.do = "winmove"
    BY <1>8, <1>21, <2>1, <2>2, <2>3, <2>6 DEF RecordsInv, Harmless
  <2> QED
    BY <2>4, <2>5, <2>6 DEF WindowSteps
<1>23. Covered'
  <2> SUFFICES ASSUME NEW x \in dirs \ loose, NEW g \in Payloads, IsNoted(x, g)'
               PROVE  \/ Covers(window'[x], entries'[x][g])
                      \/ \E z \in Pending(Oper)' : z.do = "winmove" /\ z.to = x
    BY DEF Covered
  <2>0. x \in Paths
    BY <1>4
  <2>1. CASE entries'[x][g] = entries[x][g]
    <3>1. IsNoted(x, g) /\ IsEntry(entries[x][g])
      BY <1>4, <2>0, <2>1 DEF IsNoted
    <3>2. \/ Covers(window[x], entries[x][g])
          \/ \E z \in Pending(Oper) : z.do = "winmove" /\ z.to = x
      BY <3>1 DEF RecordsInv, Covered
    <3> QED
      BY <1>8, <1>11, <1>14, <2>0, <2>1, <3>1, <3>2 DEF WindowSteps
  <2>2. CASE entries'[x][g] # entries[x][g]
    <3>1. /\ x = s.d /\ entries[x][g] # Nil /\ entries[x][g].end = s.end
          /\ entries'[x][g].start = entries[x][g].start /\ entries'[x][g].end = entries[x][g].end
      BY <1>15, <2>0, <2>2
    <3>2. entries[x][g].start = s.start
      BY <1>2, <1>3, <2>0, <3>1 DEF RecordsInv, Stamped
    <3> QED
      BY <1>6, <1>7, <2>0, <3>1, <3>2 DEF Covers
  <2> QED
    BY <2>1, <2>2
<1> QED
  BY <1>17, <1>18, <1>19, <1>20, <1>22, <1>23 DEF RecordsInv

\* The hook of an upload.
LEMMA HookKeeps ==
  ASSUME RecordsInv, NEW u \in Users, Hook(u)
  PROVE  RecordsInv'
<1> DEFINE s == Head(todo[u])
           e == entries[s.d][s.f]
<1>1. todo[u] # <<>> /\ s.do = "hook" /\ UNCHANGED <<dirs, stores, races, loose>>
  BY DEF Hook, Does
<1>2. CASE s.d \in sfvs /\ s.f \in Listed /\ s.sum = "bad"
  <2>1. ThenDo(u, Discard(s.d, s.f)) /\ UNCHANGED <<window, entries>>
    BY <1>2, Zenon DEF Hook
  <2> QED
    BY <2>1, HookDiscards
<1>3. CASE ~(s.d \in sfvs /\ s.f \in Listed /\ s.sum = "bad")
  <2>1. /\ window' = [window EXCEPT ![s.d] = Noted(@, s.start, s.end)]
        /\ entries' = IF e # Nil /\ e.end = s.end
                      THEN [entries EXCEPT ![s.d][s.f].noted = TRUE] ELSE entries
        /\ ThenDo(u, IfComplete(s.d))
    BY <1>3, Zenon DEF Hook
  <2>2. \/ e # Nil /\ e.end = s.end /\ entries' = [entries EXCEPT ![s.d][s.f].noted = TRUE]
        \/ entries' = entries
    BY <2>1, Zenon
  <2> QED
    BY <1>1, <2>1, <2>2, HookNotes
<1> QED
  BY <1>2, <1>3

-----------------------------------------------------------------------------
(* Operators that take a directory away, rename it or scrub it.            *)

\* The session is free: what it begins is all it has to do.
LEMMA OperatorBegins ==
  ASSUME RecordsInv, NEW q, Begin(q)
  PROVE  /\ Oper \in Threads /\ Pending(Oper) = {} /\ UNCHANGED <<stores, races>>
         /\ DOMAIN todo' = Threads /\ todo'[Oper] = q /\ Pending(Oper)' = Elems(q)
         /\ \A o \in Threads \ {Oper} : todo'[o] = todo[o] /\ Pending(o)' = Pending(o)
<1>1. Oper \in Threads /\ todo[Oper] = <<>> /\ todo' = [todo EXCEPT ![Oper] = q] /\ UNCHANGED <<stores, races>>
  BY DEF Threads, Begin, Free
<1>2. Pending(Oper) = {}
  BY <1>1, NoSteps DEF Pending
<1> QED
  BY <1>1, <1>2, OnlyThese

\* A window goes after the files it covered have gone, or are noted no more.
LEMMA BeginsOne ==
  ASSUME RecordsInv, NEW q, Begin(q), IsSeq(q), OneWindowStep(q), EntriesShrink, Tidy',
         UNCHANGED window, dirs' \subseteq dirs, loose \subseteq loose',
         \A x \in Elems(q) :
           /\ IsStep(x) /\ x.do \in WindowSteps \cup FollowUps /\ x.do # "winmove"
           /\ x.do = "forget" => x.d \notin dirs'
           /\ x.do = "reset" =>
                x.d \in loose' \/ ((\A t \in Threads \ {Oper} : \A y \in Pending(t) : ~(y.do = "hook" /\ y.d = x.d))
                                     /\ \A f \in Payloads : ~IsNoted(x.d, f)')
  PROVE  RecordsInv'
<1>1. /\ Oper \in Threads /\ Pending(Oper) = {} /\ UNCHANGED <<stores, races>>
      /\ DOMAIN todo' = Threads /\ todo'[Oper] = q /\ Pending(Oper)' = Elems(q)
      /\ \A o \in Threads \ {Oper} : todo'[o] = todo[o] /\ Pending(o)' = Pending(o)
  BY OperatorBegins
<1>2. \A x \in Elems(q) : x.do # "hook"
  BY DEF WindowSteps, FollowUps
<1>3. \A d \in Paths, f \in Payloads : entries'[d][f] # Nil =>
        /\ entries[d][f] # Nil /\ IsEntry(entries'[d][f]) /\ (entries'[d][f].noted => entries[d][f].noted)
        /\ entries'[d][f].start = entries[d][f].start /\ entries'[d][f].end = entries[d][f].end
  BY DEF EntriesShrink
<1>4. \A t \in Threads : \A x \in Pending(t)' : x.do = "hook" => t # Oper /\ x \in Pending(t)
  BY <1>1, <1>2
<1>5. Typed'
  <2>1. StepsTyped'
    BY <1>1 DEF RecordsInv, Typed, StepsTyped
  <2>2. EntriesTyped'
    BY <1>3 DEF EntriesTyped, EntriesShrink
  <2>3. WindowsTyped'
    BY DEF RecordsInv, Typed, WindowsTyped
  <2> QED
    BY <1>1, <2>1, <2>2, <2>3 DEF RecordsInv, Typed
<1>6. Stamped'
  BY <1>1, <1>3, <1>4 DEF RecordsInv, Stamped
<1>7. OneAtATime'
  BY <1>1 DEF RecordsInv, OneAtATime
<1>8. Harmless'
  BY <1>1, <1>4 DEF Harmless, NoHook
<1>9. Covered'
  <2> SUFFICES ASSUME NEW d \in dirs \ loose, NEW f \in Payloads, IsNoted(d, f)'
               PROVE  Covers(window[d], entries'[d][f])
    BY DEF Covered
  <2>1. d \in Paths
    BY DEF RecordsInv, Typed
  <2>2. IsNoted(d, f)
    BY <1>3, <2>1 DEF IsNoted
  <2>3. Covers(window[d], entries[d][f])
    BY <1>1, <2>2 DEF RecordsInv, Covered
  <2> QED
    BY <1>3, <2>1, <2>3 DEF IsNoted, Covers
<1> QED
  BY <1>5, <1>6, <1>7, <1>8, <1>9 DEF RecordsInv

\* SITE WIPE, RMD and the like: the window is forgotten last.
LEMMA DeleteDirKeeps ==
  ASSUME RecordsInv, NEW d \in Paths, DeleteDir(d)
  PROVE  RecordsInv'
<1> DEFINE x == Step("drop", d, Nil)
           y == Step("uncache", d, Nil)
           z == Step("forget", d, Nil)
           q == <<x, y, z>>
<1>1. /\ Begin(q) /\ dirs' = dirs \ {d} /\ UNCHANGED window /\ loose \subseteq loose'
      /\ entries' = [entries EXCEPT ![d] = Empty]
  BY DEF DeleteDir, Loosens
<1>2. /\ x.do = "drop" /\ y.do = "uncache" /\ z.do = "forget" /\ z.d = d
      /\ IsStep(x) /\ IsStep(y) /\ IsStep(z)
  BY DEF Step, IsStep
<1>3. OneWindowStep(q)
  BY <1>2 DEF OneWindowStep, WindowSteps
<1> HIDE DEF x, y, z
<1>4. IsSeq(q) /\ Elems(q) = {x, y, z}
  BY ThreeSteps
<1> HIDE DEF q
<1>5. /\ DOMAIN entries = Paths /\ \A e \in Paths : DOMAIN entries[e] = Payloads
      /\ \A e \in Paths, f \in Payloads : entries[e][f] = Nil \/ IsEntry(entries[e][f])
  BY DEF RecordsInv, Typed, EntriesTyped
<1>6. /\ DOMAIN entries' = Paths /\ \A e \in Paths : DOMAIN entries'[e] = Payloads
      /\ \A f \in Payloads : entries'[d][f] = Nil
      /\ \A e \in Paths \ {d} : entries'[e] = entries[e]
  BY <1>1, <1>5 DEF Empty
<1>7. EntriesShrink
  BY <1>5, <1>6 DEF EntriesShrink
<1>8. Tidy'
  BY <1>1, <1>6 DEF RecordsInv, Tidy
<1> QED
  BY <1>1, <1>2, <1>3, <1>4, <1>7, <1>8, BeginsOne DEF WindowSteps, FollowUps

\* ScrubReleaseRaceMetadata: its files are noted no more, and unless a hook is about
\* to note one the window may go.
LEMMA ScrubKeeps ==
  ASSUME RecordsInv, NEW d \in Paths, NEW u, Scrub(d, u)
  PROVE  RecordsInv'
<1> DEFINE x == Step("reset", d, Nil)
           y == [do |-> "dbscrub", d |-> d, f |-> Nil, by |-> u]
           q == <<x, y>>
           scrubbed(f) == [entries[d][f] EXCEPT !.by = u, !.timed = FALSE, !.noted = FALSE]
<1> HIDE DEF scrubbed
<1>1. /\ Begin(q) /\ UNCHANGED <<dirs, window>> /\ Loosens(Oper, {d})
      /\ entries' = [entries EXCEPT ![d] = [f \in Payloads |-> IF entries[d][f] = Nil THEN Nil ELSE scrubbed(f)]]
  BY Zenon DEF Scrub, scrubbed
<1>2. x.do = "reset" /\ x.d = d /\ y.do = "dbscrub" /\ IsStep(x) /\ IsStep(y)
  BY DEF Step, IsStep
<1>3. OneWindowStep(q)
  BY <1>2 DEF OneWindowStep, WindowSteps
<1> HIDE DEF x, y
<1>4. IsSeq(q) /\ Elems(q) = {x, y}
  BY TwoSteps
<1> HIDE DEF q
<1>5. /\ DOMAIN entries = Paths /\ \A e \in Paths : DOMAIN entries[e] = Payloads
      /\ \A e \in Paths, f \in Payloads : entries[e][f] = Nil \/ IsEntry(entries[e][f])
  BY DEF RecordsInv, Typed, EntriesTyped
<1>6. /\ DOMAIN entries' = Paths /\ \A e \in Paths : DOMAIN entries'[e] = Payloads
      /\ \A f \in Payloads : entries'[d][f] = IF entries[d][f] = Nil THEN Nil ELSE scrubbed(f)
      /\ \A e \in Paths \ {d} : entries'[e] = entries[e]
  BY <1>1, <1>5
<1>7. ASSUME NEW f \in Payloads, entries'[d][f] # Nil
      PROVE  /\ entries[d][f] # Nil /\ IsEntry(entries'[d][f]) /\ ~entries'[d][f].noted
             /\ entries'[d][f].start = entries[d][f].start /\ entries'[d][f].end = entries[d][f].end
  <2>1. PICK e : e = entries[d][f]
    OBVIOUS
  <2>2. PICK no \in BOOLEAN : no = FALSE
    OBVIOUS
  <2>3. PICK c : c = [e EXCEPT !.by = u, !.timed = no, !.noted = no]
    OBVIOUS
  <2>4. e # Nil /\ IsEntry(e)
    BY <1>5, <1>6, <1>7, <2>1
  <2>5. IsEntry(c) /\ c.noted = no /\ c.start = e.start /\ c.end = e.end
    BY <2>3, <2>4 DEF IsEntry
  <2>6. scrubbed(f) = c
    BY <2>1, <2>2, <2>3, Zenon DEF scrubbed
  <2> QED
    BY <1>6, <2>1, <2>2, <2>4, <2>5, <2>6
<1>8. EntriesShrink
  BY <1>5, <1>6, <1>7 DEF EntriesShrink
<1>9. Tidy'
  BY <1>1, <1>6 DEF RecordsInv, Tidy
<1>10. loose \subseteq loose'
  BY <1>1 DEF Loosens
<1>11. d \in loose' \/ \A t \in Threads \ {Oper} : \A v \in Pending(t) : ~(v.do = "hook" /\ v.d = d)
  BY <1>1 DEF Loosens, InOtherHands, About, Pending, Elems
<1>12. \A f \in Payloads : ~IsNoted(d, f)'
  BY <1>7 DEF IsNoted
<1> QED
  BY <1>1, <1>2, <1>3, <1>4, <1>8, <1>9, <1>10, <1>11, <1>12, BeginsOne DEF WindowSteps, FollowUps

\* RenameFile of a directory: until its window has followed, the new directory is
\* covered by what is to come.
LEMMA RenameDirKeeps ==
  ASSUME RecordsInv, NEW d \in Paths, NEW to \in Paths, RenameDir(d, to)
  PROVE  RecordsInv'
<1> DEFINE mv == [do |-> "dbmove", d |-> d, f |-> Nil, to |-> to]
           wm == [do |-> "winmove", d |-> d, f |-> Nil, to |-> to]
           q == <<mv, wm>>
<1>1. /\ d \in dirs /\ to \notin dirs /\ dirs' = (dirs \ {d}) \cup {to} /\ UNCHANGED window
      /\ entries' = [entries EXCEPT ![to] = entries[d], ![d] = Empty] /\ loose \subseteq loose'
  BY DEF RenameDir
<1>2. Begin(q)
  <2>1. [mv EXCEPT !.do = "winmove"] = wm
    OBVIOUS
  <2>2. Begin(<<mv, [mv EXCEPT !.do = "winmove"]>>)
    BY Zenon DEF RenameDir
  <2> QED
    BY <2>1, <2>2
<1>3. /\ to \in loose' /\ d \in loose'
      \/ (~InOtherHands(Oper, to) /\ d \notin loose /\ to \notin loose /\ loose' = loose)
  BY DEF RenameDir
<1>4. /\ mv.do = "dbmove" /\ wm.do = "winmove" /\ wm.d = d /\ wm.to = to /\ IsStep(mv) /\ IsStep(wm)
  BY DEF IsStep
<1>5. OneWindowStep(q)
  BY <1>4 DEF OneWindowStep, WindowSteps
<1> HIDE DEF mv, wm
<1>6. IsSeq(q) /\ Elems(q) = {mv, wm}
  BY TwoSteps
<1> HIDE DEF q
<1>7. /\ Oper \in Threads /\ Pending(Oper) = {} /\ UNCHANGED <<stores, races>>
      /\ DOMAIN todo' = Threads /\ todo'[Oper] = q /\ Pending(Oper)' = {mv, wm}
      /\ \A o \in Threads \ {Oper} : todo'[o] = todo[o] /\ Pending(o)' = Pending(o)
  BY <1>2, <1>6, OperatorBegins
<1>8. /\ DOMAIN entries = Paths /\ \A e \in Paths : DOMAIN entries[e] = Payloads
      /\ \A e \in Paths, f \in Payloads : entries[e][f] = Nil \/ IsEntry(entries[e][f])
      /\ dirs \subseteq Paths
  BY DEF RecordsInv, Typed, EntriesTyped
<1>9. /\ DOMAIN entries' = Paths /\ \A e \in Paths : DOMAIN entries'[e] = Payloads
      /\ \A f \in Payloads : entries'[d][f] = Nil
      /\ entries'[to] = entries[d] /\ to # d
      /\ \A e \in Paths \ {d, to} : entries'[e] = entries[e]
  BY <1>1, <1>8 DEF Empty
<1>10. \A e \in Paths, f \in Payloads : entries'[e][f] # Nil =>
         \E g \in Paths : entries[g][f] # Nil /\ entries'[e][f] = entries[g][f]
  BY <1>9
<1>11. \A t \in Threads : \A x \in Pending(t)' : x.do = "hook" => t # Oper /\ x \in Pending(t)
  BY <1>4, <1>7
<1>12. Typed'
  <2>1. StepsTyped'
    BY <1>4, <1>6, <1>7 DEF RecordsInv, Typed, StepsTyped
  <2>2. EntriesTyped'
    BY <1>8, <1>9, <1>10 DEF EntriesTyped
  <2>3. WindowsTyped'
    BY <1>1 DEF RecordsInv, Typed, WindowsTyped
  <2> QED
    BY <1>1, <1>7, <1>8, <2>1, <2>2, <2>3 DEF RecordsInv, Typed
<1>13. Stamped'
  <2>1. \A e \in Paths, f \in Payloads : entries'[e][f] # Nil => entries'[e][f].end <= stores'
    BY <1>7, <1>10 DEF RecordsInv, Stamped
  <2>2. ASSUME NEW t \in Threads, NEW x \in Pending(t)', x.do = "hook"
        PROVE  /\ x.end <= stores'
               /\ \A e \in Paths, f \in Payloads :
                    entries'[e][f] # Nil /\ entries'[e][f].end = x.end => entries'[e][f].start = x.start
    <3>1. /\ x.end <= stores
          /\ \A e \in Paths, f \in Payloads :
               entries[e][f] # Nil /\ entries[e][f].end = x.end => entries[e][f].start = x.start
      BY <1>11, <2>2 DEF RecordsInv, Stamped
    <3> QED
      BY <1>7, <1>10, <3>1
  <2> QED
    BY <2>1, <2>2 DEF Stamped
<1>14. Tidy'
  BY <1>1, <1>9 DEF RecordsInv, Tidy
<1>15. OneAtATime'
  BY <1>4, <1>5, <1>7 DEF RecordsInv, OneAtATime, WindowSteps, FollowUps
<1>16. Harmless'
  <2>1. to \in loose' \/ NoHook(to)'
    <3>1. \A t \in Threads \ {Oper} : to \in loose' \/ \A x \in Pending(t) : ~(x.do = "hook" /\ x.d = to)
      BY <1>3 DEF InOtherHands, About, Pending, Elems
    <3> QED
      BY <1>11, <3>1 DEF NoHook
  <2>2. to \in loose' \/ \A f \in Payloads : IsNoted(to, f)' => Covers(window'[d], entries'[to][f])
    BY <1>1, <1>3, <1>7, <1>9 DEF RecordsInv, Covered, IsNoted
  <2>3. d \notin dirs'
    BY <1>1, <1>9
  <2> QED
    BY <1>4, <1>7, <2>1, <2>2, <2>3 DEF Harmless
<1>17. Covered'
  <2> SUFFICES ASSUME NEW e \in dirs' \ loose', NEW f \in Payloads, IsNoted(e, f)', e # to
               PROVE  Covers(window'[e], entries'[e][f])
    BY <1>4, <1>7 DEF Covered
  <2>1. e \in dirs \ loose /\ e \in Paths /\ e # d
    BY <1>1, <1>8
  <2>2. entries'[e] = entries[e]
    BY <1>9, <2>1
  <2> QED
    BY <1>1, <1>7, <2>1, <2>2 DEF RecordsInv, Covered, IsNoted
<1> QED
  BY <1>12, <1>13, <1>14, <1>15, <1>16, <1>17 DEF RecordsInv

-----------------------------------------------------------------------------
(* The specification.                                                      *)

\* Nothing is uploaded, noted or to be done.
LEMMA RecordsInit == RaceInit => RecordsInv
<1> SUFFICES ASSUME RaceInit PROVE RecordsInv
  OBVIOUS
<1>1. /\ stores = 0 /\ races \in RaceSettings /\ dirs = {races.home} /\ todo = [t \in Threads |-> <<>>]
      /\ entries = [d \in Paths |-> Empty] /\ window = [d \in Paths |-> Nil] /\ Oper \in Threads
  BY DEF RaceInit, Threads
<1>2. \A t \in Threads : todo[t] = <<>> /\ IsSeq(todo[t]) /\ Pending(t) = {}
  BY <1>1, NoSteps DEF Pending
<1>3. \A d \in Paths : entries[d] = Empty /\ DOMAIN entries[d] = Payloads /\ \A f \in Payloads : entries[d][f] = Nil
  BY <1>1 DEF Empty
<1>4. Typed
  <2>1. StepsTyped
    BY <1>1, <1>2 DEF StepsTyped
  <2>2. WindowsTyped /\ EntriesTyped
    BY <1>1, <1>3 DEF WindowsTyped, EntriesTyped
  <2>3. dirs \subseteq Paths
    BY <1>1, RaceRecordsAssumption
  <2> QED
    BY <1>1, <2>1, <2>2, <2>3 DEF Typed
<1>5. Stamped /\ Tidy
  BY <1>2, <1>3 DEF Stamped, Tidy
<1>6. OneAtATime /\ Harmless
  BY <1>1, <1>2 DEF OneAtATime, OneWindowStep, Harmless
<1>7. Covered
  BY <1>1, <1>3, RaceRecordsAssumption DEF Covered, IsNoted
<1> QED
  BY <1>4, <1>5, <1>6, <1>7 DEF RecordsInv

\* Every step keeps it.
LEMMA RecordsStep == RecordsInv /\ [RaceNext]_recordVars => RecordsInv'
<1> SUFFICES ASSUME RecordsInv, [RaceNext]_recordVars PROVE RecordsInv'
  OBVIOUS
<1>1. CASE UNCHANGED recordVars
  BY <1>1 DEF recordVars, RecordsInv, Typed, StepsTyped, WindowsTyped, EntriesTyped, Stamped, Tidy,
             OneAtATime, Harmless, Covered, Pending, NoHook, IsNoted
<1>2. ASSUME NEW d \in Paths, Mkdir(d) \/ DeleteDir(d) PROVE RecordsInv'
  BY <1>2, MkdirKeeps, DeleteDirKeeps
<1>3. ASSUME NEW d \in Paths, NEW to \in Paths, RenameDir(d, to) PROVE RecordsInv'
  BY <1>3, RenameDirKeeps
<1>4. ASSUME NEW d \in Paths, NEW u \in Users, Scrub(d, u) \/ StoreSfv(u, d) PROVE RecordsInv'
  BY <1>4, ScrubKeeps, BeginsKeep
<1>5. ASSUME NEW d \in Paths, NEW del, Rescan(d, del) PROVE RecordsInv'
  BY <1>5, BeginsKeep
<1>6. ASSUME NEW d \in Paths, NEW f, DeleteFile(d, f) \/ Spoil(d, f) PROVE RecordsInv'
  BY <1>6, BeginsKeep
<1>7. ASSUME NEW u \in Users, NEW d \in Paths, NEW f \in races.files, NEW c, NEW n \in races.lengths,
             StoreFile(u, d, f, c, n)
      PROVE  RecordsInv'
  BY <1>7, StoreFileKeeps
<1>8. ASSUME NEW u \in Users, Hook(u) \/ VerifyOld(u) PROVE RecordsInv'
  BY <1>8, HookKeeps, ChecksKeep DEF Threads
<1>9. ASSUME NEW t \in Threads,
             \/ FindId(t) \/ KeepId(t) \/ WriteRows(t) \/ ReadVerified(t) \/ Replace(t)
             \/ DeleteEntry(t) \/ MissEntry(t) \/ ClearPath(t)
      PROVE  RecordsInv'
  BY <1>9, WritesKeep, ChecksKeep, DeletesKeep
<1>10. ASSUME Scan(Oper) \/ Sum(Oper) \/ Present(Oper) PROVE RecordsInv'
  BY <1>10, ChecksKeep, PresentKeeps DEF Threads
<1>11. ASSUME DropPath(Oper) \/ Uncache(Oper) \/ MoveRelease(Oper) \/ ScrubRelease(Oper) PROVE RecordsInv'
  BY <1>11, FollowUpsKeep
<1>12. ASSUME Forget(Oper) \/ MoveWindow(Oper) \/ ResetWindow(Oper) PROVE RecordsInv'
  BY <1>12, WindowsKeep
<1>13. ASSUME NEW late, NEW weak, Restart(late, weak) PROVE RecordsInv'
  BY <1>13, RestartKeeps
<1>14. WriterTakes => RecordsInv'
  BY WriterKeeps
<1>15. RaceNext => RecordsInv'
  BY <1>2, <1>3, <1>4, <1>5, <1>6, <1>7, <1>8, <1>9, <1>10, <1>11, <1>12, <1>13, <1>14, ZenonT(60) DEF RaceNext
<1> QED
  BY <1>1, <1>15

\* What covers the noted files of a directory, or is on its way to, through every
\* upload, hook, deletion, rename, scrub and restart.
THEOREM RecordsInvariant == RaceSpec => []RecordsInv
<1> QED
  BY RecordsInit, RecordsStep, PTL DEF RaceSpec

\* At rest nothing is on its way: the window itself covers them.
THEOREM WindowsCoverWhatTheyNoted == RaceSpec => []WindowCovers
<1>1. RecordsInv => WindowCovers
  <2> SUFFICES ASSUME RecordsInv, AtRest, NEW d \in dirs \ loose, NEW f \in Payloads, IsNoted(d, f)
               PROVE  Covers(window[d], entries[d][f])
    BY DEF WindowCovers, IsNoted, Covers
  <2>1. Pending(Oper) = {}
    BY NoSteps DEF AtRest, Threads, Pending
  <2> QED
    BY <2>1 DEF RecordsInv, Covered
<1> QED
  BY <1>1, RecordsInvariant, PTL

=============================================================================

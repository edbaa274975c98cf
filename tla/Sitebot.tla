------------------------------ MODULE Sitebot ------------------------------
(***************************************************************************)
(* Events on their way to IRC: sessions and hooks of the daemon publish    *)
(* them (internal/core/events.go), a writer puts them into a pipe, and the *)
(* bot, a process of its own, reads them (sitebot/internal/bot), decides   *)
(* what to say (sitebot/plugins/announce) and says it                      *)
(* (sitebot/internal/irc).  The pretime plugin of the daemon looks a new   *)
(* directory up and publishes what it has found.                           *)
(*                                                                         *)
(* Goroutines: Emitter, the pretime worker and the writer in the daemon;   *)
(* the reader of the pipe, the listener on IRC, the loop over events,      *)
(* timers and late lines in the bot.  Taking, handling and sending an      *)
(* event are steps of their own; OnEvent runs under the plugin's mutex.    *)
(* A release is known by its name.  Wording and routing are left out.      *)
(***************************************************************************)
EXTENDS Naturals, FiniteSets, SequencesExt

CONSTANTS Emitter,      \* sessions and hooks
          Release, Nobody,
          MaxPipe,      \* of the pipe
          MaxChan,      \* of EventChan (1024)
          BotSettings   \* what is published and asked, what may go wrong, and the room in
                        \* the queue of JSONLineFileSink (1024)

VARIABLES botMay,
          script,     \* what each emitter has still to do
          marked,     \* completedRaces
          lookups, seen, \* of the pretime plugin
          queue,      \* of JSONLineFileSink
          line,       \* what its writer holds
          fifo,       \* the ends of the pipe that are open, and what is in it
          bot,        \* is it up, and how often have its plugins been made
          buf,        \* what the reader has read
          chan,       \* EventChan
          told,       \* state of the announce plugin, per release
          pending,    \* NEW lines that wait for a pretime
          outs,       \* what the loop has still to say
          loose,      \* lines that goroutines of their own are about to say
          irc,        \* is it connected, what it has sent, what has been said
          pm          \* private messages: keys, exchanges, what waits for them; history, "owed": the client
                        \* has not finished the exchange that was begun last
daemonVars == <<script, marked, lookups, seen, queue, line>>
pluginVars == <<told, pending, outs, loose>>
botVars == <<botMay, daemonVars, fifo, bot, buf, chan, pluginVars, irc, pm>>

\* completedReleases and the releaseState, which comes to be when it is first asked for.
\* `era' counts how often it has been reset.
Untold == [created |-> FALSE, sfv |-> FALSE, first |-> FALSE, users |-> {}, completed |-> FALSE,
           half |-> FALSE, leader |-> Nobody, leaders |-> {}, stats |-> <<>>, era |-> 0]
NoKey == 0
BotInit ==
  /\ botMay \in BotSettings
  /\ script = botMay.script /\ marked = {} /\ lookups = <<>> /\ seen = {}
  /\ queue = <<>> /\ line = <<>>
  /\ fifo = [w |-> FALSE, r |-> FALSE, pipe |-> <<>>]
  /\ bot = [up |-> TRUE, gen |-> 1] /\ buf = <<>> /\ chan = <<>>
  /\ told = [r \in Release |-> Untold] /\ pending = {} /\ outs = <<>> /\ loose = {}
  /\ irc = [up |-> TRUE, inbox |-> botMay.inbox, said |-> <<>>, pongs |-> 0]
  /\ pm = [key |-> NoKey, exchange |-> NoKey, next |-> 1, waiting |-> 0, at |-> "idle", taken |-> NoKey, flush |-> 0,
           owed |-> FALSE]

-----------------------------------------------------------------------------
(* The daemon.                                                             *)

Next1(e) == script' = [script EXCEPT ![e] = Tail(@)]
\* Sent, or dropped when the queue is full.
Published(evt) == queue' = IF Len(queue) < botMay.room THEN Append(queue, evt) ELSE queue

\* emitRaceEnd: one COMPLETE per directory, count and size; then its events one by one.
RaceEvents(i) ==
  LET Of(t) == [i EXCEPT !.type = t]
  IN <<Of("end"), Of("stats"), Of("racer"), Of("footer")>>
\* Mutant: the mark is not looked at.
MarkIgnored(e) ==
  /\ script[e] # <<>> /\ Head(script[e]).type = "complete"
  /\ LET i == Head(script[e]) IN
     /\ script' = [script EXCEPT ![e] = RaceEvents(i) \o Tail(@)]
     /\ marked' = marked \cup {i.race}
  /\ UNCHANGED <<lookups, seen, queue, line>>
MarkRace(e) ==
  /\ script[e] # <<>> /\ Head(script[e]).type = "complete"
  /\ LET i == Head(script[e]) IN
     /\ script' = [script EXCEPT ![e] = (IF i.race \in marked THEN <<>> ELSE RaceEvents(i)) \o Tail(@)]
     /\ marked' = marked \cup {i.race}
  /\ UNCHANGED <<lookups, seen, queue, line>>

\* emitEvent: the sinks first, then the plugins, of which pretime wants new directories.
Emit(e) ==
  /\ script[e] # <<>> /\ Head(script[e]).type \notin {"complete", "dispatch"}
  /\ LET i == Head(script[e]) IN
     /\ Published(i)
     /\ script' = [script EXCEPT ![e] = (IF i.type = "mkdir" THEN <<[i EXCEPT !.type = "dispatch"]>> ELSE <<>>) \o Tail(@)]
  /\ UNCHANGED <<marked, lookups, seen, line>>
\* Handler.OnEvent of pretime: once per directory (in ten minutes).
Dispatch(e) ==
  /\ script[e] # <<>> /\ Head(script[e]).type = "dispatch"
  /\ LET r == Head(script[e]).rel IN
     /\ seen' = seen \cup {r}
     /\ lookups' = IF r \in seen \/ ~botMay.pretime THEN lookups ELSE Append(lookups, r)
  /\ Next1(e)
  /\ UNCHANGED <<marked, queue, line>>
\* processJob: one of the providers knows the release, or none does.
PretimeWorks ==
  /\ lookups # <<>> /\ lookups' = Tail(lookups)
  /\ Published([type |-> "pretime", rel |-> Head(lookups), race |-> Nobody, who |-> Nobody, lead |-> Nobody, ready |-> FALSE, half |-> FALSE])
     \/ UNCHANGED queue
  /\ UNCHANGED <<script, marked, seen, line>>

WriterTakes ==
  /\ line = <<>> /\ queue # <<>>
  /\ line' = <<Head(queue)>> /\ queue' = Tail(queue)
  /\ UNCHANGED <<script, marked, lookups, seen>>
DaemonStep ==
  /\ \/ \E e \in Emitter : MarkRace(e) \/ Emit(e) \/ Dispatch(e)
     \/ PretimeWorks \/ WriterTakes
  /\ UNCHANGED <<botMay, fifo, bot, buf, chan, pluginVars, irc, pm>>

\* ensureOpen fails as long as nobody reads.
WriterOpens ==
  /\ line # <<>> /\ ~fifo.w /\ fifo.r
  /\ fifo' = [fifo EXCEPT !.w = TRUE]
  /\ UNCHANGED line
\* A write blocks on a full pipe; without a reader it fails, and its line is lost.
WriterWrites ==
  /\ line # <<>> /\ fifo.w
  /\ IF fifo.r
     THEN Len(fifo.pipe) < MaxPipe /\ fifo' = [fifo EXCEPT !.pipe = Append(@, line[1])]
     ELSE fifo' = [fifo EXCEPT !.w = FALSE, !.pipe = <<>>]
  /\ line' = <<>>
WriterStep ==
  /\ WriterOpens \/ WriterWrites
  /\ UNCHANGED <<botMay, script, marked, lookups, seen, queue, bot, buf, chan, pluginVars, irc, pm>>

-----------------------------------------------------------------------------
(* The bot: readEvents and listenIRC.                                      *)

ReaderOpens == bot.up /\ ~fifo.r /\ fifo' = [fifo EXCEPT !.r = TRUE] /\ UNCHANGED <<buf, chan>>
ReaderReads ==
  /\ bot.up /\ fifo.r /\ fifo.pipe # <<>> /\ buf = <<>>
  /\ buf' = fifo.pipe /\ fifo' = [fifo EXCEPT !.pipe = <<>>] /\ UNCHANGED chan
ReaderSends ==
  /\ bot.up /\ buf # <<>> /\ Len(chan) < MaxChan
  /\ chan' = Append(chan, Head(buf)) /\ buf' = Tail(buf) /\ UNCHANGED fifo
ReaderStep ==
  /\ ReaderOpens \/ ReaderReads \/ ReaderSends
  /\ UNCHANGED <<botMay, daemonVars, bot, pluginVars, irc, pm>>

\* HandleKeyExchange: a finish takes the exchange, whether it is a good one or not, and
\* the steps of a good one follow; a client's own init sets a key and is answered, and
\* touches neither exchange nor queue.
Exchanged(m) ==
  CASE m = "finish" /\ pm.exchange # NoKey -> [pm EXCEPT !.at = "key", !.taken = pm.exchange, !.exchange = NoKey]
    [] m = "bad" -> [pm EXCEPT !.exchange = NoKey]
    [] m = "init" /\ botMay.exchange -> [pm EXCEPT !.key = pm.next, !.next = @ + 1]
    [] OTHER -> pm

\* One line from the server: PING is answered at once; a command goes to the loop and
\* waits for room.
Listens ==
  /\ bot.up /\ irc.up /\ irc.inbox # <<>> /\ pm.at = "idle"
  /\ LET m == Head(irc.inbox) IN
     /\ irc' = [irc EXCEPT !.inbox = Tail(@), !.pongs = IF m = "ping" THEN @ + 1 ELSE @]
     /\ IF m \in {"help", "refresh"}
        THEN Len(chan) < MaxChan
             /\ chan' = Append(chan, [type |-> m, rel |-> Nobody, race |-> Nobody, who |-> Nobody, lead |-> Nobody, ready |-> FALSE, half |-> FALSE])
        ELSE UNCHANGED chan
     /\ pm' = Exchanged(m)
  /\ UNCHANGED <<buf, outs>>
\* SetPrivateUserKey, then flushQueuedPrivate: what is queued is taken, then sent.
\* Mutant: what is queued stays.
SetsKeyOnly ==
  /\ bot.up /\ pm.at = "key"
  /\ pm' = [pm EXCEPT !.key = pm.taken, !.at = "idle"]
  /\ UNCHANGED <<irc, buf, chan, outs>>
SetsKey ==
  /\ bot.up /\ pm.at = "key"
  /\ pm' = [pm EXCEPT !.key = pm.taken, !.at = "flush"]
  /\ UNCHANGED <<irc, buf, chan, outs>>
TakesQueued ==
  /\ bot.up /\ pm.at = "flush"
  /\ pm' = [pm EXCEPT !.flush = pm.waiting, !.waiting = 0, !.at = IF pm.waiting = 0 THEN "idle" ELSE "send"]
  /\ UNCHANGED <<irc, buf, chan, outs>>

\* What is said without a connection is lost.
Line(what, e, era) == [what |-> what, rel |-> e.rel, race |-> e.race, of |-> {}, gen |-> bot.gen, era |-> era]
Said(l) == irc' = [irc EXCEPT !.said = IF irc.up THEN Append(@, l) ELSE @]
Private == [what |-> "private", rel |-> Nobody, race |-> Nobody, of |-> {}, gen |-> bot.gen, era |-> 0]
SendsQueued ==
  /\ bot.up /\ pm.at = "send"
  /\ pm' = [pm EXCEPT !.flush = @ - 1, !.at = IF pm.flush = 1 THEN "idle" ELSE "send"]
  /\ Said(Private)
  /\ UNCHANGED <<buf, chan, outs>>
ListenerStep ==
  /\ Listens \/ SetsKey \/ TakesQueued \/ SendsQueued
  /\ UNCHANGED <<botMay, daemonVars, fifo, bot, told, pending, loose>>

-----------------------------------------------------------------------------
(* The announce plugin.                                                    *)

After(lines, st) == [lines |-> lines, st |-> st]
\* The first upload of each racer, a leader who has taken the lead (once each), half of it.
Uploaded(st, e) ==
  LET joins == e.who \notin st.users
      users == st.users \cup {e.who}
      leads == e.lead # Nobody /\ e.lead # st.leader /\ Cardinality(users) > 1
      tells == leads /\ st.leader # Nobody /\ e.lead \notin st.leaders
      half == e.half /\ ~st.half
      Say(if, what) == IF if THEN <<Line(what, e, st.era)>> ELSE <<>>
  IN IF st.completed \/ ~(st.sfv \/ e.ready) THEN After(<<>>, st)
     ELSE After(Say(joins, IF st.first THEN "joined" ELSE "first") \o Say(tells, "leader") \o Say(half, "half"),
               [st EXCEPT !.users = users, !.first = TRUE, !.leader = IF leads THEN e.lead ELSE @,
                          !.leaders = IF tells THEN @ \cup {e.lead} ELSE @, !.half = @ \/ e.half])
GotSfv(st, e) ==
  IF st.completed \/ st.sfv THEN After(<<>>, st)
  ELSE After(<<Line("sfv", e, st.era)>>, [st EXCEPT !.sfv = TRUE])
\* The line is put off in `inline' mode, see NewLine.
MadeDir(st, e) ==
  IF st.created THEN After(<<>>, st)
  ELSE LET st1 == [st EXCEPT !.created = TRUE, !.completed = FALSE, !.half = FALSE, !.leader = Nobody,
                             !.leaders = {}, !.stats = <<>>, !.era = @ + 1]
       IN After(IF botMay.inline THEN <<>> ELSE <<Line("new", e, st1.era)>>, st1)
RaceEnded(st, e) == After(<<Line("complete", e, st.era)>>, [st EXCEPT !.completed = TRUE, !.half = TRUE])
Gathers(st, e) == After(<<>>, [st EXCEPT !.stats = Append(@, e)])
\* flushRaceStats: all lines in one output.
Footer(st, e) ==
  LET block == Append(st.stats, e)
  IN After(<<[Line("block", e, st.era) EXCEPT !.of = {<<b.type, b.race>> : b \in {block[k] : k \in DOMAIN block}}]>>,
          [st EXCEPT !.stats = <<>>])
\* Media info and pretimes of a completed release come too late.
UnlessLate(what, st, e) == After(IF st.completed THEN <<>> ELSE <<Line(what, e, st.era)>>, st)
\* Everything else is said as it comes.
Plain(st, e) == After(<<Line(e.type, e, st.era)>>, st)

Told(st, e) ==
  CASE e.type = "mkdir" -> MadeDir(st, e)
    [] e.type = "sfv" -> GotSfv(st, e)
    [] e.type = "rar" -> Uploaded(st, e)
    [] e.type = "end" -> RaceEnded(st, e)
    [] e.type \in {"stats", "racer"} -> Gathers(st, e)
    [] e.type = "footer" -> Footer(st, e)
    [] e.type = "info" -> UnlessLate("info", st, e)
    [] e.type = "pretime" -> IF botMay.inline THEN After(<<>>, st) ELSE UnlessLate("pretime", st, e)
    [] OTHER -> Plain(st, e)

\* In `inline' mode a new directory waits for its pretime, for 1.5 s; a goroutine of its
\* own says the line.
Waiting(r) == {w \in pending : w.gen = bot.gen /\ w.rel = r}
NewLine(e) ==
  IF botMay.inline /\ e.type = "mkdir" /\ ~told[e.rel].created
  THEN pending' = pending \cup {Line("new", e, told[e.rel].era + 1)} /\ UNCHANGED loose
  ELSE IF botMay.inline /\ e.type = "pretime"
  THEN pending' = pending \ Waiting(e.rel) /\ loose' = loose \cup Waiting(e.rel)
  ELSE UNCHANGED <<pending, loose>>

\* flushInlinePretimeFallback: whoever finds the line takes it.
Timer(w) ==
  /\ w \in pending /\ pending' = pending \ {w} /\ loose' = loose \cup {w}
  /\ UNCHANGED irc
SayLoose(w) == w \in loose /\ loose' = loose \ {w} /\ Said(w) /\ UNCHANGED pending
LateStep ==
  /\ bot.up
  /\ \E w \in pending \cup loose : Timer(w) \/ SayLoose(w)
  /\ UNCHANGED <<botMay, daemonVars, fifo, bot, buf, chan, told, outs, pm>>

-----------------------------------------------------------------------------
(* processEvents, handleEvent, sendOutputs.                                *)

Takes1 == chan # <<>> /\ outs = <<>> /\ chan' = Tail(chan)
HandlesEvent ==
  /\ Takes1 /\ Head(chan).type \notin {"help", "refresh"}
  /\ LET e == Head(chan)
         t == Told(told[e.rel], e)
     IN told' = [told EXCEPT ![e.rel] = t.st] /\ outs' = t.lines /\ NewLine(e)
  /\ UNCHANGED <<bot, irc, pm>>
\* Reload makes all plugins anew; timers of the old ones go on.
Refreshes ==
  /\ Takes1 /\ Head(chan).type = "refresh"
  /\ bot' = [bot EXCEPT !.gen = @ + 1]
  /\ told' = [r \in Release |-> Untold]
  /\ outs' = <<[Private EXCEPT !.what = "reply"]>>
  /\ UNCHANGED <<pending, loose, irc, pm>>
Helps ==
  /\ Takes1 /\ Head(chan).type = "help"
  /\ outs' = <<Private>>
  /\ UNCHANGED <<bot, told, pending, loose, irc, pm>>

\* A private line goes out under the key of its user, or waits for one to be negotiated:
\* the key is looked up and the line queued under locks of their own.
Says ==
  /\ outs # <<>> /\ UNCHANGED <<chan, bot, told, pending, loose>>
  /\ LET l == Head(outs) IN
     CASE l.what = "private" /\ pm.key = NoKey /\ botMay.exchange ->
            outs' = <<[l EXCEPT !.what = "queue"]>> \o Tail(outs) /\ UNCHANGED <<irc, pm>>
       [] l.what = "queue" ->
            /\ pm' = IF pm.exchange # NoKey THEN [pm EXCEPT !.waiting = @ + 1]
                     ELSE [pm EXCEPT !.waiting = @ + 1, !.exchange = pm.next, !.next = @ + 1, !.owed = TRUE]
            /\ outs' = (IF pm.exchange # NoKey THEN <<>> ELSE <<[l EXCEPT !.what = "init"]>>) \o Tail(outs)
            /\ UNCHANGED irc
       \* The user's client finishes the exchange, or fails to, or wants one of its own, or
       \* does not answer.
       [] l.what = "init" ->
            /\ \E answer \in {"finish", "bad", "init", "none"} :
                 IF ~irc.up \/ answer = "none" THEN UNCHANGED <<irc, pm>>
                 ELSE irc' = [irc EXCEPT !.inbox = Append(@, answer)]
                      /\ pm' = [pm EXCEPT !.owed = (answer # "finish")]
            /\ outs' = Tail(outs)
       [] OTHER -> Said(l) /\ outs' = Tail(outs) /\ UNCHANGED pm
LoopStep ==
  /\ bot.up /\ (HandlesEvent \/ Refreshes \/ Helps \/ Says)
  /\ UNCHANGED <<botMay, daemonVars, fifo, buf>>

-----------------------------------------------------------------------------
(* The connection is lost (nobody connects again); the bot dies and is     *)
(* started again.                                                          *)

Disconnects ==
  /\ bot.up /\ irc.up /\ "disconnect" \in botMay.faults
  /\ irc' = [irc EXCEPT !.up = FALSE, !.inbox = <<>>]
  /\ UNCHANGED <<botMay, daemonVars, fifo, bot, buf, chan, pluginVars, pm>>
BotDies ==
  /\ bot.up /\ bot.gen = 1 /\ "restart" \in botMay.faults
  /\ bot' = [bot EXCEPT !.up = FALSE, !.gen = @ + 1]
  /\ fifo' = [fifo EXCEPT !.r = FALSE, !.pipe = IF fifo.w THEN @ ELSE <<>>]
  /\ buf' = <<>> /\ chan' = <<>> /\ told' = [r \in Release |-> Untold]
  /\ pending' = {} /\ outs' = <<>> /\ loose' = {}
  /\ irc' = [irc EXCEPT !.up = FALSE, !.inbox = <<>>]
  /\ pm' = [pm EXCEPT !.key = NoKey, !.exchange = NoKey, !.waiting = 0, !.at = "idle", !.taken = NoKey, !.flush = 0,
                        !.owed = FALSE]
  /\ UNCHANGED <<botMay, daemonVars>>
BotStarts ==
  /\ ~bot.up /\ bot' = [bot EXCEPT !.up = TRUE]
  /\ irc' = [irc EXCEPT !.up = TRUE]
  /\ UNCHANGED <<botMay, daemonVars, fifo, buf, chan, pluginVars, pm>>

BotNext ==
  \/ DaemonStep \/ WriterStep \/ ReaderStep \/ ListenerStep \/ LoopStep \/ LateStep
  \/ Disconnects \/ BotDies \/ BotStarts

\* Goroutines that can run do; the connection need not be lost.
BotFairness ==
  /\ WF_botVars(DaemonStep) /\ WF_botVars(WriterStep) /\ WF_botVars(ReaderStep)
  /\ WF_botVars(ListenerStep) /\ WF_botVars(LoopStep) /\ WF_botVars(LateStep) /\ WF_botVars(BotStarts)

-----------------------------------------------------------------------------
(* Properties.                                                             *)

\* However many sessions, hooks and rescans find a release complete, it is announced once
\* (markRaceCompleteOnce, events.go:666), and a new directory once by the same plugins,
\* although its pretime and the timer race for its line (handler.go:449-512).
Twice(s, l) == Len(SelectSeq(s, LAMBDA m : m = l)) > 1
Lines1(what) == SelectSeq(irc.said \o outs, LAMBDA l : l.what = what)
AnnouncedOnce ==
  /\ \A i, j \in DOMAIN Lines1("complete") : Lines1("complete")[i].race = Lines1("complete")[j].race => i = j
  /\ \A l \in pending \cup loose \cup Range(Lines1("new")) :
       /\ ~Twice(Lines1("new"), l)
       /\ Cardinality({pending, loose} \cap {x \in {pending, loose} : l \in x}) + Len(SelectSeq(Lines1("new"), LAMBDA m : m = l)) = 1

\* After COMPLETE a release is quiet until it is made anew, whatever comes late
\* (handler.go:514, 788, 796), and the lines of a Hall of Fame are those of one race, all
\* of them and no others (handler.go:148-155, 896-975).
RaceLines == {"first", "joined", "leader", "half", "sfv", "info", "pretime"}
AnnouncedInTurn ==
  /\ \A i \in DOMAIN irc.said : irc.said[i].what = "complete" =>
       \A j \in i + 1 .. Len(irc.said) :
         ~(/\ irc.said[j].what \in RaceLines /\ irc.said[j].rel = irc.said[i].rel
           /\ irc.said[j].gen = irc.said[i].gen /\ irc.said[j].era = irc.said[i].era)
  /\ \A i \in DOMAIN irc.said : irc.said[i].what = "block" =>
       \/ irc.said[i].of = {"stats", "racer", "footer"} \X {irc.said[i].race}
       \/ botMay.faults # {}

\* Sessions, hooks, timers and the pretime worker speak of one release: its lines come
\* out once each, and in their turn.
Announced == AnnouncedOnce /\ AnnouncedInTurn

\* Nothing stays where it is: what was published is handled or lost, every PING is
\* answered, and private lines go out once the client has finished the exchange that was
\* begun last (irc.go:560-620): they wait for that, and only for that.
BotDrains == <>[](/\ queue = <<>> /\ line = <<>> /\ buf = <<>> /\ chan = <<>> /\ outs = <<>>
                  /\ pending = {} /\ loose = {} /\ irc.inbox = <<>>
                  /\ irc.up => pm.waiting = 0 \/ pm.owed)
=============================================================================

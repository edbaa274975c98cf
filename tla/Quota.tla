------------------------------- MODULE Quota --------------------------------
(***************************************************************************)
(* The quota plugin of the sitebot (sitebot/plugins/quota/handler.go) and  *)
(* one user it judges.  The user's file belongs to the daemon; the plugin  *)
(* reads the week's uploads from it without a lock and puts a flag into it *)
(* that disables the account, by rewriting the file as it has read it.     *)
(* What the plugin knows of the user is in its memory, under its mutex,    *)
(* and in a state file.                                                    *)
(*                                                                         *)
(* Other users are judged in the same way and share nothing but the mutex. *)
(* Invited nicks and the kicks from IRC are left out, as are the texts.    *)
(* Days are counted from a Monday.                                         *)
(***************************************************************************)
EXTENDS Integers

CONSTANTS WeekDays,    \* days of a week; the last is a Sunday
          TrialDays,   \* days of a trial
          TrialQuota, WeekQuota,   \* uploads that are asked for
          MaxDay,      \* bound: days
          MaxUp,       \* bound: uploads in a week
          QuotaSettings,
          MaxFaults, MaxSaves,   \* bounds: failing writes or crashes, saves of the daemon
          Unknown      \* no state, no copy
ASSUME QuotaAssumption == WeekDays \in Nat \ {0} /\ TrialDays \in Nat \ {0}

VARIABLES today,
          user,      \* the user's file: disabled flag, the week's uploads, and the week they are of
          daemon,    \* the copy a load-change-save of the daemon works on
          state,     \* what the plugin knows of the user
          saved,     \* what its state file says
          owner,     \* who holds the mutex
          work,      \* the scan of the loop, the scan of a status command, and the staff's command
          may,       \* setting: the scans that run, whether a failed week means a new trial,
                     \* and how many commands the staff gives
          left       \* what may still happen, for the bounds
quotaVars == <<today, user, daemon, state, saved, owner, work, may, left>>

\* The scan of the loop, the scan of a status command, and a staff command.
Worker == {"loop", "status", "staff"}
Verbs == {"trial", "quota", "pass", "unpass", "delete"}

Week(d) == d \div WeekDays
ToSunday(d) == WeekDays - 1 - (d % WeekDays)
IsSunday(d) == ToSunday(d) = 0

Idle == [at |-> "idle", verb |-> "none", day |-> 0, copy |-> Unknown, changed |-> FALSE]
\* A trial begins on day d.  A week that was judged is remembered; -1 is none.
Trial(d) == [status |-> "trial", start |-> d, judged |-> -1, pass |-> FALSE, remain |-> TrialDays]
Disabled(s) == [s EXCEPT !.status = "disabled", !.judged = -1, !.remain = 0]
OnTrial(s, d) == [s EXCEPT !.status = "trial", !.start = d, !.remain = TrialDays]
OnQuota(s, d) == [s EXCEPT !.status = "quota", !.judged = -1, !.remain = ToSunday(d)]
\* trialDaysRemaining.
DaysLeft(s, d) == IF TrialDays > d - s.start THEN TrialDays - (d - s.start) ELSE 0

QuotaTypeOK ==
  /\ today \in 0 .. MaxDay /\ may \in QuotaSettings
  /\ user \in [flag : BOOLEAN, up : 0 .. MaxUp, week : 0 .. Week(MaxDay)]
  /\ owner \in Worker \cup {Unknown}
  /\ \A w \in Worker : work[w].at \in {"idle", "loaded", "flag", "write", "save", "lock"}

QuotaInit ==
  /\ today = 0 /\ user = [flag |-> FALSE, up |-> 0, week |-> 0]
  /\ daemon = Unknown /\ state = Unknown /\ saved = Unknown /\ owner = Unknown
  /\ work = [w \in Worker |-> Idle]
  /\ may \in QuotaSettings
  /\ left = [staff |-> may.staff, faults |-> MaxFaults, saves |-> MaxSaves]

Spent(what) == left[what] > 0 /\ left' = [left EXCEPT ![what] = @ - 1]
Does(w, step) == work' = [work EXCEPT ![w] = step]
Goes(w, at) == work' = [work EXCEPT ![w].at = at]

-----------------------------------------------------------------------------
(* The daemon.                                                             *)

NextDay ==
  /\ today < MaxDay /\ today' = today + 1
  /\ UNCHANGED <<user, daemon, state, saved, owner, work, may, left>>

\* Its saves hold a lock that the plugin knows nothing of.  A login is refused
\* when the flag is set; a session that is in goes on.
DaemonLoads(what) ==
  /\ daemon = Unknown /\ Spent("saves")
  /\ what = "login" => ~user.flag
  /\ daemon' = [file |-> user, what |-> what]
  /\ UNCHANGED <<today, user, state, saved, owner, work, may>>

\* The week's counters start again when the file is first changed in a new week.
DaemonSaves ==
  LET old == daemon.file
      up == (IF old.week = Week(today) THEN old.up ELSE 0)
            + (IF daemon.what = "upload" THEN 1 ELSE 0)
  IN /\ daemon # Unknown /\ up <= MaxUp
     /\ user' = IF daemon.what = "enable" THEN [old EXCEPT !.flag = FALSE]
                ELSE [flag |-> old.flag, up |-> up, week |-> Week(today)]
     /\ daemon' = Unknown
     /\ UNCHANGED <<today, state, saved, owner, work, may, left>>

-----------------------------------------------------------------------------
(* Scans.                                                                  *)

\* loadSnapshots, before the mutex.
Load(w) ==
  /\ work[w].at = "idle"
  /\ Does(w, [Idle EXCEPT !.at = "loaded", !.day = today, !.copy = user])
  /\ UNCHANGED <<today, user, daemon, state, saved, owner, may, left>>

\* A state that needs a save is saved before the mutex is released.
Keeps(w, s) ==
  /\ state' = s
  /\ IF s = state THEN owner' = Unknown /\ Does(w, Idle) ELSE owner' = w /\ Goes(w, "save")

\* applyDisabledSideEffectsLocked begins; s is the state should it fail.
Disables(w, s) ==
  /\ state' = s /\ owner' = w
  /\ work' = [work EXCEPT ![w].at = "flag", ![w].changed = s # state]

\* Mutant: a trial that is over is marked as judged, and judged once.
JudgeTrialOnce(w, s, snap, day) ==
  LET counted == [s EXCEPT !.remain = DaysLeft(s, day)] IN
  IF counted.remain > 0 \/ s.pass \/ s.judged # -1 THEN Keeps(w, counted)
  ELSE IF snap.up >= TrialQuota THEN Keeps(w, OnQuota(s, day))
  ELSE Disables(w, [counted EXCEPT !.judged = Week(day)])

JudgeTrial(w, s, snap, day) ==
  LET counted == [s EXCEPT !.remain = DaysLeft(s, day)] IN
  IF counted.remain > 0 \/ s.pass THEN Keeps(w, counted)
  ELSE IF snap.up >= TrialQuota THEN Keeps(w, OnQuota(s, day))
  ELSE Disables(w, counted)

\* The week is marked as judged before anything is done about it.
JudgeWeek(w, s, snap, day) ==
  LET counted == [s EXCEPT !.remain = ToSunday(day)]
      judged == [counted EXCEPT !.judged = Week(day)]
  IN IF ~IsSunday(day) \/ s.judged = Week(day) THEN Keeps(w, counted)
     ELSE IF s.pass \/ snap.up >= WeekQuota THEN Keeps(w, judged)
     ELSE IF may.fallback THEN Keeps(w, OnTrial(judged, day))
     ELSE Disables(w, judged)

\* scanAndProcess with the mutex.  Nobody is tracked who is disabled already.
Judge(w) ==
  LET snap == work[w].copy  day == work[w].day
      s == IF state = Unknown THEN Trial(day) ELSE state
  IN /\ work[w].at = "loaded" /\ owner = Unknown
     /\ IF state = Unknown /\ snap.flag THEN Keeps(w, state)
        ELSE IF snap.flag /\ s.status # "disabled"
        THEN Keeps(w, [s EXCEPT !.status = "disabled", !.remain = 0])
        ELSE IF s.status = "trial" THEN JudgeTrial(w, s, snap, day)
        ELSE IF s.status = "quota" THEN JudgeWeek(w, s, snap, day)
        ELSE Keeps(w, s)
     /\ UNCHANGED <<today, user, daemon, saved, may, left>>

-----------------------------------------------------------------------------
(* setDisabledFlag: the file is read, and written with the flag changed.   *)

ReadFlag(w) ==
  /\ work[w].at = "flag"
  /\ work' = [work EXCEPT ![w].at = "write", ![w].copy = user]
  /\ UNCHANGED <<today, user, daemon, state, saved, owner, may, left>>

On(w) == work[w].verb \in {"none", "delete"}

WriteFlag(w) ==
  /\ work[w].at = "write"
  /\ user' = [work[w].copy EXCEPT !.flag = On(w)]
  /\ state' = IF On(w) THEN Disabled(state) ELSE state
  /\ work' = [work EXCEPT ![w].at = IF On(w) THEN "save" ELSE "lock", ![w].copy = Unknown]
  /\ UNCHANGED <<today, daemon, saved, owner, may, left>>

\* A scan goes on without the user; a staff command ends with an error.
WriteFails(w) ==
  /\ work[w].at = "write" /\ Spent("faults")
  /\ IF w # "staff" /\ work[w].changed
     THEN Goes(w, "save") /\ UNCHANGED owner
     ELSE Does(w, Idle) /\ owner' = IF owner = w THEN Unknown ELSE owner
  /\ UNCHANGED <<today, user, daemon, state, saved, may>>

\* saveStateLocked.  What could not be saved stays in memory.
Save(w) ==
  /\ work[w].at = "save"
  /\ saved' = state /\ owner' = Unknown /\ Does(w, Idle)
  /\ UNCHANGED <<today, user, daemon, state, may, left>>
SaveFails(w) ==
  /\ work[w].at = "save" /\ Spent("faults")
  /\ owner' = Unknown /\ Does(w, Idle)
  /\ UNCHANGED <<today, user, daemon, state, saved, may>>

-----------------------------------------------------------------------------
(* The staff's commands: the flag is cleared before the mutex is taken,    *)
(* except that delete takes it first.                                      *)

StaffCommand(verb) ==
  /\ work["staff"].at = "idle" /\ Spent("staff")
  /\ Does("staff", [Idle EXCEPT !.verb = verb,
                      !.at = IF verb \in {"unpass", "delete"} THEN "lock" ELSE "flag"])
  /\ UNCHANGED <<today, user, daemon, state, saved, owner, may>>

Sets(verb, s) ==
  CASE verb = "trial" -> [OnTrial(s, today) EXCEPT !.judged = -1]
    [] verb = "quota" -> [OnQuota(s, today) EXCEPT !.start = 0]
    [] verb = "unpass" -> [s EXCEPT !.pass = FALSE]
    [] verb = "pass" -> [(IF s.status = "disabled" THEN OnQuota(s, today) ELSE s) EXCEPT !.pass = TRUE]

\* Every command saves, changed or not.
CommandSets ==
  LET verb == work["staff"].verb
      s == IF state = Unknown THEN Trial(today) ELSE state
  IN /\ work["staff"].at = "lock" /\ owner = Unknown
     /\ IF verb = "delete" THEN Disables("staff", s)
        ELSE owner' = "staff" /\ state' = Sets(verb, s) /\ Goes("staff", "save")
     /\ UNCHANGED <<today, user, daemon, saved, may, left>>

-----------------------------------------------------------------------------
\* The bot goes down, and comes back with what its state file says.
BotRestarts ==
  /\ Spent("faults")
  /\ state' = saved /\ owner' = Unknown /\ work' = [w \in Worker |-> Idle]
  /\ UNCHANGED <<today, user, daemon, saved, may>>

ScanStep(w) == Load(w) \/ Judge(w)
FileStep(w) == ReadFlag(w) \/ WriteFlag(w) \/ Save(w)

\* The scan loop goes on, what was begun is finished, and the mutex lets in who waits.
QuotaFair ==
  /\ WF_quotaVars(Load("loop")) /\ SF_quotaVars(Judge("loop"))
  /\ \A w \in Worker : WF_quotaVars(FileStep(w))

QuotaNext ==
  \/ NextDay \/ DaemonSaves \/ CommandSets \/ BotRestarts
  \/ \E what \in {"login", "upload", "enable"} : DaemonLoads(what)
  \/ \E w \in may.scans : ScanStep(w)
  \/ \E w \in Worker : FileStep(w) \/ WriteFails(w) \/ SaveFails(w)
  \/ \E verb \in Verbs : StaffCommand(verb)

QuotaSpec == QuotaInit /\ [][QuotaNext]_quotaVars /\ QuotaFair

-----------------------------------------------------------------------------
TrialIsOver == state # Unknown /\ state.status = "trial" /\ ~state.pass /\ DaysLeft(state, today) = 0
FlagUnseen == user.flag /\ state # Unknown /\ state.status # "disabled"

\* A trial that is over ends: the user moves to the weekly quota, or his account is
\* disabled, or the staff gives him another.  A write that fails only puts it off
\* until the next scan (scanAndProcess).
TrialsEnd == TrialIsOver ~> ~TrialIsOver

\* Whoever put the flag there, and whatever the bot forgot in a crash between the
\* user's file and its own: it comes to agree that the account is disabled.
FlagIsNoticed == FlagUnseen ~> ~FlagUnseen

\* A scan does not disable a user whom the staff lets pass.
PassProtects ==
  [][(\E w \in Worker \ {"staff"} : WriteFlag(w)) => ~state.pass]_quotaVars

QuotaHolds == TrialsEnd /\ FlagIsNoticed /\ PassProtects
=============================================================================

------------------------------- MODULE Nukes --------------------------------
(***************************************************************************)
(* SITE NUKE and SITE UNNUKE.  In master mode a nuke takes credits from every *)
(* uploader of a release, one user file after another, then renames the     *)
(* release and records in the history what it took; when the rename fails   *)
(* it gives the credits back; in local mode it renames first, then takes.   *)
(* An unnuke renames first, then gives back                                 *)
(* what the record says, or recomputes it when the record is empty.  The    *)
(* autonuke plugin drives the same commands over an FTP connection of its   *)
(* own, with a time limit, and deletes old nuked releases.                  *)
(*                                                                          *)
(* Each user file is changed under its lock (MutateAndSave), so the change   *)
(* of one user is a step; nothing else is held across the steps, and any two *)
(* commands may be at one release.  Whatever the database answers, a command *)
(* goes on; that it fails is bounded: once in what "lost" says of a release. *)
(***************************************************************************)
EXTENDS UserFile, Sequences, FiniteSets

CONSTANTS Release,
          Staff,            \* FTP sessions that run nuke commands
          Bytes,            \* [Release -> [Name -> Nat]]: who uploaded how much of it
          Multiplier,       \* the multipliers that are used
          MaxNukes          \* bound of a run: how many nuke commands there are

Records == UNION {[S -> 0 .. MaxInt] : S \in SUBSET Name}
NukeCommand == [op : {"nuke", "unnuke", "wipe"}, r : Release, mult : Nat, auto : BOOLEAN,
                at : {"take", "rename", "local", "undo", "record", "give", "mark", "wipe"},
                todo : SUBSET Name, taken : Records]

ASSUME NukesAssumption == /\ Release # {} /\ Bytes \in [Release -> [Name -> Nat]]
                          /\ Multiplier \subseteq Nat \ {0} /\ MaxNukes \in Nat
                          /\ None \notin NukeCommand /\ IsFiniteSet(Staff)

VARIABLES rel,      \* [Release -> {"there", "nuked", "gone"}]
          history,  \* the nukes table: a sequence of records
          nuke,     \* [Staff -> None or the running command]
          due,      \* the releases a rule of autonuke applies to: to warn of, or to nuke
          warned,   \* the releases with a warning file
          auto,     \* what autonuke's scan is doing
          nukesLeft,
          lost      \* history: the releases whose records no longer follow what was done to them
                    \* ("record"), and those of which other credits came back than were taken ("sum")

nukeVars == <<rel, history, nuke, due, warned, auto, nukesLeft, lost>>

Uploaders(r) == {n \in Name : Bytes[r][n] > 0}
NukeRecord == [r : Release, mult : Multiplier, taken : Records, status : {"active", "unnuked", "deleted"}]

NukeTypeOK ==
  /\ rel \in [Release -> {"there", "nuked", "gone"}]
  /\ history \in Seq(NukeRecord)
  /\ nuke \in [Staff -> NukeCommand \cup {None}]
  /\ due \in [Release -> {"no", "warn", "nuke"}]
  /\ warned \subseteq Release
  /\ auto \in [at : {"idle", "nuke", "wipe", "mark"}, r : Release]
  /\ nukesLeft \in 0 .. MaxNukes
  /\ lost \in [record : SUBSET Release, sum : SUBSET Release]

-----------------------------------------------------------------------------
(* Credits of a nuke *)

Penalty(bytes, ratio, mult) ==
  IF bytes <= 0 \/ ratio <= 0 \/ mult <= 0 THEN 0
  ELSE IF bytes * ratio * mult > MaxInt THEN MaxInt ELSE bytes * ratio * mult

\* clampCreditRemoval: never more than the balance.
Removed(u, r, n, mult) ==
  LET p == Penalty(Bytes[r][n], u.ratio, mult) IN IF p > u.credits THEN u.credits ELSE p

Nuked(u, taken) == [u EXCEPT !.credits = @ - taken, !.nukes = @ + 1]
Unnuked(u, given) == [u EXCEPT !.credits = CreditAdd(@, given), !.nukes = IF @ > 0 THEN @ - 1 ELSE 0]

-----------------------------------------------------------------------------
(* The history *)

ActiveOf(h, r) == {i \in DOMAIN h : h[i].r = r /\ h[i].status = "active"}
HasActive(h, r) == ActiveOf(h, r) # {}
NewestActive(h, r) == CHOOSE i \in ActiveOf(h, r) : \A j \in ActiveOf(h, r) : j <= i

Marked(h, r, status) ==
  IF HasActive(h, r) THEN [h EXCEPT ![NewestActive(h, r)].status = status] ELSE h

\* The commands between the renaming of a release and the word of it to the database.
Recording(r) == {k \in Staff : /\ nuke[k] # None /\ nuke[k].r = r
                               /\ nuke[k].op = "nuke" /\ nuke[k].at \in {"local", "record"}}
Restoring(r) == {k \in Staff : /\ nuke[k] # None /\ nuke[k].r = r
                               /\ nuke[k].op = "unnuke" /\ nuke[k].at \in {"give", "mark"}}

LosesRecord(r) == lost' = [record |-> lost.record \cup {r}, sum |-> lost.sum \cup {r}]
DatabaseFails(r) == r \notin lost.record /\ LosesRecord(r)

-----------------------------------------------------------------------------
(* SITE NUKE *)

NukeRuns(k, op, at) == nuke[k] # None /\ nuke[k].op = op /\ nuke[k].at = at
NukeGoesTo(k, at, todo) == nuke' = [nuke EXCEPT ![k].at = at, ![k].todo = todo]
NukeEnds(k) == nuke' = [nuke EXCEPT ![k] = None]

StartNuke(k, r, mult, isAuto, at) ==
  /\ nuke[k] = None /\ nukesLeft > 0
  /\ rel[r] = "there"
  /\ nuke' = [nuke EXCEPT ![k] = [op |-> "nuke", r |-> r, mult |-> mult, auto |-> isAuto, at |-> at,
                                  todo |-> Uploaders(r), taken |-> <<>>]]
  /\ nukesLeft' = nukesLeft - 1

SiteNuke(k, r) ==
  /\ \E mult \in Multiplier : StartNuke(k, r, mult, FALSE, "take")
  /\ UNCHANGED <<file, rel, history, due, warned, auto, lost>>

\* In local mode the directory is renamed before any credits are taken.
LocalNuke(k, r) ==
  /\ \E mult \in Multiplier : StartNuke(k, r, mult, FALSE, "rename")
  /\ UNCHANGED <<file, rel, history, due, warned, auto, lost>>

LocalNukeRename(k) ==
  LET r == nuke[k].r IN
  /\ NukeRuns(k, "nuke", "rename")
  /\ IF rel[r] = "there"
     THEN rel' = [rel EXCEPT ![r] = "nuked"] /\ NukeGoesTo(k, "local", nuke[k].todo)
     ELSE NukeEnds(k) /\ UNCHANGED rel
  /\ UNCHANGED <<file, history, due, warned, auto, nukesLeft, lost>>

LocalTaken(k) ==
  /\ NukeRuns(k, "nuke", "local") /\ nuke[k].todo = {}
  /\ NukeGoesTo(k, "record", {})
  /\ UNCHANGED <<file, rel, history, due, warned, auto, nukesLeft, lost>>

\* ApplyNukeCredits: a user whose file cannot be changed is left out of the records.
TakeCredits(k) ==
  /\ NukeRuns(k, "nuke", "take") \/ NukeRuns(k, "nuke", "local")
  /\ \E n \in nuke[k].todo :
       LET u == file[n]
           taken == Removed(u, nuke[k].r, n, nuke[k].mult) IN
       IF u # None /\ Saves(n, Nuked(u, taken))
       THEN /\ file' = Written(n, Nuked(u, taken))
            /\ nuke' = [nuke EXCEPT ![k].todo = @ \ {n},
                                    ![k].taken = [m \in DOMAIN @ \cup {n} |-> IF m = n THEN taken ELSE @[m]]]
       ELSE NukeGoesTo(k, nuke[k].at, nuke[k].todo \ {n}) /\ UNCHANGED file
  /\ UNCHANGED <<rel, history, due, warned, auto, nukesLeft, lost>>

\* Mutant: a nuke whose rename fails keeps the credits.
NukeRenameKeeps(k) ==
  LET r == nuke[k].r IN
  /\ NukeRuns(k, "nuke", "take") /\ nuke[k].todo = {}
  /\ IF rel[r] = "there"
     THEN rel' = [rel EXCEPT ![r] = "nuked"] /\ NukeGoesTo(k, "record", {})
     ELSE NukeEnds(k) /\ UNCHANGED rel
  /\ UNCHANGED <<file, history, due, warned, auto, nukesLeft, lost>>

\* bridge.RenameFile fails when another command has renamed the release.
NukeRename(k) ==
  LET r == nuke[k].r IN
  /\ NukeRuns(k, "nuke", "take") /\ nuke[k].todo = {}
  /\ IF rel[r] = "there"
     THEN rel' = [rel EXCEPT ![r] = "nuked"] /\ NukeGoesTo(k, "record", {})
     ELSE NukeGoesTo(k, "undo", DOMAIN nuke[k].taken) /\ UNCHANGED rel
  /\ UNCHANGED <<file, history, due, warned, auto, nukesLeft, lost>>

\* ApplyUnnukeCredits: one user gets back what the records say.
GivesBack(k, n, given) ==
  LET u == Unnuked(file[n], given) IN
  /\ file' = IF file[n] = None THEN file ELSE Written(n, u)
  /\ NukeGoesTo(k, nuke[k].at, nuke[k].todo \ {n})

NukeUndo(k) ==
  /\ NukeRuns(k, "nuke", "undo")
  /\ IF nuke[k].todo = {} THEN NukeEnds(k) /\ UNCHANGED file
     ELSE \E n \in nuke[k].todo : GivesBack(k, n, nuke[k].taken[n])
  /\ UNCHANGED <<rel, history, due, warned, auto, nukesLeft, lost>>

RecordNuke(k) ==
  /\ NukeRuns(k, "nuke", "record")
  /\ \/ /\ history' = Append(history, [r |-> nuke[k].r, mult |-> nuke[k].mult, taken |-> nuke[k].taken,
                                       status |-> "active"])
        /\ UNCHANGED lost
     \/ DatabaseFails(nuke[k].r) /\ UNCHANGED history
  /\ NukeEnds(k)
  /\ UNCHANGED <<file, rel, due, warned, auto, nukesLeft>>

-----------------------------------------------------------------------------
(* SITE UNNUKE *)

\* It reads the record before it renames; without one, or when the database fails, it
\* holds none.
SiteUnnuke(k, r) ==
  /\ nuke[k] = None /\ nukesLeft > 0
  /\ rel[r] = "nuked"
  /\ \E found \in {HasActive(history, r), FALSE} :
       LET i == NewestActive(history, r) IN
       nuke' = [nuke EXCEPT ![k] = [op |-> "unnuke", r |-> r, auto |-> FALSE, at |-> "rename", todo |-> {},
                                    mult |-> IF found THEN history[i].mult ELSE 0,
                                    taken |-> IF found THEN history[i].taken ELSE <<>>]]
  /\ nukesLeft' = nukesLeft - 1
  /\ UNCHANGED <<file, rel, history, due, warned, auto, lost>>

UnnukeRename(k) ==
  LET r == nuke[k].r IN
  /\ NukeRuns(k, "unnuke", "rename")
  /\ IF rel[r] = "nuked"
     THEN /\ rel' = [rel EXCEPT ![r] = "there"]
          /\ NukeGoesTo(k, "give", IF DOMAIN nuke[k].taken = {} THEN Uploaders(r) ELSE DOMAIN nuke[k].taken)
     ELSE NukeEnds(k) /\ UNCHANGED rel
  /\ UNCHANGED <<file, history, due, warned, auto, nukesLeft, lost>>

\* ApplyUnnukeCreditsRecompute: at least once the penalty of today's ratio.
Recomputed(k, n) ==
  IF file[n] = None THEN 0
  ELSE Penalty(Bytes[nuke[k].r][n], file[n].ratio, IF nuke[k].mult <= 0 THEN 1 ELSE nuke[k].mult)

GiveCredits(k) ==
  /\ NukeRuns(k, "unnuke", "give")
  /\ IF nuke[k].todo = {} THEN NukeGoesTo(k, "mark", {}) /\ UNCHANGED file
     ELSE \E n \in nuke[k].todo :
            GivesBack(k, n, IF DOMAIN nuke[k].taken = {} THEN Recomputed(k, n) ELSE nuke[k].taken[n])
  /\ UNCHANGED <<rel, history, due, warned, auto, nukesLeft, lost>>

\* What came back is what the record it marks says was taken.
GaveIt(k) ==
  LET r == nuke[k].r IN
  /\ HasActive(history, r) /\ history[NewestActive(history, r)].taken = nuke[k].taken
  /\ DOMAIN nuke[k].taken = {} => Uploaders(r) = {}

\* It marks the newest record of the path, whatever it has read; where there is none, that
\* of a nuke that has still to record is not marked later.
MarkUnnuked(k) ==
  LET r == nuke[k].r IN
  /\ NukeRuns(k, "unnuke", "mark")
  /\ \/ /\ history' = Marked(history, r, "unnuked")
        /\ IF ~HasActive(history, r) THEN LosesRecord(r)
           ELSE lost' = IF GaveIt(k) THEN lost ELSE [lost EXCEPT !.sum = @ \cup {r}]
     \/ DatabaseFails(r) /\ UNCHANGED history
  /\ NukeEnds(k)
  /\ UNCHANGED <<file, rel, due, warned, auto, nukesLeft>>

\* Mutant: it looks for the release under the path it had before the nuke.
SiteNukesOriginal ==
  /\ \E r \in Release : /\ HasActive(history, r) /\ rel[r] # "there"
                        /\ history' = Marked(history, r, "deleted")
  /\ UNCHANGED <<file, rel, nuke, due, warned, auto, nukesLeft, lost>>

\* SITE NUKES forgets the active records whose release is no longer there, that of a nuke
\* which is being undone with them.
SiteNukes ==
  /\ \E r \in Release : /\ HasActive(history, r) /\ rel[r] # "nuked"
                        /\ history' = Marked(history, r, "deleted")
                        /\ IF Recording(r) \cup Restoring(r) = {} THEN UNCHANGED lost ELSE LosesRecord(r)
  /\ UNCHANGED <<file, rel, nuke, due, warned, auto, nukesLeft>>

-----------------------------------------------------------------------------
(* The autonuke plugin *)

\* Uploads and time change what the rules say of a release.
Ages(r) ==
  /\ rel[r] = "there"
  /\ due' = [due EXCEPT ![r] = CASE @ = "no" -> "warn" [] @ = "warn" -> "nuke" [] OTHER -> "no"]
  /\ UNCHANGED <<file, rel, history, nuke, warned, auto, nukesLeft, lost>>

\* processRelease: a release with an active record is skipped.
AutoSkips(r) == HasActive(history, r)

AutoWarn(r) ==
  /\ auto.at = "idle" /\ rel[r] = "there" /\ due[r] # "nuke"
  /\ warned' = IF due[r] = "warn" /\ ~AutoSkips(r) THEN warned \cup {r} ELSE warned \ {r}
  /\ warned' # warned
  /\ UNCHANGED <<file, rel, history, nuke, due, auto, nukesLeft, lost>>

AutoNuke(r) ==
  /\ auto.at = "idle" /\ due[r] = "nuke" /\ ~AutoSkips(r)
  /\ \E k \in Staff, mult \in Multiplier : StartNuke(k, r, mult, TRUE, "take")
  /\ warned' = warned \ {r}
  /\ auto' = [at |-> "nuke", r |-> r]
  /\ UNCHANGED <<file, rel, history, due, lost>>

\* runSITE: the answer to NUKE comes, or the connection's time is up and the
\* command runs on without it.
AutoReturns ==
  /\ auto.at \in {"nuke", "wipe"}
  /\ auto' = [auto EXCEPT !.at = "idle"]
  /\ UNCHANGED <<file, rel, history, nuke, due, warned, nukesLeft, lost>>

\* cleanupOldNukes: SITE WIPE of an old nuked release, then the index, then the history.
AutoWipe(r) ==
  /\ auto.at = "idle" /\ rel[r] = "nuked" /\ nukesLeft > 0
  /\ \E k \in Staff : /\ nuke[k] = None
                      /\ nuke' = [nuke EXCEPT ![k] = [op |-> "wipe", r |-> r, mult |-> 0, auto |-> TRUE,
                                                      at |-> "wipe", todo |-> {}, taken |-> <<>>]]
  /\ nukesLeft' = nukesLeft - 1
  /\ auto' = [at |-> "wipe", r |-> r]
  /\ UNCHANGED <<file, rel, history, due, warned, lost>>

Wipe(k) ==
  LET r == nuke[k].r IN
  /\ NukeRuns(k, "wipe", "wipe")
  /\ IF rel[r] = "nuked"
     THEN /\ rel' = [rel EXCEPT ![r] = "gone"]
          /\ auto' = IF auto.at = "wipe" /\ auto.r = r THEN [auto EXCEPT !.at = "mark"] ELSE auto
     ELSE /\ auto' = IF auto.at = "wipe" /\ auto.r = r THEN [auto EXCEPT !.at = "idle"] ELSE auto
          /\ UNCHANGED rel
  /\ NukeEnds(k)
  /\ UNCHANGED <<file, history, due, warned, nukesLeft, lost>>

AutoMarks ==
  /\ auto.at = "mark"
  /\ history' \in {Marked(history, auto.r, "deleted"), history}
  /\ auto' = [auto EXCEPT !.at = "idle"]
  /\ UNCHANGED <<file, rel, nuke, due, warned, nukesLeft, lost>>

-----------------------------------------------------------------------------

NukeInit(most) ==
  /\ rel = [r \in Release |-> "there"]
  /\ history = <<>>
  /\ nuke = [k \in Staff |-> None]
  /\ due = [r \in Release |-> "no"]
  /\ warned = {}
  /\ auto = [at |-> "idle", r |-> CHOOSE r \in Release : TRUE]
  /\ nukesLeft = most
  /\ lost = [record |-> {}, sum |-> {}]

NukeStep ==
  \/ \E k \in Staff :
       \/ \E r \in Release : SiteUnnuke(k, r)
       \/ TakeCredits(k) \/ RecordNuke(k)
       \/ UnnukeRename(k) \/ GiveCredits(k) \/ MarkUnnuked(k)

MasterNukeStep ==
  \/ \E k \in Staff :
       \/ \E r \in Release : SiteNuke(k, r)
       \/ NukeRename(k) \/ NukeUndo(k)
  \/ SiteNukes

AutoStep ==
  \/ \E k \in Staff : Wipe(k)
  \/ \E r \in Release : Ages(r) \/ AutoWarn(r) \/ AutoNuke(r) \/ AutoWipe(r)
  \/ AutoReturns \/ AutoMarks

LocalNukeStep ==
  \E k \in Staff :
    \/ \E r \in Release : LocalNuke(k, r)
    \/ LocalNukeRename(k) \/ LocalTaken(k)

=============================================================================

------------------------------ MODULE UserFile ------------------------------
(***************************************************************************)
(* The user files of etc/users and what internal/user does to them: loading *)
(* a copy, saving a copy (refused when it would destroy the file on disk),  *)
(* changing one under its lock, and counting a transfer.  A save writes a   *)
(* temporary file and renames it, and every save holds the lock of its      *)
(* name, so a save is one step; a load takes no lock.  The cache of         *)
(* user.go is keyed by the file's stamp and is transparent.                 *)
(*                                                                          *)
(* A user keeps the fields that a save compares or that an operation        *)
(* decides on.  Files and bytes of a traffic statistic are one number, the  *)
(* day, week and month statistics are left out, and "tag" stands for the    *)
(* plain fields (flags, tagline, limits) a SITE command replaces.           *)
(***************************************************************************)
EXTENDS Integers

CONSTANTS Name,     \* user names
          Group,    \* group names, "NoGroup" among them
          Ip,       \* IP masks
          MaxInt,   \* the largest int64: credits saturate at it
          None      \* no file, no entry

ASSUME UserFileAssumption == /\ Name # {} /\ "NoGroup" \in Group
                             /\ MaxInt \in Nat

User == [credits : 0 .. MaxInt, ratio : Nat, up : Nat, dn : Nat, nukes : Nat,
         groups : SUBSET Group, gadmin : SUBSET Group, primary : Group \cup {""},
         ips : SUBSET Ip, tag : 0 .. 1]

ASSUME NoneAssumption == None \notin User

VARIABLE file       \* [Name -> User or None]: etc/users/<name>

FileTypeOK == file \in [Name -> User \cup {None}]

-----------------------------------------------------------------------------
(* Saving *)

\* saveLocked puts the primary group among the groups.
Completed(u) ==
  IF u.primary = "" THEN u ELSE [u EXCEPT !.groups = @ \cup {u.primary}]

\* inspectUserfileSafety: a file with traffic and nothing else was cut short.
LooksTruncated(u) ==
  /\ u.up > 0 \/ u.dn > 0
  /\ u.groups = {} /\ u.ips = {} /\ u.primary = "" /\ u.ratio = 0 /\ u.credits = 0

\* Mutant: the traffic counters are not compared.
SafeRewriteOfSettings(cur, next) ==
  \/ cur = None
  \/ /\ ~LooksTruncated(cur)
     /\ cur.groups # {} => next.groups # {}
     /\ cur.ips # {} => next.ips # {}
     /\ cur.primary # "" => next.primary # ""
     /\ cur.ratio > 0 => next.ratio > 0

\* validateUserfileRewrite: what a save may put in the place of cur.
SafeRewrite(cur, next) ==
  \/ cur = None
  \/ /\ ~LooksTruncated(cur)
     /\ cur.groups # {} => next.groups # {}
     /\ cur.ips # {} => next.ips # {}
     /\ cur.primary # "" => next.primary # ""
     /\ cur.ratio > 0 => next.ratio > 0
     /\ cur.credits > 0 => next.credits > 0 \/ next.dn > cur.dn
     /\ next.up >= cur.up
     /\ next.dn >= cur.dn

Saves(n, u) == SafeRewrite(file[n], Completed(u))

Written(n, u) == IF Saves(n, u) THEN [file EXCEPT ![n] = Completed(u)] ELSE file

-----------------------------------------------------------------------------
(* Credits *)

CreditGain(bytes, ratio) ==
  IF bytes <= 0 \/ ratio <= 0 THEN 0
  ELSE IF bytes * ratio > MaxInt THEN MaxInt ELSE bytes * ratio

CreditAdd(current, delta) ==
  IF current + delta > MaxInt THEN MaxInt ELSE current + delta

\* A user of ratio 0 is not charged (HasEnoughCredits).
HasEnoughCredits(u, bytes) == u.ratio = 0 \/ u.credits >= bytes

Uploaded(u, bytes) ==
  [u EXCEPT !.up = @ + bytes,
            !.credits = CreditAdd(@, CreditGain(bytes, u.ratio))]

\* Mutant: credits are charged below zero.
DownloadedBelow(u, bytes) == [u EXCEPT !.dn = @ + bytes, !.credits = @ - bytes]

Downloaded(u, bytes) ==
  [u EXCEPT !.dn = @ + bytes,
            !.credits = IF u.ratio = 0 THEN @ ELSE IF @ >= bytes THEN @ - bytes ELSE 0]

\* UpdateStatsWithCredits counts on what is on disk, or on the session's own
\* copy when the file cannot be loaded.
Latest(n, copy) == IF file[n] # None THEN file[n] ELSE copy

Counted(n, copy, bytes, upload) ==
  IF upload THEN Uploaded(Latest(n, copy), bytes) ELSE Downloaded(Latest(n, copy), bytes)

\* The session's copy takes the counters over, saved or not.
Refreshed(copy, u) == [copy EXCEPT !.credits = u.credits, !.up = u.up, !.dn = u.dn]

=============================================================================

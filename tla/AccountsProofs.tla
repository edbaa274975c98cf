--------------------------- MODULE AccountsProofs ---------------------------
(***************************************************************************)
(* For any users, staff, releases and settings, and any number of account  *)
(* commands, transfers, nukes and failing writes: every user file stays    *)
(* one, its credits between zero and the largest number; nothing that is   *)
(* saved takes traffic away from it; and the history of nukes says what    *)
(* became of a release.                                                    *)
(*                                                                         *)
(* The last is a matter of counting: any number of commands may be at one  *)
(* release between its renaming and their word to the database, but its    *)
(* renames take turns, so that records there are and will be, less those   *)
(* that will be marked, are as many as the release is nuked.               *)
(***************************************************************************)
EXTENDS Accounts, FiniteSetTheorems, WellFoundedInduction, TLAPS

-----------------------------------------------------------------------------
(* The user files. *)

\* A user's fields.
LEMMA UserFields ==
  ASSUME NEW u \in User
  PROVE  /\ u.credits \in 0 .. MaxInt /\ u.ratio \in Nat /\ u.up \in Nat /\ u.dn \in Nat /\ u.nukes \in Nat
         /\ u.groups \subseteq Group /\ u.gadmin \subseteq Group /\ u.primary \in Group \cup {""}
         /\ u.ips \subseteq Ip /\ u.tag \in 0 .. 1
         /\ MaxInt \in Nat
  BY UserFileAssumption DEF User

\* What is saved is a user with the same traffic.
LEMMA CompletedFacts ==
  ASSUME NEW u \in User
  PROVE  Completed(u) \in User /\ Completed(u).up = u.up /\ Completed(u).dn = u.dn
<1>1. CASE u.primary = ""
  BY <1>1 DEF Completed
<1>2. CASE u.primary # ""
  <2>1. u.primary \in Group /\ u.groups \cup {u.primary} \subseteq Group
    BY <1>2, UserFields
  <2>2. Completed(u) = [u EXCEPT !.groups = u.groups \cup {u.primary}]
    BY <1>2 DEF Completed
  <2> QED
    BY <2>1, <2>2 DEF User
<1> QED
  BY <1>1, <1>2

\* Credits stay in their range.
LEMMA CreditsStay ==
  /\ \A c \in 0 .. MaxInt, d \in Nat : CreditAdd(c, d) \in 0 .. MaxInt
  /\ \A b, r \in Nat : CreditGain(b, r) \in Nat
  /\ \A b, r, m \in Nat : Penalty(b, r, m) \in Nat
<1>1. MaxInt \in Nat
  BY UserFileAssumption
<1>2. \A b, r \in Nat : b * r \in Nat
  OBVIOUS
<1>3. \A c \in 0 .. MaxInt, d \in Nat : CreditAdd(c, d) \in 0 .. MaxInt
  BY <1>1 DEF CreditAdd
<1>4. \A b, r \in Nat : CreditGain(b, r) \in Nat
  BY <1>1, <1>2 DEF CreditGain
<1>5. \A b, r, m \in Nat : Penalty(b, r, m) \in Nat
  <2> TAKE b, r, m \in Nat
  <2>1. PICK p : p = b * r
    OBVIOUS
  <2>2. p \in Nat
    BY <1>2, <2>1
  <2>3. p * m \in Nat
    BY <1>2, <2>2
  <2>4. Penalty(b, r, m) = IF b <= 0 \/ r <= 0 \/ m <= 0 THEN 0 ELSE IF p * m > MaxInt THEN MaxInt ELSE p * m
    BY <2>1 DEF Penalty
  <2> QED
    BY <1>1, <2>3, <2>4
<1> QED
  BY <1>3, <1>4, <1>5

\* What a transfer or a nuke makes of a user is one.
LEMMA UploadedIsUser ==
  ASSUME NEW u \in User, NEW b \in Nat
  PROVE  Uploaded(u, b) \in User
<1>0. u.credits \in 0 .. MaxInt /\ u.up \in Nat /\ u.ratio \in Nat
  BY UserFields
<1>1. u.credits \in 0 .. MaxInt /\ u.up + b \in Nat /\ u.ratio \in Nat
  BY <1>0
<1>2. PICK c : c = CreditAdd(u.credits, CreditGain(b, u.ratio))
  OBVIOUS
<1>3. c \in 0 .. MaxInt
  BY <1>1, <1>2, CreditsStay
<1>4. Uploaded(u, b) = [u EXCEPT !.up = u.up + b, !.credits = c]
  BY <1>2 DEF Uploaded, User
<1> QED
  BY <1>1, <1>3, <1>4 DEF User

\* A download never takes the credits below zero.
LEMMA DownloadedIsUser ==
  ASSUME NEW u \in User, NEW b \in Nat
  PROVE  Downloaded(u, b) \in User
<1>0. u.credits \in 0 .. MaxInt /\ u.dn \in Nat /\ MaxInt \in Nat
  BY UserFields
<1>1. u.credits \in 0 .. MaxInt /\ u.dn + b \in Nat /\ MaxInt \in Nat
  BY <1>0
<1>2. PICK c : c = IF u.ratio = 0 THEN u.credits ELSE IF u.credits >= b THEN u.credits - b ELSE 0
  OBVIOUS
<1>3. c \in 0 .. MaxInt
  BY <1>1, <1>2
<1>4. Downloaded(u, b) = [u EXCEPT !.dn = u.dn + b, !.credits = c]
  BY <1>2 DEF Downloaded, User
<1> QED
  BY <1>1, <1>3, <1>4 DEF User

\* A nuke takes no more than the balance.
LEMMA NukedIsUser ==
  ASSUME NEW u \in User, NEW r \in Release, NEW n \in Name, NEW mult \in Nat
  PROVE  /\ Removed(u, r, n, mult) \in 0 .. MaxInt
         /\ Nuked(u, Removed(u, r, n, mult)) \in User
<1>0. u.credits \in 0 .. MaxInt /\ u.nukes \in Nat /\ u.ratio \in Nat /\ MaxInt \in Nat
  BY UserFields
<1>1. u.credits \in 0 .. MaxInt /\ u.nukes + 1 \in Nat /\ u.ratio \in Nat /\ MaxInt \in Nat
  BY <1>0
<1>2. Bytes[r][n] \in Nat
  BY NukesAssumption
<1>3. PICK p : p = Penalty(Bytes[r][n], u.ratio, mult)
  OBVIOUS
<1>4. p \in Nat
  BY <1>1, <1>2, <1>3, CreditsStay
<1>5. PICK t : t = Removed(u, r, n, mult)
  OBVIOUS
<1>6. t = IF p > u.credits THEN u.credits ELSE p
  BY <1>3, <1>5 DEF Removed
<1>7. t \in 0 .. MaxInt /\ u.credits - t \in 0 .. MaxInt
  BY <1>1, <1>4, <1>6
<1>8. Nuked(u, t) \in User
  BY <1>1, <1>7 DEF Nuked, User
<1> QED
  BY <1>5, <1>7, <1>8

\* What is given back saturates.
LEMMA UnnukedIsUser ==
  ASSUME NEW u \in User, NEW given \in Nat
  PROVE  Unnuked(u, given) \in User
<1>1. u.credits \in 0 .. MaxInt /\ u.nukes \in Nat
  BY UserFields
<1>2. PICK c : c = CreditAdd(u.credits, given)
  OBVIOUS
<1>3. c \in 0 .. MaxInt
  BY <1>1, <1>2, CreditsStay
<1>4. PICK k : k = IF u.nukes > 0 THEN u.nukes - 1 ELSE 0
  OBVIOUS
<1>5. k \in Nat
  BY <1>1, <1>4
<1>6. Unnuked(u, given) = [u EXCEPT !.credits = c, !.nukes = k]
  BY <1>2, <1>4 DEF Unnuked, User
<1> QED
  BY <1>3, <1>5, <1>6 DEF User

\* What a SITE command makes of a user is one.
LEMMA EditsAreUsers ==
  ASSUME NEW v \in User, NEW known, known \subseteq Group, NEW u \in Edits(v, known)
  PROVE  u \in User
<1>0. /\ v.groups \subseteq Group /\ v.gadmin \subseteq Group /\ v.primary \in Group \cup {""}
      /\ v.tag \in 0 .. 1
  BY UserFields
<1>1. CASE u \in ChRatio(v)
  <2>1. PICK r \in 0 .. 1 : u = [v EXCEPT !.ratio = r]
    BY <1>1 DEF ChRatio
  <2>2. r \in Nat
    OBVIOUS
  <2> QED
    BY <2>1, <2>2 DEF User
<1>2. CASE u \in ChPlain(v)
  <2>1. PICK t : t = 1 - v.tag
    OBVIOUS
  <2>2. t \in 0 .. 1
    <3>1. \A x \in 0 .. 1 : 1 - x \in 0 .. 1
      OBVIOUS
    <3> QED
      BY <1>0, <2>1, <3>1
  <2>3. u = [v EXCEPT !.tag = t]
    BY <1>2, <2>1 DEF ChPlain, User
  <2> QED
    BY <2>2, <2>3 DEF User
<1>3. CASE u \in ChGrp(v, known)
  <2> DEFINE Next1(t) == (v.groups \ t) \cup (t \ v.groups)
             Heirs(t) == IF v.primary = "" \/ v.primary \in Next1(t) THEN {v.primary}
                             ELSE IF t \ v.groups # {} THEN t \ v.groups ELSE Next1(t)
             Made(t) == {[v EXCEPT !.groups = Next1(t), !.gadmin = @ \ t, !.primary = p] : p \in Heirs(t)}
  <2>0. ChGrp(v, known) = UNION {IF t \ v.groups \subseteq known THEN Made(t) ELSE {} : t \in SUBSET Group \ {{}}}
    BY Zenon DEF ChGrp
  <2>1. PICK t \in SUBSET Group \ {{}} : u \in IF t \ v.groups \subseteq known THEN Made(t) ELSE {}
    <3> HIDE DEF Made
    <3> QED
      BY <1>3, <2>0
  <2>2. PICK p \in Heirs(t) : u = [v EXCEPT !.groups = Next1(t), !.gadmin = @ \ t, !.primary = p]
    BY <2>1
  <2>3. Next1(t) \subseteq Group /\ v.gadmin \ t \subseteq Group /\ p \in Group \cup {""}
    BY <1>0
  <2> HIDE DEF Next1, Heirs
  <2>4. u = [v EXCEPT !.groups = Next1(t), !.gadmin = v.gadmin \ t, !.primary = p]
    BY <2>2 DEF User
  <2> QED
    BY <2>3, <2>4 DEF User
<1>4. CASE u \in ChPGrp(v, known)
  <2>1. PICK g \in known :
          u = [v EXCEPT !.primary = g,
                      !.groups = (@ \cup {g}) \ (IF g = "NoGroup" THEN {} ELSE {"NoGroup"}),
                      !.gadmin = @ \ ((IF g = "NoGroup" THEN {} ELSE {"NoGroup"}) \cup {g})]
    BY <1>4 DEF ChPGrp
  <2>2. PICK gs, ga : /\ gs = (v.groups \cup {g}) \ (IF g = "NoGroup" THEN {} ELSE {"NoGroup"})
                      /\ ga = v.gadmin \ ((IF g = "NoGroup" THEN {} ELSE {"NoGroup"}) \cup {g})
    OBVIOUS
  <2>3. gs \subseteq Group /\ ga \subseteq Group /\ g \in Group
    BY <1>0, <2>2
  <2>4. u = [v EXCEPT !.primary = g, !.groups = gs, !.gadmin = ga]
    BY <2>1, <2>2 DEF User
  <2> QED
    BY <2>3, <2>4 DEF User
<1>5. CASE u \in GAdmin(v, known)
  <2>1. PICK g \in known : u = [v EXCEPT !.groups = @ \cup {g}, !.gadmin = IF g \in @ THEN @ \ {g} ELSE @ \cup {g}]
    BY <1>5 DEF GAdmin
  <2>2. PICK ga : ga = IF g \in v.gadmin THEN v.gadmin \ {g} ELSE v.gadmin \cup {g}
    OBVIOUS
  <2>3. ga \subseteq Group /\ v.groups \cup {g} \subseteq Group
    BY <1>0, <2>2
  <2>4. u = [v EXCEPT !.groups = v.groups \cup {g}, !.gadmin = ga]
    BY <2>1, <2>2 DEF User
  <2> QED
    BY <2>3, <2>4 DEF User
<1> QED
  BY <1>1, <1>2, <1>3, <1>4, <1>5 DEF Edits

-----------------------------------------------------------------------------
(* What the account commands are. *)

\* A command that saves a copy holds one, and its other name is of the kind it works on.
SoundCommand ==
  {x \in Command : /\ x.op \in {"adduser", "renuser", "edit", "ips"} => x.u \in User
                   /\ x.op = "renuser" => x.m \in Name
                   /\ x.op \in {"grpadd", "grpdel"} => x.m \in Group}

GroupsTypeOK == etcGroup \subseteq Group /\ groupCfg \subseteq Group /\ groupMap \in [Admin -> SUBSET Group]
PasswdTypeOK == passwd \in [Name -> Hash \cup {None}] /\ saved \in [Name -> Hash \cup {None}]
StashTypeOK == stash \in [Name -> User \cup {None}]
SessTypeOK == sess \in [Session -> [name : Name, u : User, in : BOOLEAN] \cup {None}]
CmdTypeOK == cmd \in [Admin -> SoundCommand \cup {None}]
LeftTypeOK == left \in [cmds : 0 .. MaxCommands, faults : 0 .. MaxFaults, xfers : 0 .. MaxTransfers]

SiteSound == FileTypeOK /\ GroupsTypeOK /\ PasswdTypeOK /\ StashTypeOK /\ SessTypeOK /\ CmdTypeOK /\ LeftTypeOK

\* A save leaves the user files what they are, and takes no traffic from one.
LEMMA WrittenFacts ==
  ASSUME FileTypeOK, NEW n \in Name, NEW u \in User
  PROVE  /\ Written(n, u) \in [Name -> User \cup {None}]
         /\ \A m \in Name : file[m] # None /\ Written(n, u)[m] # None
              => Written(n, u)[m].up >= file[m].up /\ Written(n, u)[m].dn >= file[m].dn
<1>1. Completed(u) \in User
  BY CompletedFacts
<1>2. \A m \in Name : file[m] # None => file[m].up \in Nat /\ file[m].dn \in Nat
  BY UserFields DEF FileTypeOK
<1>3. CASE Saves(n, u)
  <2>1. PICK c : c = Completed(u)
    OBVIOUS
  <2>2. Written(n, u) = [file EXCEPT ![n] = c] /\ c \in User
    BY <1>1, <1>3, <2>1 DEF Written
  <2>3. file[n] # None => c.up >= file[n].up /\ c.dn >= file[n].dn
    BY <1>3, <2>1 DEF Saves, SafeRewrite
  <2> QED
    BY <1>2, <2>2, <2>3 DEF FileTypeOK
<1>4. CASE ~Saves(n, u)
  BY <1>2, <1>4 DEF Written, FileTypeOK
<1> QED
  BY <1>3, <1>4

\* How a command begins, goes on and ends.
LEMMA BeginFacts ==
  ASSUME CmdTypeOK, LeftTypeOK, NEW a \in Admin, NEW op, NEW at, NEW n, NEW m, NEW u, NEW h,
         Begin(a, op, at, n, m, u, h),
         [op |-> op, at |-> at, n |-> n, m |-> m, u |-> u, h |-> h] \in SoundCommand
  PROVE  CmdTypeOK' /\ LeftTypeOK'
<1>1. CmdTypeOK'
  BY DEF CmdTypeOK, Begin
<1>2. left.cmds - 1 \in 0 .. MaxCommands
  BY SiteUserAssumption DEF LeftTypeOK, Begin
<1>3. left' = [left EXCEPT !.cmds = left.cmds - 1]
  BY DEF Begin, LeftTypeOK
<1> QED
  BY <1>1, <1>2, <1>3 DEF LeftTypeOK

\* A command that goes on keeps its copy.
LEMMA GoesToFacts ==
  ASSUME CmdTypeOK, NEW a \in Admin, cmd[a] # None, NEW at, GoesTo(a, at),
         at \in {"hash", "save", "rename", "passwd", "remove", "unsave", "group"}
  PROVE  CmdTypeOK'
<1>1. PICK c : c = cmd[a]
  OBVIOUS
<1>2. c \in SoundCommand
  BY <1>1 DEF CmdTypeOK
<1>3. [c EXCEPT !.at = at] \in SoundCommand
  BY <1>2 DEF SoundCommand, Command
<1>4. cmd' = [cmd EXCEPT ![a] = [c EXCEPT !.at = at]]
  BY <1>1 DEF GoesTo, CmdTypeOK
<1> QED
  BY <1>3, <1>4 DEF CmdTypeOK

\* A command that ends leaves the others.
LEMMA EndsFacts ==
  ASSUME CmdTypeOK, NEW a \in Admin, Ends(a)
  PROVE  CmdTypeOK'
BY DEF CmdTypeOK, Ends

\* A failing write uses up one of the faults.
LEMMA FaultFacts ==
  ASSUME LeftTypeOK, Fault
  PROVE  LeftTypeOK'
<1>1. left.faults - 1 \in 0 .. MaxFaults
  BY SiteUserAssumption DEF LeftTypeOK, Fault
<1> QED
  BY <1>1 DEF LeftTypeOK, Fault

\* What a command that runs holds.
LEMMA CommandFields ==
  ASSUME CmdTypeOK, NEW a \in Admin, cmd[a] # None
  PROVE  /\ cmd[a].n \in Name /\ cmd[a].m \in Name \cup Group /\ cmd[a].h \in Hash
         /\ cmd[a].op \in {"adduser", "renuser", "edit", "ips"} => cmd[a].u \in User
         /\ cmd[a].op = "renuser" => cmd[a].m \in Name
         /\ cmd[a].op \in {"grpadd", "grpdel"} => cmd[a].m \in Group
<1>1. cmd[a] \in SoundCommand
  BY DEF CmdTypeOK
<1> QED
  BY <1>1 DEF SoundCommand, Command

-----------------------------------------------------------------------------
(* The steps of sessions and account commands. *)

TrafficGrows ==
  \A n \in Name : (file[n] # None /\ file'[n] # None /\ ~PutsBack(n))
    => (file'[n].up >= file[n].up /\ file'[n].dn >= file[n].dn)

\* A user file that stays, or goes, loses no traffic.
LEMMA TrafficStays ==
  ASSUME FileTypeOK, \A n \in Name : file'[n] \in {file[n], None}
  PROVE  TrafficGrows
<1>1. \A n \in Name : file[n] # None => file[n].up \in Nat /\ file[n].dn \in Nat
  BY UserFields DEF FileTypeOK
<1> QED
  BY <1>1 DEF TrafficGrows

\* A save of a user leaves users, with no less traffic.
LEMMA WrittenKeeps ==
  ASSUME FileTypeOK, NEW n \in Name, NEW u \in User, file' = Written(n, u)
  PROVE  FileTypeOK' /\ TrafficGrows
<1>1. PICK w : w = Written(n, u)
  OBVIOUS
<1>2. /\ w \in [Name -> User \cup {None}]
      /\ \A m \in Name : file[m] # None /\ w[m] # None => w[m].up >= file[m].up /\ w[m].dn >= file[m].dn
  BY <1>1, WrittenFacts
<1>3. file' = w
  BY <1>1
<1> QED
  BY <1>2, <1>3 DEF FileTypeOK, TrafficGrows

\* A session loads a user, logs in, and counts its transfers on one.
LEMMA SessionsKeep ==
  ASSUME SiteSound, SessionStep
  PROVE  SiteSound' /\ TrafficGrows
<1> USE DEF SiteSound, GroupsTypeOK, PasswdTypeOK, StashTypeOK, CmdTypeOK
<1>1. ASSUME NEW s \in Session, NEW n \in Name, UserCmd(s, n)
      PROVE  SiteSound' /\ TrafficGrows
  <2>1. file[n] \in User
    BY <1>1 DEF UserCmd, FileTypeOK
  <2>2. SessTypeOK'
    BY <1>1, <2>1 DEF UserCmd, SessTypeOK
  <2>3. TrafficGrows
    BY <1>1, TrafficStays DEF UserCmd
  <2> QED
    BY <1>1, <2>2, <2>3 DEF UserCmd, FileTypeOK, LeftTypeOK
<1>2. ASSUME NEW s \in Session, PassCmd(s)
      PROVE  SiteSound' /\ TrafficGrows
  <2>1. SessTypeOK'
    BY <1>2 DEF PassCmd, SessTypeOK
  <2>2. TrafficGrows
    BY <1>2, TrafficStays DEF PassCmd
  <2> QED
    BY <1>2, <2>1, <2>2 DEF PassCmd, FileTypeOK, LeftTypeOK
<1>3. ASSUME NEW s \in Session, Transfer(s)
      PROVE  SiteSound' /\ TrafficGrows
  <2>1. PICK upload \in BOOLEAN : CountTransfer(s, 1, upload)
    BY <1>3 DEF Transfer
  <2>2. PICK x : x = sess[s]
    OBVIOUS
  <2>3. x.name \in Name /\ x.u \in User /\ x \in [name : Name, u : User, in : BOOLEAN]
    BY <1>3, <2>2 DEF Transfer, LoggedIn, SessTypeOK
  <2>4. PICK u : u = Counted(x.name, x.u, 1, upload)
    OBVIOUS
  <2>5. Latest(x.name, x.u) \in User
    BY <2>3 DEF Latest, FileTypeOK
  <2>6. u \in User
    BY <2>4, <2>5, UploadedIsUser, DownloadedIsUser DEF Counted
  <2>7. file' = Written(x.name, u)
    BY <2>1, <2>2, <2>4 DEF CountTransfer
  <2>8. FileTypeOK' /\ TrafficGrows
    BY <2>3, <2>6, <2>7, WrittenKeeps
  <2>9. SessTypeOK'
    <3>1. PICK c : c = Refreshed(x.u, u)
      OBVIOUS
    <3>2. c \in User
      BY <2>3, <2>6, <3>1 DEF Refreshed, User
    <3>3. sess' = [sess EXCEPT ![s] = [x EXCEPT !.u = c]]
      BY <2>1, <2>2, <2>4, <3>1 DEF CountTransfer, SessTypeOK
    <3>4. [x EXCEPT !.u = c] \in [name : Name, u : User, in : BOOLEAN]
      BY <2>3, <3>2
    <3> QED
      BY <3>3, <3>4 DEF SessTypeOK
  <2>10. LeftTypeOK'
    <3>1. left.xfers - 1 \in 0 .. MaxTransfers
      BY <1>3, SiteUserAssumption DEF LeftTypeOK, Transfer
    <3>2. left' = [left EXCEPT !.xfers = left.xfers - 1]
      BY <1>3 DEF LeftTypeOK, Transfer
    <3> QED
      BY <3>1, <3>2 DEF LeftTypeOK
  <2> QED
    BY <1>3, <2>8, <2>9, <2>10 DEF Transfer
<1> QED
  BY <1>1, <1>2, <1>3 DEF SessionStep

\* A command begins with a copy of a user, or with none.
LEMMA BeginsKeep ==
  ASSUME SiteSound, BeginStep
  PROVE  SiteSound' /\ TrafficGrows
<1> DEFINE Rest == UNCHANGED <<file, passwd, stash, saved, etcGroup, groupCfg, sess>>
           Record(op, at, n, m, u, h) == [op |-> op, at |-> at, n |-> n, m |-> m, u |-> u, h |-> h]
<1>0. ASSUME Rest, CmdTypeOK', LeftTypeOK', groupMap' \in [Admin -> SUBSET Group]
      PROVE  SiteSound' /\ TrafficGrows
  <2>1. TrafficGrows
    BY <1>0, TrafficStays DEF SiteSound
  <2> QED
    BY <1>0, <2>1 DEF SiteSound, FileTypeOK, GroupsTypeOK, PasswdTypeOK, StashTypeOK, SessTypeOK
<1>00. groupMap \in [Admin -> SUBSET Group] /\ CmdTypeOK /\ LeftTypeOK
  BY DEF SiteSound, GroupsTypeOK
<1>000. \A n \in Name : file[n] # None => file[n] \in User
  BY DEF SiteSound, FileTypeOK

<1>1. ASSUME NEW a \in Admin, NEW n \in Name, AddUser(a, n)
      PROVE  SiteSound' /\ TrafficGrows
  <2>1. Record("adduser", "save", n, n, NewUser, "new") \in SoundCommand
    BY SiteUserAssumption DEF SoundCommand, Command, Hash
  <2> QED
    BY <1>0, <1>00, <1>1, <2>1, BeginFacts DEF AddUser
<1>2. ASSUME NEW a \in Admin, NEW n \in Name, DelUser(a, n)
      PROVE  SiteSound' /\ TrafficGrows
  <2>1. Record("deluser", "hash", n, n, None, "old") \in SoundCommand
    BY DEF SoundCommand, Command, Hash
  <2> QED
    BY <1>0, <1>00, <1>2, <2>1, BeginFacts DEF DelUser
<1>3. ASSUME NEW a \in Admin, NEW n \in Name, ReAdd(a, n)
      PROVE  SiteSound' /\ TrafficGrows
  <2>1. PICK h \in Hash : Begin(a, "readd", "rename", n, n, None, h)
    BY <1>3 DEF ReAdd
  <2>2. Record("readd", "rename", n, n, None, h) \in SoundCommand
    BY DEF SoundCommand, Command
  <2> QED
    BY <1>0, <1>00, <1>3, <2>1, <2>2, BeginFacts DEF ReAdd
<1>4. ASSUME NEW a \in Admin, NEW n \in Name, ChPass(a, n)
      PROVE  SiteSound' /\ TrafficGrows
  <2>1. Record("chpass", "passwd", n, n, None, "new") \in SoundCommand
    BY DEF SoundCommand, Command, Hash
  <2> QED
    BY <1>0, <1>00, <1>4, <2>1, BeginFacts DEF ChPass
<1>5. ASSUME NEW a \in Admin, NEW n \in Name, Edit(a, n)
      PROVE  SiteSound' /\ TrafficGrows
  <2>1. PICK u \in Edits(file[n], groupMap[a]) : Begin(a, "edit", "save", n, n, u, "old")
    BY <1>5 DEF Edit
  <2>2. file[n] \in User /\ groupMap[a] \subseteq Group
    BY <1>00, <1>000, <1>5 DEF Edit
  <2>3. u \in User
    BY <2>1, <2>2, EditsAreUsers
  <2>4. Record("edit", "save", n, n, u, "old") \in SoundCommand
    BY <2>3 DEF SoundCommand, Command, Hash
  <2> QED
    BY <1>0, <1>00, <1>5, <2>1, <2>4, BeginFacts DEF Edit
<1>6. ASSUME NEW a \in Admin, NEW n \in Name, ChIps(a, n)
      PROVE  SiteSound' /\ TrafficGrows
  <2>1. PICK ips \in SUBSET Ip : Begin(a, "ips", "save", n, n, [file[n] EXCEPT !.ips = ips], "old")
    BY <1>6 DEF ChIps
  <2>2. PICK u : u = [file[n] EXCEPT !.ips = ips]
    OBVIOUS
  <2>3. u \in User
    BY <1>000, <1>6, <2>2 DEF ChIps, User
  <2>4. Record("ips", "save", n, n, u, "old") \in SoundCommand
    BY <2>3 DEF SoundCommand, Command, Hash
  <2> QED
    BY <1>0, <1>00, <1>6, <2>1, <2>2, <2>4, BeginFacts DEF ChIps
<1>7. ASSUME NEW a \in Admin, NEW n \in Name, NEW m \in Name, RenUser(a, n, m)
      PROVE  SiteSound' /\ TrafficGrows
  <2>1. Record("renuser", "save", n, m, file[n], "old") \in SoundCommand
    BY <1>000, <1>7 DEF SoundCommand, Command, Hash, RenUser
  <2> QED
    BY <1>0, <1>00, <1>7, <2>1, BeginFacts DEF RenUser
<1>8. ASSUME NEW a \in Admin, NEW g \in Group, GrpAdd(a, g)
      PROVE  SiteSound' /\ TrafficGrows
  <2>1. PICK n : n = CHOOSE x \in Name : TRUE
    OBVIOUS
  <2>2. Record("grpadd", "save", n, g, None, "old") \in SoundCommand
    BY <2>1, UserFileAssumption DEF SoundCommand, Command, Hash
  <2> QED
    BY <1>0, <1>00, <1>8, <2>1, <2>2, BeginFacts DEF GrpAdd
<1>9. ASSUME NEW a \in Admin, NEW g \in Group, GrpDel(a, g)
      PROVE  SiteSound' /\ TrafficGrows
  <2>1. PICK n : n = CHOOSE x \in Name : TRUE
    OBVIOUS
  <2>2. PICK h : h = IF g \in groupCfg THEN "old" ELSE "new"
    OBVIOUS
  <2>3. Record("grpdel", "remove", n, g, None, h) \in SoundCommand
    BY <2>1, <2>2, UserFileAssumption DEF SoundCommand, Command, Hash
  <2>4. Begin(a, "grpdel", "remove", n, g, None, h)
    BY <1>9, <2>1, <2>2, Zenon DEF GrpDel
  <2>5. CmdTypeOK' /\ LeftTypeOK'
    BY <1>00, <2>3, <2>4, BeginFacts
  <2> QED
    BY <1>0, <1>00, <1>9, <2>5 DEF GrpDel
<1>10. ASSUME NEW a \in Admin, NEW n \in Name, NEW g \in Group, GAddUser(a, n, g)
      PROVE  SiteSound' /\ TrafficGrows
  <2>1. PICK u : u = [NewUser EXCEPT !.primary = g, !.groups = {g}]
    OBVIOUS
  <2>2. u \in User
    BY <2>1, SiteUserAssumption DEF User
  <2>3. Record("adduser", "save", n, n, u, "new") \in SoundCommand
    BY <2>2 DEF SoundCommand, Command, Hash
  <2>4. groupMap' \in [Admin -> SUBSET Group]
    BY <1>00, <1>10 DEF GAddUser
  <2> QED
    BY <1>0, <1>00, <1>10, <2>1, <2>3, <2>4, BeginFacts DEF GAddUser
<1> QED
  BY <1>1, <1>2, <1>3, <1>4, <1>5, <1>6, <1>7, <1>8, <1>9, <1>10 DEF BeginStep

\* Each step of a command, failing or not, leaves the files and tables what they are.
LEMMA CommandsKeep ==
  ASSUME SiteSound, CommandStep
  PROVE  SiteSound' /\ TrafficGrows
<1>1. /\ FileTypeOK /\ GroupsTypeOK /\ PasswdTypeOK /\ StashTypeOK /\ SessTypeOK /\ CmdTypeOK /\ LeftTypeOK
      /\ None \notin User
  BY NoneAssumption DEF SiteSound
<1>2. ASSUME UNCHANGED file
      PROVE  FileTypeOK' /\ TrafficGrows
  BY <1>1, <1>2, TrafficStays DEF FileTypeOK
<1>3. ASSUME NEW n \in Name, file' = [file EXCEPT ![n] = None]
      PROVE  FileTypeOK' /\ TrafficGrows
  BY <1>1, <1>3, TrafficStays DEF FileTypeOK
<1>4. ASSUME NEW n \in Name, StashReturns(n)
      PROVE  FileTypeOK' /\ TrafficGrows /\ StashTypeOK'
  <2>1. CASE stash[n] = None
    BY <1>1, <1>2, <1>4, <2>1 DEF StashReturns, StashTypeOK
  <2>2. CASE stash[n] # None
    <3>1. /\ file' = [file EXCEPT ![n] = stash[n]] /\ stash' = [stash EXCEPT ![n] = None]
          /\ stash[n] \in User
      BY <1>1, <1>4, <2>2 DEF StashReturns, StashTypeOK
    <3>2. FileTypeOK' /\ StashTypeOK'
      BY <1>1, <3>1 DEF FileTypeOK, StashTypeOK
    <3>3. \A m \in Name : file[m] # None => file[m].up \in Nat /\ file[m].dn \in Nat
      BY <1>1, UserFields DEF FileTypeOK
    <3>4. \A m \in Name : ~PutsBack(m) => file'[m] = file[m]
      BY <1>1, <2>2, <3>1 DEF FileTypeOK, StashTypeOK, PutsBack
    <3>5. TrafficGrows
      BY <3>3, <3>4 DEF TrafficGrows
    <3> QED
      BY <3>2, <3>5
  <2> QED
    BY <2>1, <2>2
<1>5. UNCHANGED stash => StashTypeOK'
  BY <1>1 DEF StashTypeOK
<1>6. UNCHANGED <<passwd, saved>> => PasswdTypeOK'
  BY <1>1 DEF PasswdTypeOK
<1>7. UNCHANGED <<etcGroup, groupCfg, groupMap>> => GroupsTypeOK'
  BY <1>1 DEF GroupsTypeOK
<1>8. UNCHANGED sess => SessTypeOK'
  BY <1>1 DEF SessTypeOK
<1>9. UNCHANGED left \/ Fault => LeftTypeOK'
  BY <1>1, FaultFacts DEF LeftTypeOK
<1>10. ASSUME NEW a \in Admin, cmd[a] # None,
              \/ Ends(a)
              \/ \E at \in {"hash", "save", "rename", "passwd", "remove", "unsave", "group"} : GoesTo(a, at)
       PROVE  CmdTypeOK'
  BY <1>1, <1>10, EndsFacts, GoesToFacts
<1> DEFINE FilesKept == FileTypeOK' /\ TrafficGrows
<1> HIDE DEF FilesKept
<1>11. ASSUME FilesKept, StashTypeOK', PasswdTypeOK', GroupsTypeOK', SessTypeOK', LeftTypeOK', CmdTypeOK'
       PROVE  SiteSound' /\ TrafficGrows
  BY <1>11 DEF FilesKept, SiteSound

<1>12. ASSUME NEW a \in Admin, AddUserSaves(a)
      PROVE  SiteSound' /\ TrafficGrows
  <2>1. cmd[a] # None
    BY <1>12 DEF AddUserSaves, Runs
  <2>2. CmdTypeOK'
    BY <1>10, <1>12, <2>1 DEF AddUserSaves
  <2>3. cmd[a].n \in Name /\ cmd[a].m \in Name \cup Group /\ cmd[a].h \in Hash
    BY <1>1, <2>1, CommandFields
  <2>4. FilesKept
    <3>1. cmd[a].u \in User /\ cmd[a].n \in Name
      BY <1>1, <1>12, <2>1, <2>3, CommandFields DEF AddUserSaves, Runs
    <3> QED
      BY <1>1, <1>12, <3>1, WrittenKeeps DEF AddUserSaves, FilesKept
  <2>5. StashTypeOK' /\ PasswdTypeOK' /\ GroupsTypeOK' /\ SessTypeOK' /\ LeftTypeOK'
    BY <1>5, <1>6, <1>7, <1>8, <1>9, <1>12 DEF AddUserSaves
  <2> QED
    BY <1>11, <2>2, <2>4, <2>5
<1>13. ASSUME NEW a \in Admin, AddUserWritesPasswd(a)
      PROVE  SiteSound' /\ TrafficGrows
  <2>1. cmd[a] # None
    BY <1>13 DEF AddUserWritesPasswd, Runs
  <2>2. CmdTypeOK'
    BY <1>10, <1>13, <2>1 DEF AddUserWritesPasswd
  <2>3. cmd[a].n \in Name /\ cmd[a].m \in Name \cup Group /\ cmd[a].h \in Hash
    BY <1>1, <2>1, CommandFields
  <2>4. FilesKept
    BY <1>2, <1>3, <1>13, <2>3 DEF AddUserWritesPasswd, FilesKept
  <2>5. PasswdTypeOK'
    BY <1>1, <1>6, <1>13, <2>3 DEF AddUserWritesPasswd, PasswdTypeOK, Hash
  <2>6. StashTypeOK' /\ GroupsTypeOK' /\ SessTypeOK' /\ LeftTypeOK'
    BY <1>5, <1>7, <1>8, <1>9, <1>13 DEF AddUserWritesPasswd
  <2> QED
    BY <1>11, <2>2, <2>4, <2>5, <2>6
<1>14. ASSUME NEW a \in Admin, DelUserKeepsHash(a)
      PROVE  SiteSound' /\ TrafficGrows
  <2>1. cmd[a] # None
    BY <1>14 DEF DelUserKeepsHash, Runs
  <2>2. CmdTypeOK'
    BY <1>10, <1>14, <2>1 DEF DelUserKeepsHash
  <2>3. cmd[a].n \in Name /\ cmd[a].m \in Name \cup Group /\ cmd[a].h \in Hash
    BY <1>1, <2>1, CommandFields
  <2>4. PasswdTypeOK'
    BY <1>1, <1>14, <2>3 DEF DelUserKeepsHash, PasswdTypeOK
  <2>5. FilesKept /\ StashTypeOK' /\ GroupsTypeOK' /\ SessTypeOK' /\ LeftTypeOK'
    BY <1>2, <1>5, <1>7, <1>8, <1>9, <1>14 DEF DelUserKeepsHash, FilesKept
  <2> QED
    BY <1>11, <2>2, <2>4, <2>5
<1>15. ASSUME NEW a \in Admin, DelUserRenames(a)
      PROVE  SiteSound' /\ TrafficGrows
  <2>1. cmd[a] # None
    BY <1>15 DEF DelUserRenames, Runs
  <2>2. CmdTypeOK'
    BY <1>10, <1>15, <2>1 DEF DelUserRenames
  <2>3. cmd[a].n \in Name /\ cmd[a].m \in Name \cup Group /\ cmd[a].h \in Hash
    BY <1>1, <2>1, CommandFields
  <2>4. FilesKept
    BY <1>2, <1>3, <1>15, <2>3 DEF DelUserRenames, FilesKept
  <2>5. StashTypeOK'
    BY <1>1, <1>5, <1>15, <2>3 DEF DelUserRenames, StashTypeOK, FileTypeOK
  <2>6. PasswdTypeOK' /\ GroupsTypeOK' /\ SessTypeOK' /\ LeftTypeOK'
    BY <1>6, <1>7, <1>8, <1>9, <1>15 DEF DelUserRenames
  <2> QED
    BY <1>11, <2>2, <2>4, <2>5, <2>6
<1>16. ASSUME NEW a \in Admin, DelUserRemovesPasswd(a)
      PROVE  SiteSound' /\ TrafficGrows
  <2>1. cmd[a] # None
    BY <1>16 DEF DelUserRemovesPasswd, Runs
  <2>2. CmdTypeOK'
    BY <1>10, <1>16, <2>1 DEF DelUserRemovesPasswd
  <2>3. cmd[a].n \in Name /\ cmd[a].m \in Name \cup Group /\ cmd[a].h \in Hash
    BY <1>1, <2>1, CommandFields
  <2>4. FilesKept
    BY <1>2, <1>4, <1>16, <2>3 DEF DelUserRemovesPasswd, FilesKept
  <2>5. StashTypeOK'
    BY <1>4, <1>5, <1>16, <2>3 DEF DelUserRemovesPasswd
  <2>6. PasswdTypeOK'
    BY <1>1, <1>6, <1>16, <2>3 DEF DelUserRemovesPasswd, PasswdTypeOK
  <2>7. GroupsTypeOK' /\ SessTypeOK' /\ LeftTypeOK'
    BY <1>7, <1>8, <1>9, <1>16 DEF DelUserRemovesPasswd
  <2> QED
    BY <1>11, <2>2, <2>4, <2>5, <2>6, <2>7
<1>17. ASSUME NEW a \in Admin, ReAddRenames(a)
      PROVE  SiteSound' /\ TrafficGrows
  <2>1. cmd[a] # None
    BY <1>17 DEF ReAddRenames, Runs
  <2>2. CmdTypeOK'
    BY <1>10, <1>17, <2>1 DEF ReAddRenames
  <2>3. cmd[a].n \in Name /\ cmd[a].m \in Name \cup Group /\ cmd[a].h \in Hash
    BY <1>1, <2>1, CommandFields
  <2>4. FilesKept
    BY <1>4, <1>17, <2>3 DEF ReAddRenames, FilesKept
  <2>5. StashTypeOK'
    BY <1>4, <1>17, <2>3 DEF ReAddRenames
  <2>6. PasswdTypeOK' /\ GroupsTypeOK' /\ SessTypeOK' /\ LeftTypeOK'
    BY <1>6, <1>7, <1>8, <1>9, <1>17 DEF ReAddRenames
  <2> QED
    BY <1>11, <2>2, <2>4, <2>5, <2>6
<1>18. ASSUME NEW a \in Admin, ReAddWritesPasswd(a)
      PROVE  SiteSound' /\ TrafficGrows
  <2>1. cmd[a] # None
    BY <1>18 DEF ReAddWritesPasswd, Runs
  <2>2. CmdTypeOK'
    BY <1>10, <1>18, <2>1 DEF ReAddWritesPasswd
  <2>3. cmd[a].n \in Name /\ cmd[a].m \in Name \cup Group /\ cmd[a].h \in Hash
    BY <1>1, <2>1, CommandFields
  <2>4. FilesKept
    BY <1>2, <1>3, <1>18, <2>3 DEF ReAddWritesPasswd, FilesKept
  <2>5. StashTypeOK'
    BY <1>1, <1>5, <1>18, <2>3 DEF ReAddWritesPasswd, StashTypeOK, FileTypeOK
  <2>6. PasswdTypeOK'
    BY <1>1, <1>6, <1>18, <2>3 DEF ReAddWritesPasswd, PasswdTypeOK
  <2>7. GroupsTypeOK' /\ SessTypeOK' /\ LeftTypeOK'
    BY <1>7, <1>8, <1>9, <1>18 DEF ReAddWritesPasswd
  <2> QED
    BY <1>11, <2>2, <2>4, <2>5, <2>6, <2>7
<1>19. ASSUME NEW a \in Admin, ReAddForgetsHash(a)
      PROVE  SiteSound' /\ TrafficGrows
  <2>1. cmd[a] # None
    BY <1>19 DEF ReAddForgetsHash, Runs
  <2>2. CmdTypeOK'
    BY <1>10, <1>19, <2>1 DEF ReAddForgetsHash
  <2>3. cmd[a].n \in Name /\ cmd[a].m \in Name \cup Group /\ cmd[a].h \in Hash
    BY <1>1, <2>1, CommandFields
  <2>4. PasswdTypeOK'
    BY <1>1, <1>19, <2>3 DEF ReAddForgetsHash, PasswdTypeOK
  <2>5. FilesKept /\ StashTypeOK' /\ GroupsTypeOK' /\ SessTypeOK' /\ LeftTypeOK'
    BY <1>2, <1>5, <1>7, <1>8, <1>9, <1>19 DEF ReAddForgetsHash, FilesKept
  <2> QED
    BY <1>11, <2>2, <2>4, <2>5
<1>20. ASSUME NEW a \in Admin, RenUserSaves(a)
      PROVE  SiteSound' /\ TrafficGrows
  <2>1. cmd[a] # None
    BY <1>20 DEF RenUserSaves, Runs
  <2>2. CmdTypeOK'
    BY <1>10, <1>20, <2>1 DEF RenUserSaves
  <2>3. cmd[a].n \in Name /\ cmd[a].m \in Name \cup Group /\ cmd[a].h \in Hash
    BY <1>1, <2>1, CommandFields
  <2>4. FilesKept
    <3>1. cmd[a].u \in User /\ cmd[a].m \in Name
      BY <1>1, <1>20, <2>1, <2>3, CommandFields DEF RenUserSaves, Runs
    <3> QED
      BY <1>1, <1>20, <3>1, WrittenKeeps DEF RenUserSaves, FilesKept
  <2>5. StashTypeOK' /\ PasswdTypeOK' /\ GroupsTypeOK' /\ SessTypeOK' /\ LeftTypeOK'
    BY <1>5, <1>6, <1>7, <1>8, <1>9, <1>20 DEF RenUserSaves
  <2> QED
    BY <1>11, <2>2, <2>4, <2>5
<1>21. ASSUME NEW a \in Admin, RenUserRenamesPasswd(a)
      PROVE  SiteSound' /\ TrafficGrows
  <2>1. cmd[a] # None
    BY <1>21 DEF RenUserRenamesPasswd, Runs
  <2>2. CmdTypeOK'
    BY <1>10, <1>21, <2>1 DEF RenUserRenamesPasswd
  <2>3. cmd[a].n \in Name /\ cmd[a].m \in Name \cup Group /\ cmd[a].h \in Hash
    BY <1>1, <2>1, CommandFields
  <2>4. FilesKept
    <3>1. cmd[a].m \in Name
      BY <1>1, <1>21, <2>1, CommandFields DEF RenUserRenamesPasswd, Runs
    <3> QED
      BY <1>2, <1>3, <1>21, <3>1 DEF RenUserRenamesPasswd, FilesKept
  <2>5. PasswdTypeOK'
    <3>1. cmd[a].m \in Name
      BY <1>1, <1>21, <2>1, CommandFields DEF RenUserRenamesPasswd, Runs
    <3> QED
      BY <1>1, <1>6, <1>21, <2>3, <3>1 DEF RenUserRenamesPasswd, PasswdTypeOK, PasswdRenamed
  <2>6. StashTypeOK' /\ GroupsTypeOK' /\ SessTypeOK' /\ LeftTypeOK'
    BY <1>5, <1>7, <1>8, <1>9, <1>21 DEF RenUserRenamesPasswd, PasswdRenames
  <2> QED
    BY <1>11, <2>2, <2>4, <2>5, <2>6
<1>22. ASSUME NEW a \in Admin, RenUserRemoves(a)
      PROVE  SiteSound' /\ TrafficGrows
  <2>1. cmd[a] # None
    BY <1>22 DEF RenUserRemoves, Runs
  <2>2. CmdTypeOK'
    BY <1>10, <1>22, <2>1 DEF RenUserRemoves
  <2>3. cmd[a].n \in Name /\ cmd[a].m \in Name \cup Group /\ cmd[a].h \in Hash
    BY <1>1, <2>1, CommandFields
  <2>4. FilesKept
    <3>1. cmd[a].m \in Name
      BY <1>1, <1>22, <2>1, CommandFields DEF RenUserRemoves, Runs
    <3> QED
      BY <1>3, <1>22, <2>3, <3>1 DEF RenUserRemoves, FilesKept
  <2>5. PasswdTypeOK'
    <3>1. cmd[a].m \in Name
      BY <1>1, <1>22, <2>1, CommandFields DEF RenUserRemoves, Runs
    <3> QED
      BY <1>1, <1>6, <1>22, <2>3, <3>1 DEF RenUserRemoves, PasswdTypeOK, PasswdRenamed
  <2>6. StashTypeOK' /\ GroupsTypeOK' /\ SessTypeOK' /\ LeftTypeOK'
    BY <1>5, <1>7, <1>8, <1>9, <1>22 DEF RenUserRemoves
  <2> QED
    BY <1>11, <2>2, <2>4, <2>5, <2>6
<1>23. ASSUME NEW a \in Admin, ChPassWrites(a)
      PROVE  SiteSound' /\ TrafficGrows
  <2>1. cmd[a] # None
    BY <1>23 DEF ChPassWrites, Runs
  <2>2. CmdTypeOK'
    BY <1>10, <1>23, <2>1 DEF ChPassWrites
  <2>3. cmd[a].n \in Name /\ cmd[a].m \in Name \cup Group /\ cmd[a].h \in Hash
    BY <1>1, <2>1, CommandFields
  <2>4. PasswdTypeOK'
    BY <1>1, <1>6, <1>23, <2>3 DEF ChPassWrites, PasswdTypeOK, Hash
  <2>5. FilesKept /\ StashTypeOK' /\ GroupsTypeOK' /\ SessTypeOK' /\ LeftTypeOK'
    BY <1>2, <1>5, <1>7, <1>8, <1>9, <1>23 DEF ChPassWrites, FilesKept
  <2> QED
    BY <1>11, <2>2, <2>4, <2>5
<1>24. ASSUME NEW a \in Admin, EditSaves(a)
      PROVE  SiteSound' /\ TrafficGrows
  <2>1. cmd[a] # None
    BY <1>24 DEF EditSaves, Runs
  <2>2. CmdTypeOK'
    BY <1>10, <1>24, <2>1 DEF EditSaves
  <2>3. cmd[a].n \in Name /\ cmd[a].m \in Name \cup Group /\ cmd[a].h \in Hash
    BY <1>1, <2>1, CommandFields
  <2>4. FilesKept
    <3>1. cmd[a].u \in User /\ cmd[a].n \in Name
      BY <1>1, <1>24, <2>1, <2>3, CommandFields DEF EditSaves, Runs
    <3> QED
      BY <1>1, <1>24, <3>1, WrittenKeeps DEF EditSaves, FilesKept
  <2>5. StashTypeOK' /\ PasswdTypeOK' /\ GroupsTypeOK' /\ SessTypeOK' /\ LeftTypeOK'
    BY <1>5, <1>6, <1>7, <1>8, <1>9, <1>24 DEF EditSaves
  <2> QED
    BY <1>11, <2>2, <2>4, <2>5
<1>25. ASSUME NEW a \in Admin, SaveIpsOnly(a)
      PROVE  SiteSound' /\ TrafficGrows
  <2>1. cmd[a] # None
    BY <1>25 DEF SaveIpsOnly, Runs
  <2>2. CmdTypeOK'
    BY <1>10, <1>25, <2>1 DEF SaveIpsOnly
  <2>3. cmd[a].n \in Name /\ cmd[a].m \in Name \cup Group /\ cmd[a].h \in Hash
    BY <1>1, <2>1, CommandFields
  <2>4. FilesKept
    <3>1. cmd[a].u \in User
      BY <1>1, <1>25, <2>1, CommandFields DEF SaveIpsOnly, Runs
    <3>2. PICK n, ips : n = cmd[a].n /\ ips = cmd[a].u.ips
      OBVIOUS
    <3>3. n \in Name /\ ips \subseteq Ip
      BY <2>3, <3>1, <3>2, UserFields
    <3>4. CASE file[n] = None
      BY <1>2, <1>25, <3>2, <3>4 DEF SaveIpsOnly, FilesKept
    <3>5. CASE file[n] # None
      <4>1. PICK u : u = file[n]
        OBVIOUS
      <4>2. u \in User /\ [u EXCEPT !.ips = ips] \in User /\ u.up \in Nat /\ u.dn \in Nat
        BY <1>1, <3>3, <3>5, <4>1 DEF FileTypeOK, User
      <4>3. file' = [file EXCEPT ![n] = [u EXCEPT !.ips = ips]]
        BY <1>1, <1>25, <3>2, <3>5, <4>1 DEF SaveIpsOnly, FileTypeOK
      <4>4. FileTypeOK'
        BY <1>1, <4>2, <4>3 DEF FileTypeOK
      <4>5. PICK v : v = [u EXCEPT !.ips = ips]
        OBVIOUS
      <4>6. v.up >= u.up /\ v.dn >= u.dn
        <5>1. v.up = u.up /\ v.dn = u.dn
          BY <4>2, <4>5 DEF User
        <5> QED
          BY <4>2, <5>1
      <4>7. \A m \in Name : file[m] # None => file[m].up \in Nat /\ file[m].dn \in Nat
        BY <1>1, UserFields DEF FileTypeOK
      <4>8. \A m \in Name : file'[m] = IF m = n THEN v ELSE file[m]
        BY <1>1, <4>3, <4>5 DEF FileTypeOK
      <4>9. TrafficGrows
        BY <4>1, <4>6, <4>7, <4>8 DEF TrafficGrows
      <4> QED
        BY <4>4, <4>9 DEF FilesKept
    <3> QED
      BY <3>4, <3>5
  <2>5. StashTypeOK' /\ PasswdTypeOK' /\ GroupsTypeOK' /\ SessTypeOK' /\ LeftTypeOK'
    BY <1>5, <1>6, <1>7, <1>8, <1>9, <1>25 DEF SaveIpsOnly
  <2> QED
    BY <1>11, <2>2, <2>4, <2>5
<1>26. ASSUME NEW a \in Admin, GrpAddSaves(a)
      PROVE  SiteSound' /\ TrafficGrows
  <2>1. cmd[a] # None
    BY <1>26 DEF GrpAddSaves, Runs
  <2>2. CmdTypeOK'
    BY <1>10, <1>26, <2>1 DEF GrpAddSaves
  <2>3. cmd[a].n \in Name /\ cmd[a].m \in Name \cup Group /\ cmd[a].h \in Hash
    BY <1>1, <2>1, CommandFields
  <2>4. GroupsTypeOK'
    <3>1. cmd[a].m \in Group
      BY <1>1, <1>26, <2>1, CommandFields DEF GrpAddSaves, Runs
    <3> QED
      BY <1>1, <1>26, <3>1 DEF GrpAddSaves, GroupsTypeOK
  <2>5. FilesKept /\ StashTypeOK' /\ PasswdTypeOK' /\ SessTypeOK' /\ LeftTypeOK'
    BY <1>2, <1>5, <1>6, <1>8, <1>9, <1>26 DEF GrpAddSaves, FilesKept
  <2> QED
    BY <1>11, <2>2, <2>4, <2>5
<1>27. ASSUME NEW a \in Admin, GrpAddWritesGroup(a)
      PROVE  SiteSound' /\ TrafficGrows
  <2>1. cmd[a] # None
    BY <1>27 DEF GrpAddWritesGroup, Runs
  <2>2. CmdTypeOK'
    BY <1>10, <1>27, <2>1 DEF GrpAddWritesGroup
  <2>3. cmd[a].n \in Name /\ cmd[a].m \in Name \cup Group /\ cmd[a].h \in Hash
    BY <1>1, <2>1, CommandFields
  <2>4. GroupsTypeOK'
    <3>1. cmd[a].m \in Group
      BY <1>1, <1>27, <2>1, CommandFields DEF GrpAddWritesGroup, Runs
    <3> QED
      BY <1>1, <1>27, <3>1 DEF GrpAddWritesGroup, GroupsTypeOK
  <2>5. FilesKept /\ StashTypeOK' /\ PasswdTypeOK' /\ SessTypeOK' /\ LeftTypeOK'
    BY <1>2, <1>5, <1>6, <1>8, <1>9, <1>27 DEF GrpAddWritesGroup, FilesKept
  <2> QED
    BY <1>11, <2>2, <2>4, <2>5
<1>28. ASSUME NEW a \in Admin, GrpDelRemoves(a)
      PROVE  SiteSound' /\ TrafficGrows
  <2>1. cmd[a] # None
    BY <1>28 DEF GrpDelRemoves, Runs
  <2>2. CmdTypeOK'
    BY <1>10, <1>28, <2>1 DEF GrpDelRemoves
  <2>3. cmd[a].n \in Name /\ cmd[a].m \in Name \cup Group /\ cmd[a].h \in Hash
    BY <1>1, <2>1, CommandFields
  <2>4. GroupsTypeOK'
    <3>1. cmd[a].m \in Group
      BY <1>1, <1>28, <2>1, CommandFields DEF GrpDelRemoves, Runs
    <3> QED
      BY <1>1, <1>28, <3>1 DEF GrpDelRemoves, GroupsTypeOK
  <2>5. FilesKept /\ StashTypeOK' /\ PasswdTypeOK' /\ SessTypeOK' /\ LeftTypeOK'
    BY <1>2, <1>5, <1>6, <1>8, <1>9, <1>28 DEF GrpDelRemoves, FilesKept
  <2> QED
    BY <1>11, <2>2, <2>4, <2>5
<1>29. ASSUME NEW a \in Admin, GrpDelWritesGroup(a)
      PROVE  SiteSound' /\ TrafficGrows
  <2>1. cmd[a] # None
    BY <1>29 DEF GrpDelWritesGroup, Runs
  <2>2. CmdTypeOK'
    BY <1>10, <1>29, <2>1 DEF GrpDelWritesGroup
  <2>3. cmd[a].n \in Name /\ cmd[a].m \in Name \cup Group /\ cmd[a].h \in Hash
    BY <1>1, <2>1, CommandFields
  <2>4. GroupsTypeOK'
    <3>1. cmd[a].m \in Group
      BY <1>1, <1>29, <2>1, CommandFields DEF GrpDelWritesGroup, Runs
    <3> QED
      BY <1>1, <1>29, <3>1 DEF GrpDelWritesGroup, GroupsTypeOK
  <2>5. FilesKept /\ StashTypeOK' /\ PasswdTypeOK' /\ SessTypeOK' /\ LeftTypeOK'
    BY <1>2, <1>5, <1>6, <1>8, <1>9, <1>29 DEF GrpDelWritesGroup, FilesKept
  <2> QED
    BY <1>11, <2>2, <2>4, <2>5
<1> QED
  BY <1>12, <1>13, <1>14, <1>15, <1>16, <1>17, <1>18, <1>19, <1>20,
     <1>21, <1>22, <1>23, <1>24, <1>25, <1>26, <1>27, <1>28, <1>29 DEF CommandStep

-----------------------------------------------------------------------------
(* What nuke commands and the history are. *)

\* A nuke has a multiplier, and a command that gives back what it says was
\* taken gives it to those it was taken from.
SoundNuke ==
  {x \in NukeCommand : /\ x.op = "nuke" => x.mult \in Multiplier
                       /\ x.op = "unnuke" => x.at \in {"rename", "give", "mark"}
                       /\ x.at = "undo" => x.todo \subseteq DOMAIN x.taken
                       /\ x.at = "give" => DOMAIN x.taken = {} \/ x.todo \subseteq DOMAIN x.taken}

RelTypeOK == rel \in [Release -> {"there", "nuked", "gone"}]
HistoryTypeOK == history \in Seq(NukeRecord)
RunningTypeOK == nuke \in [Staff -> SoundNuke \cup {None}]
AutoTypeOK == /\ due \in [Release -> {"no", "warn", "nuke"}]
              /\ warned \subseteq Release
              /\ auto \in [at : {"idle", "nuke", "wipe", "mark"}, r : Release]
              /\ nukesLeft \in 0 .. MaxNukes
              /\ lost \in [record : SUBSET Release, sum : SUBSET Release]

NukeSound == RelTypeOK /\ HistoryTypeOK /\ RunningTypeOK /\ AutoTypeOK

\* What a nuke took from each user.
LEMMA RecordsFacts ==
  /\ \A t \in Records : /\ DOMAIN t \subseteq Name
                        /\ \A n \in DOMAIN t : t[n] \in 0 .. MaxInt /\ t[n] \in Nat
  /\ <<>> \in Records
  /\ \A t \in Records, n \in Name, c \in 0 .. MaxInt :
       [m \in DOMAIN t \cup {n} |-> IF m = n THEN c ELSE t[m]] \in Records
<1>1. \A t \in Records : \E S \in SUBSET Name : t \in [S -> 0 .. MaxInt]
  BY DEF Records
<1>2. \A S \in SUBSET Name : \A t \in [S -> 0 .. MaxInt] : t \in Records
  BY DEF Records
<1>3. \A t \in Records : /\ DOMAIN t \subseteq Name
                         /\ \A n \in DOMAIN t : t[n] \in 0 .. MaxInt /\ t[n] \in Nat
  BY <1>1, UserFileAssumption
<1>4. <<>> \in Records
  <2>1. <<>> \in [{} -> 0 .. MaxInt]
    OBVIOUS
  <2> QED
    BY <1>2, <2>1
<1>5. ASSUME NEW t \in Records, NEW n \in Name, NEW c \in 0 .. MaxInt
      PROVE  [m \in DOMAIN t \cup {n} |-> IF m = n THEN c ELSE t[m]] \in Records
  <2>1. DOMAIN t \cup {n} \in SUBSET Name
    BY <1>3, <1>5
  <2>2. [m \in DOMAIN t \cup {n} |-> IF m = n THEN c ELSE t[m]] \in [DOMAIN t \cup {n} -> 0 .. MaxInt]
    BY <1>3, <1>5
  <2> QED
    BY <1>2, <2>1, <2>2
<1> QED
  BY <1>3, <1>4, <1>5

\* What a running nuke command holds.
LEMMA NukeFields ==
  ASSUME RunningTypeOK, NEW k \in Staff, nuke[k] # None
  PROVE  /\ nuke[k] \in SoundNuke
         /\ nuke[k].op \in {"nuke", "unnuke", "wipe"} /\ nuke[k].r \in Release /\ nuke[k].mult \in Nat
         /\ nuke[k].auto \in BOOLEAN /\ nuke[k].todo \subseteq Name
         /\ nuke[k].taken \in Records /\ DOMAIN nuke[k].taken \subseteq Name
         /\ nuke[k].op = "nuke" => nuke[k].mult \in Multiplier
         /\ nuke[k].op = "unnuke" => nuke[k].at \in {"rename", "give", "mark"}
         /\ nuke[k].at = "undo" => nuke[k].todo \subseteq DOMAIN nuke[k].taken
         /\ nuke[k].at = "give" => DOMAIN nuke[k].taken = {} \/ nuke[k].todo \subseteq DOMAIN nuke[k].taken
<1>1. nuke[k] \in SoundNuke
  BY DEF RunningTypeOK
<1>2. nuke[k] \in NukeCommand
  BY <1>1 DEF SoundNuke
<1>3. nuke[k].taken \in Records
  BY <1>2 DEF NukeCommand
<1>4. DOMAIN nuke[k].taken \subseteq Name
  BY <1>3, RecordsFacts
<1> QED
  BY <1>1, <1>2, <1>3, <1>4 DEF SoundNuke, NukeCommand

\* How a nuke command begins, goes on and ends.
LEMMA NukeGoesToFacts ==
  ASSUME RunningTypeOK, NEW k \in Staff, nuke[k] # None, NEW at, NEW todo, NukeGoesTo(k, at, todo),
         at \in {"take", "rename", "local", "undo", "record", "give", "mark", "wipe"},
         todo \subseteq Name,
         nuke[k].op = "unnuke" => at \in {"give", "mark"},
         at = "undo" => todo \subseteq DOMAIN nuke[k].taken,
         at = "give" => DOMAIN nuke[k].taken = {} \/ todo \subseteq DOMAIN nuke[k].taken
  PROVE  RunningTypeOK'
<1>1. PICK c : c = nuke[k]
  OBVIOUS
<1>2. c \in NukeCommand /\ (c.op = "nuke" => c.mult \in Multiplier)
  BY <1>1, NukeFields DEF SoundNuke
<1>3. PICK d : d = [[c EXCEPT !.at = at] EXCEPT !.todo = todo]
  OBVIOUS
<1>4. /\ d \in NukeCommand /\ d.op = c.op /\ d.mult = c.mult /\ d.taken = c.taken /\ d.at = at /\ d.todo = todo
  BY <1>2, <1>3 DEF NukeCommand
<1>5. d \in SoundNuke
  BY <1>1, <1>2, <1>4 DEF SoundNuke
<1>6. nuke' = [nuke EXCEPT ![k] = d]
  BY <1>1, <1>3 DEF NukeGoesTo, RunningTypeOK
<1> QED
  BY <1>5, <1>6 DEF RunningTypeOK

\* A nuke command that ends leaves the others.
LEMMA NukeEndsFacts ==
  ASSUME RunningTypeOK, NEW k \in Staff, NukeEnds(k)
  PROVE  RunningTypeOK'
BY DEF RunningTypeOK, NukeEnds

\* A nuke begins with its uploaders and no record.
LEMMA StartNukeFacts ==
  ASSUME RunningTypeOK, nukesLeft \in 0 .. MaxNukes, NEW k \in Staff, NEW r \in Release, NEW mult \in Multiplier,
         NEW isAuto \in BOOLEAN, NEW at \in {"take", "rename"}, StartNuke(k, r, mult, isAuto, at)
  PROVE  RunningTypeOK' /\ nukesLeft' \in 0 .. MaxNukes
<1>1. PICK c : c = [op |-> "nuke", r |-> r, mult |-> mult, auto |-> isAuto, at |-> at,
                    todo |-> Uploaders(r), taken |-> <<>>]
  OBVIOUS
<1>2. Uploaders(r) \subseteq Name /\ mult \in Nat /\ <<>> \in Records
  BY RecordsFacts, NukesAssumption DEF Uploaders
<1>3. c \in SoundNuke
  BY <1>1, <1>2 DEF SoundNuke, NukeCommand
<1>4. nuke' = [nuke EXCEPT ![k] = c]
  BY <1>1 DEF StartNuke
<1>5. nukesLeft' \in 0 .. MaxNukes
  BY NukesAssumption DEF StartNuke
<1> QED
  BY <1>3, <1>4, <1>5 DEF RunningTypeOK

\* A set of numbers has a least one.
LEMMA LeastOf == \A T : T \subseteq Nat /\ T # {} => \E m \in T : \A k \in T : m <= k
<1> SUFFICES ASSUME NEW T, T \subseteq Nat, T # {} PROVE \E m \in T : \A k \in T : m <= k
  OBVIOUS
<1>1. PICK m \in T : \A k \in T : <<k, m>> \notin OpToRel(<, Nat)
  BY NatLessThanWellFounded, WFMin
<1>2. \A k \in T : ~(k < m)
  BY <1>1 DEF OpToRel
<1> QED
  BY <1>2

\* The newest active record of a release is one of them.
LEMMA NewestIsThere ==
  ASSUME NEW h \in Seq(NukeRecord), NEW r \in Release, HasActive(h, r)
  PROVE  NewestActive(h, r) \in ActiveOf(h, r) /\ NewestActive(h, r) \in DOMAIN h
<1>1. PICK l \in Nat : DOMAIN h = 1 .. l
  <2>1. Len(h) \in Nat /\ DOMAIN h = 1 .. Len(h)
    OBVIOUS
  <2> QED
    BY <2>1
<1>2. PICK T : T = {l - i : i \in ActiveOf(h, r)}
  OBVIOUS
<1>3. ActiveOf(h, r) \subseteq 1 .. l
  BY <1>1 DEF ActiveOf
<1>4. T \subseteq Nat /\ T # {}
  BY <1>2, <1>3 DEF HasActive
<1>5. PICK m \in T : \A k \in T : m <= k
  BY <1>4, LeastOf
<1>6. PICK i \in ActiveOf(h, r) : m = l - i
  BY <1>2, <1>5
<1>7. \A j \in ActiveOf(h, r) : l - i <= l - j
  BY <1>2, <1>5, <1>6
<1>8. \A j \in ActiveOf(h, r) : j <= i
  BY <1>1, <1>3, <1>6, <1>7
<1>9. NewestActive(h, r) \in ActiveOf(h, r)
  BY <1>6, <1>8 DEF NewestActive
<1> QED
  BY <1>9 DEF ActiveOf

\* Marking a record takes the newest from the active ones, and leaves the others.
LEMMA MarkedFacts ==
  ASSUME NEW h \in Seq(NukeRecord), NEW r \in Release, NEW status \in {"unnuked", "deleted"}
  PROVE  /\ Marked(h, r, status) \in Seq(NukeRecord)
         /\ \A q \in Release : ActiveOf(Marked(h, r, status), q) =
              IF q = r /\ HasActive(h, r) THEN ActiveOf(h, q) \ {NewestActive(h, r)} ELSE ActiveOf(h, q)
<1>0. PICK l \in Nat : h \in [1 .. l -> NukeRecord] /\ DOMAIN h = 1 .. l
  <2>1. h \in [1 .. Len(h) -> NukeRecord] /\ Len(h) \in Nat
    OBVIOUS
  <2> QED
    BY <2>1
<1>1. CASE ~HasActive(h, r)
  BY <1>1 DEF Marked
<1>2. CASE HasActive(h, r)
  <2>1. PICK i : i = NewestActive(h, r)
    OBVIOUS
  <2>2. i \in ActiveOf(h, r) /\ i \in 1 .. l /\ h[i].r = r
    BY <1>0, <1>2, <2>1, NewestIsThere DEF ActiveOf
  <2>4. PICK e : e = [h[i] EXCEPT !.status = status]
    OBVIOUS
  <2>5. e \in NukeRecord /\ e.r = r /\ e.status = status
    BY <1>0, <2>2, <2>4 DEF NukeRecord
  <2>6. PICK g : g = Marked(h, r, status)
    OBVIOUS
  <2>7. g = [h EXCEPT ![i] = e]
    BY <1>0, <1>2, <2>1, <2>2, <2>4, <2>6 DEF Marked
  <2>8. g \in [1 .. l -> NukeRecord] /\ DOMAIN g = 1 .. l /\ g \in Seq(NukeRecord)
    BY <1>0, <2>2, <2>5, <2>7
  <2>9. \A q \in Release : ActiveOf(g, q) = IF q = r THEN ActiveOf(h, q) \ {i} ELSE ActiveOf(h, q)
    <3> TAKE q \in Release
    <3>1. \A x \in 1 .. l : g[x] = IF x = i THEN e ELSE h[x]
      BY <1>0, <2>7
    <3>2. \A x : x \in ActiveOf(h, q) <=> x \in 1 .. l /\ h[x].r = q /\ h[x].status = "active"
      BY <1>0 DEF ActiveOf
    <3>3. \A x : x \in ActiveOf(g, q) <=> x \in 1 .. l /\ g[x].r = q /\ g[x].status = "active"
      BY <2>8 DEF ActiveOf
    <3>4. CASE q = r
      <4>1. \A x : x \in ActiveOf(g, q) <=> x \in ActiveOf(h, q) \ {i}
        BY <2>5, <3>1, <3>2, <3>3
      <4>2. ActiveOf(g, q) = ActiveOf(h, q) \ {i}
        BY <4>1
      <4> QED
        BY <3>4, <4>2
    <3>5. CASE q # r
      <4>1. \A x : x \in ActiveOf(g, q) <=> x \in ActiveOf(h, q)
        BY <2>2, <2>5, <3>1, <3>2, <3>3, <3>5
      <4>2. ActiveOf(g, q) = ActiveOf(h, q)
        BY <4>1
      <4> QED
        BY <3>5, <4>2
    <3> QED
      BY <3>4, <3>5
  <2> QED
    BY <1>2, <2>1, <2>6, <2>8, <2>9
<1> QED
  BY <1>1, <1>2

\* A new record is one more that is active.
LEMMA AppendFacts ==
  ASSUME NEW h \in Seq(NukeRecord), NEW e \in NukeRecord, e.status = "active"
  PROVE  /\ Append(h, e) \in Seq(NukeRecord)
         /\ \A q \in Release : /\ Len(h) + 1 \notin ActiveOf(h, q)
                               /\ ActiveOf(Append(h, e), q) =
                                    IF q = e.r THEN ActiveOf(h, q) \cup {Len(h) + 1} ELSE ActiveOf(h, q)
<1>0. PICK l \in Nat : h \in [1 .. l -> NukeRecord] /\ DOMAIN h = 1 .. l /\ Len(h) = l
  <2>1. h \in [1 .. Len(h) -> NukeRecord] /\ Len(h) \in Nat
    OBVIOUS
  <2> QED
    BY <2>1
<1>1. PICK g : g = Append(h, e)
  OBVIOUS
<1>2. /\ g \in Seq(NukeRecord) /\ DOMAIN g = 1 .. (l + 1)
      /\ \A x \in 1 .. (l + 1) : g[x] = IF x = l + 1 THEN e ELSE h[x]
  BY <1>0, <1>1
<1>4. ASSUME NEW q \in Release
      PROVE  /\ l + 1 \notin ActiveOf(h, q)
             /\ ActiveOf(g, q) = IF q = e.r THEN ActiveOf(h, q) \cup {l + 1} ELSE ActiveOf(h, q)
  <2>2. \A x : x \in ActiveOf(h, q) <=> x \in 1 .. l /\ h[x].r = q /\ h[x].status = "active"
    BY <1>0 DEF ActiveOf
  <2>3. \A x : x \in ActiveOf(g, q) <=> x \in 1 .. (l + 1) /\ g[x].r = q /\ g[x].status = "active"
    BY <1>2 DEF ActiveOf
  <2>4. \A x : x \in 1 .. (l + 1) <=> x = l + 1 \/ x \in 1 .. l
    BY <1>0
  <2>5. l + 1 \notin 1 .. l
    BY <1>0
  <2>6. CASE q = e.r
    <3>1. \A x : x \in ActiveOf(g, q) <=> x \in ActiveOf(h, q) \cup {l + 1}
      BY <1>2, <2>2, <2>3, <2>4, <2>5, <2>6
    <3> QED
      BY <2>2, <2>5, <2>6, <3>1
  <2>7. CASE q # e.r
    <3>1. \A x : x \in ActiveOf(g, q) <=> x \in ActiveOf(h, q)
      <4> TAKE x
      <4>1. CASE x = l + 1
        BY <1>2, <2>2, <2>3, <2>4, <2>5, <2>7, <4>1
      <4>2. CASE x # l + 1
        BY <1>2, <2>2, <2>3, <2>4, <4>2
      <4> QED
        BY <4>1, <4>2
    <3> QED
      BY <2>2, <2>5, <2>7, <3>1
  <2> QED
    BY <2>6, <2>7
<1> QED
  BY <1>0, <1>1, <1>2, <1>4

-----------------------------------------------------------------------------
(* The history against the releases and the commands that run. *)

\* A command between the renaming of its release and the word of it to the database.
IsRecording(c, r) == c # None /\ c.r = r /\ c.op = "nuke" /\ c.at \in {"local", "record"}
IsRestoring(c, r) == c # None /\ c.r = r /\ c.op = "unnuke" /\ c.at \in {"give", "mark"}
RecordingOf(nu, r) == {k \in Staff : IsRecording(nu[k], r)}
RestoringOf(nu, r) == {k \in Staff : IsRestoring(nu[k], r)}

\* The active records and those to come are as many as the nukes: those of the unnukes
\* that have still to mark one, and one if the release is nuked.
Balanced(re, h, nu, r) ==
  Cardinality(ActiveOf(h, r)) + Cardinality(RecordingOf(nu, r))
    = Cardinality(RestoringOf(nu, r)) + (IF re[r] = "nuked" THEN 1 ELSE 0)

HistoryIs(re, h, nu, lo) == \A r \in Release : re[r] = "gone" \/ r \in lo \/ Balanced(re, h, nu, r)

Running == [Staff -> SoundNuke \cup {None}]

\* What is counted is finite.
LEMMA SetsAreFinite ==
  ASSUME NEW h \in Seq(NukeRecord), NEW nu, NEW r
  PROVE  /\ IsFiniteSet(ActiveOf(h, r)) /\ Cardinality(ActiveOf(h, r)) \in Nat
         /\ IsFiniteSet(RecordingOf(nu, r)) /\ Cardinality(RecordingOf(nu, r)) \in Nat
         /\ IsFiniteSet(RestoringOf(nu, r)) /\ Cardinality(RestoringOf(nu, r)) \in Nat
<1>1. IsFiniteSet(ActiveOf(h, r))
  <2>1. Len(h) \in Nat /\ DOMAIN h = 1 .. Len(h)
    OBVIOUS
  <2>2. IsFiniteSet(1 .. Len(h))
    BY <2>1, FS_Interval
  <2>3. ActiveOf(h, r) \in SUBSET (1 .. Len(h))
    BY <2>1 DEF ActiveOf
  <2> QED
    BY <2>2, <2>3, FS_Subset
<1>2. IsFiniteSet(Staff)
  BY NukesAssumption
<1>3. RecordingOf(nu, r) \in SUBSET Staff /\ RestoringOf(nu, r) \in SUBSET Staff
  BY DEF RecordingOf, RestoringOf
<1>4. IsFiniteSet(RecordingOf(nu, r)) /\ IsFiniteSet(RestoringOf(nu, r))
  BY <1>2, <1>3, FS_Subset
<1> QED
  BY <1>1, <1>4, FS_CardinalityType

\* One command that becomes another.
LEMMA CommandMoves ==
  ASSUME NEW nu, NEW nu2, NEW k \in Staff, NEW d, NEW r, \A j \in Staff : nu2[j] = IF j = k THEN d ELSE nu[j]
  PROVE  /\ IsRecording(d, r) => RecordingOf(nu2, r) = RecordingOf(nu, r) \cup {k}
         /\ ~IsRecording(d, r) => RecordingOf(nu2, r) = RecordingOf(nu, r) \ {k}
         /\ ~IsRecording(d, r) /\ k \notin RecordingOf(nu, r) => RecordingOf(nu2, r) = RecordingOf(nu, r)
         /\ IsRestoring(d, r) => RestoringOf(nu2, r) = RestoringOf(nu, r) \cup {k}
         /\ ~IsRestoring(d, r) => RestoringOf(nu2, r) = RestoringOf(nu, r) \ {k}
         /\ ~IsRestoring(d, r) /\ k \notin RestoringOf(nu, r) => RestoringOf(nu2, r) = RestoringOf(nu, r)
BY DEF RecordingOf, RestoringOf

\* A command that goes on, begins or ends without passing a rename or a word to the database.
LEMMA CommandStays ==
  ASSUME NEW re, NEW h, NEW nu \in Running, NEW lo, HistoryIs(re, h, nu, lo), NEW k \in Staff, NEW d,
         \A r \in Release : /\ IsRecording(d, r) <=> IsRecording(nu[k], r)
                            /\ IsRestoring(d, r) <=> IsRestoring(nu[k], r)
  PROVE  HistoryIs(re, h, [nu EXCEPT ![k] = d], lo)
<1>1. PICK nu2 : nu2 = [nu EXCEPT ![k] = d]
  OBVIOUS
<1>2. \A j \in Staff : nu2[j] = IF j = k THEN d ELSE nu[j]
  BY <1>1 DEF Running
<1>3. ASSUME NEW r \in Release
      PROVE  RecordingOf(nu2, r) = RecordingOf(nu, r) /\ RestoringOf(nu2, r) = RestoringOf(nu, r)
  BY <1>2 DEF RecordingOf, RestoringOf
<1>4. HistoryIs(re, h, nu2, lo)
  BY <1>3 DEF HistoryIs, Balanced
<1> QED
  BY <1>1, <1>4

\* More releases whose record is lost say less.
LEMMA MoreIsLost ==
  ASSUME NEW re, NEW h, NEW nu, NEW lo, NEW lo2, lo \subseteq lo2, HistoryIs(re, h, nu, lo)
  PROVE  HistoryIs(re, h, nu, lo2)
BY DEF HistoryIs

\* A step at one release leaves the others.
LEMMA OthersStay ==
  ASSUME NEW re, NEW re2, NEW h, NEW h2, NEW nu \in Running, NEW lo, NEW lo2, lo \subseteq lo2,
         HistoryIs(re, h, nu, lo), NEW k \in Staff, NEW d, NEW r \in Release,
         nu[k] # None, nu[k].r = r, d = None \/ d.r = r,
         \A q \in Release \ {r} : re2[q] = re[q] /\ ActiveOf(h2, q) = ActiveOf(h, q),
         re2[r] = "gone" \/ r \in lo2 \/ Balanced(re2, h2, [nu EXCEPT ![k] = d], r)
  PROVE  HistoryIs(re2, h2, [nu EXCEPT ![k] = d], lo2)
<1>1. PICK nu2 : nu2 = [nu EXCEPT ![k] = d]
  OBVIOUS
<1>0. \A j \in Staff : nu2[j] = IF j = k THEN d ELSE nu[j]
  BY <1>1 DEF Running
<1>2. ASSUME NEW q \in Release, q # r
      PROVE  re2[q] = "gone" \/ q \in lo2 \/ Balanced(re2, h2, nu2, q)
  <2>1. ~IsRecording(d, q) /\ ~IsRestoring(d, q) /\ k \notin RecordingOf(nu, q) /\ k \notin RestoringOf(nu, q)
    BY <1>2 DEF IsRecording, IsRestoring, RecordingOf, RestoringOf
  <2>2. RecordingOf(nu2, q) = RecordingOf(nu, q) /\ RestoringOf(nu2, q) = RestoringOf(nu, q)
    BY <1>0, <2>1, CommandMoves
  <2> QED
    BY <1>2, <2>2 DEF HistoryIs, Balanced
<1>3. HistoryIs(re2, h2, nu2, lo2)
  BY <1>1, <1>2 DEF HistoryIs
<1> QED
  BY <1>1, <1>3

\* A nuke that renames its release.
LEMMA NukeRenames ==
  ASSUME NEW re \in [Release -> {"there", "nuked", "gone"}], NEW h \in Seq(NukeRecord), NEW nu \in Running,
         NEW lo, NEW k \in Staff, NEW c \in SoundNuke, None \notin SoundNuke, HistoryIs(re, h, nu, lo),
         nu[k] # None, nu[k].op = "nuke", nu[k].at \notin {"local", "record"},
         c.op = "nuke", c.r = nu[k].r, c.at \in {"local", "record"}, re[c.r] = "there"
  PROVE  HistoryIs([re EXCEPT ![c.r] = "nuked"], h, [nu EXCEPT ![k] = c], lo)
<1>1. PICK nu2, re2, r : nu2 = [nu EXCEPT ![k] = c] /\ re2 = [re EXCEPT ![c.r] = "nuked"] /\ r = c.r
  OBVIOUS
<1>0. \A j \in Staff : nu2[j] = IF j = k THEN c ELSE nu[j]
  BY <1>1 DEF Running
<1>2. r \in Release /\ c # None /\ \A q \in Release : re2[q] = IF q = r THEN "nuked" ELSE re[q]
  BY <1>1 DEF SoundNuke, NukeCommand
<1>3. IsRecording(c, r) /\ ~IsRestoring(c, r) /\ ~IsRecording(nu[k], r) /\ ~IsRestoring(nu[k], r)
  BY <1>1, <1>2 DEF IsRecording, IsRestoring
<1>4. k \notin RecordingOf(nu, r) /\ k \notin RestoringOf(nu, r)
  BY <1>3 DEF RecordingOf, RestoringOf
<1>5. RecordingOf(nu2, r) = RecordingOf(nu, r) \cup {k} /\ RestoringOf(nu2, r) = RestoringOf(nu, r)
  BY <1>0, <1>3, <1>4, CommandMoves
<1>6. Cardinality(RecordingOf(nu2, r)) = Cardinality(RecordingOf(nu, r)) + 1
  BY <1>4, <1>5, SetsAreFinite, FS_AddElement
<1>7. r \in lo \/ Balanced(re2, h, nu2, r)
  <2>1. r \in lo \/ Balanced(re, h, nu, r)
    BY <1>1, <1>2 DEF HistoryIs
  <2>2. PICK a, b, c1, d : /\ a = Cardinality(ActiveOf(h, r)) /\ b = Cardinality(RecordingOf(nu, r))
                           /\ c1 = Cardinality(RestoringOf(nu, r)) /\ d = Cardinality(RecordingOf(nu2, r))
    OBVIOUS
  <2>3. a \in Nat /\ b \in Nat /\ c1 \in Nat /\ d = b + 1
    BY <1>6, <2>2, SetsAreFinite
  <2>4. Balanced(re, h, nu, r) => a + b = c1 + 0
    BY <1>1, <2>2 DEF Balanced
  <2>5. Balanced(re2, h, nu2, r) <=> a + d = c1 + 1
    BY <1>2, <1>5, <2>2 DEF Balanced
  <2> QED
    BY <2>1, <2>3, <2>4, <2>5
<1>8. HistoryIs(re2, h, nu2, lo)
  BY <1>1, <1>2, <1>7, OthersStay
<1> QED
  BY <1>1, <1>8

\* An unnuke that renames its release back.
LEMMA UnnukeRenames ==
  ASSUME NEW re \in [Release -> {"there", "nuked", "gone"}], NEW h \in Seq(NukeRecord), NEW nu \in Running,
         NEW lo, NEW k \in Staff, NEW c \in SoundNuke, None \notin SoundNuke, HistoryIs(re, h, nu, lo),
         nu[k] # None, nu[k].op = "unnuke", nu[k].at = "rename", c.op = "unnuke", c.r = nu[k].r, c.at = "give",
         re[c.r] = "nuked"
  PROVE  HistoryIs([re EXCEPT ![c.r] = "there"], h, [nu EXCEPT ![k] = c], lo)
<1>1. PICK nu2, re2, r : nu2 = [nu EXCEPT ![k] = c] /\ re2 = [re EXCEPT ![c.r] = "there"] /\ r = c.r
  OBVIOUS
<1>0. \A j \in Staff : nu2[j] = IF j = k THEN c ELSE nu[j]
  BY <1>1 DEF Running
<1>2. r \in Release /\ c # None /\ \A q \in Release : re2[q] = IF q = r THEN "there" ELSE re[q]
  BY <1>1 DEF SoundNuke, NukeCommand
<1>3. ~IsRecording(c, r) /\ IsRestoring(c, r) /\ ~IsRecording(nu[k], r) /\ ~IsRestoring(nu[k], r)
  BY <1>1, <1>2 DEF IsRecording, IsRestoring
<1>4. k \notin RecordingOf(nu, r) /\ k \notin RestoringOf(nu, r)
  BY <1>3 DEF RecordingOf, RestoringOf
<1>5. RecordingOf(nu2, r) = RecordingOf(nu, r) /\ RestoringOf(nu2, r) = RestoringOf(nu, r) \cup {k}
  BY <1>0, <1>3, <1>4, CommandMoves
<1>6. Cardinality(RestoringOf(nu2, r)) = Cardinality(RestoringOf(nu, r)) + 1
  BY <1>4, <1>5, SetsAreFinite, FS_AddElement
<1>7. r \in lo \/ Balanced(re2, h, nu2, r)
  <2>1. r \in lo \/ Balanced(re, h, nu, r)
    BY <1>1, <1>2 DEF HistoryIs
  <2>2. PICK a, b, c1, d : /\ a = Cardinality(ActiveOf(h, r)) /\ b = Cardinality(RecordingOf(nu, r))
                           /\ c1 = Cardinality(RestoringOf(nu, r)) /\ d = Cardinality(RestoringOf(nu2, r))
    OBVIOUS
  <2>3. a \in Nat /\ b \in Nat /\ c1 \in Nat /\ d = c1 + 1
    BY <1>6, <2>2, SetsAreFinite
  <2>4. Balanced(re, h, nu, r) => a + b = c1 + 1
    BY <1>1, <2>2 DEF Balanced
  <2>5. Balanced(re2, h, nu2, r) <=> a + b = d + 0
    BY <1>2, <1>5, <2>2 DEF Balanced
  <2> QED
    BY <2>1, <2>3, <2>4, <2>5
<1>8. HistoryIs(re2, h, nu2, lo)
  BY <1>1, <1>2, <1>7, OthersStay
<1> QED
  BY <1>1, <1>8

\* A nuke that records what it took, or cannot.
LEMMA NukeRecords ==
  ASSUME NEW re, NEW h \in Seq(NukeRecord), NEW h2, NEW nu \in Running, NEW lo, NEW lo2, lo \subseteq lo2,
         NEW k \in Staff, NEW e \in NukeRecord, HistoryIs(re, h, nu, lo),
         nu[k] # None, nu[k].op = "nuke", nu[k].at = "record", e.r = nu[k].r, e.status = "active",
         h2 = Append(h, e) \/ (h2 = h /\ e.r \in lo2)
  PROVE  /\ h2 \in Seq(NukeRecord)
         /\ HistoryIs(re, h2, [nu EXCEPT ![k] = None], lo2)
<1>1. PICK nu2, r : nu2 = [nu EXCEPT ![k] = None] /\ r = e.r
  OBVIOUS
<1>0. \A j \in Staff : nu2[j] = IF j = k THEN None ELSE nu[j]
  BY <1>1 DEF Running
<1>2. r \in Release
  BY <1>1 DEF NukeRecord
<1>3. /\ h2 \in Seq(NukeRecord)
      /\ \A q \in Release \ {r} : ActiveOf(h2, q) = ActiveOf(h, q)
      /\ \/ h2 = h /\ r \in lo2
         \/ ActiveOf(h2, r) = ActiveOf(h, r) \cup {Len(h) + 1} /\ Len(h) + 1 \notin ActiveOf(h, r)
  <2>1. CASE h2 = h /\ r \in lo2
    BY <2>1
  <2>2. CASE h2 = Append(h, e)
    <3>1. \A q \in Release : /\ Len(h) + 1 \notin ActiveOf(h, q)
                              /\ ActiveOf(h2, q) = IF q = r THEN ActiveOf(h, q) \cup {Len(h) + 1} ELSE ActiveOf(h, q)
      BY <1>1, <2>2, AppendFacts
    <3>2. h2 \in Seq(NukeRecord)
      BY <2>2, AppendFacts
    <3> QED
      BY <1>2, <3>1, <3>2
  <2> QED
    BY <1>1, <2>1, <2>2
<1>4. ~IsRecording(None, r) /\ ~IsRestoring(None, r) /\ k \in RecordingOf(nu, r) /\ k \notin RestoringOf(nu, r)
  BY <1>1 DEF IsRecording, IsRestoring, RecordingOf, RestoringOf
<1>5. RecordingOf(nu2, r) = RecordingOf(nu, r) \ {k} /\ RestoringOf(nu2, r) = RestoringOf(nu, r)
  BY <1>0, <1>4, CommandMoves
<1>6. Cardinality(RecordingOf(nu2, r)) = Cardinality(RecordingOf(nu, r)) - 1
  BY <1>4, <1>5, SetsAreFinite, FS_RemoveElement
<1>7. re[r] = "gone" \/ r \in lo2 \/ Balanced(re, h2, nu2, r)
  <2>1. re[r] = "gone" \/ r \in lo \/ Balanced(re, h, nu, r)
    BY <1>2 DEF HistoryIs
  <2>2. PICK a, b, c1, d, n : /\ a = Cardinality(ActiveOf(h, r)) /\ b = Cardinality(RecordingOf(nu, r))
                              /\ c1 = Cardinality(RestoringOf(nu, r)) /\ d = Cardinality(RecordingOf(nu2, r))
                              /\ n = Cardinality(ActiveOf(h2, r))
    OBVIOUS
  <2>3. a \in Nat /\ b \in Nat /\ c1 \in Nat /\ d = b - 1
    BY <1>6, <2>2, SetsAreFinite
  <2>4. r \notin lo2 => n = a + 1
    <3>1. IsFiniteSet(ActiveOf(h, r))
      BY SetsAreFinite
    <3> QED
      BY <1>3, <2>2, <3>1, FS_AddElement
  <2>5. PICK w \in {0, 1} : w = IF re[r] = "nuked" THEN 1 ELSE 0
    OBVIOUS
  <2>6. Balanced(re, h, nu, r) => a + b = c1 + w
    BY <2>2, <2>5 DEF Balanced
  <2>7. Balanced(re, h2, nu2, r) <=> n + d = c1 + w
    BY <1>5, <2>2, <2>5 DEF Balanced
  <2> QED
    BY <2>1, <2>3, <2>4, <2>5, <2>6, <2>7
<1>8. HistoryIs(re, h2, [nu EXCEPT ![k] = None], lo2)
  <2>1. nu[k].r = r /\ r \in Release
    BY <1>1, <1>2
  <2>2. re[r] = "gone" \/ r \in lo2 \/ Balanced(re, h2, [nu EXCEPT ![k] = None], r)
    BY <1>1, <1>7
  <2>3. \A q \in Release \ {r} : re[q] = re[q] /\ ActiveOf(h2, q) = ActiveOf(h, q)
    BY <1>3
  <2> QED
    BY <2>1, <2>2, <2>3, OthersStay
<1> QED
  BY <1>1, <1>3, <1>8

\* An unnuke that marks a record, or finds none, or cannot.
LEMMA UnnukeMarks ==
  ASSUME NEW re, NEW h \in Seq(NukeRecord), NEW h2, NEW nu \in Running, NEW lo, NEW lo2, lo \subseteq lo2,
         NEW k \in Staff, NEW r \in Release, HistoryIs(re, h, nu, lo),
         nu[k] # None, nu[k].op = "unnuke", nu[k].at = "mark", r = nu[k].r,
         h2 = Marked(h, r, "unnuked") \/ h2 = h,
         r \in lo2 \/ (HasActive(h, r) /\ h2 = Marked(h, r, "unnuked"))
  PROVE  /\ h2 \in Seq(NukeRecord)
         /\ HistoryIs(re, h2, [nu EXCEPT ![k] = None], lo2)
<1>1. PICK nu2 : nu2 = [nu EXCEPT ![k] = None]
  OBVIOUS
<1>0. \A j \in Staff : nu2[j] = IF j = k THEN None ELSE nu[j]
  BY <1>1 DEF Running
<1>3. /\ h2 \in Seq(NukeRecord)
      /\ \A q \in Release \ {r} : ActiveOf(h2, q) = ActiveOf(h, q)
      /\ \/ r \in lo2
         \/ ActiveOf(h2, r) = ActiveOf(h, r) \ {NewestActive(h, r)} /\ NewestActive(h, r) \in ActiveOf(h, r)
  <2>1. CASE h2 = h /\ r \in lo2
    BY <2>1
  <2>2. CASE h2 = Marked(h, r, "unnuked")
    <3>1. /\ h2 \in Seq(NukeRecord)
          /\ \A q \in Release : ActiveOf(h2, q) =
               IF q = r /\ HasActive(h, r) THEN ActiveOf(h, q) \ {NewestActive(h, r)} ELSE ActiveOf(h, q)
      BY <2>2, MarkedFacts
    <3>2. HasActive(h, r) => NewestActive(h, r) \in ActiveOf(h, r)
      BY NewestIsThere
    <3> QED
      BY <3>1, <3>2
  <2> QED
    BY <2>1, <2>2
<1>4. ~IsRecording(None, r) /\ ~IsRestoring(None, r) /\ k \notin RecordingOf(nu, r) /\ k \in RestoringOf(nu, r)
  BY DEF IsRecording, IsRestoring, RecordingOf, RestoringOf
<1>5. RecordingOf(nu2, r) = RecordingOf(nu, r) /\ RestoringOf(nu2, r) = RestoringOf(nu, r) \ {k}
  BY <1>0, <1>4, CommandMoves
<1>6. Cardinality(RestoringOf(nu2, r)) = Cardinality(RestoringOf(nu, r)) - 1
  <2>1. IsFiniteSet(RestoringOf(nu, r))
    BY SetsAreFinite
  <2> QED
    BY <1>4, <1>5, <2>1, FS_RemoveElement
<1>7. re[r] = "gone" \/ r \in lo2 \/ Balanced(re, h2, nu2, r)
  <2>1. re[r] = "gone" \/ r \in lo \/ Balanced(re, h, nu, r)
    BY DEF HistoryIs
  <2>2. PICK a, b, c1, d, n : /\ a = Cardinality(ActiveOf(h, r)) /\ b = Cardinality(RecordingOf(nu, r))
                              /\ c1 = Cardinality(RestoringOf(nu, r)) /\ d = Cardinality(RestoringOf(nu2, r))
                              /\ n = Cardinality(ActiveOf(h2, r))
    OBVIOUS
  <2>3. a \in Nat /\ b \in Nat /\ c1 \in Nat /\ d = c1 - 1
    BY <1>6, <2>2, SetsAreFinite
  <2>4. r \notin lo2 => n = a - 1
    BY <1>3, <2>2, SetsAreFinite, FS_RemoveElement
  <2>5. PICK w \in {0, 1} : w = IF re[r] = "nuked" THEN 1 ELSE 0
    OBVIOUS
  <2>6. Balanced(re, h, nu, r) => a + b = c1 + w
    BY <2>2, <2>5 DEF Balanced
  <2>7. Balanced(re, h2, nu2, r) <=> n + b = d + w
    BY <1>5, <2>2, <2>5 DEF Balanced
  <2> QED
    BY <2>1, <2>3, <2>4, <2>5, <2>6, <2>7
<1>8. HistoryIs(re, h2, nu2, lo2)
  BY <1>1, <1>3, <1>7, OthersStay
<1> QED
  BY <1>1, <1>3, <1>8

\* A nuked release that is wiped.
LEMMA ReleaseGoes ==
  ASSUME NEW re \in [Release -> {"there", "nuked", "gone"}], NEW h, NEW nu, NEW lo, NEW r \in Release,
         HistoryIs(re, h, nu, lo)
  PROVE  HistoryIs([re EXCEPT ![r] = "gone"], h, nu, lo)
<1>1. PICK re2 : re2 = [re EXCEPT ![r] = "gone"]
  OBVIOUS
<1>2. \A q \in Release : re2[q] = IF q = r THEN "gone" ELSE re[q]
  BY <1>1
<1>3. HistoryIs(re2, h, nu, lo)
  BY <1>2 DEF HistoryIs, Balanced
<1> QED
  BY <1>1, <1>3

\* A record of a release that is not nuked is forgotten: of one that is gone, or of one
\* that a command is about to tell the database of.
LEMMA RecordGoes ==
  ASSUME NEW re, NEW h \in Seq(NukeRecord), NEW nu, NEW lo, NEW lo2, lo \subseteq lo2, NEW r \in Release,
         HistoryIs(re, h, nu, lo), HasActive(h, r) \/ re[r] = "gone", re[r] # "nuked",
         r \in lo2 \/ re[r] = "gone" \/ (RecordingOf(nu, r) = {} /\ RestoringOf(nu, r) = {})
  PROVE  /\ Marked(h, r, "deleted") \in Seq(NukeRecord)
         /\ HistoryIs(re, Marked(h, r, "deleted"), nu, lo2)
<1>1. PICK h2 : h2 = Marked(h, r, "deleted")
  OBVIOUS
<1>2. h2 \in Seq(NukeRecord) /\ \A q \in Release \ {r} : ActiveOf(h2, q) = ActiveOf(h, q)
  BY <1>1, MarkedFacts
<1>3. re[r] = "gone" \/ r \in lo2
  <2> SUFFICES ASSUME re[r] # "gone", r \notin lo2 PROVE FALSE
    OBVIOUS
  <2>1. Balanced(re, h, nu, r) /\ RecordingOf(nu, r) = {} /\ RestoringOf(nu, r) = {}
    BY DEF HistoryIs
  <2>2. Cardinality(ActiveOf(h, r)) + 0 = 0 + 0
    BY <2>1, FS_EmptySet DEF Balanced
  <2>3. ActiveOf(h, r) = {}
    BY <2>2, SetsAreFinite, FS_EmptySet
  <2> QED
    BY <2>3 DEF HasActive
<1>4. HistoryIs(re, h2, nu, lo2)
  BY <1>2, <1>3 DEF HistoryIs, Balanced
<1> QED
  BY <1>1, <1>2, <1>4

-----------------------------------------------------------------------------
(* The steps of nukes. *)

MarksGone == auto.at = "mark" => rel[auto.r] = "gone"
HistoryInv == HistoryIs(rel, history, nuke, lost.record) /\ MarksGone

\* An idle session runs no nuke command.
LEMMA NoneIsNoNuke == None \notin SoundNuke
BY NukesAssumption DEF SoundNuke

\* A command goes to a step on the same side of its rename, or ends there.
LEMMA GoesOn ==
  ASSUME RunningTypeOK, NEW re, NEW lo, NEW k \in Staff, nuke[k] # None, HistoryIs(re, history, nuke, lo),
         NEW at \in {"take", "rename", "local", "undo", "record", "give", "mark", "wipe"},
         NEW todo \in SUBSET Name, NukeGoesTo(k, at, todo),
         nuke[k].op = "nuke" => (at \in {"local", "record"} <=> nuke[k].at \in {"local", "record"}),
         nuke[k].op = "unnuke" => (at \in {"give", "mark"} <=> nuke[k].at \in {"give", "mark"})
  PROVE  HistoryIs(re, history, nuke', lo)
<1>1. PICK c, d : c = nuke[k] /\ d = [[c EXCEPT !.at = at] EXCEPT !.todo = todo]
  OBVIOUS
<1>2. c \in NukeCommand
  BY <1>1 DEF RunningTypeOK, SoundNuke
<1>3. d.op = c.op /\ d.r = c.r /\ d.at = at /\ d \in NukeCommand
  BY <1>1, <1>2 DEF NukeCommand
<1>4. d # None
  BY <1>3, NukesAssumption
<1>5. nuke' = [nuke EXCEPT ![k] = d] /\ nuke \in Running
  BY <1>1 DEF NukeGoesTo, RunningTypeOK, Running
<1>6. ASSUME NEW r \in Release
      PROVE  /\ IsRecording(d, r) <=> IsRecording(nuke[k], r)
             /\ IsRestoring(d, r) <=> IsRestoring(nuke[k], r)
  BY <1>1, <1>3, <1>4 DEF IsRecording, IsRestoring
<1>7. HistoryIs(re, history, [nuke EXCEPT ![k] = d], lo)
  BY <1>5, <1>6, CommandStays
<1> QED
  BY <1>5, <1>7

\* A command that is not between its rename and its word to the database may end.
LEMMA EndsThere ==
  ASSUME RunningTypeOK, NEW re, NEW lo, NEW k \in Staff, HistoryIs(re, history, nuke, lo), NukeEnds(k),
         ~(nuke[k].op = "nuke" /\ nuke[k].at \in {"local", "record"}),
         ~(nuke[k].op = "unnuke" /\ nuke[k].at \in {"give", "mark"})
  PROVE  HistoryIs(re, history, nuke', lo)
<1>1. nuke' = [nuke EXCEPT ![k] = None] /\ nuke \in Running
  BY DEF NukeEnds, RunningTypeOK, Running
<1>2. ASSUME NEW r \in Release
      PROVE  /\ IsRecording(None, r) <=> IsRecording(nuke[k], r)
             /\ IsRestoring(None, r) <=> IsRestoring(nuke[k], r)
  BY DEF IsRecording, IsRestoring
<1>3. HistoryIs(re, history, [nuke EXCEPT ![k] = None], lo)
  BY <1>1, <1>2, CommandStays
<1> QED
  BY <1>1, <1>3

\* A command that begins is not between its rename and its word to the database.
LEMMA Begins ==
  ASSUME RunningTypeOK, NEW re, NEW lo, NEW k \in Staff, HistoryIs(re, history, nuke, lo), nuke[k] = None,
         NEW c \in SoundNuke, nuke' = [nuke EXCEPT ![k] = c],
         c.op = "nuke" => c.at \notin {"local", "record"}, c.op = "unnuke" => c.at = "rename"
  PROVE  HistoryIs(re, history, nuke', lo)
<1>1. nuke \in Running
  BY DEF RunningTypeOK, Running
<1>2. ASSUME NEW r \in Release
      PROVE  /\ IsRecording(c, r) <=> IsRecording(nuke[k], r)
             /\ IsRestoring(c, r) <=> IsRestoring(nuke[k], r)
  BY DEF IsRecording, IsRestoring
<1>3. HistoryIs(re, history, [nuke EXCEPT ![k] = c], lo)
  BY <1>1, <1>2, CommandStays
<1> QED
  BY <1>3

\* A release whose record is lost stays one.
LEMMA LossFacts ==
  ASSUME AutoTypeOK
  PROVE  /\ lost.record \in SUBSET Release
         /\ \A r \in Release : LosesRecord(r) =>
              /\ lost' \in [record : SUBSET Release, sum : SUBSET Release]
              /\ lost.record \subseteq lost'.record /\ r \in lost'.record
BY DEF AutoTypeOK, LosesRecord

\* One user gets back what was taken.
LEMMA GivesBackFacts ==
  ASSUME FileTypeOK, NEW k \in Staff, NEW n \in Name, NEW given \in Nat, GivesBack(k, n, given)
  PROVE  FileTypeOK' /\ TrafficGrows
<1>1. CASE file[n] = None
  BY <1>1, TrafficStays DEF GivesBack, FileTypeOK
<1>2. CASE file[n] # None
  <2>1. file[n] \in User
    BY <1>2 DEF FileTypeOK
  <2>2. PICK u : u = Unnuked(file[n], given)
    OBVIOUS
  <2>3. u \in User
    BY <2>1, <2>2, UnnukedIsUser
  <2>4. file' = Written(n, u)
    BY <1>2, <2>2 DEF GivesBack
  <2> QED
    BY <2>3, <2>4, WrittenKeeps
<1> QED
  BY <1>1, <1>2

\* What the commands' steps share.
Kept == FileTypeOK' /\ TrafficGrows /\ RelTypeOK' /\ HistoryTypeOK' /\ RunningTypeOK' /\ AutoTypeOK' /\ HistoryInv'

\* What autonuke knows stays.
LEMMA AutoStays ==
  ASSUME AutoTypeOK, UNCHANGED <<due, warned, auto, nukesLeft, lost>>
  PROVE  AutoTypeOK'
BY DEF AutoTypeOK

\* The steps that both modes have.
LEMMA NukeStepsKeep ==
  ASSUME FileTypeOK, NukeSound, HistoryInv, NukeStep
  PROVE  Kept
<1>0. /\ FileTypeOK /\ RelTypeOK /\ HistoryTypeOK /\ RunningTypeOK /\ AutoTypeOK
      /\ HistoryIs(rel, history, nuke, lost.record) /\ MarksGone
  BY DEF NukeSound, HistoryInv
<1>1. UNCHANGED file => FileTypeOK' /\ TrafficGrows
  BY <1>0, TrafficStays DEF FileTypeOK
<1>2. UNCHANGED rel => RelTypeOK'
  BY <1>0 DEF RelTypeOK
<1>3. UNCHANGED history => HistoryTypeOK'
  BY <1>0 DEF HistoryTypeOK
<1>4. UNCHANGED <<rel, auto>> => MarksGone'
  BY <1>0 DEF MarksGone
<1>5. ASSUME UNCHANGED <<rel, history, lost>>, HistoryIs(rel, history, nuke', lost.record)
      PROVE  HistoryIs(rel', history', nuke', lost'.record)
  BY <1>5
<1>6. ASSUME NEW k \in Staff, NEW r \in Release, SiteUnnuke(k, r)
      PROVE  Kept
  <2>0. PICK found \in {HasActive(history, r), FALSE} :
           nuke' = [nuke EXCEPT ![k] = [op |-> "unnuke", r |-> r, auto |-> FALSE, at |-> "rename", todo |-> {},
                     mult |-> IF found THEN history[NewestActive(history, r)].mult ELSE 0,
                     taken |-> IF found THEN history[NewestActive(history, r)].taken ELSE <<>>]]
    BY <1>6 DEF SiteUnnuke
  <2>1. PICK i, m, t, c :
           /\ i = NewestActive(history, r)
           /\ m = (IF found THEN history[i].mult ELSE 0) /\ t = (IF found THEN history[i].taken ELSE <<>>)
           /\ c = [op |-> "unnuke", r |-> r, auto |-> FALSE, at |-> "rename", todo |-> {}, mult |-> m, taken |-> t]
           /\ nuke' = [nuke EXCEPT ![k] = c]
    BY <2>0
  <2>2. /\ nuke[k] = None /\ nukesLeft > 0 /\ nukesLeft' = nukesLeft - 1
        /\ UNCHANGED <<file, rel, history, due, warned, auto, lost>>
    BY <1>6 DEF SiteUnnuke
  <2>3. HasActive(history, r) => i \in DOMAIN history
    BY <1>0, <2>1, NewestIsThere DEF HistoryTypeOK
  <2>4. HasActive(history, r) => history[i] \in NukeRecord
    BY <1>0, <2>3 DEF HistoryTypeOK
  <2>5. m \in Nat /\ t \in Records
    BY <2>1, <2>4, RecordsFacts, NukesAssumption DEF NukeRecord
  <2>6. c \in SoundNuke /\ c.op = "unnuke" /\ c.at = "rename"
    BY <2>1, <2>5 DEF SoundNuke, NukeCommand
  <2>7. RunningTypeOK'
    BY <1>0, <2>1, <2>6 DEF RunningTypeOK
  <2>8. HistoryIs(rel, history, nuke', lost.record)
    BY <1>0, <2>1, <2>2, <2>6, Begins
  <2>9. AutoTypeOK'
    BY <1>0, <2>2, NukesAssumption DEF AutoTypeOK
  <2> QED
    BY <1>1, <1>2, <1>3, <1>4, <1>5, <2>2, <2>7, <2>8, <2>9 DEF Kept, HistoryInv
<1>7. ASSUME NEW k \in Staff, TakeCredits(k)
      PROVE  Kept
  <2>1. PICK n, u, taken :
           /\ n \in nuke[k].todo /\ u = file[n] /\ taken = Removed(u, nuke[k].r, n, nuke[k].mult)
           /\ IF u # None /\ Saves(n, Nuked(u, taken))
              THEN /\ file' = Written(n, Nuked(u, taken))
                   /\ nuke' = [nuke EXCEPT ![k].todo = @ \ {n},
                                           ![k].taken = [m \in DOMAIN @ \cup {n} |-> IF m = n THEN taken ELSE @[m]]]
              ELSE NukeGoesTo(k, nuke[k].at, nuke[k].todo \ {n}) /\ UNCHANGED file
    BY <1>7 DEF TakeCredits
  <2>2. /\ nuke[k] # None /\ nuke[k].op = "nuke" /\ nuke[k].at \in {"take", "local"}
        /\ UNCHANGED <<rel, history, due, warned, auto, nukesLeft, lost>>
    BY <1>7 DEF TakeCredits, NukeRuns
  <2>3. /\ nuke[k] \in SoundNuke /\ nuke[k].r \in Release /\ nuke[k].mult \in Nat
        /\ nuke[k].todo \subseteq Name /\ nuke[k].taken \in Records /\ n \in Name
    BY <1>0, <2>1, <2>2, NukeFields
  <2>4. CASE u # None /\ Saves(n, Nuked(u, taken))
    <3>1. u \in User
      BY <1>0, <2>1, <2>3, <2>4 DEF FileTypeOK
    <3>2. taken \in 0 .. MaxInt /\ Nuked(u, taken) \in User
      BY <2>1, <2>3, <3>1, NukedIsUser
    <3>3. FileTypeOK' /\ TrafficGrows
      BY <1>0, <2>1, <2>3, <2>4, <3>2, WrittenKeeps
    <3>4. PICK c : c = nuke[k]
      OBVIOUS
    <3>5. PICK t : t = [m \in DOMAIN c.taken \cup {n} |-> IF m = n THEN taken ELSE c.taken[m]]
      OBVIOUS
    <3>6. t \in Records
      BY <2>3, <3>2, <3>4, <3>5, RecordsFacts
    <3>7. PICK d : d = [[c EXCEPT !.todo = c.todo \ {n}] EXCEPT !.taken = t]
      OBVIOUS
    <3>8. c \in NukeCommand /\ c.mult \in Multiplier
      BY <2>2, <2>3, <3>4 DEF SoundNuke
    <3>9. d \in NukeCommand /\ d.op = "nuke" /\ d.at = c.at /\ d.r = c.r /\ d.mult = c.mult
      BY <2>2, <3>4, <3>6, <3>7, <3>8 DEF NukeCommand
    <3>10. d \in SoundNuke
      BY <2>2, <3>4, <3>8, <3>9 DEF SoundNuke
    <3>11. nuke' = [nuke EXCEPT ![k] = d]
      BY <1>0, <2>1, <2>4, <3>4, <3>5, <3>7, <3>8 DEF RunningTypeOK, NukeCommand
    <3>12. RunningTypeOK'
      BY <1>0, <3>10, <3>11 DEF RunningTypeOK
    <3>13. HistoryIs(rel, history, nuke', lost.record)
      <4>1. nuke \in Running
        BY <1>0 DEF RunningTypeOK, Running
      <4>2. d # None /\ nuke[k].op = d.op /\ nuke[k].r = d.r /\ nuke[k].at = d.at
        BY <2>2, <3>4, <3>9, <3>10, NoneIsNoNuke
      <4>3. ASSUME NEW r \in Release
            PROVE  /\ IsRecording(d, r) <=> IsRecording(nuke[k], r)
                   /\ IsRestoring(d, r) <=> IsRestoring(nuke[k], r)
        BY <2>2, <4>2 DEF IsRecording, IsRestoring
      <4>4. HistoryIs(rel, history, [nuke EXCEPT ![k] = d], lost.record)
        BY <1>0, <4>1, <4>3, CommandStays
      <4> QED
        BY <3>11, <4>4
    <3> QED
      BY <1>0, <1>2, <1>3, <1>4, <1>5, <2>2, <3>3, <3>12, <3>13, AutoStays DEF Kept, HistoryInv
  <2>5. CASE ~(u # None /\ Saves(n, Nuked(u, taken)))
    <3>1. NukeGoesTo(k, nuke[k].at, nuke[k].todo \ {n}) /\ UNCHANGED file
      BY <2>1, <2>5
    <3>2. nuke[k].todo \ {n} \subseteq Name
      BY <2>3
    <3>3. RunningTypeOK'
      BY <1>0, <2>2, <3>1, <3>2, NukeGoesToFacts
    <3>4. HistoryIs(rel, history, nuke', lost.record)
      BY <1>0, <2>2, <3>1, <3>2, <3>3, GoesOn
    <3> QED
      BY <1>0, <1>1, <1>2, <1>3, <1>4, <1>5, <2>2, <3>1, <3>3, <3>4, AutoStays DEF Kept, HistoryInv
  <2> QED
    BY <2>4, <2>5
<1>8. ASSUME NEW k \in Staff, RecordNuke(k)
      PROVE  Kept
  <2>1. PICK e : e = [r |-> nuke[k].r, mult |-> nuke[k].mult, taken |-> nuke[k].taken, status |-> "active"]
    OBVIOUS
  <2>2. /\ nuke[k] # None /\ nuke[k].op = "nuke" /\ nuke[k].at = "record"
        /\ nuke' = [nuke EXCEPT ![k] = None]
        /\ UNCHANGED <<file, rel, due, warned, auto, nukesLeft>>
    BY <1>8 DEF RecordNuke, NukeRuns, NukeEnds
  <2>3. e \in NukeRecord /\ e.r = nuke[k].r /\ e.status = "active" /\ e.r \in Release
    BY <1>0, <2>1, <2>2, NukeFields DEF NukeRecord
  <2>4. history \in Seq(NukeRecord) /\ nuke \in Running
    BY <1>0 DEF HistoryTypeOK, RunningTypeOK, Running
  <2>5. \/ history' = Append(history, e) /\ UNCHANGED lost
        \/ LosesRecord(e.r) /\ UNCHANGED history
    BY <1>8, <2>1, <2>3 DEF RecordNuke, DatabaseFails
  <2>6. /\ lost.record \subseteq lost'.record /\ lost' \in [record : SUBSET Release, sum : SUBSET Release]
        /\ history' = Append(history, e) \/ (history' = history /\ e.r \in lost'.record)
    BY <1>0, <2>3, <2>5, LossFacts DEF AutoTypeOK
  <2>7. PICK h2, lo2 : h2 = history' /\ lo2 = lost'.record
    OBVIOUS
  <2>8. h2 \in Seq(NukeRecord) /\ HistoryIs(rel, h2, [nuke EXCEPT ![k] = None], lo2)
    <3>1. lost.record \subseteq lo2 /\ (h2 = Append(history, e) \/ (h2 = history /\ e.r \in lo2))
      BY <2>6, <2>7
    <3> QED
      BY <1>0, <2>2, <2>3, <2>4, <3>1, NukeRecords
  <2>9. HistoryTypeOK' /\ HistoryIs(rel', history', nuke', lost'.record)
    BY <2>2, <2>7, <2>8 DEF HistoryTypeOK
  <2>10. RunningTypeOK' /\ AutoTypeOK'
    BY <1>0, <2>2, <2>6 DEF RunningTypeOK, AutoTypeOK
  <2> QED
    BY <1>1, <1>2, <1>4, <2>2, <2>9, <2>10 DEF Kept, HistoryInv
<1>9. ASSUME NEW k \in Staff, UnnukeRename(k)
      PROVE  Kept
  <2>1. PICK r : r = nuke[k].r
    OBVIOUS
  <2>2. nuke[k] # None /\ nuke[k].op = "unnuke" /\ nuke[k].at = "rename"
        /\ UNCHANGED <<file, history, due, warned, auto, nukesLeft, lost>>
    BY <1>9 DEF UnnukeRename, NukeRuns
  <2>3. /\ nuke[k] \in SoundNuke /\ r \in Release /\ DOMAIN nuke[k].taken \subseteq Name
    BY <1>0, <2>1, <2>2, NukeFields
  <2>4. CASE rel[r] = "nuked"
    <3>1. PICK todo : todo = IF DOMAIN nuke[k].taken = {} THEN Uploaders(r) ELSE DOMAIN nuke[k].taken
      OBVIOUS
    <3>2. rel' = [rel EXCEPT ![r] = "there"] /\ NukeGoesTo(k, "give", todo)
      BY <1>9, <2>1, <2>4, <3>1 DEF UnnukeRename
    <3>3. todo \subseteq Name /\ (DOMAIN nuke[k].taken = {} \/ todo \subseteq DOMAIN nuke[k].taken)
      BY <2>3, <3>1 DEF Uploaders
    <3>4. RunningTypeOK'
      BY <1>0, <2>2, <3>2, <3>3, NukeGoesToFacts
    <3>5. PICK c, d : c = nuke[k] /\ d = [[c EXCEPT !.at = "give"] EXCEPT !.todo = todo]
      OBVIOUS
    <3>6. c \in NukeCommand
      BY <2>3, <3>5 DEF SoundNuke
    <3>7. d.op = "unnuke" /\ d.r = r /\ d.at = "give" /\ d \in NukeCommand
      BY <2>1, <2>2, <3>3, <3>5, <3>6 DEF NukeCommand
    <3>8. nuke' = [nuke EXCEPT ![k] = d]
      BY <1>0, <3>2, <3>5 DEF NukeGoesTo, RunningTypeOK
    <3>9. d \in SoundNuke
      <4>1. nuke'[k] = d /\ d # None
        BY <1>0, <3>7, <3>8, NukesAssumption DEF RunningTypeOK
      <4> QED
        BY <3>4, <4>1 DEF RunningTypeOK
    <3>10. HistoryIs([rel EXCEPT ![d.r] = "there"], history, [nuke EXCEPT ![k] = d], lost.record)
      <4>1. /\ rel \in [Release -> {"there", "nuked", "gone"}] /\ nuke \in Running
            /\ history \in Seq(NukeRecord)
        BY <1>0 DEF RelTypeOK, HistoryTypeOK, RunningTypeOK, Running
      <4> QED
        BY <1>0, <2>1, <2>2, <2>4, <3>7, <3>9, <4>1, UnnukeRenames, NoneIsNoNuke
    <3>11. HistoryIs(rel', history', nuke', lost'.record)
      BY <2>2, <3>2, <3>7, <3>8, <3>10
    <3>12. RelTypeOK'
      BY <1>0, <3>2 DEF RelTypeOK
    <3>13. MarksGone'
      BY <1>0, <2>2, <2>3, <2>4, <3>2 DEF MarksGone, RelTypeOK
    <3> QED
      BY <1>0, <1>1, <1>3, <2>2, <3>4, <3>11, <3>12, <3>13, AutoStays DEF Kept, HistoryInv
  <2>5. CASE rel[r] # "nuked"
    <3>1. NukeEnds(k) /\ UNCHANGED rel
      BY <1>9, <2>1, <2>5 DEF UnnukeRename
    <3>2. RunningTypeOK'
      BY <1>0, <3>1, NukeEndsFacts
    <3>4. HistoryIs(rel, history, nuke', lost.record)
      BY <1>0, <2>2, <3>1, EndsThere
    <3> QED
      BY <1>0, <1>1, <1>2, <1>3, <1>4, <1>5, <2>2, <3>1, <3>2, <3>4, AutoStays DEF Kept, HistoryInv
  <2> QED
    BY <2>4, <2>5
<1>10. ASSUME NEW k \in Staff, GiveCredits(k)
       PROVE  Kept
  <2>2. nuke[k] # None /\ nuke[k].op = "unnuke" /\ nuke[k].at = "give"
        /\ UNCHANGED <<rel, history, due, warned, auto, nukesLeft, lost>>
    BY <1>10 DEF GiveCredits, NukeRuns
  <2>3. /\ nuke[k] \in SoundNuke /\ nuke[k].r \in Release /\ nuke[k].mult \in Nat /\ nuke[k].todo \subseteq Name
        /\ nuke[k].taken \in Records
        /\ DOMAIN nuke[k].taken = {} \/ nuke[k].todo \subseteq DOMAIN nuke[k].taken
    BY <1>0, <2>2, NukeFields
  <2>4. PICK at \in {"give", "mark"}, todo \in SUBSET Name :
          /\ NukeGoesTo(k, at, todo)
          /\ at = "give" => DOMAIN nuke[k].taken = {} \/ todo \subseteq DOMAIN nuke[k].taken
          /\ FileTypeOK' /\ TrafficGrows
    <3>1. CASE nuke[k].todo = {}
      <4>1. NukeGoesTo(k, "mark", {}) /\ UNCHANGED file
        BY <1>10, <3>1 DEF GiveCredits
      <4> QED
        BY <1>1, <4>1
    <3>2. CASE nuke[k].todo # {}
      <4>1. PICK n \in nuke[k].todo :
              GivesBack(k, n, IF DOMAIN nuke[k].taken = {} THEN Recomputed(k, n) ELSE nuke[k].taken[n])
        BY <1>10, <3>2 DEF GiveCredits
      <4>2. PICK given : given = IF DOMAIN nuke[k].taken = {} THEN Recomputed(k, n) ELSE nuke[k].taken[n]
        OBVIOUS
      <4>3. n \in Name
        BY <2>3
      <4>4. Recomputed(k, n) \in Nat
        <5>1. CASE file[n] = None
          BY <5>1 DEF Recomputed
        <5>2. CASE file[n] # None
          <6>1. file[n].ratio \in Nat /\ Bytes[nuke[k].r][n] \in Nat
            BY <1>0, <2>3, <4>3, <5>2, UserFields, NukesAssumption DEF FileTypeOK
          <6>2. PICK m : m = IF nuke[k].mult <= 0 THEN 1 ELSE nuke[k].mult
            OBVIOUS
          <6>3. m \in Nat
            BY <2>3, <6>2
          <6> QED
            BY <5>2, <6>1, <6>2, <6>3, CreditsStay DEF Recomputed
        <5> QED
          BY <5>1, <5>2
      <4>5. given \in Nat
        <5>1. DOMAIN nuke[k].taken # {} => nuke[k].taken[n] \in Nat
          BY <2>3, RecordsFacts
        <5> QED
          BY <4>2, <4>4, <5>1
      <4>6. FileTypeOK' /\ TrafficGrows
        BY <1>0, <4>1, <4>2, <4>3, <4>5, GivesBackFacts
      <4>7. NukeGoesTo(k, "give", nuke[k].todo \ {n})
        BY <2>2, <4>1 DEF GivesBack
      <4> QED
        BY <2>3, <4>6, <4>7
    <3> QED
      BY <3>1, <3>2
  <2>5. RunningTypeOK'
    BY <1>0, <2>2, <2>4, NukeGoesToFacts
  <2>6. HistoryIs(rel, history, nuke', lost.record)
    BY <1>0, <2>2, <2>4, <2>5, GoesOn
  <2> QED
    BY <1>0, <1>2, <1>3, <1>4, <1>5, <2>2, <2>4, <2>5, <2>6, AutoStays DEF Kept, HistoryInv
<1>11. ASSUME NEW k \in Staff, MarkUnnuked(k)
       PROVE  Kept
  <2>1. PICK r : r = nuke[k].r
    OBVIOUS
  <2>2. /\ nuke[k] # None /\ nuke[k].op = "unnuke" /\ nuke[k].at = "mark"
        /\ nuke' = [nuke EXCEPT ![k] = None]
        /\ UNCHANGED <<file, rel, due, warned, auto, nukesLeft>>
    BY <1>11 DEF MarkUnnuked, NukeRuns, NukeEnds
  <2>3. r \in Release
    BY <1>0, <2>1, <2>2, NukeFields
  <2>4. history \in Seq(NukeRecord) /\ nuke \in Running
    BY <1>0 DEF HistoryTypeOK, RunningTypeOK, Running
  <2>5. \/ /\ history' = Marked(history, r, "unnuked") /\ HasActive(history, r)
           /\ lost' \in {lost, [lost EXCEPT !.sum = lost.sum \cup {r}]}
        \/ LosesRecord(r) /\ history' \in {history, Marked(history, r, "unnuked")}
    BY <1>11, <2>1 DEF MarkUnnuked, DatabaseFails
  <2>6. /\ lost.record \subseteq lost'.record /\ lost' \in [record : SUBSET Release, sum : SUBSET Release]
        /\ history' = Marked(history, r, "unnuked") \/ history' = history
        /\ r \in lost'.record \/ (HasActive(history, r) /\ history' = Marked(history, r, "unnuked"))
    BY <1>0, <2>3, <2>5, LossFacts DEF AutoTypeOK
  <2>7. PICK h2, lo2 : h2 = history' /\ lo2 = lost'.record
    OBVIOUS
  <2>8. h2 \in Seq(NukeRecord) /\ HistoryIs(rel, h2, [nuke EXCEPT ![k] = None], lo2)
    BY <1>0, <2>1, <2>2, <2>3, <2>4, <2>6, <2>7, UnnukeMarks
  <2>9. HistoryTypeOK' /\ HistoryIs(rel', history', nuke', lost'.record)
    BY <2>2, <2>7, <2>8 DEF HistoryTypeOK
  <2>10. RunningTypeOK' /\ AutoTypeOK'
    BY <1>0, <2>2, <2>6 DEF RunningTypeOK, AutoTypeOK
  <2> QED
    BY <1>1, <1>2, <1>4, <2>2, <2>9, <2>10 DEF Kept, HistoryInv
<1> QED
  BY <1>6, <1>7, <1>8, <1>9, <1>10, <1>11 DEF NukeStep

\* What a step leaves alone stays what it is.
LEMMA NukeFrames ==
  ASSUME FileTypeOK, NukeSound, HistoryInv
  PROVE  /\ UNCHANGED file => FileTypeOK' /\ TrafficGrows
         /\ UNCHANGED rel => RelTypeOK'
         /\ UNCHANGED history => HistoryTypeOK'
         /\ UNCHANGED <<rel, auto>> => MarksGone'
         /\ UNCHANGED nuke => RunningTypeOK'
         /\ UNCHANGED <<due, warned, auto, nukesLeft, lost>> => AutoTypeOK'
BY TrafficStays
   DEF NukeSound, HistoryInv, FileTypeOK, RelTypeOK, HistoryTypeOK, RunningTypeOK, AutoTypeOK, MarksGone

\* A nuke that renames its release, in either mode.
LEMMA RenamesRelease ==
  ASSUME RelTypeOK, HistoryTypeOK, RunningTypeOK, HistoryIs(rel, history, nuke, lost.record), MarksGone, UNCHANGED auto, auto.r \in Release,
         NEW k \in Staff, nuke[k] # None, nuke[k].op = "nuke", nuke[k].at \notin {"local", "record"}, rel[nuke[k].r] = "there",
         NEW at \in {"local", "record"}, NEW todo \in SUBSET Name, NukeGoesTo(k, at, todo),
         rel' = [rel EXCEPT ![nuke[k].r] = "nuked"]
  PROVE  RelTypeOK' /\ RunningTypeOK' /\ HistoryIs(rel', history, nuke', lost.record) /\ MarksGone'
<1>1. PICK c, d, r : c = nuke[k] /\ d = [[c EXCEPT !.at = at] EXCEPT !.todo = todo] /\ r = nuke[k].r
  OBVIOUS
<1>2. RunningTypeOK'
  BY NukeGoesToFacts
<1>3. c \in NukeCommand /\ r \in Release
  BY <1>1, NukeFields DEF SoundNuke
<1>4. d.op = "nuke" /\ d.r = r /\ d.at = at /\ d \in NukeCommand
  BY <1>1, <1>3 DEF NukeCommand
<1>5. nuke' = [nuke EXCEPT ![k] = d]
  BY <1>1 DEF NukeGoesTo, RunningTypeOK
<1>6. d \in SoundNuke
  <2>1. nuke'[k] = d /\ d # None
    BY <1>4, <1>5, NukesAssumption DEF RunningTypeOK
  <2> QED
    BY <1>2, <2>1 DEF RunningTypeOK
<1>7. rel \in [Release -> {"there", "nuked", "gone"}] /\ nuke \in Running /\ history \in Seq(NukeRecord)
  BY DEF RelTypeOK, HistoryTypeOK, RunningTypeOK, Running
<1>8. HistoryIs([rel EXCEPT ![d.r] = "nuked"], history, [nuke EXCEPT ![k] = d], lost.record)
  BY <1>1, <1>4, <1>6, <1>7, NukeRenames, NoneIsNoNuke
<1>9. HistoryIs(rel', history, nuke', lost.record)
  BY <1>1, <1>4, <1>5, <1>8
<1>10. RelTypeOK' /\ MarksGone'
  BY <1>1, <1>3 DEF RelTypeOK, MarksGone
<1> QED
  BY <1>2, <1>9, <1>10

\* A nuke that begins.
LEMMA NukeBegins ==
  ASSUME RunningTypeOK, nukesLeft \in 0 .. MaxNukes, HistoryIs(rel, history, nuke, lost.record),
         NEW k \in Staff, NEW r \in Release, NEW mult \in Multiplier, NEW isAuto \in BOOLEAN,
         NEW at \in {"take", "rename"}, StartNuke(k, r, mult, isAuto, at)
  PROVE  RunningTypeOK' /\ nukesLeft' \in 0 .. MaxNukes /\ HistoryIs(rel, history, nuke', lost.record)
<1>1. RunningTypeOK' /\ nukesLeft' \in 0 .. MaxNukes
  BY StartNukeFacts
<1>2. PICK c : c = [op |-> "nuke", r |-> r, mult |-> mult, auto |-> isAuto, at |-> at,
                    todo |-> Uploaders(r), taken |-> <<>>]
  OBVIOUS
<1>3. nuke[k] = None /\ nuke' = [nuke EXCEPT ![k] = c]
  BY <1>2 DEF StartNuke
<1>4. Uploaders(r) \subseteq Name /\ mult \in Nat /\ <<>> \in Records
  BY RecordsFacts, NukesAssumption DEF Uploaders
<1>5. c \in SoundNuke /\ c.op = "nuke" /\ c.at \in {"take", "rename"} /\ c.r = r
  BY <1>2, <1>4 DEF SoundNuke, NukeCommand
<1>6. HistoryIs(rel, history, nuke', lost.record)
  BY <1>3, <1>5, Begins
<1> QED
  BY <1>1, <1>6

\* The steps of the master mode, of SITE NUKES and of autonuke.
LEMMA MasterStepsKeep ==
  ASSUME FileTypeOK, NukeSound, HistoryInv, MasterNukeStep \/ AutoStep
  PROVE  Kept
<1>0. /\ FileTypeOK /\ RelTypeOK /\ HistoryTypeOK /\ RunningTypeOK /\ AutoTypeOK
      /\ HistoryIs(rel, history, nuke, lost.record) /\ MarksGone
      /\ nukesLeft \in 0 .. MaxNukes /\ auto.r \in Release
  BY DEF NukeSound, HistoryInv, AutoTypeOK
<1>1. UNCHANGED file => FileTypeOK' /\ TrafficGrows
  BY NukeFrames
<1>2. UNCHANGED rel => RelTypeOK'
  BY NukeFrames
<1>3. UNCHANGED history => HistoryTypeOK'
  BY NukeFrames
<1>4. UNCHANGED <<rel, auto>> => MarksGone'
  BY NukeFrames
<1>5. UNCHANGED <<due, warned, auto, nukesLeft, lost>> => AutoTypeOK'
  BY NukeFrames
<1>6. ASSUME UNCHANGED <<rel, history, lost>>, HistoryIs(rel, history, nuke', lost.record)
      PROVE  HistoryIs(rel', history', nuke', lost'.record)
  BY <1>6
<1>7. ASSUME UNCHANGED nuke
      PROVE  RunningTypeOK' /\ (UNCHANGED <<rel, history, lost>> => HistoryIs(rel', history', nuke', lost'.record))
  BY <1>0, <1>7, NukeFrames
<1>8. ASSUME NEW k \in Staff, NEW r \in Release, SiteNuke(k, r)
      PROVE  Kept
  <2>1. PICK mult \in Multiplier : StartNuke(k, r, mult, FALSE, "take")
    BY <1>8 DEF SiteNuke
  <2>3. RunningTypeOK' /\ nukesLeft' \in 0 .. MaxNukes /\ HistoryIs(rel, history, nuke', lost.record)
    BY <1>0, <2>1, NukeBegins
  <2>4. AutoTypeOK'
    BY <1>0, <1>8, <2>3 DEF SiteNuke, AutoTypeOK
  <2> QED
    BY <1>1, <1>2, <1>3, <1>4, <1>6, <1>8, <2>3, <2>4 DEF SiteNuke, Kept, HistoryInv
<1>9. ASSUME NEW k \in Staff, NukeRename(k)
      PROVE  Kept
  <2>1. nuke[k] # None /\ nuke[k].op = "nuke" /\ nuke[k].at = "take"
        /\ UNCHANGED <<file, history, due, warned, auto, nukesLeft, lost>>
    BY <1>9 DEF NukeRename, NukeRuns
  <2>2. CASE rel[nuke[k].r] = "there"
    <3>1. rel' = [rel EXCEPT ![nuke[k].r] = "nuked"] /\ NukeGoesTo(k, "record", {})
      BY <1>9, <2>2 DEF NukeRename
    <3>2. RelTypeOK' /\ RunningTypeOK' /\ HistoryIs(rel', history, nuke', lost.record) /\ MarksGone'
      <4>1. UNCHANGED auto /\ {} \in SUBSET Name /\ "record" \in {"local", "record"}
        BY <2>1
      <4> QED
        BY <1>0, <2>1, <2>2, <3>1, <4>1, RenamesRelease
    <3>3. HistoryIs(rel', history', nuke', lost'.record)
      BY <2>1, <3>2
    <3> QED
      BY <1>1, <1>3, <1>5, <2>1, <3>2, <3>3 DEF Kept, HistoryInv
  <2>3. CASE rel[nuke[k].r] # "there"
    <3>1. NukeGoesTo(k, "undo", DOMAIN nuke[k].taken) /\ UNCHANGED rel
      BY <1>9, <2>3 DEF NukeRename
    <3>2. DOMAIN nuke[k].taken \subseteq Name
      BY <1>0, <2>1, NukeFields
    <3>3. RunningTypeOK'
      BY <1>0, <2>1, <3>1, <3>2, NukeGoesToFacts
    <3>4. HistoryIs(rel, history, nuke', lost.record)
      BY <1>0, <2>1, <3>1, <3>2, <3>3, GoesOn
    <3> QED
      BY <1>1, <1>2, <1>3, <1>4, <1>5, <1>6, <2>1, <3>1, <3>3, <3>4 DEF Kept, HistoryInv
  <2> QED
    BY <2>2, <2>3
<1>10. ASSUME NEW k \in Staff, NukeUndo(k)
       PROVE  Kept
  <2>1. nuke[k] # None /\ nuke[k].op = "nuke" /\ nuke[k].at = "undo"
        /\ UNCHANGED <<rel, history, due, warned, auto, nukesLeft, lost>>
    BY <1>10 DEF NukeUndo, NukeRuns
  <2>2. /\ nuke[k].todo \subseteq Name /\ nuke[k].taken \in Records /\ nuke[k].todo \subseteq DOMAIN nuke[k].taken
    BY <1>0, <2>1, NukeFields
  <2>3. CASE nuke[k].todo = {}
    <3>1. NukeEnds(k) /\ UNCHANGED file
      BY <1>10, <2>3 DEF NukeUndo
    <3>2. RunningTypeOK'
      BY <1>0, <3>1, NukeEndsFacts
    <3>4. HistoryIs(rel, history, nuke', lost.record)
      BY <1>0, <2>1, <3>1, EndsThere
    <3> QED
      BY <1>1, <1>2, <1>3, <1>4, <1>5, <1>6, <2>1, <3>1, <3>2, <3>4 DEF Kept, HistoryInv
  <2>4. CASE nuke[k].todo # {}
    <3>1. PICK n \in nuke[k].todo : GivesBack(k, n, nuke[k].taken[n])
      BY <1>10, <2>4 DEF NukeUndo
    <3>2. n \in Name /\ nuke[k].taken[n] \in Nat /\ nuke[k].todo \ {n} \subseteq Name
          /\ nuke[k].todo \ {n} \subseteq DOMAIN nuke[k].taken
      BY <2>2, RecordsFacts
    <3>3. FileTypeOK' /\ TrafficGrows
      BY <1>0, <3>1, <3>2, GivesBackFacts
    <3>4. NukeGoesTo(k, "undo", nuke[k].todo \ {n})
      BY <2>1, <3>1 DEF GivesBack
    <3>5. RunningTypeOK'
      BY <1>0, <2>1, <3>2, <3>4, NukeGoesToFacts
    <3>6. HistoryIs(rel, history, nuke', lost.record)
      BY <1>0, <2>1, <3>2, <3>4, <3>5, GoesOn
    <3> QED
      BY <1>2, <1>3, <1>4, <1>5, <1>6, <2>1, <3>3, <3>5, <3>6 DEF Kept, HistoryInv
  <2> QED
    BY <2>3, <2>4
<1>11. ASSUME NEW k \in Staff, Wipe(k)
       PROVE  Kept
  <2>1. /\ nuke[k] # None /\ nuke[k].op = "wipe" /\ NukeEnds(k)
        /\ UNCHANGED <<file, history, due, warned, nukesLeft, lost>>
    BY <1>11 DEF Wipe, NukeRuns
  <2>2. PICK r : r = nuke[k].r
    OBVIOUS
  <2>3. r \in Release
    BY <1>0, <2>1, <2>2, NukeFields
  <2>4. RunningTypeOK'
    BY <1>0, <2>1, NukeEndsFacts
  <2>6. auto' \in [at : {"idle", "nuke", "wipe", "mark"}, r : Release]
    BY <1>0, <1>11 DEF Wipe, AutoTypeOK
  <2>7. AutoTypeOK'
    BY <1>0, <2>1, <2>6 DEF AutoTypeOK
  <2>8. CASE rel[r] = "nuked"
    <3>1. PICK re : re = [rel EXCEPT ![r] = "gone"]
      OBVIOUS
    <3>2. rel' = re
      BY <1>11, <2>2, <2>8, <3>1 DEF Wipe
    <3>3. HistoryIs(re, history, nuke, lost.record)
      BY <1>0, <2>3, <3>1, ReleaseGoes DEF RelTypeOK
    <3>4. HistoryIs(re, history, nuke', lost.record)
      BY <1>0, <2>1, <3>3, EndsThere
    <3>5. HistoryIs(rel', history', nuke', lost'.record)
      BY <2>1, <3>2, <3>4
    <3>6. RelTypeOK'
      BY <1>0, <3>1, <3>2 DEF RelTypeOK
    <3>7. \A q \in Release : rel'[q] = IF q = r THEN "gone" ELSE rel[q]
      BY <1>0, <3>1, <3>2 DEF RelTypeOK
    <3>8. auto' = IF auto.at = "wipe" /\ auto.r = r THEN [auto EXCEPT !.at = "mark"] ELSE auto
      BY <1>11, <2>2, <2>8 DEF Wipe
    <3>9. MarksGone'
      <4>1. CASE auto.at = "wipe" /\ auto.r = r
        <5>1. auto'.r = r
          BY <1>0, <3>8, <4>1 DEF AutoTypeOK
        <5> QED
          BY <2>3, <3>7, <5>1 DEF MarksGone
      <4>2. CASE ~(auto.at = "wipe" /\ auto.r = r)
        BY <1>0, <3>7, <3>8, <4>2 DEF MarksGone
      <4> QED
        BY <4>1, <4>2
    <3> QED
      BY <1>1, <1>3, <2>1, <2>4, <2>7, <3>5, <3>6, <3>9 DEF Kept, HistoryInv
  <2>9. CASE rel[r] # "nuked"
    <3>1. /\ UNCHANGED rel
          /\ auto' = IF auto.at = "wipe" /\ auto.r = r THEN [auto EXCEPT !.at = "idle"] ELSE auto
      BY <1>11, <2>2, <2>9 DEF Wipe
    <3>2. HistoryIs(rel, history, nuke', lost.record)
      BY <1>0, <2>1, EndsThere
    <3>3. MarksGone'
      BY <1>0, <3>1 DEF MarksGone, AutoTypeOK
    <3> QED
      BY <1>1, <1>2, <1>3, <1>6, <2>1, <2>4, <2>7, <3>1, <3>2, <3>3 DEF Kept, HistoryInv
  <2> QED
    BY <2>8, <2>9
<1>12. ASSUME NEW r \in Release, Ages(r)
       PROVE  Kept
  <2>1. AutoTypeOK'
    <3>1. PICK v : due' = [due EXCEPT ![r] = v] /\ v \in {"no", "warn", "nuke"}
      BY <1>12 DEF Ages
    <3> QED
      BY <1>0, <1>12, <3>1 DEF Ages, AutoTypeOK
  <2> QED
    BY <1>1, <1>2, <1>3, <1>4, <1>7, <1>12, <2>1 DEF Ages, Kept, HistoryInv
<1>13. ASSUME NEW r \in Release, AutoWarn(r)
       PROVE  Kept
  <2>1. AutoTypeOK'
    BY <1>0, <1>13 DEF AutoWarn, AutoTypeOK
  <2> QED
    BY <1>1, <1>2, <1>3, <1>4, <1>7, <1>13, <2>1 DEF AutoWarn, Kept, HistoryInv
<1>14. ASSUME NEW r \in Release, AutoNuke(r)
       PROVE  Kept
  <2>1. PICK k \in Staff, mult \in Multiplier : StartNuke(k, r, mult, TRUE, "take")
    BY <1>14 DEF AutoNuke
  <2>2. /\ ~HasActive(history, r) /\ auto' = [at |-> "nuke", r |-> r] /\ warned' = warned \ {r}
        /\ UNCHANGED <<file, rel, history, due, lost>>
    BY <1>14 DEF AutoNuke, AutoSkips
  <2>5. RunningTypeOK' /\ nukesLeft' \in 0 .. MaxNukes /\ HistoryIs(rel, history, nuke', lost.record)
    BY <1>0, <2>1, NukeBegins
  <2>6. AutoTypeOK' /\ MarksGone'
    BY <1>0, <2>2, <2>5 DEF AutoTypeOK, MarksGone
  <2> QED
    BY <1>1, <1>2, <1>3, <1>6, <2>2, <2>5, <2>6 DEF Kept, HistoryInv
<1>15. ASSUME NEW r \in Release, AutoWipe(r)
       PROVE  Kept
  <2>1. PICK c : c = [op |-> "wipe", r |-> r, mult |-> 0, auto |-> TRUE, at |-> "wipe", todo |-> {}, taken |-> <<>>]
    OBVIOUS
  <2>2. PICK k \in Staff : nuke[k] = None /\ nuke' = [nuke EXCEPT ![k] = c]
    BY <1>15, <2>1 DEF AutoWipe
  <2>3. /\ nukesLeft > 0 /\ nukesLeft' = nukesLeft - 1 /\ auto' = [at |-> "wipe", r |-> r]
        /\ UNCHANGED <<file, rel, history, due, warned, lost>>
    BY <1>15 DEF AutoWipe
  <2>4. c \in SoundNuke /\ c.op = "wipe"
    BY <2>1, RecordsFacts DEF SoundNuke, NukeCommand
  <2>5. RunningTypeOK'
    BY <1>0, <2>2, <2>4 DEF RunningTypeOK
  <2>6. HistoryIs(rel, history, nuke', lost.record)
    BY <1>0, <2>2, <2>4, Begins
  <2>7. AutoTypeOK' /\ MarksGone'
    BY <1>0, <2>3, NukesAssumption DEF AutoTypeOK, MarksGone
  <2> QED
    BY <1>1, <1>2, <1>3, <1>6, <2>3, <2>5, <2>6, <2>7 DEF Kept, HistoryInv
<1>16. ASSUME SiteNukes
       PROVE  Kept
  <2>1. PICK r \in Release : /\ HasActive(history, r) /\ rel[r] # "nuked"
                             /\ history' = Marked(history, r, "deleted")
                             /\ IF Recording(r) \cup Restoring(r) = {} THEN UNCHANGED lost ELSE LosesRecord(r)
    BY <1>16 DEF SiteNukes
  <2>2. UNCHANGED <<file, rel, nuke, due, warned, auto, nukesLeft>>
    BY <1>16 DEF SiteNukes
  <2>3. RecordingOf(nuke, r) = Recording(r) /\ RestoringOf(nuke, r) = Restoring(r)
    BY DEF RecordingOf, RestoringOf, IsRecording, IsRestoring, Recording, Restoring
  <2>4. /\ lost.record \subseteq lost'.record /\ lost' \in [record : SUBSET Release, sum : SUBSET Release]
        /\ r \in lost'.record \/ rel[r] = "gone" \/ (RecordingOf(nuke, r) = {} /\ RestoringOf(nuke, r) = {})
    BY <1>0, <2>1, <2>3, LossFacts DEF AutoTypeOK
  <2>5. PICK lo2 : lo2 = lost'.record
    OBVIOUS
  <2>6. history \in Seq(NukeRecord)
    BY <1>0 DEF HistoryTypeOK
  <2>7. /\ Marked(history, r, "deleted") \in Seq(NukeRecord)
        /\ HistoryIs(rel, Marked(history, r, "deleted"), nuke, lo2)
    BY <1>0, <2>1, <2>4, <2>5, <2>6, RecordGoes
  <2>8. HistoryTypeOK' /\ HistoryIs(rel', history', nuke', lost'.record)
    BY <2>1, <2>2, <2>5, <2>7 DEF HistoryTypeOK
  <2>9. AutoTypeOK'
    BY <1>0, <2>2, <2>4 DEF AutoTypeOK
  <2> QED
    BY <1>1, <1>2, <1>4, <1>7, <2>2, <2>8, <2>9 DEF Kept, HistoryInv
<1>17. ASSUME AutoReturns
       PROVE  Kept
  <2>1. AutoTypeOK' /\ MarksGone'
    BY <1>0, <1>17 DEF AutoReturns, AutoTypeOK, MarksGone
  <2> QED
    BY <1>1, <1>2, <1>3, <1>7, <1>17, <2>1 DEF AutoReturns, Kept, HistoryInv
<1>18. ASSUME AutoMarks
       PROVE  Kept
  <2>1. /\ rel[auto.r] = "gone" /\ history' \in {Marked(history, auto.r, "deleted"), history}
        /\ auto' = [auto EXCEPT !.at = "idle"] /\ UNCHANGED <<file, rel, nuke, due, warned, nukesLeft, lost>>
    BY <1>0, <1>18 DEF AutoMarks, MarksGone
  <2>2. history \in Seq(NukeRecord)
    BY <1>0 DEF HistoryTypeOK
  <2>3. /\ Marked(history, auto.r, "deleted") \in Seq(NukeRecord)
        /\ HistoryIs(rel, Marked(history, auto.r, "deleted"), nuke, lost.record)
    BY <1>0, <2>1, <2>2, RecordGoes
  <2>4. HistoryTypeOK' /\ HistoryIs(rel', history', nuke', lost'.record)
    BY <1>0, <2>1, <2>2, <2>3 DEF HistoryTypeOK
  <2>5. AutoTypeOK' /\ MarksGone'
    BY <1>0, <2>1 DEF AutoTypeOK, MarksGone
  <2> QED
    BY <1>1, <1>2, <1>7, <2>1, <2>4, <2>5 DEF Kept, HistoryInv
<1> QED
  BY <1>8, <1>9, <1>10, <1>11, <1>12, <1>13, <1>14, <1>15, <1>16, <1>17, <1>18 DEF MasterNukeStep, AutoStep

\* The steps of the local mode.
LEMMA LocalStepsKeep ==
  ASSUME FileTypeOK, NukeSound, HistoryInv, LocalNukeStep
  PROVE  Kept
<1>0. /\ FileTypeOK /\ RelTypeOK /\ HistoryTypeOK /\ RunningTypeOK /\ AutoTypeOK
      /\ HistoryIs(rel, history, nuke, lost.record) /\ MarksGone
      /\ nukesLeft \in 0 .. MaxNukes /\ auto.r \in Release
  BY DEF NukeSound, HistoryInv, AutoTypeOK
<1>1. UNCHANGED file => FileTypeOK' /\ TrafficGrows
  BY NukeFrames
<1>2. UNCHANGED rel => RelTypeOK'
  BY NukeFrames
<1>3. UNCHANGED history => HistoryTypeOK'
  BY NukeFrames
<1>4. UNCHANGED <<rel, auto>> => MarksGone'
  BY NukeFrames
<1>5. UNCHANGED <<due, warned, auto, nukesLeft, lost>> => AutoTypeOK'
  BY NukeFrames
<1>6. ASSUME UNCHANGED <<rel, history, lost>>, HistoryIs(rel, history, nuke', lost.record)
      PROVE  HistoryIs(rel', history', nuke', lost'.record)
  BY <1>6
<1>7. ASSUME NEW k \in Staff, NEW r \in Release, LocalNuke(k, r)
      PROVE  Kept
  <2>1. PICK mult \in Multiplier : StartNuke(k, r, mult, FALSE, "rename")
    BY <1>7 DEF LocalNuke
  <2>3. RunningTypeOK' /\ nukesLeft' \in 0 .. MaxNukes /\ HistoryIs(rel, history, nuke', lost.record)
    BY <1>0, <2>1, NukeBegins
  <2>4. AutoTypeOK'
    BY <1>0, <1>7, <2>3 DEF LocalNuke, AutoTypeOK
  <2> QED
    BY <1>1, <1>2, <1>3, <1>4, <1>6, <1>7, <2>3, <2>4 DEF LocalNuke, Kept, HistoryInv
<1>8. ASSUME NEW k \in Staff, LocalNukeRename(k)
      PROVE  Kept
  <2>1. nuke[k] # None /\ nuke[k].op = "nuke" /\ nuke[k].at = "rename"
        /\ UNCHANGED <<file, history, due, warned, auto, nukesLeft, lost>>
    BY <1>8 DEF LocalNukeRename, NukeRuns
  <2>2. CASE rel[nuke[k].r] = "there"
    <3>1. rel' = [rel EXCEPT ![nuke[k].r] = "nuked"] /\ NukeGoesTo(k, "local", nuke[k].todo)
      BY <1>8, <2>2 DEF LocalNukeRename
    <3>2. RelTypeOK' /\ RunningTypeOK' /\ HistoryIs(rel', history, nuke', lost.record) /\ MarksGone'
      <4>1. UNCHANGED auto /\ nuke[k].todo \in SUBSET Name /\ "local" \in {"local", "record"}
        BY <1>0, <2>1, NukeFields
      <4> QED
        BY <1>0, <2>1, <2>2, <3>1, <4>1, RenamesRelease
    <3>3. HistoryIs(rel', history', nuke', lost'.record)
      BY <2>1, <3>2
    <3> QED
      BY <1>1, <1>3, <1>5, <2>1, <3>2, <3>3 DEF Kept, HistoryInv
  <2>3. CASE rel[nuke[k].r] # "there"
    <3>1. NukeEnds(k) /\ UNCHANGED rel
      BY <1>8, <2>3 DEF LocalNukeRename
    <3>2. RunningTypeOK'
      BY <1>0, <3>1, NukeEndsFacts
    <3>4. HistoryIs(rel, history, nuke', lost.record)
      BY <1>0, <2>1, <3>1, EndsThere
    <3> QED
      BY <1>1, <1>2, <1>3, <1>4, <1>5, <1>6, <2>1, <3>1, <3>2, <3>4 DEF Kept, HistoryInv
  <2> QED
    BY <2>2, <2>3
<1>9. ASSUME NEW k \in Staff, LocalTaken(k)
      PROVE  Kept
  <2>1. nuke[k] # None /\ nuke[k].op = "nuke" /\ nuke[k].at = "local" /\ NukeGoesTo(k, "record", {})
        /\ UNCHANGED <<file, rel, history, due, warned, auto, nukesLeft, lost>>
    BY <1>9 DEF LocalTaken, NukeRuns
  <2>2. RunningTypeOK'
    BY <1>0, <2>1, NukeGoesToFacts
  <2>3. HistoryIs(rel, history, nuke', lost.record)
    <3>1. {} \in SUBSET Name
      OBVIOUS
    <3> QED
      BY <1>0, <2>1, <2>2, <3>1, GoesOn
  <2> QED
    BY <1>1, <1>2, <1>3, <1>4, <1>5, <1>6, <2>1, <2>2, <2>3 DEF Kept, HistoryInv
<1> QED
  BY <1>7, <1>8, <1>9 DEF LocalNukeStep

-----------------------------------------------------------------------------
(* The theorems. *)

\* What is true of the user files, the commands, the releases and the history.
AccountsInv == SiteSound /\ NukeSound /\ HistoryInv /\ set \in Settings

\* A daemon that has just come up.
LEMMA AccountsBegin == Init => AccountsInv
<1> SUFFICES ASSUME Init PROVE AccountsInv
  OBVIOUS
<1>1. set \in Settings /\ SiteInit(set.users) /\ NukeInit(set.most)
  BY DEF Init
<1>2. PICK users : users = set.users
  OBVIOUS
<1>3. users \in [Name -> User \cup {None}] /\ SiteInit(users)
  BY <1>1, <1>2, AccountsAssumption
<1>4. etcGroup \subseteq Group
  <2>1. \A n \in Name : users[n] # None => users[n].groups \subseteq Group
    BY <1>3, UserFields
  <2>2. etcGroup = UNION {users[n].groups : n \in {n \in Name : users[n] # None}}
    BY <1>3 DEF SiteInit
  <2> QED
    BY <2>1, <2>2
<1>5. FileTypeOK /\ GroupsTypeOK /\ PasswdTypeOK /\ StashTypeOK /\ SessTypeOK /\ CmdTypeOK
  BY <1>3, <1>4 DEF SiteInit, FileTypeOK, GroupsTypeOK, PasswdTypeOK, StashTypeOK, SessTypeOK, CmdTypeOK, Hash
<1>6. LeftTypeOK
  BY <1>3, SiteUserAssumption DEF SiteInit, LeftTypeOK
<1>7. \A k \in Staff : nuke[k] = None
  BY <1>1 DEF NukeInit
<1>8. RelTypeOK /\ RunningTypeOK /\ AutoTypeOK
  <2>1. (CHOOSE r \in Release : TRUE) \in Release /\ set.most \in 0 .. MaxNukes
    BY <1>1, NukesAssumption, AccountsAssumption
  <2> QED
    BY <1>1, <2>1 DEF NukeInit, RelTypeOK, RunningTypeOK, AutoTypeOK
<1>9. HistoryTypeOK /\ \A r \in Release : ActiveOf(history, r) = {}
  BY <1>1 DEF NukeInit, HistoryTypeOK, ActiveOf
<1>10. HistoryIs(rel, history, nuke, lost.record)
  <2> SUFFICES ASSUME NEW r \in Release PROVE Balanced(rel, history, nuke, r)
    BY DEF HistoryIs
  <2>1. RecordingOf(nuke, r) = {} /\ RestoringOf(nuke, r) = {}
    BY <1>7 DEF RecordingOf, RestoringOf, IsRecording, IsRestoring
  <2>2. rel[r] # "nuked" /\ ActiveOf(history, r) = {}
    BY <1>1, <1>9 DEF NukeInit
  <2> QED
    BY <2>1, <2>2, FS_EmptySet DEF Balanced
<1>11. MarksGone
  BY <1>1 DEF NukeInit, MarksGone
<1> QED
  BY <1>1, <1>5, <1>6, <1>8, <1>9, <1>10, <1>11 DEF AccountsInv, SiteSound, NukeSound, HistoryInv

\* Any step.
LEMMA AccountsStep ==
  ASSUME AccountsInv, [Next]_vars
  PROVE  AccountsInv' /\ (UNCHANGED vars \/ TrafficGrows)
<1>0. SiteSound /\ NukeSound /\ HistoryInv /\ set \in Settings /\ FileTypeOK
  BY DEF AccountsInv, SiteSound
<1>1. ASSUME UNCHANGED nukeVars
      PROVE  NukeSound' /\ HistoryInv'
  BY <1>0, <1>1 DEF nukeVars, NukeSound, RelTypeOK, HistoryTypeOK, RunningTypeOK, AutoTypeOK, HistoryInv, MarksGone
<1>2. ASSUME UNCHANGED <<passwd, stash, saved, etcGroup, groupCfg, groupMap, sess, cmd, left>>, FileTypeOK'
      PROVE  SiteSound'
  BY <1>0, <1>2 DEF SiteSound, GroupsTypeOK, PasswdTypeOK, StashTypeOK, SessTypeOK, CmdTypeOK, LeftTypeOK
<1>3. CASE SessionStep /\ UNCHANGED <<nukeVars, set>>
  BY <1>0, <1>1, <1>3, SessionsKeep DEF AccountsInv
<1>4. CASE (BeginStep \/ CommandStep) /\ UNCHANGED <<nukeVars, set>>
  BY <1>0, <1>1, <1>4, BeginsKeep, CommandsKeep DEF AccountsInv
<1>5. CASE /\ NukeStep \/ MasterNukeStep \/ AutoStep \/ LocalNukeStep
           /\ UNCHANGED <<passwd, stash, saved, etcGroup, groupCfg, groupMap, sess, cmd, left, set>>
  <2>1. Kept
    BY <1>0, <1>5, NukeStepsKeep, MasterStepsKeep, LocalStepsKeep
  <2>2. SiteSound'
    BY <1>2, <1>5, <2>1 DEF Kept
  <2> QED
    BY <1>0, <1>5, <2>1, <2>2 DEF Kept, AccountsInv, NukeSound
<1>6. CASE UNCHANGED vars
  <2>1. FileTypeOK' /\ UNCHANGED nukeVars
    BY <1>0, <1>6 DEF vars, accountVars, FileTypeOK
  <2> QED
    BY <1>0, <1>1, <1>2, <1>6, <2>1 DEF vars, accountVars, AccountsInv
<1> QED
  BY <1>3, <1>4, <1>5, <1>6 DEF Next

\* The inductive invariant of user files, account commands and nukes holds.
THEOREM AccountsAreSound == Spec => []AccountsInv
<1>1. Init => AccountsInv
  BY AccountsBegin
<1>2. AccountsInv /\ [Next]_vars => AccountsInv'
  BY AccountsStep
<1> QED
  BY <1>1, <1>2, PTL DEF Spec

\* Every file, command and record is what it is declared to be: credits stay
\* between zero and the largest number, whatever transfers, nukes and account
\* commands come together.
THEOREM AccountsTypeCorrect == Spec => []TypeOK
<1>1. AccountsInv => TypeOK
  <2> SUFFICES ASSUME AccountsInv PROVE TypeOK
    OBVIOUS
  <2>1. cmd \in [Admin -> Command \cup {None}]
    BY DEF AccountsInv, SiteSound, CmdTypeOK, SoundCommand
  <2>2. SiteTypeOK
    BY <2>1 DEF AccountsInv, SiteSound, SiteTypeOK, GroupsTypeOK, PasswdTypeOK, StashTypeOK, SessTypeOK, LeftTypeOK
  <2>3. nuke \in [Staff -> NukeCommand \cup {None}]
    BY DEF AccountsInv, NukeSound, RunningTypeOK, SoundNuke
  <2>4. NukeTypeOK
    BY <2>3 DEF AccountsInv, NukeSound, NukeTypeOK, RelTypeOK, HistoryTypeOK, AutoTypeOK
  <2> QED
    BY <2>2, <2>4 DEF AccountsInv, TypeOK
<1> QED
  BY <1>1, AccountsAreSound, PTL

\* Nothing the daemon saves over a user file takes traffic away from it.
THEOREM TrafficIsKept == Spec => TrafficKept
<1>1. AccountsInv /\ [Next]_vars =>
        [\A n \in Name : (file[n] # None /\ file'[n] # None /\ ~PutsBack(n))
           => (file'[n].up >= file[n].up /\ file'[n].dn >= file[n].dn)]_vars
  BY AccountsStep DEF TrafficGrows
<1> QED
  BY <1>1, AccountsAreSound, PTL DEF Spec, TrafficKept

\* A nuked release has its record, and one that is back has none, whatever staff does to
\* it at the same time, unless what "lost" says has happened to its record.
THEOREM HistoryAlwaysAgrees == Spec => []HistoryAgrees
<1>1. AccountsInv => HistoryAgrees
  <2> SUFFICES ASSUME AccountsInv, NEW r \in Release \ lost.record, Recording(r) \cup Restoring(r) = {}
               PROVE  /\ rel[r] = "nuked" => HasActive(history, r)
                      /\ rel[r] = "there" => ~HasActive(history, r)
    BY DEF HistoryAgrees
  <2>1. RecordingOf(nuke, r) = {} /\ RestoringOf(nuke, r) = {}
    BY DEF RecordingOf, RestoringOf, IsRecording, IsRestoring, Recording, Restoring
  <2>2. history \in Seq(NukeRecord) /\ (rel[r] = "gone" \/ Balanced(rel, history, nuke, r))
    BY DEF AccountsInv, NukeSound, HistoryTypeOK, HistoryInv, HistoryIs
  <2>3. PICK n \in Nat : n = Cardinality(ActiveOf(history, r))
    BY <2>2, SetsAreFinite
  <2>4. rel[r] # "gone" => n + 0 = 0 + (IF rel[r] = "nuked" THEN 1 ELSE 0)
    BY <2>1, <2>2, <2>3, FS_EmptySet DEF Balanced
  <2>5. ActiveOf(history, r) = {} <=> n = 0
    BY <2>2, <2>3, SetsAreFinite, FS_EmptySet
  <2> QED
    BY <2>4, <2>5 DEF HasActive
<1> QED
  BY <1>1, AccountsAreSound, PTL

=============================================================================
